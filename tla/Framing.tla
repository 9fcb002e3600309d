------------------------------- MODULE Framing -------------------------------
(* One connection's input: the bytes of the peer, cut into pieces as the      *)
(* network pleases, TcpConnection::handleRead which appends them to the       *)
(* input buffer, and processInput which has JsonRpcCodec::decode take         *)
(* messages out of it until it finds none.                                    *)
(*                                                                            *)
(* A byte of a body or of a line stands for itself; "Content-Length: n" is    *)
(* one byte, since decode looks at a header only when its CRLF is there.      *)
(* The peer writes whole frames, and between them lines that are no header.   *)
EXTENDS Buffer, FiniteSets

CONSTANTS
  Requests,   \* the bodies that are JSON-RPC messages
  Garbage,    \* the bodies that are not
  Lines,      \* lines written between the frames, without their CRLF
  ReadSize,   \* the most bytes one read() returns
  MaxStream   \* bound: the most bytes the peer writes

CR == [is |-> "CR"]
LF == [is |-> "LF"]
ContentLength(n) == [is |-> "length", of |-> n]
BadLength == [is |-> "length"]   \* "Content-Length: " and not a number

CRLF == <<CR, LF>>

ASSUME BodiesAreBytes ==
  /\ Requests \cup Garbage \subseteq Seq(Bytes)
  /\ Lines \subseteq Seq(Bytes)
  /\ {CR, LF, BadLength} \subseteq Bytes
  /\ \A b \in Requests \cup Garbage : ContentLength(Len(b)) \in Bytes
  /\ \A b \in Bytes \ {BadLength} : b.is = "length" => b.of \in Nat
ASSUME ReadSizeIsPositive == ReadSize \in Nat \ {0}

VARIABLES
  wire,      \* the bytes written and not read yet
  written,   \* how many bytes the peer has written
  due,       \* what decode owes for them: each message, and where its frame ends
  at,        \* "read": in the loop of handleRead; "decode": in processInput
  state,     \* state_
  expected,  \* expected_body_length_
  messages   \* what decode has returned

codecVars == <<state, expected>>
peerVars == <<written, due>>
vars == <<bufferVars, wire, peerVars, at, codecVars, messages>>

Error == [kind |-> "error"]
Message(body) == [kind |-> "message", body |-> body]
Messages == {Error} \cup {Message(b) : b \in Requests}

\* JSON parsing, and Request::fromJson or Response::fromJson.
Parse(body) == IF body \in Requests THEN Message(body) ELSE Error

Init ==
  /\ BufferInit
  /\ wire = <<>>
  /\ written = 0
  /\ due = <<>>
  /\ at = "read"
  /\ state = "header"
  /\ expected = 0
  /\ messages = <<>>

------------------------------------------------------------------------------
(* The peer and the network.                                                  *)

\* JsonRpcCodec::encode, which the client's framing agrees with.
Encode(body) == <<ContentLength(Len(body))>> \o CRLF \o CRLF \o body

Write(bytes, owed) ==
  /\ written + Len(bytes) <= MaxStream
  /\ wire' = wire \o bytes
  /\ written' = written + Len(bytes)
  /\ due' = due \o [i \in 1 .. Len(owed) |->
                      [message |-> owed[i], end |-> written']]
  /\ UNCHANGED <<bufferVars, at, codecVars, messages>>

WriteFrame ==
  \E b \in Requests \cup Garbage : Write(Encode(b), <<Parse(b)>>)

WriteLine == \E l \in Lines : Write(l \o CRLF, <<>>)

\* A line that starts as a header does is answered with an error.
WriteBadHeader == Write(<<BadLength>> \o CRLF, <<Error>>)

------------------------------------------------------------------------------
(* TcpConnection::handleRead.                                                 *)

Read ==
  /\ at = "read"
  /\ \E n \in 1 .. ReadSize :
       /\ n <= Len(wire)
       /\ AppendBytes(SubSeq(wire, 1, n))
       /\ wire' = SubSeq(wire, n + 1, Len(wire))
  /\ UNCHANGED <<peerVars, at, codecVars, messages>>

\* EAGAIN: processInput begins.
ReadNothing ==
  /\ at = "read"
  /\ at' = "decode"
  /\ UNCHANGED <<bufferVars, wire, peerVars, codecVars, messages>>

------------------------------------------------------------------------------
(* JsonRpcCodec::decode, in the loop of processInput.                         *)

CRLFsAt == {i \in 0 .. ReadableBytes - 2 :
              Readable[i + 1] = CR /\ Readable[i + 2] = LF}

\* mutant: findCRLF finds the '\r' and does not look at the next byte
FindCR ==
  LET found == {i \in 0 .. ReadableBytes - 2 : Readable[i + 1] = CR}
  IN  IF found = {} THEN -1
      ELSE CHOOSE i \in found : \A j \in found : i <= j

FindCRLF ==
  IF CRLFsAt = {} THEN -1
  ELSE CHOOSE i \in CRLFsAt : \A j \in CRLFsAt : i <= j

HeaderLine == SubSeq(Readable, 1, FindCRLF)

IsHeader(line) == line # <<>> /\ Head(line).is = "length"

\* The bytes of a separator in front of the body.
Separator ==
  IF ReadableBytes >= 2 /\ SubSeq(Readable, 1, 2) = CRLF THEN 2 ELSE 0

HeaderIsHere == state = "header" /\ FindCRLF >= 0
BodyIsHere == state = "body" /\ ReadableBytes - Separator >= expected

\* decode returns nullopt, and processInput is done.
NoHeaderYet ==
  /\ at = "decode"
  /\ state = "header"
  /\ ~HeaderIsHere
  /\ at' = "read"
  /\ UNCHANGED <<bufferVars, wire, peerVars, codecVars, messages>>

ReadHeader ==
  /\ at = "decode"
  /\ HeaderIsHere
  /\ Retrieve(FindCRLF + 2)
  /\ IF ~IsHeader(HeaderLine)
       THEN UNCHANGED <<codecVars, messages>>        \* the line is skipped
       ELSE IF Head(HeaderLine) = BadLength
              THEN messages' = Append(messages, Error) /\ UNCHANGED codecVars
              ELSE /\ state' = "body"
                   /\ expected' = Head(HeaderLine).of
                   /\ UNCHANGED messages
  /\ UNCHANGED <<wire, peerVars, at>>

\* decode returns nullopt here too; a separator is taken all the same.
BodyIncomplete ==
  /\ at = "decode"
  /\ state = "body"
  /\ ~BodyIsHere
  /\ IF Separator = 0 THEN UNCHANGED bufferVars ELSE Retrieve(Separator)
  /\ at' = "read"
  /\ UNCHANGED <<wire, peerVars, codecVars, messages>>

TakeBody ==
  /\ at = "decode"
  /\ BodyIsHere
  /\ Retrieve(Separator + expected)
  /\ messages' = Append(messages, Parse(SubSeq(Readable, Separator + 1,
                                                Separator + expected)))
  /\ state' = "header"
  /\ expected' = 0
  /\ UNCHANGED <<wire, peerVars, at>>

Next ==
  \/ WriteFrame \/ WriteLine \/ WriteBadHeader
  \/ Read \/ ReadNothing
  \/ NoHeaderYet \/ ReadHeader \/ BodyIncomplete \/ TakeBody

Spec == Init /\ [][Next]_vars

------------------------------------------------------------------------------
(* Properties.                                                                *)

TypeOK ==
  /\ BufferTypeOK
  /\ wire \in Seq(Bytes)
  /\ written \in Nat
  /\ due \in Seq([message : Messages, end : Nat])
  /\ at \in {"read", "decode"}
  /\ state \in {"header", "body"}
  /\ expected \in Nat
  /\ messages \in Seq(Messages)

(* Reading, compacting and growing lose no byte and move none: what is in the *)
(* buffer, followed by what is still in the socket, is a byte stream that the *)
(* peer extends and only decode shortens (Buffer::append and makeSpace).      *)
Stream == INSTANCE ByteStream WITH unread <- Readable \o wire
ReceivesTheStream == Stream!Spec

(* The messages of frames that have arrived whole.                            *)
Arrived == {i \in 1 .. Len(due) : due[i].end <= written - Len(wire)}
Whole == [i \in 1 .. Cardinality(Arrived) |-> due[i].message]

(* However the network cuts the stream, decode returns the message of every   *)
(* frame once and in order, none before its frame is whole, and processInput  *)
(* does not stop while a frame that has arrived whole is in the buffer.  The  *)
(* design asks for it: framing is right "with half packets and with packets   *)
(* stuck together".                                                           *)
FramesComeOutWhole ==
  /\ Len(messages) <= Len(Whole)
  /\ messages = SubSeq(Whole, 1, Len(messages))
  /\ (at = "decode" /\ ~HeaderIsHere /\ ~BodyIsHere) => messages = Whole

Bodies == Requests \cup Garbage
BreakAt(s, i) == s[i + 1] = CR /\ s[i + 2] = LF

(* What the peer has to keep to for that: a body is not shorter than the      *)
(* separator and does not start with one (what encode() writes starts with a  *)
(* brace), and what is written between frames is one line each, no header.    *)
WellFramed ==
  /\ \A b \in Bodies : Len(b) >= 2 /\ ~BreakAt(b, 0)
  /\ \A l \in Lines :
       ~IsHeader(l) /\ \A i \in 0 .. Len(l) - 1 : ~BreakAt(l \o CRLF, i)

=============================================================================
