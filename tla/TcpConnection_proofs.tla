------------------------- MODULE TcpConnection_proofs -------------------------
(* Proofs about TcpConnection, for any requests, with and without              *)
(* authentication, and whatever the socket takes.                             *)
EXTENDS TcpConnection, SequenceTheorems, TLAPS

HandlingEvent == at \in {"event", "decode", "write"}

\* What the connection has not decoded, and what the peer has not read.
Ahead(k) == k.input \o k.rx
Unread(k) == k.wire \o k.output

\* The replies among the functors of the queue q, and whom they answer.
Replies(q) == {i \in DOMAIN q : q[i].kind = "reply"}
Owed(q) == {q[i].req : i \in Replies(q)}
OwedOnce(q) == \A i, j \in Replies(q) : q[i].req = q[j].req => i = j

\* Where requests and answers come from, and the room of the socket.
Origins ==
  /\ Range(Ahead(conn)) \subseteq asked
  /\ Range(Unread(conn)) \cup pooled \cup replying \subseteq Range(served)
  /\ Owed(todo) \subseteq Range(served) \cap Async
  /\ Len(conn.wire) <= SendRoom

\* What epoll knows of a connection follows from its state.
Consistent(k) ==
  /\ k.state # "kDisconnecting"
  /\ k.edge => k.registered
  /\ k.state = "none" => k.output = <<>>
  /\ k.state = "kConnected" =>
       /\ k.registered /\ "IN" \in k.interest
       /\ k.output # <<>> => "OUT" \in k.interest
  /\ k.state \in {"none", "kDisconnected"} => k.interest = {}
  /\ k.state = "none" => ~k.registered

\* The functor queue q of a connection in the given state: the setup comes
\* first, the erase after the close.
Queued(q, state) ==
  \A i \in DOMAIN q :
    /\ q[i].kind = "setup" => i = 1 /\ state = "none"
    /\ q[i].kind = "erase" => state = "kDisconnected"

\* A connection is in the map from its setup until its close has queued the
\* erase.  The events being handled are those of a connection in the map, but
\* for the one that a write after the close has put back into epoll.
LifeInv ==
  /\ Consistent(conn)
  /\ Queued(todo, conn.state)
  /\ conn.state = "kConnected" => inMap
  /\ inMap => conn.state # "none"
  /\ HandlingEvent /\ revents # {} /\ ~BackInEpoll(conn) => inMap

\* What is ready on an open connection is reported, or being handled.
Seen(k, handlesIn, handlesOut) ==
  k.state = "kConnected" =>
    /\ IsReady(k, "IN") => k.edge \/ handlesIn
    /\ k.output # <<>> /\ IsReady(k, "OUT") => k.edge \/ handlesOut

SeenInv ==
  Seen(conn, at = "event" /\ "IN" \in revents, HandlingEvent /\ "OUT" \in revents)

BaseInv == TypeOK /\ Origins /\ LifeInv /\ SeenInv

\* The gate opens for what comes after a good "authenticate".
GatedInv ==
  AuthEnabled =>
    /\ conn.authenticated => \E i \in DOMAIN served : served[i] \in GoodAuth
    /\ \A r \in pooled \cup replying : \E i, j \in DOMAIN served :
         i < j /\ served[i] \in GoodAuth /\ served[j] = r

\* Every element of a sequence is related to those that come after it.
PairsIn(s, R) == \A i, j \in DOMAIN s : i < j => <<s[i], s[j]>> \in R

\* The peer sends a request once: none is twice among those that were decoded,
\* that wait in the buffer and that wait in the socket.
Others == {p \in Requests \X Requests : p[1] # p[2]}
SentOnce == PairsIn(served \o Ahead(conn), Others)

\* A request that is not answered yet is in one place at most.
OneAnswer ==
  /\ pooled \cap replying = {}
  /\ (pooled \cup replying) \cap Range(Answers) = {}
  /\ Owed(todo) \cap (pooled \cup replying \cup Range(Answers)) = {}
  /\ OwedOnce(todo)

\* The second answer may follow the first.
MayFollow ==
  {p \in Requests \X Requests :
     /\ p[1] # p[2]
     /\ {p[1], p[2]} \cap Async = {} =>
          \A m, n \in DOMAIN served : served[m] = p[1] /\ served[n] = p[2] => m < n}

------------------------------------------------------------------------------
(* Sequences.                                                                 *)

LEMMA RangeOfAppend ==
  ASSUME NEW S, NEW s \in Seq(S), NEW e \in S
  PROVE  Range(Append(s, e)) = Range(s) \cup {e}
<1>1. /\ DOMAIN Append(s, e) = DOMAIN s \cup {Len(s) + 1}
      /\ Append(s, e)[Len(s) + 1] = e
      /\ \A i \in DOMAIN s : Append(s, e)[i] = s[i]
  OBVIOUS
<1>2. QED
  BY <1>1 DEF Range

LEMMA RangeOfTail ==
  ASSUME NEW S, NEW s \in Seq(S), s # <<>>
  PROVE  /\ Head(s) \in S /\ Tail(s) \in Seq(S)
         /\ Range(s) = Range(Tail(s)) \cup {Head(s)}
         /\ s = <<Head(s)>> \o Tail(s)
<1>1. /\ Head(s) \in S /\ Tail(s) \in Seq(S) /\ <<Head(s)>> \in Seq(S)
      /\ s = <<Head(s)>> \o Tail(s)
  OBVIOUS
<1>2. Range(<<Head(s)>>) = {Head(s)}
  BY DEF Range
<1>3. PICK h \in Seq(S) : h = <<Head(s)>>
  BY <1>1
<1>4. PICK t \in Seq(S) : t = Tail(s)
  BY <1>1
<1>5. Range(h \o t) = Range(h) \cup Range(t)
  BY RangeConcatenation
<1>6. QED
  BY <1>1, <1>2, <1>3, <1>4, <1>5

LEMMA RangeInSet ==
  ASSUME NEW S, NEW s \in Seq(S)
  PROVE  Range(s) \subseteq S /\ \A T : Range(s) \subseteq T => s \in Seq(T)
<1>1. Range(s) \subseteq S
  BY DEF Range
<1>2. ASSUME NEW T, Range(s) \subseteq T PROVE s \in Seq(T)
  <2>1. /\ Len(s) \in Nat /\ s = [i \in 1 .. Len(s) |-> s[i]]
        /\ \A i \in 1 .. Len(s) : s[i] \in Range(s)
    BY DEF Range
  <2>2. \A i \in 1 .. Len(s) : s[i] \in T
    BY <1>2, <2>1
  <2>3. QED
    BY <2>1, <2>2
<1>3. QED
  BY <1>1, <1>2

LEMMA EmptyRange == Range(<<>>) = {}
  BY DEF Range

LEMMA PairsOfConcat ==
  ASSUME NEW S, NEW s \in Seq(S), NEW t \in Seq(S), NEW R
  PROVE  PairsIn(s \o t, R) <=>
           /\ PairsIn(s, R) /\ PairsIn(t, R)
           /\ \A a \in Range(s), b \in Range(t) : <<a, b>> \in R
<1>1. /\ Len(s) \in Nat /\ Len(t) \in Nat
      /\ DOMAIN s = 1 .. Len(s) /\ DOMAIN t = 1 .. Len(t)
      /\ DOMAIN (s \o t) = 1 .. Len(s) + Len(t)
      /\ \A i \in 1 .. Len(s) + Len(t) :
           (s \o t)[i] = IF i <= Len(s) THEN s[i] ELSE t[i - Len(s)]
  OBVIOUS
<1>2. \A i \in DOMAIN s : i \in DOMAIN (s \o t) /\ (s \o t)[i] = s[i]
  BY <1>1
<1>3. \A i \in DOMAIN t : \E k \in DOMAIN (s \o t) : k = Len(s) + i /\ (s \o t)[k] = t[i]
  BY <1>1
<1>4. ASSUME PairsIn(s \o t, R)
      PROVE  /\ PairsIn(s, R) /\ PairsIn(t, R)
             /\ \A a \in Range(s), b \in Range(t) : <<a, b>> \in R
  <2>1. PairsIn(s, R)
    BY <1>2, <1>4 DEF PairsIn
  <2>2. PairsIn(t, R)
    <3>1. SUFFICES ASSUME NEW i \in DOMAIN t, NEW j \in DOMAIN t, i < j
                   PROVE  <<t[i], t[j]>> \in R
      BY DEF PairsIn
    <3>2. PICK k \in DOMAIN (s \o t) : k = Len(s) + i /\ (s \o t)[k] = t[i]
      BY <1>3
    <3>3. PICK l \in DOMAIN (s \o t) : l = Len(s) + j /\ (s \o t)[l] = t[j]
      BY <1>3
    <3>4. k < l
      BY <1>1, <3>1, <3>2, <3>3
    <3>5. QED
      BY <1>4, <3>2, <3>3, <3>4 DEF PairsIn
  <2>3. ASSUME NEW a \in Range(s), NEW b \in Range(t) PROVE <<a, b>> \in R
    <3>1. PICK i \in DOMAIN s : s[i] = a
      BY DEF Range
    <3>2. PICK j \in DOMAIN t : t[j] = b
      BY DEF Range
    <3>3. PICK l \in DOMAIN (s \o t) : l = Len(s) + j /\ (s \o t)[l] = b
      BY <1>3, <3>2
    <3>4. i \in DOMAIN (s \o t) /\ (s \o t)[i] = a /\ i < l
      BY <1>1, <1>2, <3>1, <3>2, <3>3
    <3>5. QED
      BY <1>4, <3>3, <3>4 DEF PairsIn
  <2>4. QED
    BY <2>1, <2>2, <2>3
<1>5. ASSUME PairsIn(s, R), PairsIn(t, R),
             \A a \in Range(s), b \in Range(t) : <<a, b>> \in R
      PROVE  PairsIn(s \o t, R)
  <2>1. SUFFICES ASSUME NEW i \in 1 .. Len(s) + Len(t), NEW j \in 1 .. Len(s) + Len(t), i < j
                 PROVE  <<(s \o t)[i], (s \o t)[j]>> \in R
    BY <1>1 DEF PairsIn
  <2>2. CASE j <= Len(s)
    <3>1. /\ i \in DOMAIN s /\ j \in DOMAIN s
          /\ (s \o t)[i] = s[i] /\ (s \o t)[j] = s[j]
      BY <1>1, <2>1, <2>2
    <3>2. QED
      BY <1>5, <2>1, <3>1 DEF PairsIn
  <2>3. CASE i <= Len(s) /\ ~(j <= Len(s))
    <3>1. /\ i \in DOMAIN s /\ j - Len(s) \in DOMAIN t
          /\ (s \o t)[i] = s[i] /\ (s \o t)[j] = t[j - Len(s)]
      BY <1>1, <2>1, <2>3
    <3>2. (s \o t)[i] \in Range(s) /\ (s \o t)[j] \in Range(t)
      BY <3>1 DEF Range
    <3>3. QED
      BY <1>5, <3>2
  <2>4. CASE ~(i <= Len(s))
    <3>1. /\ i - Len(s) \in DOMAIN t /\ j - Len(s) \in DOMAIN t
          /\ i - Len(s) < j - Len(s)
          /\ (s \o t)[i] = t[i - Len(s)] /\ (s \o t)[j] = t[j - Len(s)]
      BY <1>1, <2>1, <2>4
    <3>2. QED
      BY <1>5, <3>1 DEF PairsIn
  <2>5. QED
    BY <1>1, <2>1, <2>2, <2>3, <2>4
<1>6. QED
  BY <1>4, <1>5

LEMMA Regroup ==
  ASSUME NEW S, NEW a \in Seq(S), NEW b \in Seq(S), NEW c \in Seq(S)
  PROVE  (a \o b) \o c = a \o (b \o c)
  OBVIOUS


LEMMA PairsOfAppend ==
  ASSUME NEW S, NEW s \in Seq(S), NEW e \in S, NEW R
  PROVE  PairsIn(Append(s, e), R) <=>
           PairsIn(s, R) /\ \A a \in Range(s) : <<a, e>> \in R
<1>1. PICK t \in Seq(S) : t = <<e>>
  <2>1. <<e>> \in Seq(S)
    OBVIOUS
  <2>2. QED
    BY <2>1
<1>2. Append(s, e) = s \o t
  BY <1>1
<1>3. DOMAIN t = {1} /\ t[1] = e
  BY <1>1
<1>4. PairsIn(t, R) /\ Range(t) = {e}
  BY <1>3 DEF PairsIn, Range
<1>5. PairsIn(s \o t, R) <=>
        /\ PairsIn(s, R) /\ PairsIn(t, R)
        /\ \A a \in Range(s), b \in Range(t) : <<a, b>> \in R
  BY PairsOfConcat
<1>6. QED
  BY <1>2, <1>4, <1>5

------------------------------------------------------------------------------
(* What the handlers make of a connection.                                    *)

SameData(k, u) ==
  /\ u.authenticated = k.authenticated /\ u.input = k.input /\ u.rx = k.rx
  /\ u.eof = k.eof /\ u.reset = k.reset
SameOut(k, u) == u.output = k.output /\ u.wire = k.wire
SameChannel(k, u) ==
  u.interest = k.interest /\ u.registered = k.registered /\ u.edge = k.edge

\* What is ready, of the events asked for, is to be reported.
Reports(k) == \A e \in k.interest : IsReady(k, e) => k.edge

\* The Channel of a connection that has closed.
ClosedChannel(u) ==
  u.state = "kDisconnected" /\ u.interest = {} /\ ~u.registered /\ ~u.edge

LEMMA ReadyDef ==
  ASSUME NEW k, NEW u, u.rx = k.rx, u.eof = k.eof, u.reset = k.reset, u.wire = k.wire
  PROVE  \A e : IsReady(u, e) <=> IsReady(k, e)
  BY DEF IsReady

LEMMA UpdateDef ==
  ASSUME NEW k \in Connections, NEW u, u = UpdateChannel(k)
  PROVE  /\ u \in Connections /\ SameData(k, u) /\ SameOut(k, u)
         /\ u.state = k.state /\ u.interest = k.interest
         /\ u.edge => u.registered
         /\ k.interest # {} => u.registered
         /\ Reports(u)
<1>1. CASE k.registered /\ k.interest = {}
  <2>1. u = [k EXCEPT !.registered = FALSE, !.edge = FALSE]
    BY <1>1 DEF UpdateChannel
  <2>2. /\ u \in Connections /\ SameData(k, u) /\ SameOut(k, u)
        /\ u.state = k.state /\ u.interest = k.interest
        /\ ~u.edge /\ ~u.registered
    BY <2>1 DEF Connections, SameData, SameOut
  <2>3. QED
    BY <1>1, <2>2 DEF Reports
<1>2. CASE ~(k.registered /\ k.interest = {})
  <2>1. PICK edge \in BOOLEAN : edge = (ReadyEvents(k) # {})
    OBVIOUS
  <2>2. u = [k EXCEPT !.registered = TRUE, !.edge = edge]
    BY <1>2, <2>1 DEF UpdateChannel
  <2>3. /\ u \in Connections /\ SameData(k, u) /\ SameOut(k, u)
        /\ u.state = k.state /\ u.interest = k.interest
        /\ u.edge = edge /\ u.registered
    BY <2>2 DEF Connections, SameData, SameOut
  <2>4. Reports(u)
    <3>1. \A e : IsReady(u, e) <=> IsReady(k, e)
      BY <2>3, ReadyDef DEF SameData, SameOut
    <3>2. QED
      BY <2>1, <2>3, <3>1 DEF Reports, ReadyEvents
  <2>5. QED
    BY <2>3, <2>4
<1>3. QED
  BY <1>1, <1>2

LEMMA CloseDef ==
  ASSUME NEW k \in Connections, NEW h, h = HandleClose(k)
  PROVE  /\ h \in Connections /\ SameData(k, h) /\ SameOut(k, h)
         /\ k.state = "kDisconnected" => h = k
         /\ k.state # "kDisconnected" => ClosedChannel(h)
         /\ h.state = "kDisconnected"
<1>1. CASE k.state = "kDisconnected"
  BY <1>1 DEF HandleClose, SameData, SameOut
<1>2. CASE k.state # "kDisconnected"
  <2>1. PICK d \in Connections : d = [k EXCEPT !.state = "kDisconnected", !.interest = {}]
    <3>1. [k EXCEPT !.state = "kDisconnected", !.interest = {}] \in Connections
      BY DEF Connections
    <3>2. QED
      BY <3>1
  <2>2. SameData(k, d) /\ SameOut(k, d) /\ d.state = "kDisconnected" /\ d.interest = {}
    BY <2>1 DEF Connections, SameData, SameOut
  <2>3. PICK u : u = UpdateChannel(d)
    OBVIOUS
  <2>4. /\ u \in Connections /\ SameData(d, u) /\ SameOut(d, u)
        /\ u.state = d.state /\ u.interest = d.interest
    BY <2>3, UpdateDef
  <2>5. h = [u EXCEPT !.registered = FALSE, !.edge = FALSE]
    BY <1>2, <2>1, <2>3 DEF HandleClose, RemoveChannel
  <2>6. /\ h \in Connections /\ SameData(u, h) /\ SameOut(u, h)
        /\ h.state = u.state /\ h.interest = u.interest /\ ~h.registered /\ ~h.edge
    BY <2>4, <2>5 DEF Connections, SameData, SameOut
  <2>7. QED
    BY <1>2, <2>2, <2>4, <2>6 DEF SameData, SameOut, ClosedChannel
<1>3. QED
  BY <1>1, <1>2

LEMMA SendDef ==
  ASSUME NEW k \in Connections, NEW r \in Requests, NEW s, s = Send(k, r)
  PROVE  /\ s \in Connections /\ SameData(k, s)
         /\ k.state # "kConnected" => s = k
         /\ k.state = "kConnected" =>
              \/ ClosedChannel(s) /\ SameOut(k, s)
              \/ /\ s.state = "kConnected" /\ SameChannel(k, s)
                 /\ k.output = <<>> /\ s.output = <<>>
                 /\ s.wire = Append(k.wire, r) /\ Len(k.wire) < SendRoom
              \/ /\ s.state = "kConnected" /\ s.registered /\ Reports(s)
                 /\ s.interest = k.interest \cup {"OUT"}
                 /\ s.output = Append(k.output, r) /\ s.wire = k.wire
<1>1. CASE k.state # "kConnected"
  BY <1>1 DEF Send, SameData
<1>2. CASE k.state = "kConnected" /\ k.output = <<>> /\ k.reset
  <2>1. s = HandleClose(k)
    BY <1>2 DEF Send
  <2>2. /\ s \in Connections /\ SameData(k, s) /\ SameOut(k, s)
        /\ k.state # "kDisconnected" => ClosedChannel(s)
    BY <2>1, CloseDef
  <2>3. QED
    BY <1>2, <2>2
<1>3. CASE /\ k.state = "kConnected" /\ k.output = <<>> /\ ~k.reset
           /\ Len(k.wire) < SendRoom
  <2>1. s = [k EXCEPT !.wire = Append(@, r)]
    BY <1>3 DEF Send
  <2>2. k.wire \in Seq(Requests) /\ Append(k.wire, r) \in Seq(Requests)
    BY DEF Connections
  <2>3. /\ s \in Connections /\ SameData(k, s) /\ SameChannel(k, s)
        /\ s.state = k.state /\ s.output = k.output /\ s.wire = Append(k.wire, r)
    BY <2>1, <2>2 DEF Connections, SameData, SameChannel
  <2>4. QED
    BY <1>3, <2>3
<1>4. CASE /\ k.state = "kConnected" /\ ~(k.output = <<>> /\ k.reset)
           /\ ~(k.output = <<>> /\ Len(k.wire) < SendRoom)
  <2>1. k.output \in Seq(Requests) /\ Append(k.output, r) \in Seq(Requests)
    BY DEF Connections
  <2>2. PICK d \in Connections :
          d = [k EXCEPT !.output = Append(@, r), !.interest = @ \cup {"OUT"}]
    <3>1. [k EXCEPT !.output = Append(@, r), !.interest = @ \cup {"OUT"}] \in Connections
      BY <2>1 DEF Connections
    <3>2. QED
      BY <3>1
  <2>3. /\ SameData(k, d) /\ d.wire = k.wire /\ d.output = Append(k.output, r)
        /\ d.interest = k.interest \cup {"OUT"} /\ d.state = k.state
    BY <2>2 DEF Connections, SameData
  <2>4. s = UpdateChannel(d)
    BY <1>4, <2>2 DEF Send
  <2>5. /\ s \in Connections /\ SameData(d, s) /\ SameOut(d, s)
        /\ s.state = d.state /\ s.interest = d.interest
        /\ d.interest # {} => s.registered
        /\ Reports(s)
    BY <2>4, UpdateDef
  <2>6. QED
    BY <1>4, <2>3, <2>5 DEF SameData, SameOut
<1>5. QED
  BY <1>1, <1>2, <1>3, <1>4

LEMMA DisableDef ==
  ASSUME NEW k \in Connections, NEW w, w = DisableWriting(k)
  PROVE  /\ w \in Connections /\ SameData(k, w) /\ SameOut(k, w)
         /\ w.state = k.state /\ w.interest = k.interest \ {"OUT"}
         /\ w.edge => w.registered
         /\ w.interest # {} => w.registered
         /\ Reports(w)
<1>1. PICK d \in Connections : d = [k EXCEPT !.interest = @ \ {"OUT"}]
  <2>1. [k EXCEPT !.interest = @ \ {"OUT"}] \in Connections
    BY DEF Connections
  <2>2. QED
    BY <2>1
<1>2. /\ SameData(k, d) /\ SameOut(k, d) /\ d.state = k.state
      /\ d.interest = k.interest \ {"OUT"}
  BY <1>1 DEF Connections, SameData, SameOut
<1>3. w = UpdateChannel(d)
  BY <1>1 DEF DisableWriting
<1>4. /\ w \in Connections /\ SameData(d, w) /\ SameOut(d, w)
      /\ w.state = d.state /\ w.interest = d.interest
      /\ w.edge => w.registered
      /\ d.interest # {} => w.registered
      /\ Reports(w)
  BY <1>3, UpdateDef
<1>5. QED
  BY <1>2, <1>4 DEF SameData, SameOut

\* What write() takes moves from the output to the socket, and is in order.
LEMMA WriteOutDef ==
  ASSUME NEW k \in Connections, Len(k.wire) <= SendRoom, NEW w, w = WriteOut(k)
  PROVE  /\ w \in Connections /\ SameData(k, w) /\ SameChannel(k, w)
         /\ w.state = k.state
         /\ w.wire \o w.output = k.wire \o k.output
         /\ Len(w.wire) <= SendRoom
         /\ w.output # <<>> => Len(w.wire) = SendRoom
<1> DEFINE room == SendRoom - Len(k.wire)
           n == IF room < Len(k.output) THEN room ELSE Len(k.output)
<1>1. /\ k.wire \in Seq(Requests) /\ k.output \in Seq(Requests)
      /\ Len(k.wire) \in Nat /\ Len(k.output) \in Nat /\ SendRoom \in Nat
  BY RoomIsPositive DEF Connections
<1>2. PICK wl \in Nat, ol \in Nat : wl = Len(k.wire) /\ ol = Len(k.output) /\ wl <= SendRoom
  BY <1>1
<1>3. /\ n = IF SendRoom - wl < ol THEN SendRoom - wl ELSE ol
      /\ w = [k EXCEPT !.wire = @ \o SubSeq(k.output, 1, n),
                       !.output = SubSeq(@, n + 1, Len(@))]
  BY <1>2 DEF WriteOut
<1> HIDE DEF n, room
<1>4. /\ n \in 0 .. ol /\ wl + n <= SendRoom
      /\ n # ol => wl + n = SendRoom
  BY <1>1, <1>2, <1>3
<1>5. PICK out \in Seq(Requests), rest \in Seq(Requests) :
        /\ out = SubSeq(k.output, 1, n) /\ rest = SubSeq(k.output, n + 1, Len(k.output))
        /\ out \o rest = k.output /\ Len(out) = n
        /\ Len(rest) = Len(k.output) - n
  <2>1. /\ SubSeq(k.output, 1, n) \in Seq(Requests)
        /\ SubSeq(k.output, n + 1, Len(k.output)) \in Seq(Requests)
        /\ Len(SubSeq(k.output, 1, n)) = n
        /\ Len(SubSeq(k.output, n + 1, Len(k.output))) = Len(k.output) - n
    BY <1>1, <1>2, <1>4
  <2>2. SubSeq(k.output, 1, n) \o SubSeq(k.output, n + 1, Len(k.output)) = k.output
    <3>1. SubSeq(k.output, 1, Len(k.output)) = k.output
      BY <1>1, SubSeqFull
    <3>2. /\ 1 \in 1 .. Len(k.output) + 1 /\ n \in 1 - 1 .. Len(k.output)
          /\ Len(k.output) \in n .. Len(k.output)
      BY <1>1, <1>2, <1>4
    <3>3. QED
      BY <1>1, <3>1, <3>2, ConcatAdjacentSubSeq
  <2>3. QED
    BY <2>1, <2>2
<1>6. /\ w \in Connections /\ SameData(k, w) /\ SameChannel(k, w) /\ w.state = k.state
      /\ w.wire = k.wire \o out /\ w.output = rest
  <2>1. k.wire \o out \in Seq(Requests)
    BY <1>1, <1>5
  <2>2. QED
    BY <1>3, <1>5, <2>1 DEF Connections, SameData, SameChannel
<1>7. w.wire \o w.output = k.wire \o k.output
  <2>1. (k.wire \o out) \o rest = k.wire \o (out \o rest)
    <3>1. PICK wire \in Seq(Requests) : wire = k.wire
      BY <1>1
    <3>2. (wire \o out) \o rest = wire \o (out \o rest)
      BY Regroup
    <3>3. QED
      BY <3>1, <3>2
  <2>2. QED
    BY <1>5, <1>6, <2>1
<1>8. Len(w.wire) = Len(k.wire) + n
  BY <1>1, <1>5, <1>6
<1>9. rest # <<>> => n # Len(k.output)
  BY <1>1, <1>2, <1>5, <1>4
<1>10. QED
  BY <1>2, <1>6, <1>7, <1>8, <1>9, <1>4

\* What write() and the output buffer make of a response.
Sent(k, r, s) ==
  \/ s.state = k.state /\ SameChannel(k, s) /\ SameOut(k, s)
  \/ k.state = "kConnected" /\ ClosedChannel(s) /\ SameOut(k, s)
  \/ /\ k.state = "kConnected" /\ s.state = "kConnected" /\ SameChannel(k, s)
     /\ k.output = <<>> /\ s.output = <<>>
     /\ s.wire = Append(k.wire, r) /\ Len(k.wire) < SendRoom
  \/ /\ k.state = "kConnected" /\ s.state = "kConnected" /\ s.registered /\ Reports(s)
     /\ s.interest = k.interest \cup {"OUT"}
     /\ s.output = Append(k.output, r) /\ s.wire = k.wire

LEMMA SendIsSent ==
  ASSUME NEW k \in Connections, NEW r \in Requests, NEW s, s = Send(k, r)
  PROVE  s \in Connections /\ SameData(k, s) /\ Sent(k, r, s)
<1>1. CASE k.state # "kConnected"
  BY <1>1, SendDef DEF Sent, SameChannel, SameOut
<1>2. CASE k.state = "kConnected"
  BY <1>2, SendDef DEF Sent
<1>3. QED
  BY <1>1, <1>2

\* The response goes behind those that the peer has not read, or nowhere.
LEMMA SentStaysInOrder ==
  ASSUME NEW k \in Connections, NEW r \in Requests, NEW s \in Connections, Sent(k, r, s)
  PROVE  /\ Len(k.wire) <= SendRoom => Len(s.wire) <= SendRoom
         /\ Unread(s) = Unread(k) \/ Unread(s) = Append(Unread(k), r)
<1>1. PICK w \in Seq(Requests), o \in Seq(Requests) : w = k.wire /\ o = k.output
  BY DEF Connections
<1>2. SendRoom \in Nat /\ Len(w) \in Nat
  BY RoomIsPositive
<1>3. CASE SameOut(k, s)
  BY <1>3 DEF SameOut, Unread
<1>4. CASE o = <<>> /\ s.output = <<>> /\ s.wire = Append(w, r) /\ Len(w) < SendRoom
  <2>1. Unread(k) = w /\ Unread(s) = Append(w, r)
    BY <1>1, <1>4 DEF Unread
  <2>2. Len(s.wire) <= SendRoom
    BY <1>1, <1>2, <1>4
  <2>3. QED
    BY <2>1, <2>2
<1>5. CASE s.output = Append(o, r) /\ s.wire = w
  <2>1. w \o Append(o, r) = Append(w \o o, r)
    OBVIOUS
  <2>2. QED
    BY <1>1, <1>5, <2>1 DEF Unread
<1>6. QED
  BY <1>1, <1>3, <1>4, <1>5 DEF Sent

\* A handler leaves the state alone or closes the connection.
Onwards(k, u) == u.state = k.state \/ (k.state # "none" /\ u.state = "kDisconnected")

LEMMA SentIsConsistent ==
  ASSUME NEW k \in Connections, NEW r \in Requests, NEW s \in Connections, Sent(k, r, s),
         Consistent(k)
  PROVE  Consistent(s) /\ Onwards(k, s)
<1>1. CASE s.state = k.state /\ SameChannel(k, s) /\ SameOut(k, s)
  BY <1>1 DEF Consistent, Onwards, SameChannel, SameOut
<1>2. CASE k.state = "kConnected" /\ ClosedChannel(s) /\ SameOut(k, s)
  BY <1>2 DEF Consistent, Onwards, ClosedChannel
<1>3. CASE /\ k.state = "kConnected" /\ s.state = "kConnected" /\ SameChannel(k, s)
           /\ k.output = <<>> /\ s.output = <<>>
  BY <1>3 DEF Consistent, Onwards, SameChannel
<1>4. CASE /\ k.state = "kConnected" /\ s.state = "kConnected" /\ s.registered
           /\ s.interest = k.interest \cup {"OUT"}
  BY <1>4 DEF Consistent, Onwards
<1>5. QED
  BY <1>1, <1>2, <1>3, <1>4 DEF Sent

LEMMA HandleWriteDef ==
  ASSUME NEW k \in Connections, Len(k.wire) <= SendRoom, NEW w, w = HandleWrite(k)
  PROVE  /\ w \in Connections /\ SameData(k, w)
         /\ Unread(w) = Unread(k) /\ Len(w.wire) <= SendRoom
         /\ \/ w = k /\ k.state = "kDisconnected"
            \/ k.state # "kDisconnected" /\ ClosedChannel(w) /\ SameOut(k, w)
            \/ /\ w.state = k.state /\ w.interest = k.interest \ {"OUT"}
               /\ w.output = <<>> /\ Reports(w)
               /\ w.edge => w.registered
               /\ w.interest # {} => w.registered
            \/ /\ w.state = k.state /\ SameChannel(k, w)
               /\ w.output # <<>> /\ k.output # <<>>
               /\ Len(w.wire) = SendRoom /\ ~w.reset
<1>1. CASE k.output = <<>>
  <2>1. w = DisableWriting(k)
    BY <1>1 DEF HandleWrite
  <2>2. /\ w \in Connections /\ SameData(k, w) /\ SameOut(k, w)
        /\ w.state = k.state /\ w.interest = k.interest \ {"OUT"}
        /\ w.edge => w.registered
        /\ w.interest # {} => w.registered
        /\ Reports(w)
    BY <2>1, DisableDef
  <2>3. QED
    BY <1>1, <2>2 DEF SameOut, Unread
<1>2. CASE k.output # <<>> /\ k.reset
  <2>1. w = HandleClose(k)
    BY <1>2 DEF HandleWrite
  <2>2. /\ w \in Connections /\ SameData(k, w) /\ SameOut(k, w)
        /\ k.state = "kDisconnected" => w = k
        /\ k.state # "kDisconnected" => ClosedChannel(w)
    BY <2>1, CloseDef
  <2>3. QED
    BY <2>2 DEF SameOut, Unread
<1>3. CASE k.output # <<>> /\ ~k.reset
  <2>1. PICK v : v = WriteOut(k)
    OBVIOUS
  <2>2. /\ v \in Connections /\ SameData(k, v) /\ SameChannel(k, v)
        /\ v.state = k.state
        /\ v.wire \o v.output = k.wire \o k.output
        /\ Len(v.wire) <= SendRoom
        /\ v.output # <<>> => Len(v.wire) = SendRoom
    BY <2>1, WriteOutDef
  <2>3. CASE v.output = <<>>
    <3>1. w = DisableWriting(v)
      BY <1>3, <2>1, <2>3 DEF HandleWrite
    <3>2. /\ w \in Connections /\ SameData(v, w) /\ SameOut(v, w)
          /\ w.state = v.state /\ w.interest = v.interest \ {"OUT"}
          /\ w.edge => w.registered
          /\ w.interest # {} => w.registered
          /\ Reports(w)
      BY <2>2, <3>1, DisableDef
    <3>3. Unread(w) = Unread(k) /\ Len(w.wire) <= SendRoom /\ w.output = <<>>
      BY <2>2, <2>3, <3>2 DEF SameOut, Unread
    <3>4. QED
      BY <2>2, <3>2, <3>3 DEF SameData, SameChannel
  <2>4. CASE v.output # <<>>
    <3>1. w = v
      BY <1>3, <2>1, <2>4 DEF HandleWrite
    <3>2. QED
      BY <1>3, <2>2, <2>4, <3>1 DEF SameData, Unread
  <2>5. QED
    BY <2>3, <2>4
<1>4. QED
  BY <1>1, <1>2, <1>3

LEMMA WriteIsConsistent ==
  ASSUME NEW k \in Connections, Len(k.wire) <= SendRoom, NEW w, w = HandleWrite(k),
         Consistent(k), k.state # "none"
  PROVE  Consistent(w) /\ Onwards(k, w)
<1>1. CASE w = k
  BY <1>1 DEF Onwards
<1>2. CASE k.state # "kDisconnected" /\ ClosedChannel(w)
  BY <1>2 DEF Consistent, Onwards, ClosedChannel
<1>3. CASE /\ w.state = k.state /\ w.interest = k.interest \ {"OUT"}
           /\ w.output = <<>>
           /\ w.edge => w.registered
           /\ w.interest # {} => w.registered
  BY <1>3 DEF Consistent, Onwards
<1>4. CASE /\ w.state = k.state /\ SameChannel(k, w) /\ w.output # <<>> /\ k.output # <<>>
  BY <1>4 DEF Consistent, Onwards, SameChannel
<1>5. QED
  BY <1>1, <1>2, <1>3, <1>4, HandleWriteDef

LEMMA CloseIsConsistent ==
  ASSUME NEW k \in Connections, NEW h, h = HandleClose(k), Consistent(k), k.state # "none"
  PROVE  Consistent(h) /\ Onwards(k, h)
  BY CloseDef DEF Consistent, Onwards, ClosedChannel

LEMMA TakeInputDef ==
  ASSUME NEW k \in Connections, NEW u, u = TakeInput(k)
  PROVE  /\ u \in Connections /\ SameOut(k, u) /\ SameChannel(k, u)
         /\ u.state = k.state /\ u.authenticated = k.authenticated
         /\ u.eof = k.eof /\ u.reset = k.reset /\ u.rx = <<>>
         /\ Ahead(u) = Ahead(k)
<1>1. PICK i \in Seq(Requests), r \in Seq(Requests) : i = k.input /\ r = k.rx
  BY DEF Connections
<1>2. i \o r \in Seq(Requests) /\ <<>> \in Seq(Requests) /\ (i \o r) \o <<>> = i \o r
  OBVIOUS
<1>3. u = [k EXCEPT !.input = i \o r, !.rx = <<>>]
  BY <1>1 DEF TakeInput
<1>4. /\ u \in Connections /\ SameOut(k, u) /\ SameChannel(k, u)
      /\ u.state = k.state /\ u.authenticated = k.authenticated
      /\ u.eof = k.eof /\ u.reset = k.reset /\ u.rx = <<>> /\ u.input = i \o r
  BY <1>2, <1>3 DEF Connections, SameOut, SameChannel
<1>5. QED
  BY <1>1, <1>2, <1>4 DEF Ahead

LEMMA TakeIsConsistent ==
  ASSUME NEW k \in Connections, NEW u, u = TakeInput(k), Consistent(k)
  PROVE  Consistent(u)
  BY TakeInputDef DEF Consistent, SameOut, SameChannel

LEMMA EstablishedDef ==
  ASSUME NEW k \in Connections, NEW u, u = ConnectEstablished(k)
  PROVE  /\ u \in Connections /\ SameData(k, u) /\ SameOut(k, u)
         /\ u.state = "kConnected" /\ u.interest = {"IN"} /\ u.registered
         /\ Reports(u)
<1>1. PICK d \in Connections : d = [k EXCEPT !.state = "kConnected", !.interest = {"IN"}]
  <2>1. [k EXCEPT !.state = "kConnected", !.interest = {"IN"}] \in Connections
    BY DEF Connections
  <2>2. QED
    BY <2>1
<1>2. /\ SameData(k, d) /\ SameOut(k, d) /\ d.state = "kConnected" /\ d.interest = {"IN"}
  BY <1>1 DEF Connections, SameData, SameOut
<1>3. u = UpdateChannel(d)
  BY <1>1 DEF ConnectEstablished
<1>4. /\ u \in Connections /\ SameData(d, u) /\ SameOut(d, u)
      /\ u.state = d.state /\ u.interest = d.interest
      /\ d.interest # {} => u.registered
      /\ Reports(u)
  BY <1>3, UpdateDef
<1>5. QED
  BY <1>2, <1>4 DEF SameData, SameOut

LEMMA ShutdownDef ==
  ASSUME NEW k \in Connections, NEW u, u = ShutdownConnection(k)
  PROVE  /\ u \in Connections /\ SameData(k, u) /\ SameOut(k, u)
         /\ k.state # "kConnected" => u = k
         /\ k.state = "kConnected" => ClosedChannel(u)
<1>1. CASE k.state # "kConnected"
  BY <1>1 DEF ShutdownConnection, SameData, SameOut
<1>2. CASE k.state = "kConnected"
  <2>1. PICK d \in Connections : d = [k EXCEPT !.state = "kDisconnecting", !.interest = {}]
    <3>1. [k EXCEPT !.state = "kDisconnecting", !.interest = {}] \in Connections
      BY DEF Connections
    <3>2. QED
      BY <3>1
  <2>2. SameData(k, d) /\ SameOut(k, d) /\ d.state = "kDisconnecting"
    BY <2>1 DEF Connections, SameData, SameOut
  <2>3. PICK v : v = UpdateChannel(d)
    OBVIOUS
  <2>4. v \in Connections /\ SameData(d, v) /\ SameOut(d, v) /\ v.state = d.state
    BY <2>3, UpdateDef
  <2>5. u = HandleClose(v)
    BY <1>2, <2>1, <2>3 DEF ShutdownConnection
  <2>6. /\ u \in Connections /\ SameData(v, u) /\ SameOut(v, u)
        /\ v.state # "kDisconnected" => ClosedChannel(u)
    BY <2>4, <2>5, CloseDef
  <2>7. QED
    BY <1>2, <2>2, <2>4, <2>6 DEF SameData, SameOut
<1>3. QED
  BY <1>1, <1>2

\* What the peer does to a registered connection is reported, if it is asked for.
LEMMA EdgeDef ==
  ASSUME NEW k \in Connections, NEW u, u = Edge(k)
  PROVE  /\ u \in Connections /\ SameData(k, u) /\ SameOut(k, u)
         /\ u.state = k.state /\ u.interest = k.interest /\ u.registered = k.registered
         /\ u.edge => k.edge \/ k.registered
         /\ u.registered => Reports(u)
         /\ Consistent(k) => Consistent(u)
<1>1. PICK e \in BOOLEAN : e = (k.edge \/ (k.registered /\ ReadyEvents(k) # {}))
  OBVIOUS
<1>2. u = [k EXCEPT !.edge = e]
  <2>1. u = [k EXCEPT !.edge = k.edge \/ (k.registered /\ ReadyEvents(k) # {})]
    BY DEF Edge, Connections
  <2>2. QED
    BY <1>1, <2>1
<1>3. /\ u \in Connections /\ SameData(k, u) /\ SameOut(k, u)
      /\ u.state = k.state /\ u.interest = k.interest /\ u.registered = k.registered
      /\ u.edge = e
  BY <1>2 DEF Connections, SameData, SameOut
<1>4. u.registered => Reports(u)
  <2>1. \A f : IsReady(u, f) <=> IsReady(k, f)
    BY <1>3, ReadyDef DEF SameData, SameOut
  <2>2. QED
    BY <1>1, <1>3, <2>1 DEF Reports, ReadyEvents
<1>5. u.edge => k.edge \/ k.registered
  BY <1>1, <1>3
<1>6. Consistent(k) => Consistent(u)
  BY <1>3, <1>5 DEF Consistent, SameOut
<1>7. QED
  BY <1>3, <1>4, <1>5, <1>6

------------------------------------------------------------------------------
(* The functor queue.                                                         *)

LEMMA FunctorDef ==
  ASSUME NEW f \in Functors
  PROVE  /\ f.kind \in {"setup", "erase", "shutdown", "reply"}
         /\ f.kind = "reply" => f.req \in Requests
  BY DEF Functors, Functor, Reply

LEMMA TailOfQueue ==
  ASSUME NEW q \in Seq(Functors), q # <<>>
  PROVE  /\ Head(q) \in Functors /\ Tail(q) \in Seq(Functors)
         /\ Len(q) \in Nat /\ Len(q) > 0 /\ Len(Tail(q)) = Len(q) - 1
         /\ 1 \in DOMAIN q /\ q[1] = Head(q)
         /\ \A i \in DOMAIN Tail(q) :
              i + 1 \in DOMAIN q /\ Tail(q)[i] = q[i + 1] /\ i \in Nat /\ i + 1 # 1
  OBVIOUS

LEMMA AppendToQueue ==
  ASSUME NEW q \in Seq(Functors), NEW f \in Functors
  PROVE  /\ Append(q, f) \in Seq(Functors)
         /\ Len(Append(q, f)) = Len(q) + 1
         /\ DOMAIN Append(q, f) = DOMAIN q \cup {Len(q) + 1}
         /\ Len(q) + 1 \notin DOMAIN q
         /\ \A i \in DOMAIN q : Append(q, f)[i] = q[i]
         /\ Append(q, f)[Len(q) + 1] = f
  OBVIOUS

LEMMA OwedTail ==
  ASSUME NEW q \in Seq(Functors), q # <<>>, NEW t, t = Tail(q)
  PROVE  /\ Owed(t) \subseteq Owed(q)
         /\ OwedOnce(q) => OwedOnce(t)
         /\ Head(q).kind = "reply" =>
              /\ Head(q).req \in Owed(q)
              /\ OwedOnce(q) => Head(q).req \notin Owed(t)
<1>1. \A i \in Replies(t) : i + 1 \in Replies(q) /\ t[i] = q[i + 1] /\ i + 1 # 1 /\ i \in Nat
  BY TailOfQueue DEF Replies
<1>2. Owed(t) \subseteq Owed(q)
  BY <1>1 DEF Owed
<1>3. ASSUME OwedOnce(q) PROVE OwedOnce(t)
  <2>1. SUFFICES ASSUME NEW i \in Replies(t), NEW j \in Replies(t), t[i].req = t[j].req
                 PROVE  i = j
    BY DEF OwedOnce
  <2>2. i + 1 = j + 1 /\ i \in Nat /\ j \in Nat
    BY <1>1, <1>3, <2>1 DEF OwedOnce
  <2>3. QED
    BY <2>2
<1>4. ASSUME Head(q).kind = "reply"
      PROVE  /\ Head(q).req \in Owed(q)
             /\ OwedOnce(q) => Head(q).req \notin Owed(t)
  <2>1. 1 \in Replies(q) /\ q[1] = Head(q)
    BY <1>4, TailOfQueue DEF Replies
  <2>2. Head(q).req \in Owed(q)
    BY <2>1 DEF Owed
  <2>3. ASSUME OwedOnce(q), Head(q).req \in Owed(t) PROVE FALSE
    <3>1. PICK i \in Replies(t) : t[i].req = Head(q).req
      BY <2>3 DEF Owed
    <3>2. i + 1 \in Replies(q) /\ q[i + 1].req = q[1].req /\ i + 1 # 1
      BY <1>1, <2>1, <3>1
    <3>3. QED
      BY <2>1, <2>3, <3>2 DEF OwedOnce
  <2>4. QED
    BY <2>2, <2>3
<1>5. QED
  BY <1>2, <1>3, <1>4

LEMMA OwedAppend ==
  ASSUME NEW q \in Seq(Functors), NEW f \in Functors, NEW a, a = Append(q, f)
  PROVE  /\ f.kind # "reply" => Owed(a) = Owed(q) /\ (OwedOnce(q) => OwedOnce(a))
         /\ f.kind = "reply" =>
              /\ Owed(a) = Owed(q) \cup {f.req}
              /\ OwedOnce(q) /\ f.req \notin Owed(q) => OwedOnce(a)
<1>1. \A i \in DOMAIN q : i \in DOMAIN a /\ a[i] = q[i]
  BY AppendToQueue
<1>2. PICK l \in DOMAIN a : a[l] = f /\ DOMAIN a = DOMAIN q \cup {l} /\ l \notin DOMAIN q
  BY AppendToQueue
<1>3. CASE f.kind # "reply"
  <2>1. Replies(a) = Replies(q) /\ \A i \in Replies(q) : a[i] = q[i]
    BY <1>1, <1>2, <1>3 DEF Replies
  <2>2. QED
    BY <1>3, <2>1 DEF Owed, OwedOnce
<1>4. CASE f.kind = "reply"
  <2>1. /\ Replies(a) = Replies(q) \cup {l} /\ l \notin Replies(q) /\ a[l].req = f.req
        /\ \A i \in Replies(q) : a[i].req = q[i].req
    BY <1>1, <1>2, <1>4 DEF Replies
  <2>2. Owed(a) = Owed(q) \cup {f.req}
    <3>1. ASSUME NEW x \in Owed(a) PROVE x \in Owed(q) \cup {f.req}
      BY <2>1 DEF Owed
    <3>2. ASSUME NEW x \in Owed(q) PROVE x \in Owed(a)
      BY <2>1 DEF Owed
    <3>3. f.req \in Owed(a)
      BY <2>1 DEF Owed
    <3>4. QED
      BY <3>1, <3>2, <3>3
  <2>3. ASSUME OwedOnce(q), f.req \notin Owed(q) PROVE OwedOnce(a)
    <3>1. \A i \in Replies(q) : q[i].req # f.req
      BY <2>3 DEF Owed
    <3>2. SUFFICES ASSUME NEW i \in Replies(q) \cup {l}, NEW j \in Replies(q) \cup {l},
                          a[i].req = a[j].req
                   PROVE  i = j
      BY <2>1 DEF OwedOnce
    <3>3. QED
      BY <2>1, <2>3, <3>1, <3>2 DEF OwedOnce
  <2>4. QED
    BY <1>4, <2>2, <2>3
<1>5. QED
  BY <1>3, <1>4

LEMMA QueuedTail ==
  ASSUME NEW q \in Seq(Functors), q # <<>>, NEW t, t = Tail(q),
         NEW s, NEW s2, Queued(q, s), s = "kDisconnected" => s2 = "kDisconnected"
  PROVE  Queued(t, s2)
  BY TailOfQueue DEF Queued

LEMMA QueuedAppend ==
  ASSUME NEW q \in Seq(Functors), NEW f \in Functors, NEW a, a = Append(q, f),
         NEW s, Queued(q, s), f.kind # "setup", f.kind = "erase" => s = "kDisconnected"
  PROVE  Queued(a, s)
  BY AppendToQueue DEF Queued

\* What a handler leaves queued: the queue it found, with the erase if it closes.
LEMMA HandlerQueues ==
  ASSUME NEW q \in Seq(Functors), NEW k, NEW u, NEW a, a = q \o EraseIfClosed(k, u)
  PROVE  /\ a \in Seq(Functors) /\ Len(a) \in Nat /\ Len(q) <= Len(a)
         /\ Owed(a) = Owed(q)
         /\ OwedOnce(q) => OwedOnce(a)
         /\ Queued(q, k.state) /\ Onwards(k, u) => Queued(a, u.state)
<1>1. Queued(q, k.state) /\ Onwards(k, u) => Queued(q, u.state)
  BY DEF Queued, Onwards
<1>2. CASE Closes(k, u)
  <2>1. PICK f \in Functors : f = Functor("erase")
    <3>1. Functor("erase") \in Functors
      BY DEF Functors
    <3>2. QED
      BY <3>1
  <2>2. a = Append(q, f)
    BY <1>2, <2>1 DEF EraseIfClosed
  <2>3. f.kind = "erase"
    BY <2>1 DEF Functor
  <2>4. Owed(a) = Owed(q) /\ (OwedOnce(q) => OwedOnce(a))
    BY <2>2, <2>3, OwedAppend
  <2>5. Queued(q, u.state) => Queued(a, u.state)
    BY <1>2, <2>2, <2>3, QueuedAppend DEF Closes
  <2>6. a \in Seq(Functors) /\ Len(a) \in Nat /\ Len(q) <= Len(a)
    BY <2>2
  <2>7. QED
    BY <1>1, <2>4, <2>5, <2>6
<1>3. CASE ~Closes(k, u)
  <2>1. a = q /\ Len(q) \in Nat
    BY <1>3 DEF EraseIfClosed
  <2>2. QED
    BY <1>1, <2>1
<1>4. QED
  BY <1>2, <1>3

------------------------------------------------------------------------------
(* What the actions make of the connection.                                   *)

\* Like k, but for what the socket, the buffers and the Channel hold.
SameOwner(k, u) == u.state = k.state /\ u.authenticated = k.authenticated

LEMMA PeerSendsDef ==
  ASSUME conn \in Connections, PeerSends
  PROVE  \E r \in Requests \ asked :
           /\ conn' \in Connections /\ asked' = asked \cup {r}
           /\ SameOwner(conn, conn') /\ SameOut(conn, conn')
           /\ Ahead(conn') = Append(Ahead(conn), r)
           /\ conn'.registered = conn.registered
           /\ conn.registered => Reports(conn')
           /\ conn'.interest = conn.interest
           /\ Consistent(conn) => Consistent(conn')
<1>1. PICK r \in Requests \ asked :
        /\ conn' = Edge([conn EXCEPT !.rx = Append(@, r)])
        /\ asked' = asked \cup {r}
  BY DEF PeerSends
<1>2. PICK i \in Seq(Requests), x \in Seq(Requests) : i = conn.input /\ x = conn.rx
  BY DEF Connections
<1>3. Append(x, r) \in Seq(Requests) /\ i \o Append(x, r) = Append(i \o x, r)
  OBVIOUS
<1>4. PICK k \in Connections : k = [conn EXCEPT !.rx = Append(@, r)]
  <2>1. [conn EXCEPT !.rx = Append(@, r)] \in Connections
    BY <1>2, <1>3 DEF Connections
  <2>2. QED
    BY <2>1
<1>5. /\ SameOwner(conn, k) /\ SameOut(conn, k) /\ SameChannel(conn, k)
      /\ k.input = i /\ k.rx = Append(x, r)
  BY <1>2, <1>4 DEF Connections, SameOwner, SameOut, SameChannel
<1>6. Consistent(conn) => Consistent(k)
  BY <1>5 DEF Consistent, SameOwner, SameOut, SameChannel
<1>7. PICK u : u = conn'
  OBVIOUS
<1>8. /\ u \in Connections /\ SameData(k, u) /\ SameOut(k, u)
      /\ u.state = k.state /\ u.interest = k.interest /\ u.registered = k.registered
      /\ u.registered => Reports(u)
      /\ Consistent(k) => Consistent(u)
  BY <1>1, <1>4, <1>7, EdgeDef
<1>9. /\ SameOwner(conn, u) /\ SameOut(conn, u)
      /\ u.registered = conn.registered /\ u.interest = conn.interest
  BY <1>5, <1>8 DEF SameOwner, SameOut, SameData, SameChannel
<1>10. Ahead(u) = Append(Ahead(conn), r)
  BY <1>2, <1>3, <1>5, <1>8 DEF Ahead, SameData
<1>11. QED
  BY <1>1, <1>6, <1>7, <1>8, <1>9, <1>10

LEMMA PeerFinishesDef ==
  ASSUME conn \in Connections, PeerFinishes
  PROVE  /\ conn' \in Connections
         /\ SameOwner(conn, conn') /\ SameOut(conn, conn')
         /\ Ahead(conn') = Ahead(conn)
         /\ conn'.registered = conn.registered
         /\ conn.registered => Reports(conn')
         /\ conn'.interest = conn.interest
         /\ Consistent(conn) => Consistent(conn')
<1>1. PICK k \in Connections : k = [conn EXCEPT !.eof = TRUE]
  <2>1. [conn EXCEPT !.eof = TRUE] \in Connections
    BY DEF Connections
  <2>2. QED
    BY <2>1
<1>2. /\ SameOwner(conn, k) /\ SameOut(conn, k) /\ SameChannel(conn, k)
      /\ k.input = conn.input /\ k.rx = conn.rx
  BY <1>1 DEF Connections, SameOwner, SameOut, SameChannel
<1>3. Consistent(conn) => Consistent(k)
  BY <1>2 DEF Consistent, SameOwner, SameOut, SameChannel
<1>4. PICK u : u = conn'
  OBVIOUS
<1>5. /\ u \in Connections /\ SameData(k, u) /\ SameOut(k, u)
      /\ u.state = k.state /\ u.interest = k.interest /\ u.registered = k.registered
      /\ u.registered => Reports(u)
      /\ Consistent(k) => Consistent(u)
  BY <1>1, <1>4, EdgeDef DEF PeerFinishes
<1>6. /\ SameOwner(conn, u) /\ SameOut(conn, u) /\ Ahead(u) = Ahead(conn)
      /\ u.registered = conn.registered /\ u.interest = conn.interest
  BY <1>2, <1>5 DEF SameOwner, SameOut, SameData, SameChannel, Ahead
<1>7. QED
  BY <1>3, <1>4, <1>5, <1>6

\* A reset takes what is in the socket, both ways.
LEMMA PeerResetsDef ==
  ASSUME conn \in Connections, PeerResets
  PROVE  /\ conn' \in Connections
         /\ SameOwner(conn, conn') /\ conn'.output = conn.output /\ conn'.wire = <<>>
         /\ conn'.input = conn.input /\ conn'.rx = <<>>
         /\ conn'.registered = conn.registered
         /\ conn.registered => Reports(conn')
         /\ conn'.interest = conn.interest
         /\ Consistent(conn) => Consistent(conn')
<1>1. PICK k \in Connections :
        k = [conn EXCEPT !.reset = TRUE, !.rx = <<>>, !.wire = <<>>]
  <2>1. <<>> \in Seq(Requests)
    OBVIOUS
  <2>2. [conn EXCEPT !.reset = TRUE, !.rx = <<>>, !.wire = <<>>] \in Connections
    BY <2>1 DEF Connections
  <2>3. QED
    BY <2>2
<1>2. /\ SameOwner(conn, k) /\ SameChannel(conn, k)
      /\ k.output = conn.output /\ k.wire = <<>>
      /\ k.input = conn.input /\ k.rx = <<>>
  BY <1>1 DEF Connections, SameOwner, SameChannel
<1>3. Consistent(conn) => Consistent(k)
  BY <1>2 DEF Consistent, SameOwner, SameChannel
<1>4. PICK u : u = conn'
  OBVIOUS
<1>5. /\ u \in Connections /\ SameData(k, u) /\ SameOut(k, u)
      /\ u.state = k.state /\ u.interest = k.interest /\ u.registered = k.registered
      /\ u.registered => Reports(u)
      /\ Consistent(k) => Consistent(u)
  BY <1>1, <1>4, EdgeDef DEF PeerResets
<1>6. /\ SameOwner(conn, u) /\ u.output = conn.output /\ u.wire = <<>>
      /\ u.input = conn.input /\ u.rx = <<>>
      /\ u.registered = conn.registered /\ u.interest = conn.interest
  BY <1>2, <1>5 DEF SameOwner, SameOut, SameData, SameChannel
<1>7. QED
  BY <1>3, <1>4, <1>5, <1>6

LEMMA PeerReadsDef ==
  ASSUME conn \in Connections, Len(conn.wire) <= SendRoom, PeerReads
  PROVE  /\ conn' \in Connections
         /\ SameOwner(conn, conn') /\ conn'.output = conn.output
         /\ conn.wire # <<>> /\ conn'.wire = Tail(conn.wire)
         /\ received' = Append(received, Head(conn.wire))
         /\ conn'.input = conn.input /\ conn'.rx = conn.rx
         /\ conn'.eof = conn.eof /\ conn'.reset = conn.reset
         /\ conn'.registered = conn.registered
         /\ \/ conn.registered => Reports(conn')
            \/ Len(conn.wire) < SendRoom /\ conn'.edge = conn.edge
         /\ conn'.interest = conn.interest
         /\ Consistent(conn) => Consistent(conn')
<1>1. PICK w \in Seq(Requests) : w = conn.wire /\ w # <<>>
  BY DEF Connections, PeerReads
<1>2. Tail(w) \in Seq(Requests) /\ Len(w) \in Nat /\ SendRoom \in Nat
  BY <1>1, RoomIsPositive
<1>3. PICK k \in Connections : k = [conn EXCEPT !.wire = Tail(@)]
  <2>1. [conn EXCEPT !.wire = Tail(@)] \in Connections
    BY <1>1, <1>2 DEF Connections
  <2>2. QED
    BY <2>1
<1>4. /\ SameOwner(conn, k) /\ SameChannel(conn, k)
      /\ k.output = conn.output /\ k.wire = Tail(conn.wire)
      /\ k.input = conn.input /\ k.rx = conn.rx
      /\ k.eof = conn.eof /\ k.reset = conn.reset
  BY <1>3 DEF Connections, SameOwner, SameChannel
<1>5. Consistent(conn) => Consistent(k)
  BY <1>4 DEF Consistent, SameOwner, SameChannel
<1>6. PICK u : u = conn'
  OBVIOUS
<1>7. u = IF Len(conn.wire) = SendRoom THEN Edge(k) ELSE k
  BY <1>3, <1>6 DEF PeerReads
<1>8. received' = Append(received, Head(conn.wire))
  BY DEF PeerReads
<1>9. CASE Len(conn.wire) = SendRoom
  <2>1. /\ u \in Connections /\ SameData(k, u) /\ SameOut(k, u)
        /\ u.state = k.state /\ u.interest = k.interest /\ u.registered = k.registered
        /\ u.registered => Reports(u)
        /\ Consistent(k) => Consistent(u)
    BY <1>7, <1>9, EdgeDef
  <2>2. /\ SameOwner(conn, u) /\ u.output = conn.output /\ u.wire = Tail(conn.wire)
        /\ u.input = conn.input /\ u.rx = conn.rx
        /\ u.eof = conn.eof /\ u.reset = conn.reset
        /\ u.registered = conn.registered /\ u.interest = conn.interest
    BY <1>4, <2>1 DEF SameOwner, SameOut, SameData, SameChannel
  <2>3. QED
    BY <1>1, <1>5, <1>6, <1>8, <2>1, <2>2
<1>10. CASE Len(conn.wire) # SendRoom
  <2>1. u = k /\ Len(conn.wire) < SendRoom
    BY <1>1, <1>2, <1>7, <1>10
  <2>2. QED
    BY <1>1, <1>4, <1>5, <1>6, <1>8, <2>1 DEF SameChannel
<1>11. QED
  BY <1>9, <1>10

LEMMA SentByAnother ==
  ASSUME NEW a, NEW k, NEW c, NEW u, NEW r, Sent(a, r, k),
         a.state = c.state, SameChannel(a, c), SameOut(a, c),
         u.state = k.state, SameChannel(k, u), SameOut(k, u),
         u.rx = k.rx, u.eof = k.eof, u.reset = k.reset
  PROVE  Sent(c, r, u)
<1>1. Reports(k) => Reports(u)
  <2>1. \A e : IsReady(u, e) <=> IsReady(k, e)
    BY ReadyDef DEF SameOut
  <2>2. QED
    BY <2>1 DEF Reports, SameChannel
<1>2. CASE a.state = "kConnected" /\ ClosedChannel(k) /\ SameOut(a, k)
  BY <1>2 DEF Sent, ClosedChannel, SameChannel, SameOut
<1>3. CASE k.state = a.state /\ SameChannel(a, k) /\ SameOut(a, k)
  BY <1>3 DEF Sent, SameChannel, SameOut
<1>4. CASE /\ a.state = "kConnected" /\ k.state = "kConnected" /\ SameChannel(a, k)
           /\ a.output = <<>> /\ k.output = <<>>
           /\ k.wire = Append(a.wire, r) /\ Len(a.wire) < SendRoom
  BY <1>4 DEF Sent, SameChannel, SameOut
<1>5. CASE /\ a.state = "kConnected" /\ k.state = "kConnected" /\ k.registered /\ Reports(k)
           /\ k.interest = a.interest \cup {"OUT"}
           /\ k.output = Append(a.output, r) /\ k.wire = a.wire
  BY <1>1, <1>5 DEF Sent, SameChannel, SameOut
<1>6. QED
  BY <1>2, <1>3, <1>4, <1>5 DEF Sent

\* The next request is taken off the input; it goes to the pool, or the answer
\* is sent.
Decodes(r) ==
  /\ at = "decode" /\ conn.input # <<>> /\ r = Head(conn.input)
  /\ conn' \in Connections
  /\ conn'.input = Tail(conn.input) /\ conn'.rx = conn.rx
  /\ conn'.eof = conn.eof /\ conn'.reset = conn.reset
  /\ conn'.authenticated => conn.authenticated \/ r \in GoodAuth
  /\ Sent(conn, r, conn')
  /\ todo' = todo \o EraseIfClosed(conn, conn')
  /\ served' = Append(served, r)
  /\ \/ pooled' = pooled
     \/ /\ r \in Async /\ ~Refused
        /\ pooled' = pooled \cup {r} /\ SameOut(conn, conn')
  /\ UNCHANGED <<inMap, at, revents, batch, replying, letting, stopped, asked, received>>

LEMMA DecodeNextDef ==
  ASSUME conn \in Connections, NEW r \in Requests, NEW a \in Connections,
         NEW k \in Connections, DecodeNext(r, k),
         SameOut(conn, a), SameChannel(conn, a), a.state = conn.state,
         a.input = conn.input, a.rx = conn.rx, a.eof = conn.eof, a.reset = conn.reset,
         a.authenticated => conn.authenticated \/ r \in GoodAuth,
         SameData(a, k), Sent(a, r, k),
         \/ pooled' = pooled
         \/ r \in Async /\ ~Refused /\ pooled' = pooled \cup {r} /\ SameOut(conn, k)
  PROVE  Decodes(r)
<1>1. PICK u : u = conn'
  OBVIOUS
<1>2. u = [k EXCEPT !.input = Tail(@)]
  BY <1>1 DEF DecodeNext, Becomes
<1>3. conn.input \in Seq(Requests) /\ conn.input # <<>> /\ k.input = conn.input
  BY DEF DecodeNext, Connections, SameData
<1>4. Tail(k.input) \in Seq(Requests)
  BY <1>3
<1>5. /\ u \in Connections /\ SameOut(k, u) /\ SameChannel(k, u) /\ u.state = k.state
      /\ u.input = Tail(conn.input) /\ u.rx = k.rx /\ u.eof = k.eof /\ u.reset = k.reset
      /\ u.authenticated = k.authenticated
  BY <1>2, <1>3, <1>4 DEF Connections, SameOut, SameChannel
<1>6. Sent(conn, r, u)
  <2>1. a.state = conn.state /\ SameChannel(a, conn) /\ SameOut(a, conn)
    BY DEF SameOut, SameChannel
  <2>2. QED
    BY <1>5, <2>1, SentByAnother
<1>7. SameOut(conn, k) => SameOut(conn, u)
  BY <1>5 DEF SameOut
<1>8. todo' = todo \o EraseIfClosed(conn, u)
  BY <1>1, <1>2 DEF DecodeNext, Becomes
<1>9. /\ u.rx = conn.rx /\ u.eof = conn.eof /\ u.reset = conn.reset
      /\ u.authenticated => conn.authenticated \/ r \in GoodAuth
  BY <1>5 DEF SameData
<1>10. QED
  BY <1>1, <1>5, <1>6, <1>7, <1>8, <1>9 DEF Decodes, DecodeNext, loopVars, peerVars

LEMMA DecodeStep ==
  ASSUME conn \in Connections, NEW r \in Requests,
         AnswerAuthenticate(r) \/ AnswerAtOnce(r) \/ AnswerBusy(r) \/ GiveToPool(r)
  PROVE  Decodes(r)
<1>1. SameOut(conn, conn) /\ SameChannel(conn, conn) /\ SameData(conn, conn)
  BY DEF SameOut, SameChannel, SameData
<1>2. CASE AnswerAuthenticate(r)
  <2>1. PICK b \in BOOLEAN : b = (conn.authenticated \/ (AuthEnabled /\ r \in GoodAuth))
    OBVIOUS
  <2>2. PICK a \in Connections : a = [conn EXCEPT !.authenticated = b]
    <3>1. [conn EXCEPT !.authenticated = b] \in Connections
      BY DEF Connections
    <3>2. QED
      BY <3>1
  <2>3. a = Authenticated(r)
    BY <2>1, <2>2 DEF Authenticated, Connections
  <2>4. /\ SameOut(conn, a) /\ SameChannel(conn, a) /\ a.state = conn.state
        /\ a.input = conn.input /\ a.rx = conn.rx /\ a.eof = conn.eof
        /\ a.reset = conn.reset /\ a.authenticated = b
    BY <2>2 DEF Connections, SameOut, SameChannel
  <2>5. PICK k \in Connections : k = Send(a, r) /\ SameData(a, k) /\ Sent(a, r, k)
    BY SendIsSent
  <2>6. DecodeNext(r, k) /\ pooled' = pooled
    BY <1>2, <2>3, <2>5 DEF AnswerAuthenticate
  <2>7. a.authenticated => conn.authenticated \/ r \in GoodAuth
    BY <2>1, <2>4
  <2>8. QED
    BY <2>4, <2>5, <2>6, <2>7, DecodeNextDef
<1>3. CASE AnswerAtOnce(r) \/ AnswerBusy(r)
  <2>1. PICK k \in Connections : k = Send(conn, r) /\ SameData(conn, k) /\ Sent(conn, r, k)
    BY SendIsSent
  <2>2. DecodeNext(r, k) /\ pooled' = pooled
    BY <1>3, <2>1 DEF AnswerAtOnce, AnswerBusy
  <2>3. QED
    BY <1>1, <2>1, <2>2, DecodeNextDef
<1>4. CASE GiveToPool(r)
  <2>1. DecodeNext(r, conn) /\ r \in Async /\ ~Refused /\ pooled' = pooled \cup {r}
    BY <1>4 DEF GiveToPool
  <2>2. Sent(conn, r, conn)
    BY <1>1 DEF Sent
  <2>3. QED
    BY <1>1, <2>1, <2>2, DecodeNextDef
<1>5. QED
  BY <1>2, <1>3, <1>4

\* A functor runs: it is the first of the queue.
LEMMA RunsFirst ==
  ASSUME TypeOK, NEW kind, RunFunctor(kind)
  PROVE  /\ todo # <<>> /\ Head(todo) \in Functors /\ Head(todo).kind = kind
         /\ Tail(todo) \in Seq(Functors) /\ Owed(Tail(todo)) \subseteq Owed(todo)
         /\ batch' \in 0 .. Len(Tail(todo))
         /\ at = "functors" /\ at' = at /\ revents' = revents
         /\ UNCHANGED <<poolVars, stopped, peerVars, served>>
<1>1. /\ todo \in Seq(Functors) /\ batch \in 0 .. Len(todo) /\ batch > 0
      /\ batch' = batch - 1 /\ Len(todo) \in Nat
  BY DEF TypeOK, RunFunctor
<1>2. todo # <<>>
  BY <1>1
<1>3. /\ Head(todo) \in Functors /\ Tail(todo) \in Seq(Functors)
      /\ Len(Tail(todo)) = Len(todo) - 1
  BY <1>1, <1>2, TailOfQueue
<1>4. Owed(Tail(todo)) \subseteq Owed(todo)
  BY <1>1, <1>2, OwedTail
<1>5. batch' \in 0 .. Len(Tail(todo))
  BY <1>1, <1>3
<1>6. QED
  BY <1>2, <1>3, <1>4, <1>5 DEF RunFunctor

LEMMA HandlerTypes ==
  ASSUME TypeOK, Origins, NEW u \in Connections, NEW q \in Seq(Functors),
         Owed(q) \subseteq Owed(todo), batch' \in 0 .. Len(q),
         conn' = u, todo' = q \o EraseIfClosed(conn, u),
         Range(Ahead(u)) \subseteq asked, Range(Unread(u)) \subseteq Range(served),
         Len(u.wire) <= SendRoom, inMap' \in BOOLEAN,
         at' \in {"poll", "event", "decode", "write", "swap", "functors"},
         revents' = revents, UNCHANGED <<poolVars, stopped, peerVars, served>>
  PROVE  TypeOK' /\ Origins'
<1>1. PICK a : a = todo'
  OBVIOUS
<1>2. /\ a \in Seq(Functors) /\ Len(a) \in Nat /\ Len(q) <= Len(a) /\ Owed(a) = Owed(q)
  BY <1>1, HandlerQueues
<1>3. batch' \in 0 .. Len(a)
  <2>1. Len(q) \in Nat
    OBVIOUS
  <2>2. QED
    BY <1>2, <2>1
<1>4. TypeOK'
  BY <1>1, <1>2, <1>3 DEF TypeOK, poolVars, peerVars
<1>5. Origins'
  BY <1>1, <1>2 DEF Origins, poolVars, peerVars
<1>6. QED
  BY <1>4, <1>5

LEMMA BuffersAreSequences ==
  ASSUME NEW k \in Connections
  PROVE  /\ Ahead(k) \in Seq(Requests) /\ Unread(k) \in Seq(Requests)
         /\ k.input \in Seq(Requests) /\ k.rx \in Seq(Requests)
         /\ k.wire \in Seq(Requests) /\ k.output \in Seq(Requests)
<1>1. PICK i \in Seq(Requests), x \in Seq(Requests) : i = k.input /\ x = k.rx
  BY DEF Connections
<1>2. PICK w \in Seq(Requests), o \in Seq(Requests) : w = k.wire /\ o = k.output
  BY DEF Connections
<1>3. i \o x \in Seq(Requests) /\ w \o o \in Seq(Requests)
  OBVIOUS
<1>4. QED
  BY <1>1, <1>2, <1>3 DEF Ahead, Unread

LEMMA RangeOfSent ==
  ASSUME NEW k \in Connections, NEW r \in Requests, NEW s \in Connections, Sent(k, r, s)
  PROVE  Range(Unread(s)) \subseteq Range(Unread(k)) \cup {r}
<1>1. PICK o \in Seq(Requests) : o = Unread(k)
  BY BuffersAreSequences
<1>2. Range(Append(o, r)) = Range(o) \cup {r}
  BY RangeOfAppend
<1>3. QED
  BY <1>1, <1>2, SentStaysInOrder

\* What decoding takes off the input goes to the end of the served requests.
LEMMA DecodeMoves ==
  ASSUME conn \in Connections, served \in Seq(Requests), NEW r \in Requests, Decodes(r)
  PROVE  /\ Ahead(conn) = <<r>> \o Ahead(conn')
         /\ served' \o Ahead(conn') = served \o Ahead(conn)
         /\ Range(Ahead(conn)) = Range(Ahead(conn')) \cup {r}
         /\ Range(served') = Range(served) \cup {r}
<1>1. PICK i \in Seq(Requests), x \in Seq(Requests) :
        i = conn.input /\ x = conn.rx /\ i # <<>> /\ r = Head(i)
  BY DEF Connections, Decodes
<1>2. PICK h \in Seq(Requests), t \in Seq(Requests) : h = <<r>> /\ t = Tail(i)
  <2>1. <<r>> \in Seq(Requests) /\ Tail(i) \in Seq(Requests)
    BY <1>1
  <2>2. QED
    BY <2>1
<1>3. i = h \o t
  BY <1>1, <1>2, RangeOfTail
<1>4. (h \o t) \o x = h \o (t \o x)
  BY Regroup
<1>5. Ahead(conn) = h \o (t \o x) /\ Ahead(conn') = t \o x
  BY <1>1, <1>2, <1>3, <1>4 DEF Ahead, Decodes
<1>6. PICK b \in Seq(Requests) : b = t \o x
  <2>1. t \o x \in Seq(Requests)
    OBVIOUS
  <2>2. QED
    BY <2>1
<1>7. served' = served \o h
  <2>1. Append(served, r) = served \o <<r>>
    OBVIOUS
  <2>2. QED
    BY <1>2, <2>1 DEF Decodes
<1>8. (served \o h) \o b = served \o (h \o b)
  BY Regroup
<1>9. Range(h \o b) = Range(h) \cup Range(b) /\ Range(h) = {r}
  <2>1. DOMAIN h = {1} /\ h[1] = r
    BY <1>2
  <2>2. Range(h) = {r}
    BY <2>1 DEF Range
  <2>3. QED
    BY <2>2, RangeConcatenation
<1>10. Range(served') = Range(served) \cup {r}
  BY <1>7, <1>9, RangeConcatenation
<1>11. QED
  BY <1>2, <1>5, <1>6, <1>7, <1>8, <1>9, <1>10

LEMMA EmptyBuffer ==
  ASSUME NEW s \in Seq(Requests)
  PROVE  s \o <<>> = s /\ <<>> \o s = s /\ <<>> \in Seq(Requests)
  OBVIOUS

LEMMA ServedTypes ==
  ASSUME TypeOK
  PROVE  served \in Seq(Requests) /\ received \in Seq(Requests)
<1>1. /\ asked \subseteq Requests /\ served \in Seq(asked)
      /\ received \in Seq(Range(served))
  BY DEF TypeOK
<1>2. Range(served) \subseteq Requests
  BY <1>1, RangeInSet
<1>3. Range(received) \subseteq Requests
  BY <1>1, <1>2, RangeInSet
<1>4. QED
  BY <1>1, <1>2, <1>3, RangeInSet

\* The IO loop keeps the types and the origins.
LEMMA LoopTypes ==
  ASSUME TypeOK, Origins, LoopRuns
  PROVE  TypeOK' /\ Origins'
<1> USE DEF poolVars, peerVars, loopVars
<1>1. /\ conn \in Connections /\ todo \in Seq(Functors) /\ batch \in 0 .. Len(todo)
      /\ Len(todo) \in Nat /\ Len(conn.wire) <= SendRoom
      /\ Range(Ahead(conn)) \subseteq asked /\ Range(Unread(conn)) \subseteq Range(served)
      /\ inMap \in BOOLEAN
  BY DEF TypeOK, Origins
<1>2. Owed(todo) \subseteq Owed(todo)
  OBVIOUS
<1>3. CASE PollReturns
  <2>1. PICK e \in BOOLEAN : e = (conn.edge /\ conn.interest = {} /\ Reported # {})
    OBVIOUS
  <2>2. conn' = [conn EXCEPT !.edge = e]
    BY <1>1, <1>3, <2>1 DEF PollReturns, Connections
  <2>3. conn' \in Connections /\ SameOut(conn, conn') /\ Ahead(conn') = Ahead(conn)
    BY <1>1, <2>2 DEF Connections, SameOut, Ahead
  <2>4. revents' \subseteq {"IN", "OUT", "ERR", "HUP"}
    BY <1>1, <1>3 DEF PollReturns, Reported, ReadyEvents, Connections
  <2>5. TypeOK'
    BY <1>3, <2>3, <2>4 DEF TypeOK, PollReturns
  <2>6. Origins'
    BY <1>3, <2>3 DEF Origins, PollReturns, SameOut, Unread
  <2>7. QED
    BY <2>5, <2>6
<1>4. CASE HandleFailure
  <2>1. PICK u : u = HandleClose(conn)
    OBVIOUS
  <2>2. u \in Connections /\ SameData(conn, u) /\ SameOut(conn, u)
    BY <1>1, <2>1, CloseDef
  <2>3. Ahead(u) = Ahead(conn) /\ Unread(u) = Unread(conn) /\ u.wire = conn.wire
    BY <2>2 DEF SameData, SameOut, Ahead, Unread
  <2>4. conn' = u /\ todo' = todo \o EraseIfClosed(conn, u)
    BY <1>4, <2>1 DEF HandleFailure, Becomes
  <2>5. QED
    BY <1>1, <1>2, <1>4, <2>2, <2>3, <2>4, HandlerTypes DEF HandleFailure
<1>5. CASE HandleRead
  <2>1. PICK v : v = TakeInput(conn)
    OBVIOUS
  <2>2. v \in Connections /\ SameOut(conn, v) /\ Ahead(v) = Ahead(conn)
    BY <1>1, <2>1, TakeInputDef
  <2>3. PICK h : h = HandleClose(v)
    OBVIOUS
  <2>4. h \in Connections /\ SameData(v, h) /\ SameOut(v, h)
    BY <2>2, <2>3, CloseDef
  <2>5. PICK u \in {v, h} : conn' = u /\ todo' = todo \o EraseIfClosed(conn, u)
    BY <1>5, <2>1, <2>3 DEF HandleRead, Becomes
  <2>6. u \in Connections /\ Ahead(u) = Ahead(conn) /\ SameOut(conn, u)
    BY <2>2, <2>4, <2>5 DEF SameData, SameOut, Ahead
  <2>7. Unread(u) = Unread(conn) /\ u.wire = conn.wire
    BY <2>6 DEF SameOut, Unread
  <2>8. at' \in {"poll", "event", "decode", "write", "swap", "functors"}
    BY <1>5 DEF HandleRead
  <2>9. QED
    BY <1>1, <1>2, <1>5, <2>5, <2>6, <2>7, <2>8, HandlerTypes DEF HandleRead
<1>6. CASE Write /\ "OUT" \in revents
  <2>1. PICK u : u = HandleWrite(conn)
    OBVIOUS
  <2>2. /\ u \in Connections /\ SameData(conn, u)
        /\ Unread(u) = Unread(conn) /\ Len(u.wire) <= SendRoom
    BY <1>1, <2>1, HandleWriteDef
  <2>3. Ahead(u) = Ahead(conn)
    BY <2>2 DEF SameData, Ahead
  <2>4. conn' = u /\ todo' = todo \o EraseIfClosed(conn, u)
    BY <1>6, <2>1 DEF Write, Becomes
  <2>5. QED
    BY <1>1, <1>2, <1>6, <2>2, <2>3, <2>4, HandlerTypes DEF Write
<1>7. ASSUME NEW r \in Requests,
             AnswerAuthenticate(r) \/ AnswerAtOnce(r) \/ AnswerBusy(r) \/ GiveToPool(r)
      PROVE  TypeOK' /\ Origins'
  <2>1. Decodes(r)
    BY <1>1, <1>7, DecodeStep
  <2>2. PICK u \in Connections : u = conn'
    BY <2>1 DEF Decodes
  <2>3. Sent(conn, r, u)
    BY <2>1, <2>2 DEF Decodes
  <2>4. /\ Range(Ahead(conn)) = Range(Ahead(u)) \cup {r}
        /\ Range(served') = Range(served) \cup {r}
    BY <1>1, <2>1, <2>2, DecodeMoves, ServedTypes
  <2>5. Range(Unread(u)) \subseteq Range(Unread(conn)) \cup {r} /\ Len(u.wire) <= SendRoom
    BY <1>1, <2>3, RangeOfSent, SentStaysInOrder
  <2>6. PICK a : a = todo'
    OBVIOUS
  <2>7. a \in Seq(Functors) /\ Len(a) \in Nat /\ Len(todo) <= Len(a) /\ Owed(a) = Owed(todo)
    <3>1. a = todo \o EraseIfClosed(conn, u)
      BY <2>1, <2>2, <2>6 DEF Decodes
    <3>2. QED
      BY <1>1, <3>1, HandlerQueues
  <2>8. PICK s : s = served'
    OBVIOUS
  <2>9. s \in Seq(asked) /\ received \in Seq(Range(s))
    <3>1. r \in asked /\ served \in Seq(asked) /\ received \in Seq(Range(served))
      BY <1>1, <2>4 DEF TypeOK
    <3>2. s \in Seq(asked)
      BY <2>1, <2>8, <3>1 DEF Decodes
    <3>3. Range(received) \subseteq Range(s)
      BY <2>4, <2>8, <3>1, RangeInSet
    <3>4. QED
      BY <3>1, <3>2, <3>3, RangeInSet
  <2>10. pooled' \subseteq Async /\ pooled' \subseteq pooled \cup {r}
    BY <2>1 DEF Decodes, TypeOK
  <2>11. batch \in 0 .. Len(a)
    BY <1>1, <2>7
  <2>12. TypeOK'
    BY <2>1, <2>2, <2>6, <2>7, <2>8, <2>9, <2>10, <2>11 DEF TypeOK, Decodes
  <2>13. Origins'
    BY <1>1, <2>1, <2>2, <2>4, <2>5, <2>6, <2>7, <2>10 DEF Origins, Decodes
  <2>14. QED
    BY <2>12, <2>13
<1>8. CASE RunSetup
  <2>1. PICK u : u = ConnectEstablished(conn)
    OBVIOUS
  <2>2. u \in Connections /\ SameData(conn, u) /\ SameOut(conn, u)
    BY <1>1, <2>1, EstablishedDef
  <2>3. Ahead(u) = Ahead(conn) /\ Unread(u) = Unread(conn) /\ u.wire = conn.wire
    BY <2>2 DEF SameData, SameOut, Ahead, Unread
  <2>4. conn' = u /\ todo' = Tail(todo) \o EraseIfClosed(conn, u) /\ inMap' \in BOOLEAN
    BY <1>8, <2>1 DEF RunSetup, Becomes
  <2>5. RunFunctor("setup")
    BY <1>8 DEF RunSetup
  <2>6. QED
    BY <1>1, <2>2, <2>3, <2>4, <2>5, RunsFirst, HandlerTypes
<1>9. CASE RunReply
  <2>1. RunFunctor("reply")
    BY <1>9 DEF RunReply
  <2>2. PICK r \in Requests : r = Head(todo).req /\ r \in Owed(todo)
    BY <1>1, <2>1, RunsFirst, FunctorDef, OwedTail
  <2>3. PICK u : u = Send(conn, r)
    OBVIOUS
  <2>4. u \in Connections /\ SameData(conn, u) /\ Sent(conn, r, u)
    BY <1>1, <2>3, SendIsSent
  <2>5. Range(Unread(u)) \subseteq Range(Unread(conn)) \cup {r} /\ Len(u.wire) <= SendRoom
    BY <1>1, <2>4, RangeOfSent, SentStaysInOrder
  <2>6. Ahead(u) = Ahead(conn) /\ r \in Range(served)
    BY <2>2, <2>4 DEF SameData, Ahead, Origins
  <2>7. conn' = u /\ todo' = Tail(todo) \o EraseIfClosed(conn, u) /\ inMap' = inMap
    BY <1>9, <2>2, <2>3 DEF RunReply, Becomes
  <2>8. QED
    BY <1>1, <2>1, <2>4, <2>5, <2>6, <2>7, RunsFirst, HandlerTypes
<1>10. CASE RunShutdown
  <2>1. PICK u : u = ShutdownConnection(conn)
    OBVIOUS
  <2>2. u \in Connections /\ SameData(conn, u) /\ SameOut(conn, u)
    BY <1>1, <2>1, ShutdownDef
  <2>3. Ahead(u) = Ahead(conn) /\ Unread(u) = Unread(conn) /\ u.wire = conn.wire
    BY <2>2 DEF SameData, SameOut, Ahead, Unread
  <2>4. conn' = u /\ todo' = Tail(todo) \o EraseIfClosed(conn, u) /\ inMap' = inMap
    BY <1>10, <2>1 DEF RunShutdown, Becomes
  <2>5. RunFunctor("shutdown")
    BY <1>10 DEF RunShutdown
  <2>6. QED
    BY <1>1, <2>2, <2>3, <2>4, <2>5, RunsFirst, HandlerTypes
<1>11. CASE RunErase
  <2>1. /\ Tail(todo) \in Seq(Functors) /\ Owed(Tail(todo)) \subseteq Owed(todo)
        /\ batch' \in 0 .. Len(Tail(todo)) /\ at' = at /\ revents' = revents
        /\ UNCHANGED <<poolVars, stopped, peerVars, served>>
    BY <1>11, RunsFirst DEF RunErase
  <2>2. TypeOK'
    BY <1>11, <2>1 DEF TypeOK, RunErase
  <2>3. Origins'
    BY <1>11, <2>1 DEF Origins, RunErase
  <2>4. QED
    BY <2>2, <2>3
<1>12. CASE Swap
  <2>1. TypeOK'
    BY <1>1, <1>12 DEF Swap, TypeOK
  <2>2. QED
    BY <1>12, <2>1 DEF Swap, Origins
<1>13. CASE NothingToRead \/ DecodeDone \/ IterationDone \/ (Write /\ "OUT" \notin revents)
  BY <1>13 DEF NothingToRead, DecodeDone, IterationDone, Write, TypeOK, Origins
<1>14. QED
  BY <1>3, <1>4, <1>5, <1>6, <1>7, <1>8, <1>9, <1>10, <1>11, <1>12, <1>13
     DEF LoopRuns, Decode

LEMMA PeerTypes ==
  ASSUME TypeOK, Origins, PeerSends \/ PeerFinishes \/ PeerResets \/ PeerReads
  PROVE  TypeOK' /\ Origins'
<1> USE DEF poolVars, peerVars, loopVars
<1>1. /\ conn \in Connections /\ Len(conn.wire) <= SendRoom
      /\ Range(Ahead(conn)) \subseteq asked /\ Range(Unread(conn)) \subseteq Range(served)
      /\ conn.wire \in Seq(Requests) /\ conn.output \in Seq(Requests)
      /\ conn.input \in Seq(Requests) /\ conn.rx \in Seq(Requests)
      /\ Ahead(conn) \in Seq(Requests)
  BY BuffersAreSequences DEF TypeOK, Origins
<1>2. served \in Seq(asked) /\ asked \subseteq Requests /\ Range(served) \subseteq asked
  BY RangeInSet DEF TypeOK
<1>3. CASE PeerSends
  <2>1. PICK r \in Requests \ asked :
          /\ conn' \in Connections /\ asked' = asked \cup {r}
          /\ SameOut(conn, conn')
          /\ Ahead(conn') = Append(Ahead(conn), r)
    BY <1>1, <1>3, PeerSendsDef
  <2>2. Range(Ahead(conn')) = Range(Ahead(conn)) \cup {r}
    BY <1>1, <2>1, RangeOfAppend
  <2>3. served \in Seq(asked') /\ asked' \subseteq Requests
    BY <1>2, <2>1
  <2>4. TypeOK'
    BY <1>3, <2>1, <2>3 DEF TypeOK, PeerSends
  <2>5. Origins'
    BY <1>1, <1>3, <2>1, <2>2 DEF Origins, PeerSends, SameOut, Unread
  <2>6. QED
    BY <2>4, <2>5
<1>4. CASE PeerFinishes
  <2>1. conn' \in Connections /\ SameOut(conn, conn') /\ Ahead(conn') = Ahead(conn)
    BY <1>1, <1>4, PeerFinishesDef
  <2>2. TypeOK'
    BY <1>4, <2>1 DEF TypeOK, PeerFinishes
  <2>3. Origins'
    BY <1>4, <2>1 DEF Origins, PeerFinishes, SameOut, Unread
  <2>4. QED
    BY <2>2, <2>3
<1>5. CASE PeerResets
  <2>1. /\ conn' \in Connections /\ conn'.output = conn.output /\ conn'.wire = <<>>
        /\ conn'.input = conn.input /\ conn'.rx = <<>>
    BY <1>1, <1>5, PeerResetsDef
  <2>2. Ahead(conn') = conn.input /\ Unread(conn') = conn.output
    BY <1>1, <2>1, EmptyBuffer DEF Ahead, Unread
  <2>3. /\ Range(conn.input) \subseteq Range(Ahead(conn))
        /\ Range(conn.output) \subseteq Range(Unread(conn))
    BY <1>1, RangeConcatenation DEF Ahead, Unread
  <2>4. Len(conn'.wire) <= SendRoom
    BY <2>1, RoomIsPositive
  <2>5. TypeOK'
    BY <1>5, <2>1 DEF TypeOK, PeerResets
  <2>6. Origins'
    BY <1>1, <1>5, <2>2, <2>3, <2>4 DEF Origins, PeerResets
  <2>7. QED
    BY <2>5, <2>6
<1>6. CASE PeerReads
  <2>1. /\ conn' \in Connections /\ conn'.output = conn.output
        /\ conn.wire # <<>> /\ conn'.wire = Tail(conn.wire)
        /\ received' = Append(received, Head(conn.wire))
        /\ conn'.input = conn.input /\ conn'.rx = conn.rx
    BY <1>1, <1>6, PeerReadsDef
  <2>2. PICK w \in Seq(Requests), t \in Seq(Requests) :
          w = conn.wire /\ t = Tail(w) /\ w # <<>>
    BY <1>1, <2>1, RangeOfTail
  <2>3. /\ Range(w) = Range(t) \cup {Head(w)} /\ Head(w) \in Requests
        /\ Len(t) <= Len(w) /\ Len(t) \in Nat /\ Len(w) \in Nat
    <3>1. Range(w) = Range(t) \cup {Head(w)} /\ Head(w) \in Requests
      BY <2>2, RangeOfTail
    <3>2. Len(Tail(w)) = Len(w) - 1 /\ Len(w) \in Nat /\ Len(w) # 0
      BY <2>2
    <3>3. QED
      BY <2>2, <3>1, <3>2
  <2>4. Range(Unread(conn')) \subseteq Range(Unread(conn)) /\ Head(w) \in Range(Unread(conn))
    <3>1. PICK o \in Seq(Requests) : o = conn.output
      BY <1>1
    <3>2. Range(w \o o) = Range(w) \cup Range(o) /\ Range(t \o o) = Range(t) \cup Range(o)
      BY RangeConcatenation
    <3>3. Unread(conn) = w \o o /\ Unread(conn') = t \o o
      BY <2>1, <2>2, <3>1 DEF Unread
    <3>4. QED
      BY <2>3, <3>2, <3>3
  <2>5. received' \in Seq(Range(served))
    <3>1. received \in Seq(Range(served)) /\ Head(w) \in Range(served)
      BY <1>1, <2>4 DEF TypeOK
    <3>2. QED
      BY <2>1, <2>2, <3>1
  <2>6. Len(conn'.wire) <= SendRoom
    BY <1>1, <2>1, <2>2, <2>3, RoomIsPositive
  <2>7. Ahead(conn') = Ahead(conn)
    BY <2>1 DEF Ahead
  <2>8. TypeOK'
    BY <1>6, <2>1, <2>5 DEF TypeOK, PeerReads
  <2>9. Origins'
    BY <1>1, <1>6, <2>4, <2>6, <2>7 DEF Origins, PeerReads
  <2>10. QED
    BY <2>8, <2>9
<1>7. QED
  BY <1>3, <1>4, <1>5, <1>6

LEMMA ThreadTypes ==
  ASSUME TypeOK, Origins,
         \/ \E r \in Requests : TaskEnds(r) \/ QueueReply(r) \/ LetGo(r)
         \/ ServerStops
  PROVE  TypeOK' /\ Origins'
<1> USE DEF poolVars, peerVars, loopVars
<1>1. /\ todo \in Seq(Functors) /\ batch \in 0 .. Len(todo) /\ Len(todo) \in Nat
      /\ pooled \subseteq Async /\ replying \subseteq Async /\ letting \subseteq Async
  BY DEF TypeOK
<1>2. ASSUME NEW r \in Requests, TaskEnds(r) PROVE TypeOK' /\ Origins'
  <2>1. /\ pooled' \subseteq pooled /\ replying' \subseteq replying \cup {r}
        /\ r \in pooled
    BY <1>2 DEF TaskEnds
  <2>2. QED
    BY <1>1, <1>2, <2>1 DEF TaskEnds, TypeOK, Origins
<1>3. ASSUME NEW r \in Requests, QueueReply(r) PROVE TypeOK' /\ Origins'
  <2>1. PICK f \in Functors : f = Reply(r) /\ f.kind = "reply" /\ f.req = r
    <3>1. Reply(r) \in Functors
      BY DEF Functors
    <3>2. QED
      BY <3>1 DEF Reply
  <2>2. PICK q : q = todo'
    OBVIOUS
  <2>3. q = Append(todo, f) /\ r \in replying
    BY <1>3, <2>1, <2>2 DEF QueueReply
  <2>4. q \in Seq(Functors) /\ batch \in 0 .. Len(q)
    BY <1>1, <2>3
  <2>5. Owed(q) = Owed(todo) \cup {r}
    <3>1. f.kind = "reply" => Owed(q) = Owed(todo) \cup {f.req}
      BY <1>1, <2>3, OwedAppend
    <3>2. QED
      BY <2>1, <3>1
  <2>6. TypeOK'
    BY <1>1, <1>3, <2>2, <2>3, <2>4 DEF QueueReply, TypeOK
  <2>7. Origins'
    BY <1>1, <1>3, <2>2, <2>3, <2>5 DEF QueueReply, Origins
  <2>8. QED
    BY <2>6, <2>7
<1>4. ASSUME NEW r \in Requests, LetGo(r) PROVE TypeOK' /\ Origins'
  BY <1>4 DEF LetGo, TypeOK, Origins
<1>5. CASE ServerStops
  <2>1. PICK f \in Functors : f = Functor("shutdown") /\ f.kind = "shutdown"
    <3>1. Functor("shutdown") \in Functors
      BY DEF Functors
    <3>2. QED
      BY <3>1 DEF Functor
  <2>2. PICK q : q = todo'
    OBVIOUS
  <2>3. q \in {todo, Append(todo, f)}
    BY <1>5, <2>1, <2>2 DEF ServerStops
  <2>4. q \in Seq(Functors) /\ batch \in 0 .. Len(q)
    BY <1>1, <2>3
  <2>5. Owed(q) = Owed(todo)
    BY <1>1, <2>1, <2>3, OwedAppend
  <2>6. TypeOK'
    BY <1>5, <2>2, <2>4 DEF ServerStops, TypeOK
  <2>7. Origins'
    BY <1>5, <2>2, <2>5 DEF ServerStops, Origins
  <2>8. QED
    BY <2>6, <2>7
<1>6. QED
  BY <1>2, <1>3, <1>4, <1>5

LEMMA TypesStep ==
  ASSUME TypeOK, Origins, [Next]_vars
  PROVE  TypeOK' /\ Origins'
<1>1. CASE UNCHANGED vars
  BY <1>1 DEF vars, TypeOK, Origins
<1>2. QED
  BY <1>1, LoopTypes, PeerTypes, ThreadTypes DEF Next

LEMMA TypesInit ==
  ASSUME Init
  PROVE  TypeOK /\ Origins
<1>1. /\ <<>> \in Seq(Requests) /\ <<>> \in Seq({}) /\ <<>> \in Seq(asked)
      /\ <<>> \in Seq(Range(<<>>)) /\ <<>> \o <<>> = <<>> /\ Range(<<>>) = {}
  BY EmptyRange
<1>2. conn \in Connections
  BY <1>1 DEF Init, NewConnection, Connections
<1>3. Functor("setup") \in Functors /\ Functor("setup").kind = "setup"
  BY DEF Functors, Functor
<1>4. todo \in Seq(Functors) /\ Len(todo) = 1 /\ DOMAIN todo = {1} /\ todo[1].kind = "setup"
  BY <1>3 DEF Init
<1>5. Owed(todo) = {}
  BY <1>4 DEF Owed, Replies
<1>6. /\ Ahead(conn) = <<>> /\ Unread(conn) = <<>> /\ Len(conn.wire) <= SendRoom
  BY <1>1, RoomIsPositive DEF Init, NewConnection, Ahead, Unread
<1>7. TypeOK
  <2>1. batch \in 0 .. Len(todo)
    BY <1>4 DEF Init
  <2>2. served \in Seq(asked) /\ received \in Seq(Range(served))
    BY <1>1 DEF Init
  <2>3. QED
    BY <1>2, <1>4, <2>1, <2>2 DEF TypeOK, Init
<1>8. Origins
  BY <1>1, <1>5, <1>6 DEF Origins, Init
<1>9. QED
  BY <1>7, <1>8

------------------------------------------------------------------------------
(* The life of the connection.                                                *)

LEMMA HandledIsSetUp ==
  ASSUME LifeInv, HandlingEvent, revents # {}
  PROVE  conn.state # "none"
  BY DEF LifeInv, BackInEpoll

LEMMA HandlerLife ==
  ASSUME LifeInv, NEW u \in Connections, NEW q \in Seq(Functors),
         Queued(q, conn.state), conn' = u, todo' = q \o EraseIfClosed(conn, u),
         Consistent(u), Onwards(conn, u), inMap' = inMap,
         HandlingEvent' /\ revents' # {} /\ ~BackInEpoll(u) => inMap
  PROVE  LifeInv'
<1>1. PICK a : a = todo'
  OBVIOUS
<1>2. Queued(a, u.state)
  BY <1>1, HandlerQueues
<1>3. /\ u.state = "kConnected" => inMap
      /\ inMap => u.state # "none"
  BY DEF LifeInv, Onwards
<1>4. QED
  BY <1>1, <1>2, <1>3 DEF LifeInv

LEMMA LoopLife ==
  ASSUME TypeOK, Origins, LifeInv, LoopRuns
  PROVE  LifeInv'
<1>1. /\ conn \in Connections /\ todo \in Seq(Functors) /\ Len(conn.wire) <= SendRoom
      /\ Consistent(conn) /\ Queued(todo, conn.state)
  BY DEF TypeOK, Origins, LifeInv
<1>2. ASSUME NEW kind, RunFunctor(kind)
      PROVE  /\ todo # <<>> /\ Head(todo) \in Functors /\ Head(todo).kind = kind
             /\ Tail(todo) \in Seq(Functors) /\ Queued(Tail(todo), conn.state)
             /\ kind = "setup" => conn.state = "none"
             /\ kind = "erase" => conn.state = "kDisconnected"
             /\ ~HandlingEvent'
  <2>1. /\ todo # <<>> /\ Head(todo) \in Functors /\ Head(todo).kind = kind
        /\ Tail(todo) \in Seq(Functors) /\ at' = "functors"
    BY <1>2, RunsFirst
  <2>2. Queued(Tail(todo), conn.state)
    BY <1>1, <2>1, QueuedTail
  <2>3. 1 \in DOMAIN todo /\ todo[1] = Head(todo)
    BY <1>1, <2>1, TailOfQueue
  <2>4. QED
    BY <1>1, <2>1, <2>2, <2>3 DEF Queued, HandlingEvent
<1>3. CASE PollReturns
  <2>1. PICK e \in BOOLEAN : e = (conn.edge /\ conn.interest = {} /\ Reported # {})
    OBVIOUS
  <2>2. conn' = [conn EXCEPT !.edge = e]
    BY <1>1, <1>3, <2>1 DEF PollReturns, Connections
  <2>3. /\ conn'.state = conn.state /\ conn'.interest = conn.interest
        /\ conn'.registered = conn.registered /\ conn'.output = conn.output
        /\ conn'.edge = e
    BY <1>1, <2>2 DEF Connections
  <2>4. Consistent(conn')
    BY <1>1, <2>1, <2>3 DEF Consistent
  <2>5. revents' # {} /\ ~BackInEpoll(conn') => inMap
    <3>1. SUFFICES ASSUME revents' # {} PROVE BackInEpoll(conn') \/ inMap
      OBVIOUS
    <3>2. conn.edge
      BY <1>3, <3>1 DEF PollReturns, Reported
    <3>3. conn.registered /\ conn.state \in {"kConnected", "kDisconnected"}
      BY <1>1, <3>2 DEF Consistent, Connections
    <3>4. QED
      BY <2>3, <3>3 DEF LifeInv, BackInEpoll, Consistent
  <2>6. QED
    BY <1>3, <2>3, <2>4, <2>5 DEF PollReturns, LifeInv
<1>4. CASE HandleFailure
  <2>1. PICK u : u = HandleClose(conn)
    OBVIOUS
  <2>2. u \in Connections
    BY <1>1, <2>1, CloseDef
  <2>3. conn.state # "none"
    BY <1>4, HandledIsSetUp DEF HandleFailure, HandlingEvent
  <2>4. Consistent(u) /\ Onwards(conn, u)
    BY <1>1, <2>1, <2>3, CloseIsConsistent
  <2>5. conn' = u /\ todo' = todo \o EraseIfClosed(conn, u)
    BY <1>4, <2>1 DEF HandleFailure, Becomes
  <2>6. ~HandlingEvent' /\ inMap' = inMap
    BY <1>4 DEF HandleFailure, HandlingEvent
  <2>7. QED
    BY <1>1, <2>2, <2>4, <2>5, <2>6, HandlerLife
<1>5. CASE HandleRead
  <2>1. PICK v : v = TakeInput(conn)
    OBVIOUS
  <2>2. v \in Connections /\ v.state = conn.state /\ SameChannel(conn, v) /\ Consistent(v)
    BY <1>1, <2>1, TakeInputDef, TakeIsConsistent
  <2>3. conn.state # "none" /\ revents # {} /\ HandlingEvent
    BY <1>5, HandledIsSetUp DEF HandleRead, HandlingEvent
  <2>4. PICK h : h = HandleClose(v)
    OBVIOUS
  <2>5. /\ h \in Connections /\ Consistent(h) /\ Onwards(v, h)
        /\ v.state = "kDisconnected" => h = v
    BY <2>2, <2>3, <2>4, CloseDef, CloseIsConsistent
  <2>6. PICK u \in {v, h} : conn' = u /\ todo' = todo \o EraseIfClosed(conn, u)
    BY <1>5, <2>1, <2>4 DEF HandleRead, Becomes
  <2>7. u \in Connections /\ Consistent(u) /\ Onwards(conn, u)
    BY <2>2, <2>5 DEF Onwards
  <2>8. BackInEpoll(conn) => BackInEpoll(u)
    BY <2>2, <2>5 DEF BackInEpoll, SameChannel
  <2>9. ~BackInEpoll(u) => inMap
    BY <2>3, <2>8 DEF LifeInv
  <2>10. QED
    BY <1>1, <1>5, <2>6, <2>7, <2>9, HandlerLife DEF HandleRead
<1>6. CASE Write /\ "OUT" \in revents
  <2>1. PICK u : u = HandleWrite(conn)
    OBVIOUS
  <2>2. u \in Connections
    BY <1>1, <2>1, HandleWriteDef
  <2>3. conn.state # "none"
    BY <1>6, HandledIsSetUp DEF Write, HandlingEvent
  <2>4. Consistent(u) /\ Onwards(conn, u)
    BY <1>1, <2>1, <2>3, WriteIsConsistent
  <2>5. conn' = u /\ todo' = todo \o EraseIfClosed(conn, u)
    BY <1>6, <2>1 DEF Write, Becomes
  <2>6. ~HandlingEvent' /\ inMap' = inMap
    BY <1>6 DEF Write, HandlingEvent
  <2>7. QED
    BY <1>1, <2>2, <2>4, <2>5, <2>6, HandlerLife
<1>7. ASSUME NEW r \in Requests,
             AnswerAuthenticate(r) \/ AnswerAtOnce(r) \/ AnswerBusy(r) \/ GiveToPool(r)
      PROVE  LifeInv'
  <2>1. Decodes(r)
    BY <1>1, <1>7, DecodeStep
  <2>2. PICK u \in Connections : u = conn'
    BY <2>1 DEF Decodes
  <2>3. Sent(conn, r, u) /\ todo' = todo \o EraseIfClosed(conn, u)
    BY <2>1, <2>2 DEF Decodes
  <2>4. Consistent(u) /\ Onwards(conn, u)
    BY <1>1, <2>3, SentIsConsistent
  <2>5. BackInEpoll(conn) => BackInEpoll(u)
    BY <2>3 DEF Sent, BackInEpoll, SameChannel
  <2>6. inMap' = inMap /\ revents' = revents /\ HandlingEvent
    BY <2>1 DEF Decodes, HandlingEvent
  <2>7. revents' # {} /\ ~BackInEpoll(u) => inMap
    BY <2>5, <2>6 DEF LifeInv
  <2>8. QED
    BY <1>1, <2>2, <2>3, <2>4, <2>6, <2>7, HandlerLife
<1>8. CASE RunSetup
  <2>1. PICK u : u = ConnectEstablished(conn)
    OBVIOUS
  <2>2. /\ SameOut(conn, u) /\ u.state = "kConnected"
        /\ u.interest = {"IN"} /\ u.registered
    BY <1>1, <2>1, EstablishedDef
  <2>3. RunFunctor("setup") /\ inMap' = TRUE
    BY <1>8 DEF RunSetup
  <2>4. /\ Tail(todo) \in Seq(Functors) /\ Queued(Tail(todo), conn.state)
        /\ conn.state = "none" /\ todo # <<>> /\ ~HandlingEvent'
    BY <1>2, <2>3
  <2>5. conn' = u /\ todo' = Tail(todo)
    <3>1. EraseIfClosed(conn, u) = <<>>
      BY <2>2 DEF EraseIfClosed, Closes
    <3>2. QED
      BY <1>8, <2>1, <2>4, <3>1 DEF RunSetup, Becomes
  <2>6. Consistent(u)
    BY <1>1, <2>2, <2>4 DEF Consistent, SameOut
  <2>7. Queued(Tail(todo), u.state)
    BY <1>1, <2>4, QueuedTail
  <2>8. QED
    BY <2>2, <2>3, <2>4, <2>5, <2>6, <2>7 DEF LifeInv
<1>9. CASE RunReply
  <2>1. RunFunctor("reply")
    BY <1>9 DEF RunReply
  <2>2. PICK r \in Requests : r = Head(todo).req
    BY <1>2, <2>1, FunctorDef
  <2>3. PICK u : u = Send(conn, r)
    OBVIOUS
  <2>4. u \in Connections /\ Sent(conn, r, u)
    BY <1>1, <2>3, SendIsSent
  <2>5. Consistent(u) /\ Onwards(conn, u)
    BY <1>1, <2>4, SentIsConsistent
  <2>6. conn' = u /\ todo' = Tail(todo) \o EraseIfClosed(conn, u) /\ inMap' = inMap
    BY <1>9, <2>2, <2>3 DEF RunReply, Becomes
  <2>7. QED
    BY <1>2, <2>1, <2>4, <2>5, <2>6, HandlerLife
<1>10. CASE RunShutdown
  <2>1. PICK u : u = ShutdownConnection(conn)
    OBVIOUS
  <2>2. /\ u \in Connections
        /\ conn.state # "kConnected" => u = conn
        /\ conn.state = "kConnected" => ClosedChannel(u)
    BY <1>1, <2>1, ShutdownDef
  <2>3. Consistent(u) /\ Onwards(conn, u)
    BY <1>1, <2>2 DEF Consistent, Onwards, ClosedChannel
  <2>4. conn' = u /\ todo' = Tail(todo) \o EraseIfClosed(conn, u) /\ inMap' = inMap
    BY <1>10, <2>1 DEF RunShutdown, Becomes
  <2>5. RunFunctor("shutdown")
    BY <1>10 DEF RunShutdown
  <2>6. QED
    BY <1>2, <2>2, <2>3, <2>4, <2>5, HandlerLife
<1>11. CASE RunErase
  <2>1. RunFunctor("erase")
    BY <1>11 DEF RunErase
  <2>2. /\ Queued(Tail(todo), conn.state) /\ conn.state = "kDisconnected" /\ ~HandlingEvent'
    BY <1>2, <2>1
  <2>3. QED
    BY <1>11, <2>2 DEF RunErase, LifeInv
<1>12. CASE Swap \/ IterationDone
  BY <1>12 DEF Swap, IterationDone, LifeInv, HandlingEvent
<1>13. CASE NothingToRead \/ DecodeDone \/ (Write /\ "OUT" \notin revents)
  BY <1>13 DEF NothingToRead, DecodeDone, Write, LifeInv, HandlingEvent
<1>14. QED
  BY <1>3, <1>4, <1>5, <1>6, <1>7, <1>8, <1>9, <1>10, <1>11, <1>12, <1>13
     DEF LoopRuns, Decode

LEMMA PeerLife ==
  ASSUME TypeOK, Origins, LifeInv, PeerSends \/ PeerFinishes \/ PeerResets \/ PeerReads
  PROVE  LifeInv'
<1>1. conn \in Connections /\ Len(conn.wire) <= SendRoom /\ Consistent(conn)
  BY DEF TypeOK, Origins, LifeInv
<1>2. /\ SameOwner(conn, conn') /\ Consistent(conn')
      /\ conn'.registered = conn.registered /\ conn'.interest = conn.interest
  BY <1>1, PeerSendsDef, PeerFinishesDef, PeerResetsDef, PeerReadsDef
<1>3. UNCHANGED <<inMap, at, revents, todo>>
  BY DEF PeerSends, PeerFinishes, PeerResets, PeerReads, loopVars
<1>4. QED
  BY <1>2, <1>3 DEF LifeInv, SameOwner, BackInEpoll, HandlingEvent

LEMMA ThreadLife ==
  ASSUME TypeOK, LifeInv,
         \/ \E r \in Requests : TaskEnds(r) \/ QueueReply(r) \/ LetGo(r)
         \/ ServerStops
  PROVE  LifeInv'
<1>1. todo \in Seq(Functors) /\ Queued(todo, conn.state)
  BY DEF TypeOK, LifeInv
<1>2. UNCHANGED <<conn, inMap, at, revents>>
  BY DEF TaskEnds, QueueReply, LetGo, ServerStops, loopVars
<1>3. \/ todo' = todo
      \/ \E f \in Functors : f.kind \in {"reply", "shutdown"} /\ todo' = Append(todo, f)
  <2>1. ASSUME NEW r \in Requests, QueueReply(r)
        PROVE  \E f \in Functors : f.kind = "reply" /\ todo' = Append(todo, f)
    <3>1. Reply(r) \in Functors /\ Reply(r).kind = "reply"
      BY DEF Functors, Reply
    <3>2. QED
      BY <2>1, <3>1 DEF QueueReply
  <2>2. Functor("shutdown") \in Functors /\ Functor("shutdown").kind = "shutdown"
    BY DEF Functors, Functor
  <2>3. QED
    BY <2>1, <2>2 DEF TaskEnds, LetGo, ServerStops
<1>4. PICK q : q = todo'
  OBVIOUS
<1>5. Queued(q, conn.state)
  BY <1>1, <1>3, <1>4, QueuedAppend
<1>6. QED
  BY <1>2, <1>4, <1>5 DEF LifeInv, HandlingEvent

LEMMA LifeStep ==
  ASSUME TypeOK, Origins, LifeInv, [Next]_vars
  PROVE  LifeInv'
<1>1. CASE UNCHANGED vars
  BY <1>1 DEF vars, LifeInv, HandlingEvent
<1>2. QED
  BY <1>1, LoopLife, PeerLife, ThreadLife DEF Next

LEMMA LifeInit ==
  ASSUME Init
  PROVE  LifeInv
<1>1. DOMAIN todo = {1} /\ todo[1].kind = "setup"
  BY DEF Init, Functor
<1>2. QED
  BY <1>1 DEF Init, NewConnection, LifeInv, Consistent, Queued, HandlingEvent

------------------------------------------------------------------------------
(* What epoll has to report.                                                  *)

LEMMA SentIsSeen ==
  ASSUME NEW k \in Connections, NEW r \in Requests, NEW s \in Connections, Sent(k, r, s),
         s.rx = k.rx, s.eof = k.eof, s.reset = k.reset, Consistent(k),
         NEW out \in BOOLEAN, Seen(k, FALSE, out)
  PROVE  Seen(s, FALSE, out)
<1>1. CASE s.state = k.state /\ SameChannel(k, s) /\ SameOut(k, s)
  <2>1. \A e : IsReady(s, e) <=> IsReady(k, e)
    BY <1>1, ReadyDef DEF SameOut
  <2>2. QED
    BY <1>1, <2>1 DEF Seen, SameChannel, SameOut
<1>2. CASE ClosedChannel(s)
  BY <1>2 DEF Seen, ClosedChannel
<1>3. CASE /\ k.state = "kConnected" /\ s.state = "kConnected" /\ SameChannel(k, s)
           /\ s.output = <<>>
  <2>1. IsReady(s, "IN") <=> IsReady(k, "IN")
    BY DEF IsReady
  <2>2. QED
    BY <1>3, <2>1 DEF Seen, SameChannel
<1>4. CASE /\ k.state = "kConnected" /\ Reports(s)
           /\ s.interest = k.interest \cup {"OUT"}
  <2>1. {"IN", "OUT"} \subseteq s.interest
    BY <1>4 DEF Consistent
  <2>2. QED
    BY <1>4, <2>1 DEF Seen, Reports
<1>5. QED
  BY <1>1, <1>2, <1>3, <1>4 DEF Sent

\* What is reported is seen, whatever is being handled.
LEMMA ReportedIsSeen ==
  ASSUME NEW k \in Connections, Consistent(k), k.registered => Reports(k)
  PROVE  Seen(k, FALSE, FALSE)
  BY DEF Seen, Consistent, Reports

LEMMA SeenLater ==
  ASSUME NEW k, Seen(k, FALSE, FALSE), NEW in, NEW out
  PROVE  Seen(k, in, out)
  BY DEF Seen

LEMMA LoopSeen ==
  ASSUME TypeOK, Origins, LifeInv, SeenInv, LoopRuns
  PROVE  SeenInv'
<1>1. /\ conn \in Connections /\ todo \in Seq(Functors) /\ Len(conn.wire) <= SendRoom
      /\ Consistent(conn)
  BY DEF TypeOK, Origins, LifeInv
<1>2. ASSUME NEW kind, RunFunctor(kind)
      PROVE  ~HandlingEvent /\ ~HandlingEvent' /\ at # "event" /\ at' # "event"
  BY <1>2 DEF RunFunctor, HandlingEvent
<1>3. CASE PollReturns
  <2>1. PICK e \in BOOLEAN : e = (conn.edge /\ conn.interest = {} /\ Reported # {})
    OBVIOUS
  <2>2. conn' = [conn EXCEPT !.edge = e]
    BY <1>1, <1>3, <2>1 DEF PollReturns, Connections
  <2>3. /\ conn'.state = conn.state /\ conn'.rx = conn.rx /\ conn'.wire = conn.wire
        /\ conn'.output = conn.output /\ conn'.eof = conn.eof /\ conn'.reset = conn.reset
    BY <1>1, <2>2 DEF Connections
  <2>4. PICK u : u = conn'
    OBVIOUS
  <2>5. \A f : IsReady(u, f) <=> IsReady(conn, f)
    BY <2>3, <2>4, ReadyDef
  <2>6. at' = "event" /\ ~HandlingEvent /\ at # "event" /\ revents' = Reported
    BY <1>3 DEF PollReturns, HandlingEvent
  <2>7. SUFFICES ASSUME conn.state = "kConnected"
                 PROVE  /\ IsReady(conn, "IN") => "IN" \in revents'
                        /\ conn.output # <<>> /\ IsReady(conn, "OUT") => "OUT" \in revents'
    BY <2>3, <2>4, <2>5, <2>6 DEF SeenInv, Seen, HandlingEvent
  <2>8. conn.edge => revents' = ReadyEvents(conn)
    BY <2>6, <2>7 DEF LifeInv, Reported, Alive
  <2>9. /\ "IN" \in conn.interest
        /\ conn.output # <<>> => "OUT" \in conn.interest
    BY <1>1, <2>7 DEF Consistent
  <2>10. QED
    BY <2>6, <2>7, <2>8, <2>9 DEF SeenInv, Seen, ReadyEvents
<1>4. CASE HandleFailure
  <2>1. conn'.state = "kDisconnected"
    BY <1>1, <1>4, CloseDef DEF HandleFailure, Becomes
  <2>2. QED
    BY <2>1 DEF SeenInv, Seen
<1>5. CASE HandleRead
  <2>1. PICK v : v = TakeInput(conn)
    OBVIOUS
  <2>2. /\ v \in Connections /\ v.state = conn.state /\ SameChannel(conn, v)
        /\ SameOut(conn, v) /\ v.eof = conn.eof /\ v.reset = conn.reset /\ v.rx = <<>>
    BY <1>1, <2>1, TakeInputDef
  <2>3. CASE conn.eof \/ conn.reset
    <3>1. conn' = HandleClose(v)
      BY <1>5, <2>1, <2>3 DEF HandleRead, Becomes
    <3>2. conn'.state = "kDisconnected"
      BY <2>2, <3>1, CloseDef
    <3>3. QED
      BY <3>2 DEF SeenInv, Seen
  <2>4. CASE ~(conn.eof \/ conn.reset)
    <3>1. conn' = v /\ HandlingEvent /\ HandlingEvent' /\ revents' = revents
      BY <1>5, <2>1, <2>4 DEF HandleRead, Becomes, HandlingEvent
    <3>2. ~IsReady(v, "IN") /\ (IsReady(v, "OUT") <=> IsReady(conn, "OUT"))
      BY <2>2, <2>4 DEF IsReady, SameOut
    <3>3. QED
      BY <2>2, <3>1, <3>2 DEF SeenInv, Seen, SameChannel, SameOut
  <2>5. QED
    BY <2>3, <2>4
<1>6. CASE Write /\ "OUT" \in revents
  <2>1. PICK u : u = HandleWrite(conn)
    OBVIOUS
  <2>2. /\ u \in Connections /\ SameData(conn, u)
        /\ \/ u.state = "kDisconnected"
           \/ /\ u.state = conn.state /\ u.interest = conn.interest \ {"OUT"}
              /\ u.output = <<>> /\ Reports(u)
           \/ /\ u.state = conn.state /\ SameChannel(conn, u)
              /\ Len(u.wire) = SendRoom /\ ~u.reset
    BY <1>1, <2>1, HandleWriteDef DEF ClosedChannel
  <2>3. /\ conn' = u /\ at = "write" /\ at' = "swap" /\ revents' = revents
    BY <1>6, <2>1 DEF Write, Becomes
  <2>4. SUFFICES Seen(u, FALSE, FALSE)
    BY <2>3, SeenLater DEF SeenInv
  <2>5. IsReady(u, "IN") <=> IsReady(conn, "IN")
    BY <2>2 DEF SameData, IsReady
  <2>6. Seen(conn, FALSE, TRUE)
    BY <2>3 DEF SeenInv, Seen
  <2>7. CASE u.state = "kDisconnected"
    BY <2>7 DEF Seen
  <2>8. CASE /\ u.state = conn.state /\ u.interest = conn.interest \ {"OUT"}
             /\ u.output = <<>> /\ Reports(u)
    BY <1>1, <2>8 DEF Seen, Reports, Consistent
  <2>9. CASE /\ u.state = conn.state /\ SameChannel(conn, u)
             /\ Len(u.wire) = SendRoom /\ ~u.reset
    <3>1. ~IsReady(u, "OUT")
      BY <2>9, RoomIsPositive DEF IsReady
    <3>2. QED
      BY <2>5, <2>6, <2>9, <3>1 DEF Seen, SameChannel
  <2>10. QED
    BY <2>2, <2>7, <2>8, <2>9
<1>7. ASSUME NEW r \in Requests,
             AnswerAuthenticate(r) \/ AnswerAtOnce(r) \/ AnswerBusy(r) \/ GiveToPool(r)
      PROVE  SeenInv'
  <2>1. Decodes(r)
    BY <1>1, <1>7, DecodeStep
  <2>2. PICK u \in Connections : u = conn'
    BY <2>1 DEF Decodes
  <2>3. /\ Sent(conn, r, u) /\ u.rx = conn.rx /\ u.eof = conn.eof /\ u.reset = conn.reset
        /\ at = "decode" /\ at' = at /\ revents' = revents
    BY <2>1, <2>2 DEF Decodes
  <2>4. PICK out \in BOOLEAN : out = (HandlingEvent /\ "OUT" \in revents)
    OBVIOUS
  <2>5. Seen(conn, FALSE, out)
    BY <2>3, <2>4 DEF SeenInv, Seen
  <2>6. Seen(u, FALSE, out)
    BY <1>1, <2>2, <2>3, <2>4, <2>5, SentIsSeen, Zenon
  <2>7. QED
    BY <2>2, <2>3, <2>4, <2>6 DEF SeenInv, Seen, HandlingEvent
<1>8. CASE RunSetup
  <2>1. PICK u : u = ConnectEstablished(conn)
    OBVIOUS
  <2>2. /\ SameOut(conn, u) /\ u.interest = {"IN"} /\ Reports(u)
    BY <1>1, <2>1, EstablishedDef
  <2>3. conn.output = <<>>
    <3>1. RunFunctor("setup")
      BY <1>8 DEF RunSetup
    <3>2. /\ todo # <<>> /\ Head(todo).kind = "setup"
          /\ 1 \in DOMAIN todo /\ todo[1] = Head(todo)
      BY <1>1, <3>1, RunsFirst, TailOfQueue
    <3>3. conn.state = "none"
      BY <3>2 DEF LifeInv, Queued
    <3>4. QED
      BY <1>1, <3>3 DEF Consistent
  <2>4. Seen(u, FALSE, FALSE)
    BY <2>2, <2>3 DEF Seen, Reports, SameOut
  <2>5. conn' = u
    BY <1>8, <2>1 DEF RunSetup, Becomes
  <2>6. QED
    BY <2>4, <2>5, SeenLater DEF SeenInv
<1>9. CASE RunReply
  <2>1. RunFunctor("reply")
    BY <1>9 DEF RunReply
  <2>2. PICK r \in Requests : r = Head(todo).req
    BY <1>1, <2>1, RunsFirst, FunctorDef
  <2>3. PICK u : u = Send(conn, r)
    OBVIOUS
  <2>4. u \in Connections /\ SameData(conn, u) /\ Sent(conn, r, u)
    BY <1>1, <2>3, SendIsSent
  <2>5. Seen(conn, FALSE, FALSE)
    BY <1>2, <2>1 DEF SeenInv, Seen
  <2>6. Seen(u, FALSE, FALSE)
    BY <1>1, <2>4, <2>5, SentIsSeen DEF SameData
  <2>7. conn' = u
    BY <1>9, <2>2, <2>3 DEF RunReply, Becomes
  <2>8. QED
    BY <2>6, <2>7, SeenLater DEF SeenInv
<1>10. CASE RunShutdown
  <2>1. PICK u : u = ShutdownConnection(conn)
    OBVIOUS
  <2>2. u.state # "kConnected"
    BY <1>1, <2>1, ShutdownDef DEF ClosedChannel
  <2>3. conn' = u
    BY <1>10, <2>1 DEF RunShutdown, Becomes
  <2>4. QED
    BY <2>2, <2>3 DEF SeenInv, Seen
<1>11. CASE RunErase
  BY <1>11, <1>2 DEF RunErase, SeenInv, Seen
<1>12. CASE Swap \/ IterationDone
  BY <1>12 DEF Swap, IterationDone, SeenInv, Seen, HandlingEvent
<1>13. CASE NothingToRead \/ DecodeDone \/ (Write /\ "OUT" \notin revents)
  BY <1>13 DEF NothingToRead, DecodeDone, Write, SeenInv, Seen, HandlingEvent
<1>14. QED
  BY <1>3, <1>4, <1>5, <1>6, <1>7, <1>8, <1>9, <1>10, <1>11, <1>12, <1>13
     DEF LoopRuns, Decode

LEMMA PeerSeen ==
  ASSUME TypeOK, Origins, LifeInv, SeenInv,
         PeerSends \/ PeerFinishes \/ PeerResets \/ PeerReads
  PROVE  SeenInv'
<1>1. conn \in Connections /\ Len(conn.wire) <= SendRoom /\ Consistent(conn)
  BY DEF TypeOK, Origins, LifeInv
<1>2. PICK u : u = conn'
  OBVIOUS
<1>3. /\ u \in Connections /\ Consistent(u) /\ SameOwner(conn, u)
      /\ u.registered = conn.registered
  BY <1>1, <1>2, PeerSendsDef, PeerFinishesDef, PeerResetsDef, PeerReadsDef
<1>4. CASE conn.registered => Reports(u)
  <2>1. Seen(u, FALSE, FALSE)
    BY <1>3, <1>4, ReportedIsSeen
  <2>2. QED
    BY <1>2, <2>1, SeenLater DEF SeenInv
<1>5. CASE PeerReads /\ ~(conn.registered => Reports(u))
  <2>1. /\ Len(conn.wire) < SendRoom /\ u.edge = conn.edge
        /\ u.rx = conn.rx /\ u.eof = conn.eof /\ u.reset = conn.reset
        /\ u.output = conn.output
    BY <1>1, <1>2, <1>5, PeerReadsDef
  <2>2. /\ IsReady(conn, "OUT")
        /\ IsReady(u, "IN") <=> IsReady(conn, "IN")
    BY <2>1 DEF IsReady
  <2>3. UNCHANGED <<at, revents>>
    BY <1>5 DEF PeerReads, loopVars
  <2>4. QED
    BY <1>2, <1>3, <2>1, <2>2, <2>3 DEF SeenInv, Seen, SameOwner, HandlingEvent
<1>6. QED
  BY <1>1, <1>2, <1>4, <1>5, PeerSendsDef, PeerFinishesDef, PeerResetsDef

LEMMA SeenStep ==
  ASSUME TypeOK, Origins, LifeInv, SeenInv, [Next]_vars
  PROVE  SeenInv'
<1>1. CASE UNCHANGED vars
  BY <1>1 DEF vars, SeenInv, Seen, HandlingEvent
<1>2. CASE \/ \E r \in Requests : TaskEnds(r) \/ QueueReply(r) \/ LetGo(r)
           \/ ServerStops
  BY <1>2 DEF TaskEnds, QueueReply, LetGo, ServerStops, loopVars, SeenInv, Seen, HandlingEvent
<1>3. QED
  BY <1>1, <1>2, LoopSeen, PeerSeen DEF Next

LEMMA SeenInit ==
  ASSUME Init
  PROVE  SeenInv
  BY DEF Init, NewConnection, SeenInv, Seen

------------------------------------------------------------------------------
(* The two streams: the requests that come in, the answers that go out.       *)

StreamsKept ==
  /\ served' = served /\ Ahead(conn') = Ahead(conn) /\ Answers' = Answers
  /\ conn'.authenticated = conn.authenticated

QueueKept == Owed(todo') \subseteq Owed(todo) /\ (OwedOnce(todo) => OwedOnce(todo'))

TasksKept == pooled' = pooled /\ replying' = replying

\* The functor at the head of the queue answers r, on an open connection.
Replied(r) ==
  /\ todo # <<>> /\ Head(todo).kind = "reply" /\ r = Head(todo).req
  /\ todo' = Tail(todo) \o EraseIfClosed(conn, conn')
  /\ TasksKept /\ served' = served /\ Ahead(conn') = Ahead(conn)
  /\ conn'.authenticated = conn.authenticated
  /\ Answers' = Answers \/ Answers' = Append(Answers, r)

LEMMA AnswersDef ==
  ASSUME TypeOK
  PROVE  Answers = received \o Unread(conn) /\ Answers \in Seq(Requests)
<1>1. PICK w \in Seq(Requests), o \in Seq(Requests) : w = conn.wire /\ o = conn.output
  BY BuffersAreSequences DEF TypeOK
<1>2. PICK x \in Seq(Requests) : x = received
  BY ServedTypes
<1>3. (x \o w) \o o = x \o (w \o o) /\ (x \o w) \o o \in Seq(Requests)
  <2>1. (x \o w) \o o \in Seq(Requests)
    OBVIOUS
  <2>2. QED
    BY <2>1, Regroup
<1>4. QED
  BY <1>1, <1>2, <1>3 DEF Answers, Unread

\* The same, of the next state.
LEMMA AnswersNext ==
  ASSUME TypeOK'
  PROVE  Answers' = received' \o Unread(conn') /\ Answers' \in Seq(Requests)
<1>1. /\ conn' \in Connections /\ asked' \subseteq Requests /\ served' \in Seq(asked')
      /\ received' \in Seq(Range(served'))
  BY DEF TypeOK
<1>2. PICK w \in Seq(Requests), o \in Seq(Requests) : w = conn'.wire /\ o = conn'.output
  BY <1>1, BuffersAreSequences
<1>3. PICK x \in Seq(Requests) : x = received'
  <2>1. Range(served') \subseteq Requests
    BY <1>1, RangeInSet
  <2>2. Range(received') \subseteq Requests
    BY <1>1, <2>1, RangeInSet
  <2>3. received' \in Seq(Requests)
    BY <1>1, <2>2, RangeInSet
  <2>4. QED
    BY <2>3
<1>4. (x \o w) \o o = x \o (w \o o) /\ (x \o w) \o o \in Seq(Requests)
  <2>1. (x \o w) \o o \in Seq(Requests)
    OBVIOUS
  <2>2. QED
    BY <2>1, Regroup
<1>5. QED
  BY <1>2, <1>3, <1>4 DEF Answers, Unread

LEMMA HandlerKeeps ==
  ASSUME TypeOK, TypeOK', NEW u \in Connections, NEW q \in Seq(Functors),
         conn' = u, todo' = q \o EraseIfClosed(conn, u),
         Owed(q) \subseteq Owed(todo), OwedOnce(todo) => OwedOnce(q),
         Ahead(u) = Ahead(conn), Unread(u) = Unread(conn),
         u.authenticated = conn.authenticated,
         served' = served, received' = received
  PROVE  StreamsKept /\ QueueKept
<1>1. PICK a : a = todo'
  OBVIOUS
<1>2. Owed(a) = Owed(q) /\ (OwedOnce(q) => OwedOnce(a))
  BY <1>1, HandlerQueues
<1>3. Answers' = Answers
  BY AnswersDef, AnswersNext
<1>4. QED
  BY <1>1, <1>2, <1>3 DEF StreamsKept, QueueKept

LEMMA LoopKinds ==
  ASSUME TypeOK, Origins, TypeOK', LoopRuns
  PROVE  \/ StreamsKept /\ QueueKept /\ TasksKept
         \/ \E r \in Requests : Decodes(r) \/ Replied(r)
<1> USE DEF poolVars, peerVars, loopVars
<1>1. conn \in Connections /\ todo \in Seq(Functors) /\ Len(conn.wire) <= SendRoom
  BY DEF TypeOK, Origins
<1>2. ASSUME NEW kind, RunFunctor(kind)
      PROVE  /\ todo # <<>> /\ Head(todo) \in Functors /\ Head(todo).kind = kind
             /\ Tail(todo) \in Seq(Functors)
             /\ Owed(Tail(todo)) \subseteq Owed(todo)
             /\ OwedOnce(todo) => OwedOnce(Tail(todo))
             /\ TasksKept /\ served' = served /\ received' = received
  BY <1>1, <1>2, RunsFirst, OwedTail DEF TasksKept
<1>3. CASE PollReturns
  <2>1. PICK e \in BOOLEAN : e = (conn.edge /\ conn.interest = {} /\ Reported # {})
    OBVIOUS
  <2>2. conn' = [conn EXCEPT !.edge = e]
    BY <1>1, <1>3, <2>1 DEF PollReturns, Connections
  <2>3. /\ conn'.wire = conn.wire /\ conn'.output = conn.output /\ conn'.input = conn.input
        /\ conn'.rx = conn.rx /\ conn'.authenticated = conn.authenticated
    BY <1>1, <2>2 DEF Connections
  <2>4. QED
    BY <1>3, <2>3 DEF PollReturns, StreamsKept, QueueKept, TasksKept, Answers, Ahead
<1>4. CASE HandleFailure
  <2>1. PICK u : u = HandleClose(conn)
    OBVIOUS
  <2>2. u \in Connections /\ SameData(conn, u) /\ SameOut(conn, u)
    BY <1>1, <2>1, CloseDef
  <2>3. /\ Ahead(u) = Ahead(conn) /\ Unread(u) = Unread(conn)
        /\ u.authenticated = conn.authenticated
    BY <2>2 DEF SameData, SameOut, Ahead, Unread
  <2>4. /\ conn' = u /\ todo' = todo \o EraseIfClosed(conn, u)
        /\ served' = served /\ received' = received /\ TasksKept
    BY <1>4, <2>1 DEF HandleFailure, Becomes, TasksKept
  <2>5. QED
    BY <1>1, <2>2, <2>3, <2>4, HandlerKeeps
<1>5. CASE HandleRead
  <2>1. PICK v : v = TakeInput(conn)
    OBVIOUS
  <2>2. /\ v \in Connections /\ SameOut(conn, v) /\ Ahead(v) = Ahead(conn)
        /\ v.authenticated = conn.authenticated
    BY <1>1, <2>1, TakeInputDef
  <2>3. PICK h : h = HandleClose(v)
    OBVIOUS
  <2>4. h \in Connections /\ SameData(v, h) /\ SameOut(v, h)
    BY <2>2, <2>3, CloseDef
  <2>5. PICK u \in {v, h} : conn' = u /\ todo' = todo \o EraseIfClosed(conn, u)
    BY <1>5, <2>1, <2>3 DEF HandleRead, Becomes
  <2>6. /\ u \in Connections /\ Ahead(u) = Ahead(conn) /\ Unread(u) = Unread(conn)
        /\ u.authenticated = conn.authenticated
    BY <2>2, <2>4, <2>5 DEF SameData, SameOut, Ahead, Unread
  <2>7. served' = served /\ received' = received /\ TasksKept
    BY <1>5 DEF HandleRead, TasksKept
  <2>8. QED
    BY <1>1, <2>5, <2>6, <2>7, HandlerKeeps
<1>6. CASE Write /\ "OUT" \in revents
  <2>1. PICK u : u = HandleWrite(conn)
    OBVIOUS
  <2>2. u \in Connections /\ SameData(conn, u) /\ Unread(u) = Unread(conn)
    BY <1>1, <2>1, HandleWriteDef
  <2>3. Ahead(u) = Ahead(conn) /\ u.authenticated = conn.authenticated
    BY <2>2 DEF SameData, Ahead
  <2>4. /\ conn' = u /\ todo' = todo \o EraseIfClosed(conn, u)
        /\ served' = served /\ received' = received /\ TasksKept
    BY <1>6, <2>1 DEF Write, Becomes, TasksKept
  <2>5. QED
    BY <1>1, <2>2, <2>3, <2>4, HandlerKeeps
<1>7. ASSUME NEW r \in Requests,
             AnswerAuthenticate(r) \/ AnswerAtOnce(r) \/ AnswerBusy(r) \/ GiveToPool(r)
      PROVE  Decodes(r)
  BY <1>1, <1>7, DecodeStep
<1>8. CASE RunSetup
  <2>1. PICK u : u = ConnectEstablished(conn)
    OBVIOUS
  <2>2. u \in Connections /\ SameData(conn, u) /\ SameOut(conn, u)
    BY <1>1, <2>1, EstablishedDef
  <2>3. /\ Ahead(u) = Ahead(conn) /\ Unread(u) = Unread(conn)
        /\ u.authenticated = conn.authenticated
    BY <2>2 DEF SameData, SameOut, Ahead, Unread
  <2>4. conn' = u /\ todo' = Tail(todo) \o EraseIfClosed(conn, u)
    BY <1>8, <2>1 DEF RunSetup, Becomes
  <2>5. RunFunctor("setup")
    BY <1>8 DEF RunSetup
  <2>6. QED
    BY <1>2, <2>2, <2>3, <2>4, <2>5, HandlerKeeps
<1>9. CASE RunReply
  <2>1. RunFunctor("reply")
    BY <1>9 DEF RunReply
  <2>2. PICK r \in Requests : r = Head(todo).req
    BY <1>2, <2>1, FunctorDef
  <2>3. PICK u : u = Send(conn, r)
    OBVIOUS
  <2>4. u \in Connections /\ SameData(conn, u) /\ Sent(conn, r, u)
    BY <1>1, <2>3, SendIsSent
  <2>5. conn' = u /\ todo' = Tail(todo) \o EraseIfClosed(conn, u)
    BY <1>9, <2>2, <2>3 DEF RunReply, Becomes
  <2>6. Ahead(u) = Ahead(conn) /\ u.authenticated = conn.authenticated
    BY <2>4 DEF SameData, Ahead
  <2>7. Answers' = Answers \/ Answers' = Append(Answers, r)
    <3>1. Unread(u) = Unread(conn) \/ Unread(u) = Append(Unread(conn), r)
      BY <1>1, <2>4, SentStaysInOrder
    <3>2. PICK x \in Seq(Requests), b \in Seq(Requests) : x = received /\ b = Unread(conn)
      BY <1>1, ServedTypes, BuffersAreSequences
    <3>3. x \o Append(b, r) = Append(x \o b, r)
      OBVIOUS
    <3>4. Answers = x \o b /\ Answers' = x \o Unread(u)
      BY <1>2, <2>1, <2>5, <3>2, AnswersDef, AnswersNext
    <3>5. QED
      BY <3>1, <3>2, <3>3, <3>4
  <2>8. Replied(r)
    BY <1>2, <2>1, <2>2, <2>5, <2>6, <2>7 DEF Replied
  <2>9. QED
    BY <2>8
<1>10. CASE RunShutdown
  <2>1. PICK u : u = ShutdownConnection(conn)
    OBVIOUS
  <2>2. u \in Connections /\ SameData(conn, u) /\ SameOut(conn, u)
    BY <1>1, <2>1, ShutdownDef
  <2>3. /\ Ahead(u) = Ahead(conn) /\ Unread(u) = Unread(conn)
        /\ u.authenticated = conn.authenticated
    BY <2>2 DEF SameData, SameOut, Ahead, Unread
  <2>4. conn' = u /\ todo' = Tail(todo) \o EraseIfClosed(conn, u)
    BY <1>10, <2>1 DEF RunShutdown, Becomes
  <2>5. RunFunctor("shutdown")
    BY <1>10 DEF RunShutdown
  <2>6. QED
    BY <1>2, <2>2, <2>3, <2>4, <2>5, HandlerKeeps
<1>11. CASE RunErase
  BY <1>2, <1>11 DEF RunErase, StreamsKept, QueueKept, Answers
<1>12. CASE \/ Swap \/ IterationDone \/ NothingToRead \/ DecodeDone
            \/ Write /\ "OUT" \notin revents
  BY <1>12 DEF Swap, IterationDone, NothingToRead, DecodeDone, Write,
               StreamsKept, QueueKept, TasksKept, Answers
<1>13. QED
  BY <1>3, <1>4, <1>5, <1>6, <1>7, <1>8, <1>9, <1>10, <1>11, <1>12
     DEF LoopRuns, Decode

\* What a step is to the streams and to the tasks that answer.
LEMMA StepKinds ==
  ASSUME TypeOK, Origins, TypeOK', [Next]_vars
  PROVE  \/ StreamsKept /\ QueueKept /\ TasksKept
         \/ \E r \in Requests :
              \/ Decodes(r)
              \/ Replied(r)
              \/ StreamsKept /\ QueueKept /\ TaskEnds(r)
              \/ StreamsKept /\ QueueReply(r)
         \/ PeerSends \/ PeerResets
<1> USE DEF poolVars, peerVars, loopVars
<1>1. conn \in Connections /\ todo \in Seq(Functors) /\ Len(conn.wire) <= SendRoom
  BY DEF TypeOK, Origins
<1>2. CASE UNCHANGED vars
  BY <1>2 DEF vars, StreamsKept, QueueKept, TasksKept, Answers
<1>3. CASE PeerFinishes
  <2>1. PICK u : u = conn'
    OBVIOUS
  <2>2. SameOwner(conn, u) /\ SameOut(conn, u) /\ Ahead(u) = Ahead(conn)
    BY <1>1, <1>3, <2>1, PeerFinishesDef
  <2>3. QED
    BY <1>3, <2>1, <2>2 DEF PeerFinishes, SameOwner, SameOut,
                            StreamsKept, QueueKept, TasksKept, Answers
<1>4. CASE PeerReads
  <2>1. PICK u : u = conn'
    OBVIOUS
  <2>2. /\ SameOwner(conn, u) /\ u.output = conn.output
        /\ conn.wire # <<>> /\ u.wire = Tail(conn.wire)
        /\ received' = Append(received, Head(conn.wire))
        /\ u.input = conn.input /\ u.rx = conn.rx
    BY <1>1, <1>4, <2>1, PeerReadsDef
  <2>3. PICK w \in Seq(Requests), x \in Seq(Requests) :
          w = conn.wire /\ x = received /\ w # <<>>
    BY <1>1, <2>2, BuffersAreSequences, ServedTypes
  <2>4. Append(x, Head(w)) \o Tail(w) = x \o w
    <3>1. PICK h \in Seq(Requests), t \in Seq(Requests) :
            h = <<Head(w)>> /\ t = Tail(w) /\ w = h \o t
      <4>1. /\ Head(w) \in Requests /\ Tail(w) \in Seq(Requests)
            /\ w = <<Head(w)>> \o Tail(w)
        BY <2>3, RangeOfTail
      <4>2. <<Head(w)>> \in Seq(Requests)
        BY <4>1
      <4>3. QED
        BY <4>1, <4>2
    <3>2. (x \o h) \o t = x \o (h \o t)
      BY Regroup
    <3>3. Append(x, Head(w)) = x \o <<Head(w)>>
      BY <2>3
    <3>4. QED
      BY <3>1, <3>2, <3>3
  <2>5. Answers' = Answers
    BY <2>1, <2>2, <2>3, <2>4 DEF Answers
  <2>6. QED
    BY <1>4, <2>1, <2>2, <2>5 DEF PeerReads, SameOwner, Ahead,
                                  StreamsKept, QueueKept, TasksKept
<1>5. ASSUME NEW r \in Requests, TaskEnds(r)
      PROVE  StreamsKept /\ QueueKept /\ TaskEnds(r)
  BY <1>5 DEF TaskEnds, StreamsKept, QueueKept, Answers
<1>6. ASSUME NEW r \in Requests, QueueReply(r)
      PROVE  StreamsKept /\ QueueReply(r)
  BY <1>6 DEF QueueReply, StreamsKept, Answers
<1>7. ASSUME NEW r \in Requests, LetGo(r)
      PROVE  StreamsKept /\ QueueKept /\ TasksKept
  BY <1>7 DEF LetGo, StreamsKept, QueueKept, TasksKept, Answers
<1>8. CASE ServerStops
  <2>1. PICK f \in Functors : f = Functor("shutdown") /\ f.kind # "reply"
    <3>1. Functor("shutdown") \in Functors
      BY DEF Functors
    <3>2. QED
      BY <3>1 DEF Functor
  <2>2. PICK q : q = todo'
    OBVIOUS
  <2>3. q \in {todo, Append(todo, f)}
    BY <1>8, <2>1, <2>2 DEF ServerStops
  <2>4. Owed(q) = Owed(todo) /\ (OwedOnce(todo) => OwedOnce(q))
    BY <1>1, <2>1, <2>3, OwedAppend
  <2>5. QED
    BY <1>8, <2>2, <2>4 DEF ServerStops, StreamsKept, QueueKept, TasksKept, Answers
<1>9. QED
  BY <1>2, <1>3, <1>4, <1>5, <1>6, <1>7, <1>8, LoopKinds DEF Next

------------------------------------------------------------------------------
(* The gate.                                                                  *)

LEMMA GatedStep ==
  ASSUME TypeOK, Origins, TypeOK', GatedInv, [Next]_vars
  PROVE  GatedInv'
<1> SUFFICES ASSUME AuthEnabled
             PROVE  /\ conn'.authenticated => \E i \in DOMAIN served' : served'[i] \in GoodAuth
                    /\ \A r \in pooled' \cup replying' : \E i, j \in DOMAIN served' :
                         i < j /\ served'[i] \in GoodAuth /\ served'[j] = r
  BY DEF GatedInv
<1>1. /\ conn.authenticated => \E i \in DOMAIN served : served[i] \in GoodAuth
      /\ \A r \in pooled \cup replying : \E i, j \in DOMAIN served :
           i < j /\ served[i] \in GoodAuth /\ served[j] = r
  BY DEF GatedInv
<1>2. served \in Seq(Requests)
  BY ServedTypes
<1>3. ASSUME NEW r \in Requests, Decodes(r)
      PROVE  /\ conn'.authenticated => \E i \in DOMAIN served' : served'[i] \in GoodAuth
             /\ \A x \in pooled' \cup replying' : \E i, j \in DOMAIN served' :
                  i < j /\ served'[i] \in GoodAuth /\ served'[j] = x
  <2>1. PICK s \in Seq(Requests), n \in Nat :
          /\ s = served' /\ DOMAIN s = DOMAIN served \cup {n} /\ s[n] = r
          /\ \A i \in DOMAIN served : s[i] = served[i] /\ i < n
    <3>1. /\ Append(served, r) \in Seq(Requests) /\ Len(served) + 1 \in Nat
          /\ DOMAIN Append(served, r) = DOMAIN served \cup {Len(served) + 1}
          /\ Append(served, r)[Len(served) + 1] = r
          /\ \A i \in DOMAIN served :
               Append(served, r)[i] = served[i] /\ i < Len(served) + 1
      BY <1>2
    <3>2. QED
      BY <1>3, <3>1 DEF Decodes
  <2>2. conn'.authenticated => conn.authenticated \/ r \in GoodAuth
    BY <1>3 DEF Decodes
  <2>3. conn'.authenticated => \E i \in DOMAIN s : s[i] \in GoodAuth
    BY <1>1, <2>1, <2>2
  <2>4. ASSUME NEW x \in pooled \cup replying
        PROVE  \E i, j \in DOMAIN s : i < j /\ s[i] \in GoodAuth /\ s[j] = x
    <3>1. PICK i \in DOMAIN served, j \in DOMAIN served :
            i < j /\ served[i] \in GoodAuth /\ served[j] = x
      BY <1>1
    <3>2. QED
      BY <2>1, <3>1
  <2>5. ASSUME ~Refused
        PROVE  \E i, j \in DOMAIN s : i < j /\ s[i] \in GoodAuth /\ s[j] = r
    <3>1. PICK i \in DOMAIN served : served[i] \in GoodAuth
      BY <1>1, <2>5 DEF Refused
    <3>2. i \in DOMAIN s /\ n \in DOMAIN s /\ i < n /\ s[i] \in GoodAuth /\ s[n] = r
      BY <2>1, <3>1
    <3>3. QED
      BY <3>2
  <2>6. /\ replying' = replying
        /\ pooled' = pooled \/ (~Refused /\ pooled' = pooled \cup {r})
    BY <1>3 DEF Decodes
  <2>7. QED
    BY <2>1, <2>3, <2>4, <2>5, <2>6
<1>4. CASE /\ served' = served /\ conn'.authenticated = conn.authenticated
           /\ pooled' \cup replying' \subseteq pooled \cup replying
  BY <1>1, <1>4
<1>5. ASSUME NEW r, TaskEnds(r) \/ QueueReply(r)
      PROVE  pooled' \cup replying' \subseteq pooled \cup replying
  BY <1>5 DEF TaskEnds, QueueReply
<1>6. CASE PeerSends \/ PeerResets
  <2>1. conn \in Connections
    BY DEF TypeOK
  <2>2. conn'.authenticated = conn.authenticated
    BY <1>6, <2>1, PeerSendsDef, PeerResetsDef DEF SameOwner
  <2>3. served' = served /\ pooled' = pooled /\ replying' = replying
    BY <1>6 DEF PeerSends, PeerResets, poolVars, peerVars
  <2>4. QED
    BY <1>4, <2>2, <2>3
<1>7. QED
  BY <1>3, <1>4, <1>5, <1>6, StepKinds DEF StreamsKept, TasksKept, Replied

------------------------------------------------------------------------------
(* The peer sends a request once.                                             *)

LEMMA SentOnceStep ==
  ASSUME TypeOK, Origins, TypeOK', SentOnce, [Next]_vars
  PROVE  SentOnce'
<1>1. /\ conn \in Connections /\ served \in Seq(Requests) /\ Ahead(conn) \in Seq(Requests)
      /\ asked \subseteq Requests
  BY ServedTypes, BuffersAreSequences DEF TypeOK
<1>2. PICK s \in Seq(Requests), h \in Seq(Requests) : s = served /\ h = Ahead(conn)
  BY <1>1
<1>3. PairsIn(s \o h, Others) /\ s \o h \in Seq(Requests)
  <2>1. s \o h \in Seq(Requests)
    OBVIOUS
  <2>2. QED
    BY <1>2, <2>1 DEF SentOnce
<1>4. CASE served' \o Ahead(conn') = served \o Ahead(conn)
  BY <1>4 DEF SentOnce
<1>5. CASE PeerSends
  <2>1. PICK r \in Requests \ asked : Ahead(conn') = Append(Ahead(conn), r)
    BY <1>1, <1>5, PeerSendsDef
  <2>2. s \o Append(h, r) = Append(s \o h, r)
    OBVIOUS
  <2>3. Range(s \o h) \subseteq asked
    <3>1. Range(s) \subseteq asked /\ Range(h) \subseteq asked
      BY <1>2, RangeInSet DEF TypeOK, Origins
    <3>2. QED
      BY <3>1, RangeConcatenation
  <2>4. \A a \in Range(s \o h) : <<a, r>> \in Others
    BY <1>1, <2>3 DEF Others
  <2>5. PairsIn(Append(s \o h, r), Others)
    BY <1>3, <2>4, PairsOfAppend
  <2>6. served' = served
    BY <1>5 DEF PeerSends
  <2>7. QED
    BY <1>2, <2>1, <2>2, <2>5, <2>6 DEF SentOnce
<1>6. CASE PeerResets
  <2>1. conn'.input = conn.input /\ conn'.rx = <<>> /\ served' = served
    BY <1>1, <1>6, PeerResetsDef DEF PeerResets
  <2>2. PICK i \in Seq(Requests), x \in Seq(Requests) : i = conn.input /\ x = conn.rx
    BY <1>1, BuffersAreSequences
  <2>3. Ahead(conn) = i \o x /\ Ahead(conn') = i
    BY <2>1, <2>2, EmptyBuffer DEF Ahead
  <2>4. (s \o i) \o x = s \o (i \o x) /\ s \o i \in Seq(Requests)
    <3>1. s \o i \in Seq(Requests)
      OBVIOUS
    <3>2. QED
      BY <3>1, Regroup
  <2>5. PairsIn((s \o i) \o x, Others)
    BY <1>2, <1>3, <2>3, <2>4
  <2>6. PairsIn(s \o i, Others)
    BY <2>4, <2>5, PairsOfConcat
  <2>7. QED
    BY <1>2, <2>1, <2>3, <2>6 DEF SentOnce
<1>7. ASSUME NEW r \in Requests, Decodes(r)
      PROVE  served' \o Ahead(conn') = served \o Ahead(conn)
  BY <1>1, <1>7, DecodeMoves
<1>8. QED
  BY <1>4, <1>5, <1>6, <1>7, StepKinds DEF StreamsKept, Replied

\* So the next request to be decoded was not served before.
LEMMA NextIsNew ==
  ASSUME TypeOK, SentOnce, NEW r \in Requests, Decodes(r)
  PROVE  r \notin Range(served) /\ PairsIn(Append(served, r), Others)
<1>1. /\ conn \in Connections /\ served \in Seq(Requests) /\ Ahead(conn) \in Seq(Requests)
  BY ServedTypes, BuffersAreSequences DEF TypeOK
<1>2. PICK s \in Seq(Requests), h \in Seq(Requests) : s = served /\ h = Ahead(conn)
  BY <1>1
<1>3. PairsIn(s, Others) /\ \A a \in Range(s), b \in Range(h) : <<a, b>> \in Others
  <2>1. PairsIn(s \o h, Others)
    BY <1>2 DEF SentOnce
  <2>2. QED
    BY <2>1, PairsOfConcat
<1>4. r \in Range(h)
  BY <1>1, <1>2, DecodeMoves
<1>5. \A a \in Range(s) : <<a, r>> \in Others
  BY <1>3, <1>4
<1>6. PairsIn(Append(s, r), Others)
  BY <1>3, <1>5, PairsOfAppend
<1>7. r \notin Range(s)
  BY <1>5 DEF Others
<1>8. QED
  BY <1>2, <1>6, <1>7

------------------------------------------------------------------------------
(* The answers.                                                               *)

\* Only what was decoded is answered.
LEMMA AnswersAreServed ==
  ASSUME TypeOK, Origins
  PROVE  Range(Answers) \subseteq Range(served)
<1>1. PICK x \in Seq(Requests), b \in Seq(Requests) : x = received /\ b = Unread(conn)
  BY ServedTypes, BuffersAreSequences DEF TypeOK
<1>2. Range(x) \subseteq Range(served) /\ Range(b) \subseteq Range(served)
  BY <1>1, RangeInSet DEF TypeOK, Origins
<1>3. Answers = x \o b
  BY <1>1, AnswersDef
<1>4. QED
  BY <1>2, <1>3, RangeConcatenation

\* An answer goes behind those that were given, or is dropped.
LEMMA DecodesAnswers ==
  ASSUME TypeOK, Origins, TypeOK', NEW r \in Requests, Decodes(r)
  PROVE  /\ Answers' = Answers \/ (Answers' = Append(Answers, r) /\ pooled' = pooled)
         /\ Owed(todo') = Owed(todo) /\ (OwedOnce(todo) => OwedOnce(todo'))
<1>1. PICK u \in Connections : u = conn'
  BY DEF Decodes
<1>2. /\ conn \in Connections /\ todo \in Seq(Functors)
      /\ Sent(conn, r, u) /\ received' = received
      /\ todo' = todo \o EraseIfClosed(conn, u)
  BY <1>1 DEF Decodes, TypeOK
<1>3. PICK a : a = todo'
  OBVIOUS
<1>4. Owed(a) = Owed(todo) /\ (OwedOnce(todo) => OwedOnce(a))
  BY <1>2, <1>3, HandlerQueues
<1>5. PICK x \in Seq(Requests), b \in Seq(Requests) : x = received /\ b = Unread(conn)
  BY <1>2, ServedTypes, BuffersAreSequences
<1>6. x \o Append(b, r) = Append(x \o b, r)
  OBVIOUS
<1>7. Answers = x \o b /\ Answers' = x \o Unread(u)
  BY <1>1, <1>2, <1>5, AnswersDef, AnswersNext
<1>8. Unread(u) = b \/ Unread(u) = Append(b, r)
  BY <1>2, <1>5, SentStaysInOrder
<1>9. pooled' = pooled \/ Unread(u) = b
  BY <1>1, <1>5 DEF Decodes, SameOut, Unread
<1>10. QED
  BY <1>3, <1>4, <1>6, <1>7, <1>8, <1>9

\* A reset drops answers that are on their way.
LEMMA ResetAnswers ==
  ASSUME TypeOK, PeerResets
  PROVE  /\ Range(Answers') \subseteq Range(Answers)
         /\ \A R : PairsIn(Answers, R) => PairsIn(Answers', R)
<1>1. conn \in Connections
  BY DEF TypeOK
<1>2. PICK w \in Seq(Requests), o \in Seq(Requests), x \in Seq(Requests) :
        w = conn.wire /\ o = conn.output /\ x = received
  BY <1>1, BuffersAreSequences, ServedTypes
<1>3. conn'.wire = <<>> /\ conn'.output = conn.output /\ received' = received
  BY <1>1, PeerResetsDef DEF PeerResets, peerVars
<1>4. x \o <<>> = x
  BY EmptyBuffer
<1>5. Answers = (x \o w) \o o /\ Answers' = x \o o
  BY <1>2, <1>3, <1>4 DEF Answers
<1>6. PICK y \in Seq(Requests) : y = x \o w
  <2>1. x \o w \in Seq(Requests)
    OBVIOUS
  <2>2. QED
    BY <2>1
<1>7. /\ Range(x \o w) = Range(x) \cup Range(w)
      /\ Range(x \o o) = Range(x) \cup Range(o)
  BY RangeConcatenation
<1>8. Range(y \o o) = Range(y) \cup Range(o)
  BY RangeConcatenation
<1>9. ASSUME NEW R, PairsIn(y \o o, R) PROVE PairsIn(x \o o, R)
  <2>1. /\ PairsIn(y, R) /\ PairsIn(o, R)
        /\ \A a \in Range(y), b \in Range(o) : <<a, b>> \in R
    BY <1>9, PairsOfConcat
  <2>2. PairsIn(x, R)
    BY <1>6, <2>1, PairsOfConcat
  <2>3. \A a \in Range(x), b \in Range(o) : <<a, b>> \in R
    BY <1>6, <1>7, <2>1
  <2>4. QED
    BY <2>1, <2>2, <2>3, PairsOfConcat
<1>10. QED
  BY <1>5, <1>6, <1>7, <1>8, <1>9

LEMMA OneAnswerStep ==
  ASSUME TypeOK, Origins, TypeOK', SentOnce, OneAnswer, [Next]_vars
  PROVE  OneAnswer'
<1>1. /\ pooled \cap replying = {}
      /\ (pooled \cup replying) \cap Range(Answers) = {}
      /\ Owed(todo) \cap (pooled \cup replying \cup Range(Answers)) = {}
      /\ OwedOnce(todo)
  BY DEF OneAnswer
<1>2. todo \in Seq(Functors) /\ Answers \in Seq(Requests)
  BY AnswersDef DEF TypeOK
<1>3. CASE StreamsKept /\ QueueKept /\ TasksKept
  BY <1>1, <1>3 DEF OneAnswer, StreamsKept, QueueKept, TasksKept
<1>4. ASSUME NEW r \in Requests, Decodes(r) PROVE OneAnswer'
  <2>1. r \notin pooled \cup replying \cup Owed(todo) \cup Range(Answers)
    BY <1>4, NextIsNew, AnswersAreServed DEF Origins
  <2>2. /\ Answers' = Answers \/ (Answers' = Append(Answers, r) /\ pooled' = pooled)
        /\ Owed(todo') = Owed(todo) /\ (OwedOnce(todo) => OwedOnce(todo'))
    BY <1>4, DecodesAnswers
  <2>3. replying' = replying /\ (pooled' = pooled \/ pooled' = pooled \cup {r})
    BY <1>4 DEF Decodes
  <2>4. CASE Answers' = Answers
    BY <1>1, <2>1, <2>2, <2>3, <2>4 DEF OneAnswer
  <2>5. CASE Answers' = Append(Answers, r) /\ pooled' = pooled
    <3>1. Range(Answers') = Range(Answers) \cup {r}
      BY <1>2, <2>5, RangeOfAppend
    <3>2. QED
      BY <1>1, <2>1, <2>2, <2>3, <2>5, <3>1 DEF OneAnswer
  <2>6. QED
    BY <2>2, <2>4, <2>5
<1>5. ASSUME NEW r \in Requests, Replied(r) PROVE OneAnswer'
  <2>1. PICK t \in Seq(Functors) : t = Tail(todo)
    BY <1>2, <1>5, TailOfQueue DEF Replied
  <2>2. /\ Owed(t) \subseteq Owed(todo) /\ OwedOnce(t)
        /\ r \in Owed(todo) /\ r \notin Owed(t)
    BY <1>1, <1>2, <1>5, <2>1, OwedTail DEF Replied
  <2>3. PICK q, u : q = todo' /\ u = conn'
    OBVIOUS
  <2>4. q = t \o EraseIfClosed(conn, u)
    BY <1>5, <2>1, <2>3 DEF Replied
  <2>5. Owed(q) = Owed(t) /\ OwedOnce(q)
    BY <2>2, <2>4, HandlerQueues
  <2>6. Range(Answers') \subseteq Range(Answers) \cup {r}
    <3>1. Range(Append(Answers, r)) = Range(Answers) \cup {r}
      BY <1>2, RangeOfAppend
    <3>2. QED
      BY <1>5, <3>1 DEF Replied
  <2>7. QED
    BY <1>1, <1>5, <2>2, <2>3, <2>5, <2>6 DEF OneAnswer, Replied, TasksKept
<1>6. ASSUME NEW r \in Requests, StreamsKept, QueueKept, TaskEnds(r) PROVE OneAnswer'
  <2>1. /\ r \in pooled /\ pooled' = pooled \ {r}
        /\ replying' = replying \/ replying' = replying \cup {r}
    BY <1>6 DEF TaskEnds
  <2>2. QED
    BY <1>1, <1>6, <2>1 DEF OneAnswer, StreamsKept, QueueKept
<1>7. ASSUME NEW r \in Requests, StreamsKept, QueueReply(r) PROVE OneAnswer'
  <2>1. PICK f \in Functors : f = Reply(r)
    <3>1. Reply(r) \in Functors
      BY DEF Functors
    <3>2. QED
      BY <3>1
  <2>2. f.kind = "reply" /\ f.req = r
    BY <2>1 DEF Reply
  <2>3. PICK q : q = todo'
    OBVIOUS
  <2>4. /\ q = Append(todo, f) /\ r \in replying
        /\ replying' = replying \ {r} /\ pooled' = pooled
    BY <1>7, <2>1, <2>3 DEF QueueReply
  <2>5. /\ f.kind = "reply" => Owed(q) = Owed(todo) \cup {f.req}
        /\ f.kind = "reply" /\ OwedOnce(todo) /\ f.req \notin Owed(todo) => OwedOnce(q)
    BY <1>2, <2>4, OwedAppend
  <2>6. Owed(q) = Owed(todo) \cup {r} /\ OwedOnce(q)
    BY <1>1, <2>2, <2>4, <2>5
  <2>7. QED
    BY <1>1, <1>7, <2>3, <2>4, <2>6 DEF OneAnswer, StreamsKept
<1>8. CASE PeerSends
  <2>1. SameOut(conn, conn')
    BY <1>8, PeerSendsDef DEF TypeOK
  <2>2. Answers' = Answers
    BY <1>8, <2>1 DEF PeerSends, Answers, SameOut
  <2>3. QED
    BY <1>1, <1>8, <2>2 DEF OneAnswer, PeerSends, poolVars
<1>9. CASE PeerResets
  <2>1. Range(Answers') \subseteq Range(Answers)
    BY <1>9, ResetAnswers
  <2>2. QED
    BY <1>1, <1>9, <2>1 DEF OneAnswer, PeerResets, poolVars
<1>10. QED
  BY <1>3, <1>4, <1>5, <1>6, <1>7, <1>8, <1>9, StepKinds

LEMMA AnsweredIsOrdered ==
  ASSUME TypeOK
  PROVE  AnsweredOnceInOrder <=> PairsIn(Answers, MayFollow)
<1>1. PICK a \in Seq(Requests) : a = Answers
  BY AnswersDef
<1>2. /\ DOMAIN a = 1 .. Len(a) /\ DOMAIN served = 1 .. Len(served)
      /\ Len(a) \in Nat /\ Len(served) \in Nat
      /\ \A i \in DOMAIN a : a[i] \in Requests
  BY ServedTypes
<1>3. ASSUME AnsweredOnceInOrder PROVE PairsIn(a, MayFollow)
  <2>1. SUFFICES ASSUME NEW i \in DOMAIN a, NEW j \in DOMAIN a, i < j
                 PROVE  <<a[i], a[j]>> \in MayFollow
    BY DEF PairsIn
  <2>2. a[i] # a[j]
    BY <1>1, <1>2, <1>3, <2>1 DEF AnsweredOnceInOrder
  <2>3. ASSUME {a[i], a[j]} \cap Async = {}, NEW m \in DOMAIN served, NEW n \in DOMAIN served,
               served[m] = a[i], served[n] = a[j]
        PROVE  m < n
    BY <1>1, <1>2, <1>3, <2>1, <2>3 DEF AnsweredOnceInOrder
  <2>4. QED
    BY <1>2, <2>2, <2>3 DEF MayFollow
<1>4. ASSUME PairsIn(a, MayFollow) PROVE AnsweredOnceInOrder
  <2>1. ASSUME NEW i \in DOMAIN a, NEW j \in DOMAIN a, i < j
        PROVE  /\ a[i] # a[j]
               /\ \A m, n \in DOMAIN served :
                    served[m] = a[i] /\ served[n] = a[j] /\ {a[i], a[j]} \cap Async = {}
                    => m < n
    <3>1. <<a[i], a[j]>> \in MayFollow
      BY <1>4, <2>1 DEF PairsIn
    <3>2. QED
      BY <3>1 DEF MayFollow
  <2>2. \A i, j \in DOMAIN a : a[i] = a[j] => i = j
    BY <1>2, <2>1
  <2>3. QED
    BY <1>1, <1>2, <2>1, <2>2 DEF AnsweredOnceInOrder
<1>5. QED
  BY <1>1, <1>3, <1>4

\* Serving a new request leaves the order of those that were served alone, and
\* its answer may follow theirs.
LEMMA ServingKeepsOrder ==
  ASSUME TypeOK, SentOnce, NEW r \in Requests, Decodes(r)
  PROVE  /\ \A p \in MayFollow : {p[1], p[2]} \subseteq Range(served) => p \in MayFollow'
         /\ \A a \in Range(served) : <<a, r>> \in MayFollow'
<1>1. served \in Seq(Requests) /\ r \notin Range(served)
  BY ServedTypes, NextIsNew
<1>2. PICK s \in Seq(Requests), l \in Nat :
        /\ s = served' /\ DOMAIN s = DOMAIN served \cup {l} /\ s[l] = r
        /\ \A i \in DOMAIN served : s[i] = served[i] /\ i < l
  <2>1. /\ Append(served, r) \in Seq(Requests) /\ Len(served) + 1 \in Nat
        /\ DOMAIN Append(served, r) = DOMAIN served \cup {Len(served) + 1}
        /\ Append(served, r)[Len(served) + 1] = r
        /\ \A i \in DOMAIN served :
             Append(served, r)[i] = served[i] /\ i < Len(served) + 1
    BY <1>1
  <2>2. QED
    BY <2>1 DEF Decodes
<1>3. ASSUME NEW a \in Range(served), NEW m \in DOMAIN s, s[m] = a
      PROVE  m \in DOMAIN served /\ served[m] = a
  BY <1>1, <1>2, <1>3
<1>4. ASSUME NEW p \in MayFollow, p[1] \in Range(served), p[2] \in Range(served)
      PROVE  p \in MayFollow'
  <2>1. SUFFICES ASSUME {p[1], p[2]} \cap Async = {}, NEW m \in DOMAIN s, NEW n \in DOMAIN s,
                        s[m] = p[1], s[n] = p[2]
                 PROVE  m < n
    BY <1>2, <1>4 DEF MayFollow
  <2>2. m \in DOMAIN served /\ served[m] = p[1] /\ n \in DOMAIN served /\ served[n] = p[2]
    BY <1>3, <1>4, <2>1
  <2>3. QED
    BY <1>4, <2>1, <2>2 DEF MayFollow
<1>5. ASSUME NEW a \in Range(served) PROVE <<a, r>> \in MayFollow'
  <2>1. a # r /\ a \in Requests
    BY <1>1, RangeInSet
  <2>2. SUFFICES ASSUME NEW m \in DOMAIN s, NEW n \in DOMAIN s, s[m] = a, s[n] = r
                 PROVE  m < n
    BY <1>2, <2>1 DEF MayFollow
  <2>3. m \in DOMAIN served
    BY <1>3, <2>2
  <2>4. n = l
    <3>1. \A i \in DOMAIN served : served[i] \in Range(served)
      BY DEF Range
    <3>2. QED
      BY <1>1, <1>2, <2>2, <3>1
  <2>5. QED
    BY <1>2, <2>3, <2>4
<1>6. QED
  BY <1>4, <1>5

LEMMA OrderStep ==
  ASSUME TypeOK, Origins, TypeOK', SentOnce, OneAnswer, PairsIn(Answers, MayFollow),
         [Next]_vars
  PROVE  PairsIn(Answers', MayFollow')
<1>1. Answers \in Seq(Requests) /\ Range(Answers) \subseteq Range(served)
  BY AnswersDef, AnswersAreServed
<1>2. PICK a \in Seq(Requests) : a = Answers
  BY <1>1
<1>3. PICK b : b = Answers'
  OBVIOUS
<1>4. PICK old, new : old = MayFollow /\ new = MayFollow'
  OBVIOUS
<1>5. served' = served => new = old
  BY <1>4 DEF MayFollow
<1>6. PairsIn(a, old)
  BY <1>2, <1>4
<1>7. CASE served' = served /\ Answers' = Answers
  BY <1>2, <1>3, <1>4, <1>5, <1>6, <1>7
<1>8. ASSUME NEW r \in Requests, Decodes(r) PROVE PairsIn(b, new)
  <2>1. PairsIn(a, new)
    <3>1. SUFFICES ASSUME NEW i \in DOMAIN a, NEW j \in DOMAIN a, i < j
                   PROVE  <<a[i], a[j]>> \in new
      BY DEF PairsIn
    <3>2. <<a[i], a[j]>> \in old
      BY <1>6, <3>1 DEF PairsIn
    <3>3. a[i] \in Range(served) /\ a[j] \in Range(served)
      <4>1. a[i] \in Range(a) /\ a[j] \in Range(a)
        BY DEF Range
      <4>2. QED
        BY <1>1, <1>2, <4>1
    <3>4. \A p \in old : {p[1], p[2]} \subseteq Range(served) => p \in new
      BY <1>4, <1>8, ServingKeepsOrder
    <3>5. QED
      BY <3>2, <3>3, <3>4
  <2>2. \A x \in Range(a) : <<x, r>> \in new
    BY <1>1, <1>2, <1>4, <1>8, ServingKeepsOrder
  <2>3. PairsIn(Append(a, r), new)
    BY <2>1, <2>2, PairsOfAppend
  <2>4. b = a \/ b = Append(a, r)
    BY <1>2, <1>3, <1>8, DecodesAnswers
  <2>5. QED
    BY <2>1, <2>3, <2>4
<1>9. ASSUME NEW r \in Requests, Replied(r) PROVE PairsIn(b, new)
  <2>1. r \in Owed(todo)
    BY <1>9, OwedTail DEF TypeOK, Replied
  <2>2. r \in Async /\ r \notin Range(a)
    BY <1>2, <2>1 DEF Origins, OneAnswer
  <2>3. \A x \in Range(a) : <<x, r>> \in old
    <3>1. Range(a) \subseteq Requests
      BY RangeInSet
    <3>2. QED
      BY <1>4, <2>2, <3>1 DEF MayFollow
  <2>4. PairsIn(Append(a, r), old)
    BY <1>6, <2>3, PairsOfAppend
  <2>5. new = old /\ (b = a \/ b = Append(a, r))
    BY <1>2, <1>3, <1>5, <1>9 DEF Replied
  <2>6. QED
    BY <1>6, <2>4, <2>5
<1>10. CASE PeerSends
  <2>1. SameOut(conn, conn')
    BY <1>10, PeerSendsDef DEF TypeOK
  <2>2. Answers' = Answers /\ served' = served
    BY <1>10, <2>1 DEF PeerSends, Answers, SameOut
  <2>3. QED
    BY <1>7, <2>2
<1>11. CASE PeerResets
  <2>1. PairsIn(b, old)
    BY <1>2, <1>3, <1>4, <1>6, <1>11, ResetAnswers
  <2>2. served' = served
    BY <1>11 DEF PeerResets
  <2>3. QED
    BY <1>3, <1>4, <1>5, <2>1, <2>2
<1>12. QED
  BY <1>2, <1>3, <1>4, <1>7, <1>8, <1>9, <1>10, <1>11, StepKinds DEF StreamsKept

------------------------------------------------------------------------------
(* The theorems.                                                              *)

LEMMA BaseInvHolds == Spec => []BaseInv
<1>1. Init => BaseInv
  BY TypesInit, LifeInit, SeenInit DEF BaseInv
<1>2. BaseInv /\ [Next]_vars => BaseInv'
  BY TypesStep, LifeStep, SeenStep DEF BaseInv
<1>3. QED
  BY <1>1, <1>2, PTL DEF Spec

LEMMA SentOnceHolds == Spec => []SentOnce
<1>1. Init => SentOnce
  <2>1. SUFFICES ASSUME Init PROVE SentOnce
    OBVIOUS
  <2>2. <<>> \o (<<>> \o <<>>) = <<>> /\ DOMAIN <<>> = {}
    OBVIOUS
  <2>3. served \o Ahead(conn) = <<>>
    BY <2>1, <2>2 DEF Init, NewConnection, Ahead
  <2>4. QED
    BY <2>2, <2>3 DEF SentOnce, PairsIn
<1>2. BaseInv /\ BaseInv' /\ SentOnce /\ [Next]_vars => SentOnce'
  BY SentOnceStep DEF BaseInv
<1>3. QED
  BY <1>1, <1>2, BaseInvHolds, PTL DEF Spec

LEMMA NothingAnsweredYet ==
  ASSUME Init
  PROVE  OneAnswer /\ PairsIn(Answers, MayFollow)
<1>1. <<>> \o <<>> = <<>> /\ DOMAIN <<>> = {} /\ Range(<<>>) = {}
  BY EmptyRange
<1>2. Answers = <<>>
  BY <1>1 DEF Init, NewConnection, Answers
<1>3. DOMAIN todo = {1} /\ todo[1].kind = "setup"
  BY DEF Init, Functor
<1>4. Replies(todo) = {}
  BY <1>3 DEF Replies
<1>5. OneAnswer
  BY <1>1, <1>2, <1>4 DEF Init, OneAnswer, Owed, OwedOnce
<1>6. PairsIn(Answers, MayFollow)
  BY <1>1, <1>2 DEF PairsIn
<1>7. QED
  BY <1>5, <1>6

\* Every variable keeps its type: what is answered was decoded, what is in the
\* pool is one of its requests.
THEOREM TypeCorrect == Spec => []TypeOK
  BY BaseInvHolds, PTL DEF BaseInv

\* No handler runs on a TcpConnection that has been destroyed, in whatever order
\* the erase, a task's reply and the task's letting go come: while the loop
\* handles its events the map holds the connection.  A closed channel that a
\* write has put back into epoll is excepted (see ChannelRemovedBeforeDestruction).
THEOREM HandlersAreOnLive == Spec => []HandlersRunOnLive
<1>1. BaseInv => HandlersRunOnLive
  BY DEF BaseInv, LifeInv, HandlersRunOnLive, HandlingEvent, Alive
<1>2. QED
  BY <1>1, BaseInvHolds, PTL

\* Edge-triggered epoll is never waited on with unread input, an end of file, or
\* output the socket has room for: reading and writing until EAGAIN, and each
\* update of the channel, leave nothing that is not to be reported.
THEOREM NothingUnseen == Spec => []NothingWaitsUnseen
<1>1. BaseInv => NothingWaitsUnseen
  BY DEF BaseInv, SeenInv, Seen, NothingWaitsUnseen, HandlingEvent
<1>2. QED
  BY <1>1, BaseInvHolds, PTL

\* With authentication on, a request in the pool, or being answered from it,
\* followed a good "authenticate" on its connection.
THEOREM GateHolds == Spec => []PoolIsGated
<1>1. Init => GatedInv
  BY DEF Init, NewConnection, GatedInv
<1>2. BaseInv /\ BaseInv' /\ GatedInv /\ [Next]_vars => GatedInv'
  BY GatedStep DEF BaseInv
<1>3. BaseInv /\ GatedInv => PoolIsGated
  <2>1. SUFFICES ASSUME BaseInv, GatedInv PROVE PoolIsGated
    OBVIOUS
  <2>2. DOMAIN served = 1 .. Len(served)
    BY <2>1, ServedTypes DEF BaseInv
  <2>3. QED
    BY <2>1, <2>2 DEF GatedInv, PoolIsGated
<1>4. QED
  BY <1>1, <1>2, <1>3, BaseInvHolds, PTL DEF Spec

\* No request is answered twice, whether write(), the output buffer or a task's
\* functor takes the answer, and the answers the IO thread gives are in the order
\* of its requests.
THEOREM AnswersOnceInOrder == Spec => []AnsweredOnceInOrder
<1>1. Init => OneAnswer /\ PairsIn(Answers, MayFollow)
  BY NothingAnsweredYet
<1>2. BaseInv /\ BaseInv' /\ SentOnce /\ OneAnswer /\ [Next]_vars => OneAnswer'
  BY OneAnswerStep DEF BaseInv
<1>3. BaseInv /\ BaseInv' /\ SentOnce /\ OneAnswer /\ PairsIn(Answers, MayFollow)
        /\ [Next]_vars
      => PairsIn(Answers, MayFollow)'
  BY OrderStep DEF BaseInv, PairsIn
<1>4. BaseInv /\ PairsIn(Answers, MayFollow) => AnsweredOnceInOrder
  BY AnsweredIsOrdered DEF BaseInv
<1>5. QED
  BY <1>1, <1>2, <1>3, <1>4, BaseInvHolds, SentOnceHolds, PTL DEF Spec

=============================================================================
