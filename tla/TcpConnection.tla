---------------------------- MODULE TcpConnection ----------------------------
(* One TcpConnection of the TcpServer, from the setup functor that creates it *)
(* on its IO loop to its destruction: its Channel and the epoll registration  *)
(* behind it, its buffers, the server's callbacks that serve its requests,    *)
(* the pool's tasks that answer later, the peer and the socket between.       *)
(*                                                                            *)
(* A request or a response is one unit of input or output: how bytes make up  *)
(* messages is the codec's and the buffer's business.  The loop's functor     *)
(* queue is the sequence EventLoop is shown to implement, with the batch that *)
(* doPendingFunctors took marked off.  The socket and epoll are the kernel's: *)
(* the socket takes SendRoom responses before write() says EAGAIN; epoll is   *)
(* edge-triggered, and adding or modifying a descriptor reports it if ready.  *)
EXTENDS Naturals, Sequences, Functions

CONSTANTS
  Sync,        \* requests the IO thread answers itself
  Async,       \* requests for the thread pool (isAsyncMethod)
  GoodAuth,    \* "authenticate" with the right token
  BadAuth,     \* "authenticate" with any other
  AuthEnabled, \* auth_enabled_
  SendRoom

Requests == Sync \cup Async \cup GoodAuth \cup BadAuth

ASSUME KindsDisjoint ==
  /\ Sync \cap (Async \cup GoodAuth \cup BadAuth) = {}
  /\ Async \cap (GoodAuth \cup BadAuth) = {}
  /\ GoodAuth \cap BadAuth = {}
ASSUME AuthIsBoolean == AuthEnabled \in BOOLEAN
ASSUME RoomIsPositive == SendRoom \in Nat \ {0}

VARIABLES
  conn,      \* the connection: object, Channel and socket
  inMap,     \* connections_ holds it
  at,        \* where the IO loop is
  revents,   \* the events of the Channel being handled
  todo,      \* the loop's functors
  batch,     \* how many of them this iteration runs
  pooled,    \* the requests in the thread pool
  replying,  \* the tasks that have locked the weak_ptr and not queued the reply
  letting,   \* those that have queued it and not let the pointer go
  stopped,   \* TcpServer::stop has been called
  asked,     \* history: the requests the peer sent
  served,    \* history: the requests taken off the input buffer, in order
  received   \* history: the responses the peer read, in order

vars == <<conn, inMap, at, revents, todo, batch, pooled, replying, letting,
          stopped, asked, served, received>>

loopVars == <<at, revents, batch>>
poolVars == <<pooled, replying, letting>>
peerVars == <<asked, received>>

Functor(kind) == [kind |-> kind]
Reply(r) == [kind |-> "reply", req |-> r]

NewConnection ==
  [state |-> "none", interest |-> {}, registered |-> FALSE, edge |-> FALSE,
   authenticated |-> FALSE, input |-> <<>>, output |-> <<>>,
   rx |-> <<>>, wire |-> <<>>, eof |-> FALSE, reset |-> FALSE]

\* The acceptor has accepted the socket and queued the setup functor.
Init ==
  /\ conn = NewConnection
  /\ inMap = FALSE
  /\ at = "poll"
  /\ revents = {}
  /\ todo = <<Functor("setup")>>
  /\ batch = 0
  /\ pooled = {}
  /\ replying = {}
  /\ letting = {}
  /\ stopped = FALSE
  /\ asked = {}
  /\ served = <<>>
  /\ received = <<>>

------------------------------------------------------------------------------
(* epoll, Channel and EpollPoller.                                            *)

IsReady(k, event) ==
  \/ event = "IN" /\ (k.rx # <<>> \/ k.eof \/ k.reset)
  \/ event = "OUT" /\ (Len(k.wire) < SendRoom \/ k.reset)
  \/ event \in {"ERR", "HUP"} /\ k.reset

\* ERR and HUP are reported whether asked for or not.
ReadyEvents(k) == {e \in k.interest \cup {"ERR", "HUP"} : IsReady(k, e)}

\* An unregistered channel is added, even for no events; a registered one is
\* deleted when no events are left and modified otherwise.
UpdateChannel(k) ==
  IF k.registered /\ k.interest = {}
    THEN [k EXCEPT !.registered = FALSE, !.edge = FALSE]
    ELSE [k EXCEPT !.registered = TRUE, !.edge = ReadyEvents(k) # {}]

RemoveChannel(k) == [k EXCEPT !.registered = FALSE, !.edge = FALSE]

------------------------------------------------------------------------------
(* TcpConnection's handlers, as what they make of the connection.             *)

CloseKeepsChannel(k) ==   \* mutant: no disableAll and no remove
  [k EXCEPT !.state = "kDisconnected"]

HandleClose(k) ==
  IF k.state = "kDisconnected"
    THEN k
    ELSE RemoveChannel(UpdateChannel(
           [k EXCEPT !.state = "kDisconnected", !.interest = {}]))

SendUnarmed(k, r) ==   \* mutant: what write() left over is not waited for
  IF k.state # "kConnected" THEN k
  ELSE IF k.output = <<>> /\ k.reset THEN HandleClose(k)
  ELSE IF k.output = <<>> /\ Len(k.wire) < SendRoom
    THEN [k EXCEPT !.wire = Append(@, r)]
  ELSE [k EXCEPT !.output = Append(@, r)]

SendOutOfTurn(k, r) ==   \* mutant: write() is tried with output still buffered
  IF k.state # "kConnected" THEN k
  ELSE IF k.reset THEN HandleClose(k)
  ELSE IF Len(k.wire) < SendRoom
    THEN [k EXCEPT !.wire = Append(@, r)]
  ELSE UpdateChannel([k EXCEPT !.output = Append(@, r),
                               !.interest = @ \cup {"OUT"}])

Send(k, r) ==
  IF k.state # "kConnected" THEN k
  ELSE IF k.output = <<>> /\ k.reset THEN HandleClose(k)
  ELSE IF k.output = <<>> /\ Len(k.wire) < SendRoom
    THEN [k EXCEPT !.wire = Append(@, r)]
  ELSE UpdateChannel([k EXCEPT !.output = Append(@, r),
                               !.interest = @ \cup {"OUT"}])

DisableWriting(k) == UpdateChannel([k EXCEPT !.interest = @ \ {"OUT"}])

\* As much of the output as the socket takes.
WriteOut(k) ==
  LET room == SendRoom - Len(k.wire)
      n == IF room < Len(k.output) THEN room ELSE Len(k.output)
  IN  [k EXCEPT !.wire = @ \o SubSeq(k.output, 1, n),
                !.output = SubSeq(@, n + 1, Len(@))]

\* The state is not looked at: a connection that this event has closed writes
\* on, and updates its channel.
HandleWrite(k) ==
  IF k.output = <<>> THEN DisableWriting(k)
  ELSE IF k.reset THEN HandleClose(k)
  ELSE IF WriteOut(k).output = <<>> THEN DisableWriting(WriteOut(k))
  ELSE WriteOut(k)

TakeOnce(k) ==   \* mutant: read() is called once, not until EAGAIN
  IF k.rx = <<>> THEN k
                 ELSE [k EXCEPT !.input = Append(@, Head(k.rx)), !.rx = Tail(@)]

TakeInput(k) == [k EXCEPT !.input = @ \o k.rx, !.rx = <<>>]

ConnectEstablished(k) ==
  UpdateChannel([k EXCEPT !.state = "kConnected", !.interest = {"IN"}])

\* shutdown() in the loop thread: its runInLoop calls handleClose at once.
ShutdownConnection(k) ==
  IF k.state = "kConnected"
    THEN HandleClose(UpdateChannel(
           [k EXCEPT !.state = "kDisconnecting", !.interest = {}]))
    ELSE k

\* handleClose calls the close callback, which queues the erase.
Closes(k, k2) == k.state # "kDisconnected" /\ k2.state = "kDisconnected"

EraseNever(k, k2) == <<>>   \* mutant: the close callback is not called

EraseIfClosed(k, k2) == IF Closes(k, k2) THEN <<Functor("erase")>> ELSE <<>>

\* A handler turns the connection into k, and queues what that makes it queue.
Becomes(k, queue) == conn' = k /\ todo' = queue \o EraseIfClosed(conn, k)

------------------------------------------------------------------------------
(* Who keeps the object alive: the map, a functor's capture, a locked         *)
(* weak_ptr.  The channel's callbacks hold a plain pointer.                   *)

Captures(f) == f.kind \in {"reply", "shutdown"}

Alive ==
  \/ inMap
  \/ \E i \in 1 .. Len(todo) : Captures(todo[i])
  \/ replying \cup letting # {}

Destroyed == conn.state # "none" /\ ~Alive

------------------------------------------------------------------------------
(* The peer and the socket.                                                   *)

Edge(k) == [k EXCEPT !.edge = @ \/ (k.registered /\ ReadyEvents(k) # {})]

PeerSends ==
  /\ ~conn.eof /\ ~conn.reset
  /\ \E r \in Requests \ asked :
       /\ conn' = Edge([conn EXCEPT !.rx = Append(@, r)])
       /\ asked' = asked \cup {r}
  /\ UNCHANGED <<inMap, loopVars, todo, poolVars, stopped, served, received>>

PeerFinishes ==
  /\ ~conn.eof /\ ~conn.reset
  /\ conn' = Edge([conn EXCEPT !.eof = TRUE])
  /\ UNCHANGED <<inMap, loopVars, todo, poolVars, stopped, peerVars, served>>

PeerResets ==
  /\ ~conn.reset
  /\ conn' = Edge([conn EXCEPT !.reset = TRUE, !.rx = <<>>, !.wire = <<>>])
  /\ UNCHANGED <<inMap, loopVars, todo, poolVars, stopped, peerVars, served>>

\* Only a socket that was full reports that it is writable again.
PeerReads ==
  /\ conn.wire # <<>>
  /\ received' = Append(received, Head(conn.wire))
  /\ LET k == [conn EXCEPT !.wire = Tail(@)]
     IN  conn' = IF Len(conn.wire) = SendRoom THEN Edge(k) ELSE k
  /\ UNCHANGED <<inMap, loopVars, todo, poolVars, stopped, asked, served>>

------------------------------------------------------------------------------
(* The IO loop: poll, the connection's events, then the functors.             *)

\* Closing the descriptor, on destruction, takes it out of epoll.  EPOLLET is
\* among the events asked for, unless none is: then epoll reports on and on.
Reported == IF conn.edge /\ Alive THEN ReadyEvents(conn) ELSE {}

PollReturns ==
  /\ at = "poll"
  /\ Reported # {} \/ todo # <<>>
  /\ revents' = Reported
  /\ conn' = [conn EXCEPT !.edge = @ /\ conn.interest = {} /\ Reported # {}]
  /\ at' = "event"
  /\ UNCHANGED <<inMap, todo, batch, poolVars, stopped, peerVars, served>>

\* Channel::handleEvent: a hangup or an error closes, and ends the handling.
HandleFailure ==
  /\ at = "event"
  /\ "ERR" \in revents \/ ("HUP" \in revents /\ "IN" \notin revents)
  /\ Becomes(HandleClose(conn), todo)
  /\ at' = "swap"
  /\ UNCHANGED <<inMap, revents, batch, poolVars, stopped, peerVars, served>>

Healthy == revents \cap {"ERR", "HUP"} = {}

\* handleRead reads until EAGAIN; end of file or an error closes the
\* connection, and what was read is then never decoded.
HandleRead ==
  /\ at = "event"
  /\ Healthy /\ "IN" \in revents
  /\ IF conn.eof \/ conn.reset
       THEN Becomes(HandleClose(TakeInput(conn)), todo) /\ at' = "write"
       ELSE Becomes(TakeInput(conn), todo) /\ at' = "decode"
  /\ UNCHANGED <<inMap, revents, batch, poolVars, stopped, peerVars, served>>

NothingToRead ==
  /\ at = "event"
  /\ Healthy /\ "IN" \notin revents
  /\ at' = "write"
  /\ UNCHANGED <<conn, inMap, revents, todo, batch, poolVars, stopped,
                 peerVars, served>>

\* onMessage: authenticate, then the gate, then dispatchMessage.
Refused == AuthEnabled /\ ~conn.authenticated

Authenticated(r) ==
  [conn EXCEPT !.authenticated = @ \/ (AuthEnabled /\ r \in GoodAuth)]

DecodeNext(r, k) ==
  /\ at = "decode"
  /\ conn.input # <<>>
  /\ r = Head(conn.input)
  /\ Becomes([k EXCEPT !.input = Tail(@)], todo)
  /\ served' = Append(served, r)
  /\ UNCHANGED <<inMap, loopVars, replying, letting, stopped, peerVars>>

AnswerAuthenticate(r) ==
  /\ r \in GoodAuth \cup BadAuth
  /\ DecodeNext(r, Send(Authenticated(r), r))
  /\ UNCHANGED pooled

AnswerAtOnce(r) ==
  /\ r \in Sync \/ (r \in Async /\ Refused)
  /\ DecodeNext(r, Send(conn, r))
  /\ UNCHANGED pooled

\* The queue is full: "server busy", sent from the loop thread itself.
AnswerBusy(r) ==
  /\ r \in Async /\ ~Refused
  /\ DecodeNext(r, Send(conn, r))
  /\ UNCHANGED pooled

GiveToPoolUngated(r) ==   \* mutant: the gate is not asked for pool requests
  /\ r \in Async
  /\ DecodeNext(r, conn)
  /\ pooled' = pooled \cup {r}

GiveToPoolAny(r) ==   \* mutant: isAsyncMethod is not asked
  /\ ~Refused
  /\ DecodeNext(r, conn)
  /\ pooled' = pooled \cup {r}

GiveToPool(r) ==
  /\ r \in Async /\ ~Refused
  /\ DecodeNext(r, conn)
  /\ pooled' = pooled \cup {r}

DecodeDone ==
  /\ at = "decode"
  /\ conn.input = <<>>
  /\ at' = "write"
  /\ UNCHANGED <<conn, inMap, revents, todo, batch, poolVars, stopped,
                 peerVars, served>>

Write ==
  /\ at = "write"
  /\ IF "OUT" \in revents THEN Becomes(HandleWrite(conn), todo)
                          ELSE UNCHANGED <<conn, todo>>
  /\ at' = "swap"
  /\ UNCHANGED <<inMap, revents, batch, poolVars, stopped, peerVars, served>>

Swap ==
  /\ at = "swap"
  /\ revents' = {}
  /\ batch' = Len(todo)
  /\ at' = "functors"
  /\ UNCHANGED <<conn, inMap, todo, poolVars, stopped, peerVars, served>>

RunFunctor(kind) ==
  /\ at = "functors"
  /\ batch > 0
  /\ Head(todo).kind = kind
  /\ batch' = batch - 1
  /\ UNCHANGED <<at, revents, poolVars, stopped, peerVars, served>>

\* createConnectionOnLoop: into the map, then connectEstablished.
RunSetup ==
  /\ RunFunctor("setup")
  /\ inMap' = TRUE
  /\ Becomes(ConnectEstablished(conn), Tail(todo))

RunReply ==
  /\ RunFunctor("reply")
  /\ Becomes(Send(conn, Head(todo).req), Tail(todo))
  /\ UNCHANGED inMap

RunShutdown ==
  /\ RunFunctor("shutdown")
  /\ Becomes(ShutdownConnection(conn), Tail(todo))
  /\ UNCHANGED inMap

RunErase ==
  /\ RunFunctor("erase")
  /\ inMap' = FALSE
  /\ todo' = Tail(todo)
  /\ UNCHANGED conn

IterationDone ==
  /\ at = "functors"
  /\ batch = 0
  /\ at' = "poll"
  /\ UNCHANGED <<conn, inMap, revents, todo, batch, poolVars, stopped,
                 peerVars, served>>

------------------------------------------------------------------------------
(* The other threads: the pool's workers, and main in TcpServer::stop.        *)

\* The task is done; weak_conn.lock() gives the connection if it still lives.
TaskEnds(r) ==
  /\ r \in pooled
  /\ pooled' = pooled \ {r}
  /\ replying' = IF Alive THEN replying \cup {r} ELSE replying
  /\ UNCHANGED <<conn, inMap, loopVars, todo, letting, stopped, peerVars,
                 served>>

\* sendInLoop: the functor captures the connection.
QueueReply(r) ==
  /\ r \in replying
  /\ replying' = replying \ {r}
  /\ letting' = letting \cup {r}
  /\ todo' = Append(todo, Reply(r))
  /\ UNCHANGED <<conn, inMap, loopVars, pooled, stopped, peerVars, served>>

\* The shared_ptr goes out of scope; the object may end here, on this thread.
LetGo(r) ==
  /\ r \in letting
  /\ letting' = letting \ {r}
  /\ UNCHANGED <<conn, inMap, loopVars, todo, pooled, replying, stopped,
                 peerVars, served>>

ServerStops ==
  /\ ~stopped
  /\ stopped' = TRUE
  /\ todo' = IF inMap THEN Append(todo, Functor("shutdown")) ELSE todo
  /\ UNCHANGED <<conn, inMap, loopVars, poolVars, peerVars, served>>

------------------------------------------------------------------------------
Decode ==
  \/ \E r \in Requests : \/ AnswerAuthenticate(r)
                         \/ AnswerAtOnce(r)
                         \/ AnswerBusy(r)
                         \/ GiveToPool(r)
  \/ DecodeDone

LoopRuns ==
  \/ PollReturns \/ HandleFailure \/ HandleRead \/ NothingToRead \/ Decode
  \/ Write \/ Swap \/ RunSetup \/ RunReply \/ RunShutdown \/ RunErase
  \/ IterationDone

Next ==
  \/ LoopRuns
  \/ PeerSends \/ PeerFinishes \/ PeerResets \/ PeerReads
  \/ \E r \in Requests : TaskEnds(r) \/ QueueReply(r) \/ LetGo(r)
  \/ ServerStops

Spec == Init /\ [][Next]_vars

(* The loop and the pool run and tasks end; epoll_wait returns when there is  *)
(* something to do, after ten seconds at the latest.  The peer reads what it  *)
(* is sent; whether it sends, closes or resets is up to it.                   *)
FairSpec ==
  /\ Spec
  /\ WF_vars(LoopRuns)
  /\ WF_vars(PeerReads)
  /\ \A r \in Requests :
       WF_vars(TaskEnds(r)) /\ WF_vars(QueueReply(r)) /\ WF_vars(LetGo(r))

------------------------------------------------------------------------------
Connections ==
  [state : {"none", "kConnected", "kDisconnecting", "kDisconnected"},
   interest : SUBSET {"IN", "OUT"}, registered : BOOLEAN, edge : BOOLEAN,
   authenticated : BOOLEAN, input : Seq(Requests), output : Seq(Requests),
   rx : Seq(Requests), wire : Seq(Requests), eof : BOOLEAN, reset : BOOLEAN]

Functors == {Functor(kind) : kind \in {"setup", "erase", "shutdown"}}
              \cup {Reply(r) : r \in Requests}

\* Every variable holds a value of its type: only pool requests are in the pool,
\* and what the peer reads answers a request that was decoded (onMessage).
TypeOK ==
  /\ conn \in Connections
  /\ inMap \in BOOLEAN
  /\ at \in {"poll", "event", "decode", "write", "swap", "functors"}
  /\ revents \subseteq {"IN", "OUT", "ERR", "HUP"}
  /\ todo \in Seq(Functors)
  /\ batch \in 0 .. Len(todo)
  /\ pooled \subseteq Async /\ replying \subseteq Async /\ letting \subseteq Async
  /\ stopped \in BOOLEAN
  /\ asked \subseteq Requests
  /\ served \in Seq(asked) /\ received \in Seq(Range(served))

\* The channel's callbacks hold a plain `this`: whenever the loop is about to
\* call one, TcpConnection must still exist -- though the erase, a task's reply
\* and the task's letting go come in any order.  A closed channel that got back
\* into epoll with no events asked for is the subject of
\* ChannelRemovedBeforeDestruction.
BackInEpoll(k) == k.state = "kDisconnected" /\ k.registered /\ k.interest = {}

HandlersRunOnLive ==
  at \in {"event", "decode", "write"} /\ revents # {} /\ ~BackInEpoll(conn)
    => Alive

\* Edge-triggered epoll reports a change once.  Whenever the loop goes to poll
\* with something left to do for an open connection -- unread input, the end
\* of it, or output the socket has room for -- epoll still has it to report.
NothingWaitsUnseen ==
  at = "poll" /\ conn.state = "kConnected"
    /\ (IsReady(conn, "IN") \/ (conn.output # <<>> /\ IsReady(conn, "OUT")))
  => conn.edge

\* No request is answered twice, whichever of write(), the output buffer and
\* the task's functor the answer takes, and the peer reads answers given by
\* the IO thread in the order of its requests.
Answers == received \o conn.wire \o conn.output

AnsweredOnceInOrder ==
  /\ \A i, j \in 1 .. Len(Answers) : Answers[i] = Answers[j] => i = j
  /\ \A i, j \in 1 .. Len(Answers) : \A m, n \in 1 .. Len(served) :
       /\ i < j /\ served[m] = Answers[i] /\ served[n] = Answers[j]
       /\ {Answers[i], Answers[j]} \cap Async = {}
       => m < n

\* With authentication on, no request gets to the pool that did not follow a
\* successful "authenticate" on this connection.
PoolIsGated ==
  AuthEnabled =>
    \A r \in pooled \cup replying : \E i, j \in 1 .. Len(served) :
      i < j /\ served[i] \in GoodAuth /\ served[j] = r

\* A request that was decoded is answered, and the answer read, unless the
\* connection ends first.
ServedIsAnswered ==
  \A r \in Requests :
    r \in Range(served) ~> r \in Range(received) \/ conn.state = "kDisconnected"

\* A closed connection is let go of by the map, by every functor and by every
\* task, and so freed.
ClosedIsFreed == conn.state = "kDisconnected" ~> Destroyed

\* "The Channel must be removed before destruction", ~TcpConnection says.
ChannelRemovedBeforeDestruction == Destroyed => ~conn.registered

==============================================================================
