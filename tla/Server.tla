------------------------------- MODULE Server -------------------------------
(* TcpServer on its loops, from start() to the return of main(): accepting,   *)
(* placing connections on loops, naming them, the map connections_, closing,  *)
(* replies from the thread pool, and main's order of shutting down.           *)
(*                                                                            *)
(* TcpConnection.tla has the inside of one connection, EventLoop.tla that of  *)
(* one loop and its wakeups; here a loop turns for ever (its poll times out), *)
(* handling events one by one and then running the functors it swapped out.   *)
(* The loops have entered loop() when the server starts.  reactor.mode is     *)
(* chosen at the start: multi has the worker loops, single has Base alone.    *)
EXTENDS Naturals, Sequences, FiniteSets

CONSTANTS
  Sockets,   \* the connections clients make
  Asking,    \* those that send an asynchronous request, one each
  Base,      \* the loop of main()
  Workers    \* the loops of the EventLoopThreadPool, as a sequence

WorkerLoops == {Workers[i] : i \in 1 .. Len(Workers)}
Loops == {Base} \cup WorkerLoops

ASSUME LoopsDiffer ==
  /\ Workers \in Seq(WorkerLoops) /\ Len(Workers) > 0
  /\ Base \notin WorkerLoops
  /\ Asking \subseteq Sockets

VARIABLES
  multi,       \* reactor.mode is multi
  backlog,     \* the connections the kernel has for accept()
  edge,        \* epoll has an event for the acceptor
  gaveUp,      \* the last accept loop ended at an error
  next,        \* next_ of the worker pool, counted from 1
  nextConnId,  \* next_conn_id_
  connections, \* connections_: for each name, a number, the socket it stands for
  sock,        \* the state of each connection
  loop,        \* the loop each accepted connection was given
  name,        \* the number in the name of each connection
  at,          \* where each loop is
  making,      \* the socket createConnectionOnLoop works on in each loop, and its id
  todo,        \* pending_functors_ of each loop
  batch,       \* the functors it has swapped out and not run yet
  quit,        \* the loops asked to quit
  asked,       \* the connections that have sent their one asynchronous request
  pooled,      \* the connections with a task in the pool
  replying,    \* the tasks that have locked their connection and not yet replied
  strayed,     \* history: the replies queued on a loop that was destroyed
  main,        \* where main() is
  toStop       \* the connections stop() has copied and not yet shut down

acceptVars == <<backlog, edge, gaveUp, next>>
mapVars == <<nextConnId, connections, name>>
loopVars == <<at, making, batch>>
poolVars == <<asked, pooled, replying, strayed>>
mainVars == <<multi, quit, main, toStop>>
vars == <<acceptVars, mapVars, sock, loop, loopVars, todo, poolVars, mainVars>>

Idle == <<>>

InMap(s) == \E n \in DOMAIN connections : connections[n] = s /\ name[s] = n

Functor(op, s) == <<op, s>>
Queued(l) == {todo[l][i] : i \in 1 .. Len(todo[l])} \cup {batch[l][i] : i \in 1 .. Len(batch[l])}

\* A shared_ptr to the connection is left.
Referenced(s) ==
  InMap(s) \/ s \in toStop \/ \E l \in Loops : Functor("shutdown", s) \in Queued(l)

Init ==
  /\ multi \in BOOLEAN
  /\ backlog = <<>>
  /\ edge = FALSE
  /\ gaveUp = FALSE
  /\ next = 1
  /\ nextConnId = 0
  /\ connections = [n \in {} |-> Base]
  /\ sock = [s \in Sockets |-> "none"]
  /\ loop = [s \in Sockets |-> Base]
  /\ name = [s \in Sockets |-> 0]
  /\ at = [l \in Loops |-> "poll"]
  /\ making = [l \in Loops |-> Idle]
  /\ todo = [l \in Loops |-> <<>>]
  /\ batch = [l \in Loops |-> <<>>]
  /\ quit = {}
  /\ asked = {}
  /\ pooled = {}
  /\ replying = {}
  /\ strayed = {}
  /\ main = "start"
  /\ toStop = {}

------------------------------------------------------------------------------
(* Accepting, on Base.  The acceptor is edge-triggered.                       *)

\* The socket listens from the constructor on; start() registers it.
Arrive(s) ==
  /\ sock[s] = "none"
  /\ sock' = [sock EXCEPT ![s] = "backlog"]
  /\ backlog' = Append(backlog, s)
  /\ edge' = (edge \/ main = "serving")
  /\ UNCHANGED <<gaveUp, next, mapVars, loop, loopVars, todo, poolVars, mainVars>>

Start ==
  /\ main = "start"
  /\ main' = "serving"
  /\ edge' = (backlog # <<>>)
  /\ UNCHANGED <<backlog, gaveUp, next, mapVars, sock, loop, loopVars, todo,
                 poolVars, multi, quit, toStop>>

AcceptEvent ==
  /\ at[Base] = "poll" /\ main = "serving"
  /\ edge
  /\ edge' = FALSE
  /\ at' = [at EXCEPT ![Base] = "accept"]
  /\ UNCHANGED <<backlog, gaveUp, next, mapVars, sock, loop, making, batch, todo,
                 poolVars, mainVars>>

\* getNextLoop: the workers in turn, or Base when there are none.
NextLoop == IF multi THEN Workers[next] ELSE Base

Place(s) ==
  /\ sock' = [sock EXCEPT ![s] = "accepted"]
  /\ loop' = [loop EXCEPT ![s] = NextLoop]
  /\ next' = IF multi THEN (next % Len(Workers)) + 1 ELSE next
  /\ IF multi
     THEN /\ todo' = [todo EXCEPT ![NextLoop] = Append(@, Functor("setup", s))]
          /\ UNCHANGED making
     ELSE /\ making' = [making EXCEPT ![Base] = <<s, nextConnId>>]
          /\ UNCHANGED todo

AcceptOne ==   \* mutant: one accept() for each event
  /\ at[Base] = "accept" /\ making[Base] = Idle
  /\ backlog # <<>>
  /\ Place(Head(backlog))
  /\ backlog' = Tail(backlog)
  /\ gaveUp' = FALSE
  /\ at' = [at EXCEPT ![Base] = "poll"]
  /\ UNCHANGED <<edge, mapVars, batch, poolVars, mainVars>>

\* On Base createConnectionOnLoop runs here, before the next accept().
Accept ==
  /\ at[Base] = "accept" /\ making[Base] = Idle
  /\ backlog # <<>>
  /\ Place(Head(backlog))
  /\ backlog' = Tail(backlog)
  /\ UNCHANGED <<edge, gaveUp, mapVars, at, batch, poolVars, mainVars>>

AcceptDone ==
  /\ at[Base] = "accept" /\ making[Base] = Idle
  /\ backlog = <<>>
  /\ gaveUp' = FALSE
  /\ at' = [at EXCEPT ![Base] = "poll"]
  /\ UNCHANGED <<backlog, edge, next, mapVars, sock, loop, making, batch, todo,
                 poolVars, mainVars>>

\* EMFILE leaves the connection in the backlog, ECONNABORTED takes it out.
AcceptFails ==
  /\ at[Base] = "accept" /\ making[Base] = Idle
  /\ backlog # <<>>
  /\ \/ UNCHANGED <<backlog, sock>>
     \/ /\ backlog' = Tail(backlog)
        /\ sock' = [sock EXCEPT ![Head(backlog)] = "aborted"]
  /\ gaveUp' = TRUE
  /\ at' = [at EXCEPT ![Base] = "poll"]
  /\ UNCHANGED <<edge, next, mapVars, loop, making, batch, todo, poolVars, mainVars>>

------------------------------------------------------------------------------
(* createConnectionOnLoop: next_conn_id_ is read and then stored, without a   *)
(* lock; the rest is the loop's own but for the map, which has one.           *)

CreateForgets(l) ==   \* mutant: the increment of next_conn_id_ is lost
  /\ making[l] # Idle
  /\ LET s == making[l][1]
         id == making[l][2]
     IN /\ nextConnId' = id
        /\ name' = [name EXCEPT ![s] = id]
        /\ connections' = [n \in DOMAIN connections \cup {id} |->
                             IF n = id THEN s ELSE connections[n]]
        /\ sock' = [sock EXCEPT ![s] = "open"]
  /\ making' = [making EXCEPT ![l] = Idle]
  /\ UNCHANGED <<acceptVars, loop, at, batch, todo, poolVars, mainVars>>

Create(l) ==
  /\ making[l] # Idle
  /\ LET s == making[l][1]
         id == making[l][2]
     IN /\ nextConnId' = id + 1
        /\ name' = [name EXCEPT ![s] = id]
        /\ connections' = [n \in DOMAIN connections \cup {id} |->
                             IF n = id THEN s ELSE connections[n]]
        /\ sock' = [sock EXCEPT ![s] = "open"]
  /\ making' = [making EXCEPT ![l] = Idle]
  /\ UNCHANGED <<acceptVars, loop, at, batch, todo, poolVars, mainVars>>

------------------------------------------------------------------------------
(* Events of a connection, on its loop.                                       *)

\* handleClose, whose close callback is removeConnection.
Close(s) ==
  /\ sock' = [sock EXCEPT ![s] = "closed"]
  /\ todo' = [todo EXCEPT ![loop[s]] = Append(@, Functor("erase", s))]

HandleClose(s) ==
  /\ sock[s] = "open" /\ InMap(s)
  /\ at[loop[s]] = "poll"
  /\ Close(s)
  /\ UNCHANGED <<acceptVars, mapVars, loop, loopVars, poolVars, mainVars>>

\* dispatchMessage gives an asynchronous request to the pool.
Dispatch(s) ==
  /\ s \in Asking
  /\ sock[s] = "open" /\ InMap(s)
  /\ at[loop[s]] = "poll"
  /\ s \notin asked
  /\ asked' = asked \cup {s}
  /\ pooled' = pooled \cup {s}
  /\ UNCHANGED <<acceptVars, mapVars, sock, loop, loopVars, todo, replying,
                 strayed, mainVars>>

------------------------------------------------------------------------------
(* Functors.                                                                  *)

Swap(l) ==
  /\ at[l] = "poll"
  /\ todo[l] # <<>>
  /\ at' = [at EXCEPT ![l] = "run"]
  /\ batch' = [batch EXCEPT ![l] = todo[l]]
  /\ todo' = [todo EXCEPT ![l] = <<>>]
  /\ UNCHANGED <<acceptVars, mapVars, sock, loop, making, poolVars, mainVars>>

TakeFunctor(l, op) ==
  /\ at[l] = "run" /\ making[l] = Idle
  /\ batch[l] # <<>> /\ Head(batch[l])[1] = op
  /\ batch' = [batch EXCEPT ![l] = Tail(@)]

RunSetup(l) ==
  /\ TakeFunctor(l, "setup")
  /\ making' = [making EXCEPT ![l] = <<Head(batch[l])[2], nextConnId>>]
  /\ UNCHANGED <<acceptVars, mapVars, sock, loop, at, todo, poolVars, mainVars>>

RunErase(l) ==
  /\ TakeFunctor(l, "erase")
  /\ LET n == name[Head(batch[l])[2]]
     IN connections' = [k \in DOMAIN connections \ {n} |-> connections[k]]
  /\ UNCHANGED <<acceptVars, nextConnId, name, sock, loop, at, making, todo,
                 poolVars, mainVars>>

RunReplyQuietly(l) ==   \* mutant: the connection that fails to write is not removed
  LET s == Head(batch[l])[2]
  IN /\ TakeFunctor(l, "reply")
     /\ \/ UNCHANGED sock
        \/ sock[s] = "open" /\ sock' = [sock EXCEPT ![s] = "closed"]
     /\ UNCHANGED <<acceptVars, mapVars, loop, at, making, todo, poolVars, mainVars>>

\* send writes, does nothing on a connection that is closed, or meets an error.
RunReply(l) ==
  LET s == Head(batch[l])[2]
  IN /\ TakeFunctor(l, "reply")
     /\ \/ UNCHANGED <<sock, todo>>
        \/ sock[s] = "open" /\ Close(s)
     /\ UNCHANGED <<acceptVars, mapVars, loop, at, making, poolVars, mainVars>>

RunShutdown(l) ==
  LET s == Head(batch[l])[2]
  IN /\ TakeFunctor(l, "shutdown")
     /\ IF sock[s] = "open" THEN Close(s) ELSE UNCHANGED <<sock, todo>>
     /\ UNCHANGED <<acceptVars, mapVars, loop, at, making, poolVars, mainVars>>

\* A turn that swaps out nothing is seen only when it is the last.  What other
\* threads have queued since that swap is then left; an erase is queued by the loop
\* itself, before the swap.
LastTurn(l) ==
  /\ at[l] = "poll" /\ l \in quit
  /\ \A i \in 1 .. Len(todo[l]) : todo[l][i][1] # "erase"
  /\ at' = [at EXCEPT ![l] = "ended"]
  /\ UNCHANGED <<acceptVars, mapVars, sock, loop, making, batch, todo, poolVars,
                 mainVars>>

\* The turn ends; loop() tests quit_ before the next poll.
TurnEnds(l) ==
  /\ at[l] = "run" /\ making[l] = Idle
  /\ batch[l] = <<>>
  /\ at' = [at EXCEPT ![l] = IF l \in quit THEN "ended" ELSE "poll"]
  /\ UNCHANGED <<acceptVars, mapVars, sock, loop, making, batch, todo, poolVars,
                 mainVars>>

\* A worker's EventLoop is on the stack of its thread.
Destroy(l) ==
  /\ l # Base /\ at[l] = "ended"
  /\ at' = [at EXCEPT ![l] = "destroyed"]
  /\ UNCHANGED <<acceptVars, mapVars, sock, loop, making, batch, todo, poolVars,
                 mainVars>>

------------------------------------------------------------------------------
(* The tasks of the pool.                                                     *)

TaskEnds(s) ==
  /\ s \in pooled
  /\ pooled' = pooled \ {s}
  /\ replying' = IF Referenced(s) THEN replying \cup {s} ELSE replying
  /\ UNCHANGED <<acceptVars, mapVars, sock, loop, loopVars, todo, asked, strayed,
                 mainVars>>

QueueReply(s) ==
  /\ s \in replying
  /\ replying' = replying \ {s}
  /\ IF at[loop[s]] = "destroyed"
     THEN strayed' = strayed \cup {s} /\ UNCHANGED todo
     ELSE /\ todo' = [todo EXCEPT ![loop[s]] = Append(@, Functor("reply", s))]
          /\ UNCHANGED strayed
  /\ UNCHANGED <<acceptVars, mapVars, sock, loop, loopVars, asked, pooled,
                 mainVars>>

------------------------------------------------------------------------------
(* main().                                                                    *)

\* The monitor thread saw g_running go false.
Signal ==
  /\ main = "serving"
  /\ quit' = quit \cup {Base}
  /\ UNCHANGED <<acceptVars, mapVars, sock, loop, loopVars, todo, poolVars, multi,
                 main, toStop>>

\* TcpServer::stop copies the map; the acceptor is removed.
StopServer ==
  /\ main = "serving" /\ at[Base] = "ended"
  /\ main' = "stopping"
  /\ edge' = FALSE
  /\ toStop' = {connections[n] : n \in DOMAIN connections}
  /\ UNCHANGED <<backlog, gaveUp, next, mapVars, sock, loop, loopVars, todo,
                 poolVars, multi, quit>>

\* runInLoop: at once on Base, which is main's own, else as a functor.
ShutDownConnection(s) ==
  /\ s \in toStop
  /\ toStop' = toStop \ {s}
  /\ IF loop[s] = Base
     THEN IF sock[s] = "open" THEN Close(s) ELSE UNCHANGED <<sock, todo>>
     ELSE /\ todo' = [todo EXCEPT ![loop[s]] = Append(@, Functor("shutdown", s))]
          /\ UNCHANGED sock
  /\ UNCHANGED <<acceptVars, mapVars, loop, loopVars, poolVars, multi, quit, main>>

\* EventLoopThreadPool::stop: each worker is told to quit and joined, in turn.
StopWorker ==
  /\ main = "stopping" /\ toStop = {} /\ multi
  /\ \E i \in 1 .. Len(Workers) :
       /\ Workers[i] \notin quit
       /\ \A j \in 1 .. i - 1 : at[Workers[j]] = "destroyed"
       /\ quit' = quit \cup {Workers[i]}
  /\ UNCHANGED <<acceptVars, mapVars, sock, loop, loopVars, todo, poolVars, multi,
                 main, toStop>>

StopPool ==
  /\ main = "stopping" /\ toStop = {}
  /\ multi => \A l \in WorkerLoops : at[l] = "destroyed"
  /\ main' = "draining"
  /\ UNCHANGED <<acceptVars, mapVars, sock, loop, loopVars, todo, poolVars, multi,
                 quit, toStop>>

\* ThreadPool::shutdown has run the tasks; main's objects go, Base the last of them.
Return ==
  /\ main = "draining"
  /\ pooled = {} /\ replying = {}
  /\ main' = "returned"
  /\ at' = [at EXCEPT ![Base] = "destroyed"]
  /\ connections' = [n \in {} |-> Base]
  /\ UNCHANGED <<acceptVars, nextConnId, name, sock, loop, making, batch, todo,
                 poolVars, multi, quit, toStop>>

------------------------------------------------------------------------------
\* What the thread of a loop does of itself, apart from events.
Turn(l) ==
  \/ l = Base /\ (AcceptEvent \/ Accept \/ AcceptDone \/ AcceptFails)
  \/ Create(l) \/ Swap(l) \/ RunSetup(l) \/ RunErase(l) \/ RunReply(l)
  \/ RunShutdown(l) \/ LastTurn(l) \/ TurnEnds(l) \/ Destroy(l)

Task(s) == TaskEnds(s) \/ QueueReply(s)

StopSteps ==
  \/ StopServer \/ StopWorker \/ StopPool \/ Return
  \/ \E s \in Sockets : ShutDownConnection(s)

Next ==
  \/ \E s \in Sockets : Arrive(s) \/ HandleClose(s) \/ Dispatch(s) \/ Task(s)
  \/ \E l \in Loops : Turn(l)
  \/ Start \/ Signal \/ StopSteps

Spec == Init /\ [][Next]_vars

\* Every thread is scheduled.  Clients owe nothing, and no signal need come.
FairSpec ==
  /\ Spec
  /\ \A l \in Loops : WF_vars(Turn(l))
  /\ \A s \in Sockets : WF_vars(Task(s))
  /\ WF_vars(Start) /\ WF_vars(StopSteps)

------------------------------------------------------------------------------
Ops == {"setup", "erase", "reply", "shutdown"}

\* The values the variables take.
TypeOK ==
  /\ multi \in BOOLEAN
  /\ backlog \in Seq(Sockets)
  /\ edge \in BOOLEAN
  /\ gaveUp \in BOOLEAN
  /\ next \in 1 .. Len(Workers)
  /\ nextConnId \in Nat
  /\ DOMAIN connections \subseteq Nat
  /\ \A n \in DOMAIN connections : connections[n] \in Sockets
  /\ sock \in [Sockets -> {"none", "backlog", "aborted", "accepted", "open", "closed"}]
  /\ loop \in [Sockets -> Loops]
  /\ name \in [Sockets -> Nat]
  /\ at \in [Loops -> {"poll", "accept", "run", "ended", "destroyed"}]
  /\ making \in [Loops -> {Idle} \cup (Sockets \X Nat)]
  /\ todo \in [Loops -> Seq(Ops \X Sockets)]
  /\ batch \in [Loops -> Seq(Ops \X Sockets)]
  /\ quit \subseteq Loops
  /\ asked \subseteq Sockets
  /\ pooled \subseteq Sockets
  /\ replying \subseteq Sockets
  /\ strayed \subseteq Sockets
  /\ main \in {"start", "serving", "stopping", "draining", "returned"}
  /\ toStop \subseteq Sockets

\* Another connection was given the same name.
Twin(s) == \E t \in Sockets \ {s} : sock[t] \in {"open", "closed"} /\ name[t] = name[s]

\* A connection that is open is held by the map under its own name: what is erased
\* or overwritten there would be freed while its loop still has it.  The exception
\* is a name given twice, which takes worker loops that race on next_conn_id_.
OpenAreHeld ==
  main # "returned" =>
    \A s \in Sockets : sock[s] = "open" => InMap(s) \/ (multi /\ Twin(s))

\* A connection in the backlog has an event to come, unless the accept loop ended
\* at an error: then it waits for the next client, as the edge is gone.
NothingPendsUnseen ==
  at[Base] = "poll" /\ main = "serving" /\ backlog # <<>> => edge \/ gaveUp

\* docs: sendInLoop is the safe way to write an answer from another thread, and stop()
\* is followed by the draining of the pool.  No answer, then, is queued on a loop that
\* has been destroyed.
RepliesFindALoop == strayed = {}

\* However a connection is closed (by its peer, a failed reply, or stop()), the map
\* lets go of it, unless its loop ends first.
ClosedLeaveTheMap ==
  \A s \in Sockets :
    (sock[s] = "closed" /\ InMap(s))
      ~> (~InMap(s) \/ at[loop[s]] \in {"ended", "destroyed"})
=============================================================================
