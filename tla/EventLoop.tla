------------------------------ MODULE EventLoop ------------------------------
(* One EventLoop running in an EventLoopThread: its loop thread, the owner    *)
(* that starts and stops it, and the threads that hand it functors through    *)
(* queueInLoop (or runInLoop, which off the loop thread is queueInLoop).      *)
(*                                                                            *)
(* The eventfd is its readability: the counter is only ever written with 1    *)
(* and read to 0.  epoll_wait returns when a channel is ready or after ten    *)
(* seconds; the io channel stands for every other channel of the loop, and    *)
(* its handler queues a functor (removeConnection does, when a peer closes).  *)
(* Each functor is a fresh closure, handed in once: Foreign ones by posters,  *)
(* ByHandler ones by event handlers, Nested ones by a functor that is run.    *)
EXTENDS Naturals, Sequences

CONSTANTS Posters, Foreign, ByHandler, Nested

ASSUME OriginsDisjoint ==
  /\ Foreign \cap ByHandler = {}
  /\ Foreign \cap Nested = {}
  /\ ByHandler \cap Nested = {}

Functors == Foreign \cup ByHandler \cup Nested

VARIABLES
  pc,         \* where the loop thread is
  active,     \* active_channels_ whose handler has not run yet
  loopSet,    \* EventLoopThread::loop_ is not null
  quit,       \* quit_
  signalled,  \* the eventfd is readable
  pending,    \* pending_functors_
  batch,      \* the functors doPendingFunctors took and has not run yet
  executed,   \* history: the functors run, in order
  posted,     \* history: the functors handed in
  owner,      \* where the owner of the EventLoopThread is
  poster      \* what each poster is doing: nothing, or between unlock and wakeup

vars == <<pc, active, loopSet, quit, signalled, pending, batch, executed,
          posted, owner, poster>>

loopVars == <<pc, active, batch, executed>>

PcStates == {"none", "publish", "enter", "check", "poll", "events", "run",
             "leave", "unpublished", "destroyed"}

OwnerStates == {"idle", "waiting", "running", "quit", "quitWake", "join",
                "stopped"}

Init ==
  /\ pc = "none"
  /\ active = {}
  /\ loopSet = FALSE
  /\ quit = FALSE
  /\ signalled = FALSE
  /\ pending = <<>>
  /\ batch = <<>>
  /\ executed = <<>>
  /\ posted = {}
  /\ owner = "idle"
  /\ poster = [p \in Posters |-> "idle"]

------------------------------------------------------------------------------
(* The owner: EventLoopThread::startLoop and stop.                            *)

StartThread ==
  /\ owner = "idle"
  /\ owner' = "waiting"
  /\ pc' = "publish"
  /\ UNCHANGED <<active, loopSet, quit, signalled, pending, batch, executed,
                 posted, poster>>

StartReturns ==
  /\ owner = "waiting"
  /\ loopSet
  /\ owner' = "running"
  /\ UNCHANGED <<loopVars, loopSet, quit, signalled, pending, posted, poster>>

StopRead ==
  /\ owner = "running"
  /\ owner' = IF loopSet THEN "quit" ELSE "join"
  /\ UNCHANGED <<loopVars, loopSet, quit, signalled, pending, posted, poster>>

QuitStoreNoWakeup ==   \* mutant: quit() only stores the flag
  /\ owner = "quit"
  /\ quit' = TRUE
  /\ owner' = "join"
  /\ UNCHANGED <<loopVars, loopSet, signalled, pending, posted, poster>>

QuitStore ==
  /\ owner = "quit"
  /\ quit' = TRUE
  /\ owner' = "quitWake"
  /\ UNCHANGED <<loopVars, loopSet, signalled, pending, posted, poster>>

\* The owner is not the loop thread, so quit() always writes the eventfd.
QuitWakeup ==
  /\ owner = "quitWake"
  /\ signalled' = (pc # "destroyed")
  /\ owner' = "join"
  /\ UNCHANGED <<loopVars, loopSet, quit, pending, posted, poster>>

StopJoined ==
  /\ owner = "join"
  /\ pc = "destroyed"
  /\ owner' = "stopped"
  /\ UNCHANGED <<loopVars, loopSet, quit, signalled, pending, posted, poster>>

------------------------------------------------------------------------------
(* The posters.  They hold the pointer startLoop returned; using it after the *)
(* loop is destroyed is the caller's error, and so not among their steps.     *)

PostWakeIfEmpty(p) ==   \* mutant: wake the loop only for the first functor
  /\ owner \notin {"idle", "waiting"}
  /\ pc # "destroyed"
  /\ poster[p] = "idle"
  /\ \E f \in Foreign \ posted :
       /\ pending' = Append(pending, f)
       /\ posted' = posted \cup {f}
  /\ poster' = [poster EXCEPT ![p] = IF pending = <<>> THEN "wake" ELSE "idle"]
  /\ UNCHANGED <<loopVars, loopSet, quit, signalled, owner>>

Post(p) ==
  /\ owner \notin {"idle", "waiting"}
  /\ pc # "destroyed"
  /\ poster[p] = "idle"
  /\ \E f \in Foreign \ posted :
       /\ pending' = Append(pending, f)
       /\ posted' = posted \cup {f}
  /\ poster' = [poster EXCEPT ![p] = "wake"]
  /\ UNCHANGED <<loopVars, loopSet, quit, signalled, owner>>

\* The eventfd is closed once the loop is destroyed: the write then reaches nobody.
PostWakeup(p) ==
  /\ poster[p] = "wake"
  /\ signalled' = (pc # "destroyed")
  /\ poster' = [poster EXCEPT ![p] = "idle"]
  /\ UNCHANGED <<loopVars, loopSet, quit, pending, posted, owner>>

------------------------------------------------------------------------------
(* The loop thread.                                                           *)

Publish ==
  /\ pc = "publish"
  /\ loopSet' = TRUE
  /\ pc' = "enter"
  /\ UNCHANGED <<active, quit, signalled, pending, batch, executed, posted,
                 owner, poster>>

\* loop() clears quit_ before its first test of it.
Enter ==
  /\ pc = "enter"
  /\ quit' = FALSE
  /\ pc' = "check"
  /\ UNCHANGED <<active, loopSet, signalled, pending, batch, executed, posted,
                 owner, poster>>

Check ==
  /\ pc = "check"
  /\ pc' = IF quit THEN "leave" ELSE "poll"
  /\ UNCHANGED <<active, loopSet, quit, signalled, pending, batch, executed,
                 posted, owner, poster>>

PollReturns(channels) ==
  /\ pc = "poll"
  /\ active' = channels
  /\ pc' = "events"
  /\ UNCHANGED <<loopSet, quit, signalled, pending, batch, executed, posted,
                 owner, poster>>

\* The loop's channels, other than its eventfd, are registered by functors
\* (createConnectionOnLoop is one), so none can be ready before one has run.
IoReady == executed # <<>> /\ ByHandler \ posted # {}

PollWoken == signalled /\ \/ PollReturns({"wakeup"})
                          \/ IoReady /\ PollReturns({"wakeup", "io"})

PollIo == ~signalled /\ IoReady /\ PollReturns({"io"})

PollTimeout == ~signalled /\ PollReturns({})

HandleWakeup ==
  /\ pc = "events"
  /\ "wakeup" \in active
  /\ signalled' = FALSE
  /\ active' = active \ {"wakeup"}
  /\ UNCHANGED <<pc, loopSet, quit, pending, batch, executed, posted, owner,
                 poster>>

QueueMovedFrom(f) ==   \* mutant: the functor is moved from before it is pushed
  /\ pending' = Append(pending, "empty")
  /\ posted' = posted \cup {f}

\* queueInLoop on the loop thread pushes and does not write the eventfd.
QueueOnLoopThread(f) ==
  /\ pending' = Append(pending, f)
  /\ posted' = posted \cup {f}

HandleIo ==
  /\ pc = "events"
  /\ "io" \in active
  /\ \E f \in ByHandler \ posted : QueueOnLoopThread(f)
  /\ active' = active \ {"io"}
  /\ UNCHANGED <<pc, loopSet, quit, signalled, batch, executed, owner, poster>>

SwapByCopy ==   \* mutant: functors = pending_functors_ instead of the swap
  /\ pc = "events"
  /\ active = {}
  /\ batch' = pending
  /\ pc' = "run"
  /\ UNCHANGED <<active, loopSet, quit, signalled, pending, executed, posted,
                 owner, poster>>

Swap ==
  /\ pc = "events"
  /\ active = {}
  /\ batch' = pending
  /\ pending' = <<>>
  /\ pc' = "run"
  /\ UNCHANGED <<active, loopSet, quit, signalled, executed, posted, owner,
                 poster>>

RunFunctor ==
  /\ pc = "run"
  /\ batch # <<>>
  /\ executed' = Append(executed, Head(batch))
  /\ batch' = Tail(batch)
  /\ \/ UNCHANGED <<pending, posted>>
     \/ \E f \in Nested \ posted : QueueOnLoopThread(f)
  /\ UNCHANGED <<pc, active, loopSet, quit, signalled, owner, poster>>

BatchDone ==
  /\ pc = "run"
  /\ batch = <<>>
  /\ pc' = "check"
  /\ UNCHANGED <<active, loopSet, quit, signalled, pending, batch, executed,
                 posted, owner, poster>>

Unpublish ==
  /\ pc = "leave"
  /\ loopSet' = FALSE
  /\ pc' = "unpublished"
  /\ UNCHANGED <<active, quit, signalled, pending, batch, executed, posted,
                 owner, poster>>

Destroy ==
  /\ pc = "unpublished"
  /\ signalled' = FALSE
  /\ pc' = "destroyed"
  /\ UNCHANGED <<active, loopSet, quit, pending, batch, executed, posted,
                 owner, poster>>

------------------------------------------------------------------------------
Owner == StartThread \/ StartReturns \/ StopRead \/ QuitStore \/ QuitWakeup
         \/ StopJoined

\* Everything the loop thread does by itself, whatever its channels do.
LoopRuns == Publish \/ Enter \/ Check \/ PollWoken \/ HandleWakeup \/ HandleIo
            \/ Swap \/ RunFunctor \/ BatchDone \/ Unpublish \/ Destroy

Next ==
  \/ Owner
  \/ \E p \in Posters : Post(p) \/ PostWakeup(p)
  \/ LoopRuns
  \/ PollIo
  \/ PollTimeout

Spec == Init /\ [][Next]_vars

(* Threads are scheduled, and a call that has begun goes on: the loop thread, *)
(* the write after an unlock, the steps inside startLoop and stop.  Nobody    *)
(* has to post or to stop the loop.  FairSpec does not let poll time out: the *)
(* liveness it gives rests on the eventfd alone.                              *)
Fairness ==
  /\ WF_vars(LoopRuns)
  /\ \A p \in Posters : WF_vars(PostWakeup(p))
  /\ WF_vars(StartReturns)
  /\ WF_vars(QuitStore)
  /\ WF_vars(QuitWakeup)
  /\ WF_vars(StopJoined)

FairSpec == Spec /\ Fairness

------------------------------------------------------------------------------
InPending(f) == \E i \in 1 .. Len(pending) : pending[i] = f

WakeupComing == signalled \/ \E p \in Posters : poster[p] = "wake"

\* Every variable holds a value of its type; only functors that were handed in
\* are in the queues (queueInLoop, doPendingFunctors).
TypeOK ==
  /\ pc \in PcStates
  /\ active \subseteq {"wakeup", "io"}
  /\ loopSet \in BOOLEAN
  /\ quit \in BOOLEAN
  /\ signalled \in BOOLEAN
  /\ pending \in Seq(Functors)
  /\ batch \in Seq(Functors)
  /\ executed \in Seq(Functors)
  /\ posted \subseteq Functors
  /\ owner \in OwnerStates
  /\ poster \in [Posters -> {"idle", "wake"}]

\* The loop blocks in poll only when nothing it should run is waiting: a
\* functor from another thread has, or is about to have, its wakeup on the
\* eventfd, and a functor queued by an event handler has already run.  Only
\* one queued by a functor may be left for the timeout (queueInLoop).
NoStrandedFunctor ==
  pc = "poll" =>
    /\ (\E f \in Foreign : InPending(f)) => WakeupComing
    /\ \A f \in ByHandler : ~InPending(f)

\* The loop is never asleep on a quit() it has not been woken for (quit).
QuitInterruptsPoll ==
  pc = "poll" /\ quit => signalled \/ owner = "quitWake"

Executor == INSTANCE SerialExecutor
              WITH submitted <- posted, todo <- batch \o pending,
                   done <- executed

\* The loop runs the functors it is handed one at a time, each at most once and
\* in the order they were queued, however posts interleave with the swap
\* (queueInLoop, doPendingFunctors).
RunsInOrder == Executor!Spec

HasRun(f) == \E i \in 1 .. Len(executed) : executed[i] = f

\* A functor posted by another thread runs without waiting for poll to time
\* out, unless the loop is told to quit.
ForeignRunsUnlessQuit ==
  \A f \in Foreign : f \in posted ~> HasRun(f) \/ quit

\* Once loop() is past its prologue a quit() ends it and the stop() that made
\* it returns, again without the timeout.  One that comes before is overwritten
\* (Enter), and the stop() that made it never returns.
QuitEndsLoop ==
  quit /\ pc \notin {"publish", "enter"} ~> owner = "stopped"

==============================================================================
