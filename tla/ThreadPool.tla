------------------------------ MODULE ThreadPool ------------------------------
(* The ThreadPool and the only callers of enqueue: the IO loops' threads,     *)
(* which in TcpServer::dispatchMessage first ask queueSize() whether the      *)
(* queue is full and answer "busy" if it is.  The check and the enqueue each  *)
(* take the mutex, so another IO thread may enqueue between them.             *)
(*                                                                            *)
(* The mutex is held over more than one step only by a worker in cond_.wait,  *)
(* between the test of the predicate and the release that puts it to sleep;   *)
(* every other critical section is one step.  shutdown() stores stop_ without *)
(* the mutex, so it may fall into that interval.                              *)
EXTENDS Naturals, Sequences, FiniteSets

CONSTANTS
  Workers,       \* workers_
  Clients,       \* the threads of the IO loops
  Tasks,         \* the requests the clients dispatch
  MaxQueueSize,  \* TcpServer::max_queue_size_
  NoTask

ASSUME SomeWorkers == IsFiniteSet(Workers) /\ Workers # {}
ASSUME SomeClients == IsFiniteSet(Clients) /\ Clients # {}
ASSUME MaxIsNat == MaxQueueSize \in Nat
ASSUME NoTaskIsNone == NoTask \notin Tasks

VARIABLES
  tasks,      \* tasks_
  stop,       \* stop_
  worker,     \* where each worker is in workerLoop
  hand,       \* the task each worker has taken from the queue
  client,     \* where each client is in dispatchMessage
  asking,     \* the request it is there with
  shutter,    \* where the caller of shutdown() is
  done,       \* the tasks carried out
  busy,       \* the requests answered "server busy"
  refused     \* the tasks enqueue threw back

vars == <<tasks, stop, worker, hand, client, asking, shutter, done, busy,
          refused>>

workerVars == <<worker, hand, done>>
clientVars == <<client, asking, busy, refused>>

WorkerStates == {"lock", "holding", "waiting", "run", "exited"}
ClientStates == {"idle", "admitted", "notify", "threw"}
ShutterStates == {"open", "stopping", "joining", "closed"}

Init ==
  /\ tasks = <<>>
  /\ stop = FALSE
  /\ worker = [w \in Workers |-> "lock"]
  /\ hand = [w \in Workers |-> NoTask]
  /\ client = [c \in Clients |-> "idle"]
  /\ asking = [c \in Clients |-> NoTask]
  /\ shutter = "open"
  /\ done = {}
  /\ busy = {}
  /\ refused = {}

MutexIgnored == TRUE   \* mutant: the predicate of cond_.wait is tested unlocked

MutexFree == \A w \in Workers : worker[w] # "holding"

Queued(t) == \E i \in 1 .. Len(tasks) : tasks[i] = t

Dispatched(t) ==
  \/ Queued(t)
  \/ \E c \in Clients : asking[c] = t
  \/ \E w \in Workers : hand[w] = t
  \/ t \in done \cup busy \cup refused

------------------------------------------------------------------------------
(* dispatchMessage: queueSize(), then enqueue(), then notify_one().           *)

CheckQueueOffByOne(c) ==   \* mutant: queueSize() > max_queue_size_
  /\ client[c] = "idle"
  /\ MutexFree
  /\ \E t \in Tasks :
       /\ ~Dispatched(t)
       /\ IF Len(tasks) > MaxQueueSize
            THEN busy' = busy \cup {t} /\ UNCHANGED <<client, asking>>
            ELSE /\ client' = [client EXCEPT ![c] = "admitted"]
                 /\ asking' = [asking EXCEPT ![c] = t]
                 /\ UNCHANGED busy
  /\ UNCHANGED <<tasks, stop, workerVars, shutter, refused>>

CheckQueue(c) ==
  /\ client[c] = "idle"
  /\ MutexFree
  /\ \E t \in Tasks :
       /\ ~Dispatched(t)
       /\ IF Len(tasks) >= MaxQueueSize
            THEN busy' = busy \cup {t} /\ UNCHANGED <<client, asking>>
            ELSE /\ client' = [client EXCEPT ![c] = "admitted"]
                 /\ asking' = [asking EXCEPT ![c] = t]
                 /\ UNCHANGED busy
  /\ UNCHANGED <<tasks, stop, workerVars, shutter, refused>>

Push(c) ==
  /\ client[c] = "admitted"
  /\ MutexFree
  /\ ~stop
  /\ tasks' = Append(tasks, asking[c])
  /\ client' = [client EXCEPT ![c] = "notify"]
  /\ asking' = [asking EXCEPT ![c] = NoTask]
  /\ UNCHANGED <<stop, workerVars, shutter, busy, refused>>

\* enqueue throws, and nothing on the IO thread catches it.
Throw(c) ==
  /\ client[c] = "admitted"
  /\ MutexFree
  /\ stop
  /\ refused' = refused \cup {asking[c]}
  /\ client' = [client EXCEPT ![c] = "threw"]
  /\ asking' = [asking EXCEPT ![c] = NoTask]
  /\ UNCHANGED <<tasks, stop, workerVars, shutter, busy>>

Enqueue(c) == Push(c) \/ Throw(c)

Waiting == {w \in Workers : worker[w] = "waiting"}

NotifyOne(c) ==
  /\ client[c] = "notify"
  /\ client' = [client EXCEPT ![c] = "idle"]
  /\ IF Waiting = {}
       THEN UNCHANGED worker
       ELSE \E w \in Waiting : worker' = [worker EXCEPT ![w] = "lock"]
  /\ UNCHANGED <<tasks, stop, hand, asking, shutter, done, busy, refused>>

------------------------------------------------------------------------------
(* workerLoop.                                                                *)

TakeCopies(w) ==   \* mutant: the front of the queue is copied, not popped
  /\ worker[w] = "lock"
  /\ MutexFree
  /\ tasks # <<>>
  /\ hand' = [hand EXCEPT ![w] = Head(tasks)]
  /\ worker' = [worker EXCEPT ![w] = "run"]
  /\ UNCHANGED <<tasks, stop, clientVars, shutter, done>>

Take(w) ==
  /\ worker[w] = "lock"
  /\ MutexFree
  /\ tasks # <<>>
  /\ hand' = [hand EXCEPT ![w] = Head(tasks)]
  /\ tasks' = Tail(tasks)
  /\ worker' = [worker EXCEPT ![w] = "run"]
  /\ UNCHANGED <<stop, clientVars, shutter, done>>

ExitAtOnce(w) ==   \* mutant: if (stop_) return, without tasks_.empty()
  /\ worker[w] = "lock"
  /\ MutexFree
  /\ stop
  /\ worker' = [worker EXCEPT ![w] = "exited"]
  /\ UNCHANGED <<tasks, stop, hand, clientVars, shutter, done>>

Exit(w) ==
  /\ worker[w] = "lock"
  /\ MutexFree
  /\ stop /\ tasks = <<>>
  /\ worker' = [worker EXCEPT ![w] = "exited"]
  /\ UNCHANGED <<tasks, stop, hand, clientVars, shutter, done>>

\* The predicate is false: the worker still holds the mutex ...
BeginWait(w) ==
  /\ worker[w] = "lock"
  /\ MutexFree
  /\ ~stop /\ tasks = <<>>
  /\ worker' = [worker EXCEPT ![w] = "holding"]
  /\ UNCHANGED <<tasks, stop, hand, clientVars, shutter, done>>

\* ... and releases it and sleeps in one step.
Sleep(w) ==
  /\ worker[w] = "holding"
  /\ worker' = [worker EXCEPT ![w] = "waiting"]
  /\ UNCHANGED <<tasks, stop, hand, clientVars, shutter, done>>

SpuriousWakeup(w) ==
  /\ worker[w] = "waiting"
  /\ worker' = [worker EXCEPT ![w] = "lock"]
  /\ UNCHANGED <<tasks, stop, hand, clientVars, shutter, done>>

FinishKeepsTask(w) ==   \* mutant: the task object outlives its call
  /\ worker[w] = "run"
  /\ done' = done \cup {hand[w]}
  /\ worker' = [worker EXCEPT ![w] = "lock"]
  /\ UNCHANGED <<tasks, stop, hand, clientVars, shutter>>

\* packaged_task keeps an exception of the task for its future.
Finish(w) ==
  /\ worker[w] = "run"
  /\ done' = done \cup {hand[w]}
  /\ hand' = [hand EXCEPT ![w] = NoTask]
  /\ worker' = [worker EXCEPT ![w] = "lock"]
  /\ UNCHANGED <<tasks, stop, clientVars, shutter>>

------------------------------------------------------------------------------
(* shutdown: store stop_, notify_all, join.                                   *)

StoreStop ==
  /\ shutter = "open"
  /\ stop' = TRUE
  /\ shutter' = "stopping"
  /\ UNCHANGED <<tasks, workerVars, clientVars>>

NotifyAll ==
  /\ shutter = "stopping"
  /\ worker' = [w \in Workers |-> IF worker[w] = "waiting" THEN "lock"
                                                           ELSE worker[w]]
  /\ shutter' = "joining"
  /\ UNCHANGED <<tasks, stop, hand, clientVars, done>>

Joined ==
  /\ shutter = "joining"
  /\ \A w \in Workers : worker[w] = "exited"
  /\ shutter' = "closed"
  /\ UNCHANGED <<tasks, stop, workerVars, clientVars>>

------------------------------------------------------------------------------
WorkerRuns(w) == Take(w) \/ Exit(w) \/ BeginWait(w) \/ Sleep(w) \/ Finish(w)

ClientStep(c) == CheckQueue(c) \/ Enqueue(c) \/ NotifyOne(c)

Shutdown == StoreStop \/ NotifyAll \/ Joined

Next ==
  \/ \E c \in Clients : ClientStep(c)
  \/ \E w \in Workers : WorkerRuns(w) \/ SpuriousWakeup(w)
  \/ Shutdown

Spec == Init /\ [][Next]_vars

(* Threads run, and tasks end.  A client that keeps finding the mutex taken   *)
(* gets it in the end (SF); nothing else needs that of the mutex.  Nobody has *)
(* to dispatch, or to call shutdown; nothing wakes a worker by accident.      *)
FairSpec ==
  /\ Spec
  /\ \A w \in Workers : WF_vars(WorkerRuns(w))
  /\ \A c \in Clients : SF_vars(Enqueue(c)) /\ WF_vars(NotifyOne(c))
  /\ WF_vars(NotifyAll)
  /\ WF_vars(Joined)

------------------------------------------------------------------------------
\* Every variable holds a value of its type, and a worker has a task in hand
\* exactly while it runs one (workerLoop).
TypeOK ==
  /\ tasks \in Seq(Tasks)
  /\ stop \in BOOLEAN
  /\ worker \in [Workers -> WorkerStates]
  /\ hand \in [Workers -> Tasks \cup {NoTask}]
  /\ \A w \in Workers : worker[w] = "run" <=> hand[w] # NoTask
  /\ client \in [Clients -> ClientStates]
  /\ asking \in [Clients -> Tasks \cup {NoTask}]
  /\ \A c \in Clients : client[c] = "admitted" <=> asking[c] # NoTask
  /\ shutter \in ShutterStates
  /\ done \subseteq Tasks
  /\ busy \subseteq Tasks
  /\ refused \subseteq Tasks

Admitted == {c \in Clients : client[c] = "admitted"}

\* The queue overshoots max_queue_size_ by at most one request for every IO
\* thread but one, however their checks and enqueues interleave: what is queued
\* and what has passed the check stay within the bound (dispatchMessage).
AdmissionBound ==
  Len(tasks) + Cardinality(Admitted) + 1 <= MaxQueueSize + Cardinality(Clients)

\* While the queue holds a task some worker is awake to take it, or a client
\* is about to wake one: the pool never sleeps on work (enqueue, workerLoop).
NoSleepOnWork ==
  tasks # <<>> =>
    \/ \E w \in Workers : worker[w] \in {"lock", "run"}
    \/ \E c \in Clients : client[c] = "notify"

Runners(t) == {w \in Workers : hand[w] = t}

\* Where a task is tells its phase, whatever became of it before: one that is
\* still queued, or queued again, when it has run is "accepted" once more.
PhaseOf(t) ==
  IF Runners(t) # {}
    THEN IF \E w \in Workers : Runners(t) = {w} THEN "running" ELSE "run twice"
  ELSE IF Queued(t) THEN "accepted"
  ELSE CASE t \in done -> "done"
         [] t \in busy -> "busy"
         [] t \in refused -> "refused"
         [] OTHER -> "new"

Service == INSTANCE TaskService
             WITH phase <- [t \in Tasks |-> PhaseOf(t)], closing <- stop,
                  closed <- shutter = "closed"

\* The pool is a TaskService: it takes no task after stop_ is stored, each task
\* it took is run by one worker and by none again once it has ended, and
\* shutdown() returns only when all of them have (enqueue, workerLoop, shutdown).
ServesTasks == Service!Spec

\* A task that was queued is carried out, also when shutdown() comes between.
QueuedTasksComplete == \A t \in Tasks : Queued(t) ~> t \in done

\* What thread_pool.h says of shutdown(): the workers finish and are joined.
ShutdownReturns == shutter = "stopping" ~> shutter = "closed"

==============================================================================
