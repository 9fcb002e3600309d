-------------------------- MODULE ThreadPool_proofs --------------------------
(* Proofs about ThreadPool for any number of workers, clients and tasks and   *)
(* any max_queue_size_.                                                       *)
EXTENDS ThreadPool, FiniteSetTheorems, TLAPS

LEMMA TypeStep == TypeOK /\ [Next]_vars => TypeOK'
<1> SUFFICES ASSUME TypeOK, [Next]_vars
             PROVE  TypeOK'
  OBVIOUS
<1> USE NoTaskIsNone DEF TypeOK, WorkerStates, ClientStates, ShutterStates,
                         workerVars, clientVars
<1>1. ASSUME NEW c \in Clients, CheckQueue(c)
      PROVE  TypeOK'
  BY <1>1 DEF CheckQueue
<1>2. ASSUME NEW c \in Clients, Push(c)
      PROVE  TypeOK'
  BY <1>2 DEF Push
<1>3. ASSUME NEW c \in Clients, Throw(c)
      PROVE  TypeOK'
  BY <1>3 DEF Throw
<1>4. ASSUME NEW c \in Clients, NotifyOne(c)
      PROVE  TypeOK'
  BY <1>4 DEF NotifyOne, Waiting
<1>5. ASSUME NEW w \in Workers, Take(w)
      PROVE  TypeOK'
  BY <1>5 DEF Take
<1>6. ASSUME NEW w \in Workers, Exit(w) \/ BeginWait(w) \/ Sleep(w) \/ SpuriousWakeup(w)
      PROVE  TypeOK'
  BY <1>6 DEF Exit, BeginWait, Sleep, SpuriousWakeup
<1>7. ASSUME NEW w \in Workers, Finish(w)
      PROVE  TypeOK'
  BY <1>7 DEF Finish
<1>8. CASE Shutdown
  BY <1>8 DEF Shutdown, StoreStop, NotifyAll, Joined
<1>9. CASE UNCHANGED vars
  BY <1>9 DEF vars
<1>10. QED
  BY <1>1, <1>2, <1>3, <1>4, <1>5, <1>6, <1>7, <1>8, <1>9
     DEF Next, ClientStep, Enqueue, WorkerRuns

LEMMA InitTypeOK == Init => TypeOK
<1>1. <<>> \in Seq(Tasks)
  OBVIOUS
<1>2. QED
  BY <1>1, NoTaskIsNone
     DEF Init, TypeOK, WorkerStates, ClientStates, ShutterStates

\* The workers, the clients and shutdown() keep every variable in its type, and
\* a worker has a task in hand exactly while it runs it (workerLoop).
THEOREM TypeCorrect == Spec => []TypeOK
  BY InitTypeOK, TypeStep, PTL DEF Spec

------------------------------------------------------------------------------
LEMMA AdmittedFinite ==
  /\ IsFiniteSet(Admitted)
  /\ Cardinality(Admitted) \in Nat
  /\ Cardinality(Admitted) <= Cardinality(Clients)
  /\ Cardinality(Clients) \in Nat
  BY FS_Subset, FS_CardinalityType, SomeClients DEF Admitted

\* What a step does to the queue and to the clients past the check, when it
\* is not one of the clients' own.
LEMMA BoundUnchanged ==
  ASSUME AdmissionBound, UNCHANGED client, TypeOK,
         tasks' = tasks \/ (tasks # <<>> /\ tasks' = Tail(tasks))
  PROVE  AdmissionBound'
<1>1. Admitted' = Admitted
  BY DEF Admitted
<1>2. Len(tasks') \in Nat /\ Len(tasks) \in Nat /\ Len(tasks') <= Len(tasks)
  BY DEF TypeOK
<1>3. QED
  BY <1>1, <1>2, AdmittedFinite, MaxIsNat DEF AdmissionBound

LEMMA BoundStep == TypeOK /\ AdmissionBound /\ [Next]_vars => AdmissionBound'
<1> SUFFICES ASSUME TypeOK, AdmissionBound, [Next]_vars
             PROVE  AdmissionBound'
  OBVIOUS
<1> DEFINE n == Cardinality(Admitted)
<1>1. ASSUME NEW c \in Clients, CheckQueue(c)
      PROVE  AdmissionBound'
  <2>1. CASE UNCHANGED client
    BY <1>1, <2>1, BoundUnchanged DEF CheckQueue
  <2>2. CASE client' = [client EXCEPT ![c] = "admitted"] /\ ~(Len(tasks) >= MaxQueueSize)
    <3>1. c \notin Admitted /\ Admitted' = Admitted \cup {c} /\ tasks' = tasks
      BY <1>1, <2>2 DEF CheckQueue, Admitted, TypeOK
    <3>2. Cardinality(Admitted') <= Cardinality(Clients) /\ Cardinality(Admitted') \in Nat
      BY <3>1, FS_Subset, FS_CardinalityType, SomeClients DEF Admitted
    <3>3. Len(tasks') + 1 <= MaxQueueSize
      BY <2>2, <3>1, MaxIsNat DEF TypeOK
    <3>4. QED
      BY <3>1, <3>2, <3>3, AdmittedFinite, MaxIsNat DEF AdmissionBound, TypeOK
  <2>3. QED
    BY <1>1, <2>1, <2>2 DEF CheckQueue
<1>2. ASSUME NEW c \in Clients, Push(c)
      PROVE  AdmissionBound'
  <2>1. c \in Admitted /\ Admitted' = Admitted \ {c}
    BY <1>2 DEF Push, Admitted, TypeOK
  <2>2. Cardinality(Admitted') = n - 1
    BY <2>1, AdmittedFinite, FS_RemoveElement
  <2>3. Len(tasks') = Len(tasks) + 1
    BY <1>2 DEF Push, TypeOK
  <2>4. QED
    BY <2>2, <2>3, AdmittedFinite, MaxIsNat DEF AdmissionBound, TypeOK
<1>3. ASSUME NEW c \in Clients, Throw(c)
      PROVE  AdmissionBound'
  <2>1. c \in Admitted /\ Admitted' = Admitted \ {c} /\ tasks' = tasks
    BY <1>3 DEF Throw, Admitted, TypeOK
  <2>2. Cardinality(Admitted') = n - 1
    BY <2>1, AdmittedFinite, FS_RemoveElement
  <2>3. QED
    BY <2>1, <2>2, AdmittedFinite, MaxIsNat DEF AdmissionBound, TypeOK
<1>4. ASSUME NEW c \in Clients, NotifyOne(c)
      PROVE  AdmissionBound'
  <2>1. Admitted' = Admitted /\ tasks' = tasks
    BY <1>4 DEF NotifyOne, Admitted, TypeOK
  <2>2. QED
    BY <2>1 DEF AdmissionBound
<1>5. ASSUME NEW w \in Workers, WorkerRuns(w) \/ SpuriousWakeup(w)
      PROVE  AdmissionBound'
  BY <1>5, BoundUnchanged
     DEF WorkerRuns, Take, Exit, BeginWait, Sleep, SpuriousWakeup, Finish,
         clientVars
<1>6. CASE Shutdown
  BY <1>6, BoundUnchanged DEF Shutdown, StoreStop, NotifyAll, Joined, clientVars
<1>7. CASE UNCHANGED vars
  BY <1>7, BoundUnchanged DEF vars
<1>8. QED
  BY <1>1, <1>2, <1>3, <1>4, <1>5, <1>6, <1>7 DEF Next, ClientStep, Enqueue

\* The queue holds at most max_queue_size_ tasks and one more for each IO
\* thread but one: the check and the enqueue of dispatchMessage take the
\* mutex one after the other, and the requests between the two are counted.
THEOREM QueueIsBounded == Spec => []AdmissionBound
<1>1. Init => AdmissionBound
  <2>1. ASSUME Init
        PROVE  Admitted = {} /\ Len(tasks) = 0
    BY <2>1 DEF Init, Admitted
  <2>2. Cardinality(Clients) \in Nat /\ Cardinality(Clients) # 0
    BY SomeClients, FS_CardinalityType, FS_EmptySet
  <2>3. Cardinality({}) = 0
    BY FS_EmptySet
  <2>4. ASSUME Init
        PROVE  Cardinality(Admitted) = 0 /\ Len(tasks) = 0
    BY <2>1, <2>3, <2>4
  <2>5. QED
    BY <2>2, <2>4, MaxIsNat DEF AdmissionBound
<1>2. QED
  BY <1>1, TypeCorrect, BoundStep, PTL DEF Spec

------------------------------------------------------------------------------
\* A worker leaves only a stopped and empty pool, which stays so: enqueue
\* refuses.
ExitedIsFinal == (\E w \in Workers : worker[w] = "exited") => stop /\ tasks = <<>>

\* A worker going to sleep holds the mutex, so nothing was queued meanwhile.
HoldingIsEmpty == (\E w \in Workers : worker[w] = "holding") => tasks = <<>>

SleepInv == ExitedIsFinal /\ HoldingIsEmpty /\ NoSleepOnWork

LEMMA SleepStep == TypeOK /\ SleepInv /\ [Next]_vars => SleepInv'
<1> SUFFICES ASSUME TypeOK, SleepInv, [Next]_vars
             PROVE  SleepInv'
  OBVIOUS
<1> USE DEF SleepInv, ExitedIsFinal, HoldingIsEmpty, NoSleepOnWork
<1>1. ASSUME NEW c \in Clients, CheckQueue(c)
      PROVE  SleepInv'
  BY <1>1 DEF CheckQueue, workerVars, TypeOK
<1>2. ASSUME NEW c \in Clients, Push(c)
      PROVE  SleepInv'
  BY <1>2 DEF Push, MutexFree, workerVars, TypeOK
<1>3. ASSUME NEW c \in Clients, Throw(c)
      PROVE  SleepInv'
  BY <1>3 DEF Throw, workerVars, TypeOK
<1>4. ASSUME NEW c \in Clients, NotifyOne(c)
      PROVE  SleepInv'
  <2>1. CASE Waiting = {}
    <3>1. PICK w \in Workers : TRUE
      BY SomeWorkers
    <3>2. worker[w] \in WorkerStates \ {"waiting"}
      BY <2>1 DEF Waiting, TypeOK
    <3>3. tasks # <<>> => worker[w] \in {"lock", "run"}
      BY <3>2 DEF WorkerStates
    <3>4. QED
      BY <1>4, <2>1, <3>3 DEF NotifyOne
  <2>2. ASSUME NEW w \in Waiting, worker' = [worker EXCEPT ![w] = "lock"]
        PROVE  SleepInv'
    BY <1>4, <2>2 DEF NotifyOne, Waiting, TypeOK
  <2>3. QED
    BY <1>4, <2>1, <2>2 DEF NotifyOne
<1>5. ASSUME NEW w \in Workers, Take(w)
      PROVE  SleepInv'
  BY <1>5 DEF Take, clientVars, TypeOK
<1>6. ASSUME NEW w \in Workers, Exit(w) \/ BeginWait(w)
      PROVE  SleepInv'
  BY <1>6 DEF Exit, BeginWait, clientVars, TypeOK
<1>7. ASSUME NEW w \in Workers, Sleep(w) \/ SpuriousWakeup(w) \/ Finish(w)
      PROVE  SleepInv'
  BY <1>7 DEF Sleep, SpuriousWakeup, Finish, clientVars, TypeOK
<1>8. CASE Shutdown
  BY <1>8 DEF Shutdown, StoreStop, NotifyAll, Joined, clientVars, workerVars, TypeOK
<1>9. CASE UNCHANGED vars
  BY <1>9 DEF vars
<1>10. QED
  BY <1>1, <1>2, <1>3, <1>4, <1>5, <1>6, <1>7, <1>8, <1>9
     DEF Next, ClientStep, Enqueue, WorkerRuns

LEMMA InitSleepInv == Init => SleepInv
  BY DEF Init, SleepInv, ExitedIsFinal, HoldingIsEmpty, NoSleepOnWork

\* No task lies in the queue while every worker sleeps and nobody is about to
\* wake one (enqueue's notify_one after the unlock; cond_.wait's predicate).
THEOREM PoolNeverSleepsOnWork == Spec => []NoSleepOnWork
<1>1. SleepInv => NoSleepOnWork
  BY DEF SleepInv
<1>2. QED
  BY <1>1, InitSleepInv, TypeCorrect, SleepStep, PTL DEF Spec

------------------------------------------------------------------------------
(* The refinement.                                                            *)

Settled(t) == t \in done \cup busy \cup refused

QueuedOnce == \A i, j \in 1 .. Len(tasks) : tasks[i] = tasks[j] => i = j

\* A task is in one place at a time: once in the queue, in one worker's hand,
\* with one client, or settled in one way.
OnePlace ==
  /\ QueuedOnce
  /\ \A v, w \in Workers : hand[v] # NoTask /\ hand[v] = hand[w] => v = w
  /\ \A c, d \in Clients : asking[c] # NoTask /\ asking[c] = asking[d] => c = d
  /\ \A w \in Workers : ~Queued(hand[w]) /\ ~Settled(hand[w])
  /\ \A c \in Clients : ~Queued(asking[c]) /\ ~Settled(asking[c])
  /\ \A w \in Workers, c \in Clients : hand[w] # NoTask => hand[w] # asking[c]
  /\ \A t \in Tasks : Queued(t) => ~Settled(t)
  /\ done \cap busy = {} /\ done \cap refused = {} /\ busy \cap refused = {}

\* stop_ tells how far shutdown() is, and past the join every worker is gone.
ShutterKnows ==
  /\ stop <=> shutter # "open"
  /\ shutter = "closed" => \A w \in Workers : worker[w] = "exited"

ServiceInv == TypeOK /\ SleepInv /\ OnePlace /\ ShutterKnows

LEMMA AppendedQueue ==
  ASSUME TypeOK, QueuedOnce, NEW t \in Tasks, ~Queued(t), tasks' = Append(tasks, t)
  PROVE  QueuedOnce' /\ \A u : Queued(u)' <=> Queued(u) \/ u = t
<1>1. /\ tasks \in Seq(Tasks) /\ Len(tasks) \in Nat
      /\ Len(tasks') = Len(tasks) + 1 /\ tasks'[Len(tasks) + 1] = t
      /\ \A i \in 1 .. Len(tasks) : tasks'[i] = tasks[i]
      /\ \A i \in 1 .. Len(tasks) + 1 : i \in 1 .. Len(tasks) \/ i = Len(tasks) + 1
  BY DEF TypeOK
<1>2. ASSUME NEW i \in 1 .. Len(tasks'), NEW j \in 1 .. Len(tasks'),
             tasks'[i] = tasks'[j]
      PROVE  i = j
  BY <1>1, <1>2 DEF QueuedOnce, Queued
<1>3. ASSUME NEW u
      PROVE  Queued(u)' <=> Queued(u) \/ u = t
  BY <1>1 DEF Queued
<1>4. QED
  BY <1>2, <1>3 DEF QueuedOnce

LEMMA TakenQueue ==
  ASSUME TypeOK, QueuedOnce, tasks # <<>>, tasks' = Tail(tasks)
  PROVE  /\ Head(tasks) \in Tasks /\ Queued(Head(tasks))
         /\ QueuedOnce' /\ \A u : Queued(u)' <=> Queued(u) /\ u # Head(tasks)
<1>1. /\ tasks \in Seq(Tasks) /\ Len(tasks) \in Nat \ {0}
      /\ Len(tasks') = Len(tasks) - 1 /\ Head(tasks) = tasks[1]
      /\ \A i \in 1 .. Len(tasks') : tasks'[i] = tasks[i + 1]
  BY DEF TypeOK
<1>2. Head(tasks) \in Tasks /\ Queued(Head(tasks))
  BY <1>1 DEF Queued
<1>3. ASSUME NEW i \in 1 .. Len(tasks'), NEW j \in 1 .. Len(tasks'),
             tasks'[i] = tasks'[j]
      PROVE  i = j
  <2>1. i + 1 \in 1 .. Len(tasks) /\ j + 1 \in 1 .. Len(tasks)
    BY <1>1
  <2>2. i + 1 = j + 1
    BY <1>1, <1>3, <2>1 DEF QueuedOnce
  <2>3. QED
    BY <1>1, <2>2
<1>4. ASSUME NEW u, Queued(u)'
      PROVE  Queued(u) /\ u # Head(tasks)
  <2>1. PICK i \in 1 .. Len(tasks') : tasks'[i] = u
    BY <1>4 DEF Queued
  <2>2. i + 1 \in 1 .. Len(tasks) /\ 1 \in 1 .. Len(tasks) /\ i + 1 # 1
    BY <1>1
  <2>3. QED
    BY <1>1, <2>1, <2>2 DEF Queued, QueuedOnce
<1>5. ASSUME NEW u, Queued(u), u # Head(tasks)
      PROVE  Queued(u)'
  <2>1. PICK i \in 1 .. Len(tasks) : tasks[i] = u
    BY <1>5 DEF Queued
  <2>2. i - 1 \in 1 .. Len(tasks') /\ (i - 1) + 1 = i
    BY <1>1, <1>5, <2>1
  <2>3. tasks'[i - 1] = u
    BY <1>1, <2>1, <2>2
  <2>4. QED
    BY <2>2, <2>3 DEF Queued
<1>6. QED
  BY <1>2, <1>3, <1>4, <1>5 DEF QueuedOnce

LEMMA NoTaskQueued == TypeOK => ~Queued(NoTask) /\ ~Settled(NoTask)
  BY NoTaskIsNone DEF TypeOK, Queued, Settled

LEMMA PlaceStep ==
  ASSUME TypeOK, OnePlace, [Next]_vars
  PROVE  OnePlace'
<1> USE DEF workerVars, clientVars
<1>0. /\ ~Queued(NoTask) /\ ~Settled(NoTask)
      /\ hand \in [Workers -> Tasks \cup {NoTask}]
      /\ asking \in [Clients -> Tasks \cup {NoTask}]
  BY NoTaskQueued DEF TypeOK
<1>1. CASE UNCHANGED <<tasks, hand, asking, done, busy, refused>>
  BY <1>1 DEF OnePlace, QueuedOnce, Queued, Settled
<1>2. ASSUME NEW c \in Clients, CheckQueue(c)
      PROVE  OnePlace'
  <2>1. PICK t \in Tasks :
          /\ ~Dispatched(t)
          /\ \/ busy' = busy \cup {t} /\ UNCHANGED asking
             \/ asking' = [asking EXCEPT ![c] = t] /\ UNCHANGED busy
    BY <1>2 DEF CheckQueue
  <2>2. /\ UNCHANGED <<tasks, hand, done, refused>>
        /\ QueuedOnce' = QueuedOnce /\ \A u : Queued(u)' = Queued(u)
    BY <1>2 DEF CheckQueue, QueuedOnce, Queued
  <2>3. CASE busy' = busy \cup {t} /\ UNCHANGED asking
    BY <2>1, <2>2, <2>3, NoTaskIsNone DEF OnePlace, Settled, Dispatched
  <2>4. CASE asking' = [asking EXCEPT ![c] = t] /\ UNCHANGED busy
    BY <1>0, <2>1, <2>2, <2>4, NoTaskIsNone DEF OnePlace, Settled, Dispatched
  <2>5. QED
    BY <2>1, <2>3, <2>4
<1>3. ASSUME NEW c \in Clients, Push(c)
      PROVE  OnePlace'
  <2>1. asking[c] \in Tasks /\ ~Queued(asking[c]) /\ ~Settled(asking[c])
    BY <1>3 DEF Push, TypeOK, OnePlace
  <2>2. QueuedOnce' /\ \A u : Queued(u)' <=> Queued(u) \/ u = asking[c]
    BY <1>3, <2>1, AppendedQueue DEF Push, OnePlace
  <2>3. /\ UNCHANGED <<hand, done, busy, refused>>
        /\ asking' = [asking EXCEPT ![c] = NoTask]
    BY <1>3 DEF Push
  <2>4. QED
    BY <1>0, <2>1, <2>2, <2>3, NoTaskIsNone DEF OnePlace, Settled
<1>4. ASSUME NEW c \in Clients, Throw(c)
      PROVE  OnePlace'
  <2>1. asking[c] \in Tasks /\ ~Queued(asking[c]) /\ ~Settled(asking[c])
    BY <1>4 DEF Throw, TypeOK, OnePlace
  <2>2. /\ UNCHANGED <<tasks, hand, done, busy>>
        /\ QueuedOnce' = QueuedOnce /\ \A u : Queued(u)' = Queued(u)
        /\ asking' = [asking EXCEPT ![c] = NoTask]
        /\ refused' = refused \cup {asking[c]}
    BY <1>4 DEF Throw, QueuedOnce, Queued
  <2>3. QED
    BY <1>0, <2>1, <2>2, NoTaskIsNone DEF OnePlace, Settled
<1>5. ASSUME NEW w \in Workers, Take(w)
      PROVE  OnePlace'
  <2>1. /\ Head(tasks) \in Tasks /\ Queued(Head(tasks))
        /\ QueuedOnce' /\ \A u : Queued(u)' <=> Queued(u) /\ u # Head(tasks)
    BY <1>5, TakenQueue DEF Take, OnePlace
  <2>2. /\ UNCHANGED <<asking, done, busy, refused>>
        /\ hand' = [hand EXCEPT ![w] = Head(tasks)]
    BY <1>5 DEF Take
  <2>3. QED
    BY <1>0, <2>1, <2>2, NoTaskIsNone DEF OnePlace, Settled
<1>6. ASSUME NEW w \in Workers, Finish(w)
      PROVE  OnePlace'
  <2>1. hand[w] \in Tasks /\ ~Queued(hand[w]) /\ ~Settled(hand[w])
    BY <1>6 DEF Finish, TypeOK, OnePlace
  <2>2. /\ UNCHANGED <<tasks, asking, busy, refused>>
        /\ QueuedOnce' = QueuedOnce /\ \A u : Queued(u)' = Queued(u)
        /\ hand' = [hand EXCEPT ![w] = NoTask]
        /\ done' = done \cup {hand[w]}
    BY <1>6 DEF Finish, QueuedOnce, Queued
  <2>3. QED
    BY <1>0, <2>1, <2>2, NoTaskIsNone DEF OnePlace, Settled
<1>7. ASSUME NEW c \in Clients, NotifyOne(c)
      PROVE  OnePlace'
  BY <1>1, <1>7 DEF NotifyOne
<1>8. ASSUME NEW w \in Workers, Exit(w) \/ BeginWait(w) \/ Sleep(w) \/ SpuriousWakeup(w)
      PROVE  OnePlace'
  BY <1>1, <1>8 DEF Exit, BeginWait, Sleep, SpuriousWakeup
<1>9. CASE Shutdown
  BY <1>1, <1>9 DEF Shutdown, StoreStop, NotifyAll, Joined
<1>10. CASE UNCHANGED vars
  BY <1>1, <1>10 DEF vars
<1>11. QED
  BY <1>2, <1>3, <1>4, <1>5, <1>6, <1>7, <1>8, <1>9, <1>10
     DEF Next, ClientStep, Enqueue, WorkerRuns

LEMMA ShutterStep ==
  ASSUME TypeOK, ShutterKnows, [Next]_vars
  PROVE  ShutterKnows'
<1> USE DEF ShutterKnows, TypeOK, workerVars, clientVars
<1>1. ASSUME NEW c \in Clients, CheckQueue(c) \/ Enqueue(c)
      PROVE  ShutterKnows'
  BY <1>1 DEF CheckQueue, Enqueue, Push, Throw
<1>2. ASSUME NEW c \in Clients, NotifyOne(c)
      PROVE  ShutterKnows'
  BY <1>2 DEF NotifyOne, Waiting
<1>3. ASSUME NEW w \in Workers, WorkerRuns(w) \/ SpuriousWakeup(w)
      PROVE  ShutterKnows'
  BY <1>3 DEF WorkerRuns, Take, Exit, BeginWait, Sleep, SpuriousWakeup, Finish
<1>4. CASE Shutdown
  BY <1>4 DEF Shutdown, StoreStop, NotifyAll, Joined
<1>5. CASE UNCHANGED vars
  BY <1>5 DEF vars
<1>6. QED
  BY <1>1, <1>2, <1>3, <1>4, <1>5 DEF Next, ClientStep

LEMMA ServiceInvHolds == Spec => []ServiceInv
<1>1. Init => ServiceInv
  <2> SUFFICES ASSUME Init
               PROVE  ServiceInv
    OBVIOUS
  <2>1. TypeOK /\ SleepInv
    BY InitTypeOK, InitSleepInv
  <2>2. OnePlace /\ ShutterKnows
    BY DEF Init, OnePlace, QueuedOnce, Queued, Settled, ShutterKnows
  <2>3. QED
    BY <2>1, <2>2 DEF ServiceInv
<1>2. ServiceInv /\ [Next]_vars => ServiceInv'
  BY TypeStep, SleepStep, PlaceStep, ShutterStep DEF ServiceInv
<1>3. QED
  BY <1>1, <1>2, PTL DEF Spec

InHand(t) == \E w \in Workers : hand[w] = t

LEMMA OneRunner ==
  ASSUME OnePlace, NEW t \in Tasks, NEW w \in Workers, hand[w] = t
  PROVE  Runners(t) = {w}
  BY NoTaskIsNone DEF OnePlace, Runners

\* As no task is in two places, where it is and its phase tell the same.
PhaseTells ==
  \A t \in Tasks :
    /\ t \in done <=> PhaseOf(t) = "done"
    /\ t \in busy <=> PhaseOf(t) = "busy"
    /\ t \in refused <=> PhaseOf(t) = "refused"
    /\ InHand(t) <=> PhaseOf(t) = "running"
    /\ Queued(t) <=> PhaseOf(t) = "accepted"
    /\ ~InHand(t) /\ ~Queued(t) /\ ~Settled(t) <=> PhaseOf(t) = "new"

LEMMA PhaseWhere == OnePlace => PhaseTells
<1> SUFFICES ASSUME OnePlace, NEW t \in Tasks
             PROVE  /\ t \in done <=> PhaseOf(t) = "done"
                    /\ t \in busy <=> PhaseOf(t) = "busy"
                    /\ t \in refused <=> PhaseOf(t) = "refused"
                    /\ InHand(t) <=> PhaseOf(t) = "running"
                    /\ Queued(t) <=> PhaseOf(t) = "accepted"
                    /\ ~InHand(t) /\ ~Queued(t) /\ ~Settled(t) <=> PhaseOf(t) = "new"
  BY DEF PhaseTells
<1>1. CASE InHand(t)
  <2>1. PICK w \in Workers : hand[w] = t
    BY <1>1 DEF InHand
  <2>2. PhaseOf(t) = "running"
    BY <2>1, OneRunner DEF PhaseOf
  <2>3. ~Queued(t) /\ ~Settled(t)
    BY <2>1 DEF OnePlace
  <2>4. QED
    BY <1>1, <2>2, <2>3 DEF Settled
<1>2. CASE ~InHand(t)
  <2>1. Runners(t) = {}
    BY <1>2 DEF InHand, Runners
  <2>2. QED
    BY <1>2, <2>1 DEF PhaseOf, OnePlace, Settled
<1>3. QED
  BY <1>1, <1>2

LEMMA PhaseNext == OnePlace' => PhaseTells'
  BY PhaseWhere, PTL

LEMMA SamePhase ==
  ASSUME OnePlace, OnePlace', NEW t \in Tasks,
         InHand(t)' <=> InHand(t), Queued(t)' <=> Queued(t),
         t \in done' <=> t \in done, t \in busy' <=> t \in busy,
         t \in refused' <=> t \in refused
  PROVE  PhaseOf(t)' = PhaseOf(t)
<1>1. Settled(t)' <=> Settled(t)
  BY DEF Settled
<1>2. InHand(t) \/ Queued(t) \/ t \in done \cup busy \cup refused
        \/ (~InHand(t) /\ ~Queued(t) /\ ~Settled(t))
  BY DEF Settled
<1>3. QED
  BY <1>1, <1>2, PhaseWhere, PhaseNext DEF PhaseTells

\* One task changes its phase and the others keep theirs.
LEMMA OneMoves ==
  ASSUME NEW t \in Tasks, NEW from, NEW to,
         PhaseOf(t) = from, PhaseOf(t)' = to,
         \A u \in Tasks \ {t} : PhaseOf(u)' = PhaseOf(u)
  PROVE  Service!Move(t, from, to)
  BY DEF Service!Move

LEMMA NoneMoves ==
  ASSUME \A t \in Tasks : PhaseOf(t)' = PhaseOf(t),
         UNCHANGED <<stop, shutter>>
  PROVE  UNCHANGED Service!vars
  BY DEF Service!vars

\* Every step of the pool is a step of the service or leaves it alone.
LEMMA ServiceStep ==
  ASSUME ServiceInv, ServiceInv', [Next]_vars
  PROVE  [Service!Next]_Service!vars
<1> USE DEF workerVars, clientVars
<1>0. /\ TypeOK /\ OnePlace /\ OnePlace' /\ SleepInv /\ ShutterKnows
      /\ ~Queued(NoTask) /\ ~Settled(NoTask)
      /\ hand \in [Workers -> Tasks \cup {NoTask}]
      /\ asking \in [Clients -> Tasks \cup {NoTask}]
  BY NoTaskQueued DEF ServiceInv, TypeOK
<1>1. CASE UNCHANGED <<tasks, hand, done, busy, refused, stop, shutter>>
  <2>1. ASSUME NEW t \in Tasks
        PROVE  PhaseOf(t)' = PhaseOf(t)
    BY <1>1 DEF PhaseOf, Runners, Queued
  <2>2. QED
    BY <1>1, <2>1, NoneMoves
<1>2. ASSUME NEW c \in Clients, CheckQueue(c)
      PROVE  [Service!Next]_Service!vars
  <2>1. PICK t \in Tasks :
          /\ ~Dispatched(t)
          /\ busy' = busy \cup {t} \/ UNCHANGED busy
    BY <1>2 DEF CheckQueue
  <2>2. UNCHANGED <<tasks, hand, done, refused, stop, shutter>>
    BY <1>2 DEF CheckQueue
  <2>3. CASE UNCHANGED busy
    BY <1>1, <2>2, <2>3
  <2>4. CASE busy' = busy \cup {t}
    <3>1. ~InHand(t) /\ ~Queued(t) /\ ~Settled(t)
      BY <2>1 DEF Dispatched, InHand, Settled
    <3>2. PhaseOf(t) = "new" /\ PhaseOf(t)' = "busy"
      BY <1>0, <2>4, <3>1, PhaseWhere, PhaseNext DEF PhaseTells
    <3>3. ASSUME NEW u \in Tasks \ {t}
          PROVE  PhaseOf(u)' = PhaseOf(u)
      BY <2>2, <2>4 DEF PhaseOf, Runners, Queued
    <3>4. Service!Move(t, "new", "busy")
      BY <3>2, <3>3, OneMoves
    <3>5. QED
      BY <2>2, <3>4 DEF Service!Next, Service!TurnAway
  <2>5. QED
    BY <2>1, <2>3, <2>4
<1>3. ASSUME NEW c \in Clients, Push(c)
      PROVE  [Service!Next]_Service!vars
  <2>1. PICK u \in Tasks : u = asking[c]
    BY <1>3 DEF Push, ServiceInv, TypeOK
  <2>2. ~InHand(u) /\ ~Queued(u) /\ ~Settled(u)
    BY <1>0, <2>1, NoTaskIsNone DEF OnePlace, InHand
  <2>3. \A v : Queued(v)' <=> Queued(v) \/ v = u
    BY <1>0, <1>3, <2>1, <2>2, AppendedQueue DEF Push, OnePlace
  <2>4. UNCHANGED <<hand, done, busy, refused, stop, shutter>> /\ ~stop
    BY <1>3 DEF Push
  <2>5. PhaseOf(u) = "new" /\ PhaseOf(u)' = "accepted"
    BY <1>0, <2>2, <2>3, PhaseWhere, PhaseNext DEF PhaseTells
  <2>6. ASSUME NEW v \in Tasks \ {u}
        PROVE  PhaseOf(v)' = PhaseOf(v)
    <3>1. InHand(v)' <=> InHand(v)
      BY <2>4 DEF InHand
    <3>2. QED
      BY <1>0, <2>3, <2>4, <3>1, SamePhase
  <2>7. Service!Move(u, "new", "accepted")
    BY <2>5, <2>6, OneMoves
  <2>8. QED
    BY <2>4, <2>7 DEF Service!Next, Service!Accept
<1>4. ASSUME NEW c \in Clients, Throw(c)
      PROVE  [Service!Next]_Service!vars
  <2>1. PICK u \in Tasks : u = asking[c]
    BY <1>4 DEF Throw, ServiceInv, TypeOK
  <2>2. ~InHand(u) /\ ~Queued(u) /\ ~Settled(u)
    BY <1>0, <2>1, NoTaskIsNone DEF OnePlace, InHand
  <2>3. /\ UNCHANGED <<tasks, hand, done, busy, stop, shutter>> /\ stop
        /\ refused' = refused \cup {u}
    BY <1>4, <2>1 DEF Throw
  <2>4. PhaseOf(u) = "new" /\ PhaseOf(u)' = "refused"
    BY <1>0, <2>2, <2>3, PhaseWhere, PhaseNext DEF PhaseTells
  <2>5. ASSUME NEW v \in Tasks \ {u}
        PROVE  PhaseOf(v)' = PhaseOf(v)
    BY <2>3 DEF PhaseOf, Runners, Queued
  <2>6. Service!Move(u, "new", "refused")
    BY <2>4, <2>5, OneMoves
  <2>7. QED
    BY <2>3, <2>6 DEF Service!Next, Service!Refuse
<1>5. ASSUME NEW w \in Workers, Take(w)
      PROVE  [Service!Next]_Service!vars
  <2>1. PICK t \in Tasks : t = Head(tasks) /\ Queued(t)
    BY <1>0, <1>5, TakenQueue DEF Take, OnePlace
  <2>2. \A v : Queued(v)' <=> Queued(v) /\ v # t
    BY <1>0, <1>5, <2>1, TakenQueue DEF Take, OnePlace
  <2>3. /\ UNCHANGED <<done, busy, refused, stop, shutter>>
        /\ hand' = [hand EXCEPT ![w] = t] /\ hand[w] = NoTask
        /\ worker[w] = "lock"
    BY <1>0, <1>5, <2>1 DEF Take, TypeOK
  <2>4. InHand(t)'
    BY <1>0, <2>3 DEF InHand
  <2>5. PhaseOf(t) = "accepted" /\ PhaseOf(t)' = "running"
    BY <1>0, <2>1, <2>4, PhaseWhere, PhaseNext DEF PhaseTells
  <2>6. ASSUME NEW u \in Tasks \ {t}
        PROVE  PhaseOf(u)' = PhaseOf(u)
    <3>1. InHand(u)' <=> InHand(u)
      BY <1>0, <2>3, NoTaskIsNone DEF InHand
    <3>2. QED
      BY <1>0, <2>2, <2>3, <3>1, SamePhase
  <2>7. Service!Move(t, "accepted", "running")
    BY <2>5, <2>6, OneMoves
  <2>8. shutter # "closed"
    BY <1>0, <2>3 DEF ShutterKnows
  <2>9. QED
    BY <2>3, <2>7, <2>8 DEF Service!Next, Service!Start
<1>6. ASSUME NEW w \in Workers, Finish(w)
      PROVE  [Service!Next]_Service!vars
  <2>1. PICK t \in Tasks : t = hand[w]
    BY <1>6 DEF Finish, ServiceInv, TypeOK
  <2>2. /\ UNCHANGED <<tasks, busy, refused, stop, shutter>>
        /\ hand' = [hand EXCEPT ![w] = NoTask] /\ done' = done \cup {t}
        /\ worker[w] = "run"
    BY <1>6, <2>1 DEF Finish
  <2>3. InHand(t)
    BY <2>1 DEF InHand
  <2>4. PhaseOf(t) = "running" /\ PhaseOf(t)' = "done"
    BY <1>0, <2>2, <2>3, PhaseWhere, PhaseNext DEF PhaseTells
  <2>5. ASSUME NEW u \in Tasks \ {t}
        PROVE  PhaseOf(u)' = PhaseOf(u)
    <3>1. InHand(u)' <=> InHand(u)
      BY <1>0, <2>1, <2>2, NoTaskIsNone DEF InHand
    <3>2. Queued(u)' <=> Queued(u)
      BY <2>2 DEF Queued
    <3>3. QED
      BY <1>0, <2>2, <3>1, <3>2, SamePhase
  <2>6. Service!Move(t, "running", "done")
    BY <2>4, <2>5, OneMoves
  <2>7. shutter # "closed"
    BY <1>0, <2>2 DEF ShutterKnows
  <2>8. QED
    BY <2>2, <2>6, <2>7 DEF Service!Next, Service!Complete
<1>7. ASSUME NEW c \in Clients, NotifyOne(c)
      PROVE  [Service!Next]_Service!vars
  BY <1>1, <1>7 DEF NotifyOne
<1>8. ASSUME NEW w \in Workers, Exit(w) \/ BeginWait(w) \/ Sleep(w) \/ SpuriousWakeup(w)
      PROVE  [Service!Next]_Service!vars
  BY <1>1, <1>8 DEF Exit, BeginWait, Sleep, SpuriousWakeup
<1>9. CASE Shutdown
  <2>1. /\ UNCHANGED <<tasks, hand, done, busy, refused>>
        /\ \A t \in Tasks : PhaseOf(t)' = PhaseOf(t)
    <3>1. UNCHANGED <<tasks, hand, done, busy, refused>>
      BY <1>9 DEF Shutdown, StoreStop, NotifyAll, Joined
    <3>2. QED
      BY <3>1 DEF PhaseOf, Runners, Queued
  <2>2. UNCHANGED [t \in Tasks |-> PhaseOf(t)]
    BY <2>1
  <2>3. CASE StoreStop
    BY <1>0, <2>2, <2>3
       DEF StoreStop, ShutterKnows, Service!Next, Service!BeginClose
  <2>4. CASE NotifyAll
    BY <2>2, <2>4 DEF NotifyAll, Service!vars
  <2>5. CASE Joined
    <3>1. stop /\ tasks = <<>> /\ \A w \in Workers : hand[w] = NoTask
      BY <1>0, <2>5, SomeWorkers DEF Joined, SleepInv, ExitedIsFinal, TypeOK
    <3>2. ASSUME NEW t \in Tasks
          PROVE  PhaseOf(t) \notin {"accepted", "running"}
      <4>1. ~InHand(t) /\ ~Queued(t)
        BY <3>1, NoTaskIsNone DEF InHand, Queued
      <4>2. QED
        BY <1>0, <4>1, PhaseWhere DEF PhaseTells
    <3>3. QED
      BY <2>2, <2>5, <3>1, <3>2 DEF Joined, Service!Next, Service!Close
  <2>6. QED
    BY <1>9, <2>3, <2>4, <2>5 DEF Shutdown
<1>10. CASE UNCHANGED vars
  BY <1>1, <1>10 DEF vars
<1>11. QED
  BY <1>2, <1>3, <1>4, <1>5, <1>6, <1>7, <1>8, <1>9, <1>10
     DEF Next, ClientStep, Enqueue, WorkerRuns

\* The pool is a TaskService: each task is accepted, turned away or refused
\* once, none is accepted after stop_ is stored, an accepted one is run by one
\* worker and never again, and shutdown() returns with none queued or running
\* (enqueue, workerLoop).
THEOREM PoolIsATaskService == Spec => ServesTasks
<1>1. Init => Service!Init
  <2> SUFFICES ASSUME Init
               PROVE  Service!Init
    OBVIOUS
  <2>1. ASSUME NEW t \in Tasks
        PROVE  PhaseOf(t) = "new"
    BY NoTaskIsNone DEF Init, PhaseOf, Runners, Queued
  <2>2. QED
    BY <2>1 DEF Init, Service!Init
<1>2. ServiceInv /\ ServiceInv' /\ [Next]_vars => [Service!Next]_Service!vars
  BY ServiceStep
<1>3. QED
  BY <1>1, <1>2, ServiceInvHolds, PTL DEF Spec, ServesTasks, Service!Spec

==============================================================================
