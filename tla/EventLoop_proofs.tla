--------------------------- MODULE EventLoop_proofs ---------------------------
(* Proofs about EventLoop for any number of posters and functors.             *)
EXTENDS EventLoop, SequenceTheorems, TLAPS

\* The loop thread, the owner and the posters keep every variable in its type
\* (EventLoop::loop, queueInLoop, quit; EventLoopThread::startLoop, stop).
THEOREM TypeCorrect == Spec => []TypeOK
<1> USE DEF TypeOK, PcStates, OwnerStates
<1>1. Init => TypeOK
  <2>1. <<>> \in Seq(Functors)
    OBVIOUS
  <2>2. QED
    BY <2>1 DEF Init
<1>2. TypeOK /\ [Next]_vars => TypeOK'
  <2> SUFFICES ASSUME TypeOK, [Next]_vars
               PROVE  TypeOK'
    OBVIOUS
  <2> USE DEF loopVars
  <2>1. CASE Owner
    BY <2>1 DEF Owner, StartThread, StartReturns, StopRead, QuitStore,
                QuitWakeup, StopJoined
  <2>2. ASSUME NEW p \in Posters, Post(p)
        PROVE  TypeOK'
    BY <2>2 DEF Post, Functors
  <2>3. ASSUME NEW p \in Posters, PostWakeup(p)
        PROVE  TypeOK'
    BY <2>3 DEF PostWakeup
  <2>4. CASE Publish \/ Enter \/ Check \/ BatchDone \/ Unpublish \/ Destroy
    BY <2>4 DEF Publish, Enter, Check, BatchDone, Unpublish, Destroy
  <2>5. CASE PollWoken \/ PollIo \/ PollTimeout
    BY <2>5 DEF PollWoken, PollIo, PollTimeout, PollReturns
  <2>6. CASE HandleWakeup
    BY <2>6 DEF HandleWakeup
  <2>7. CASE HandleIo
    BY <2>7 DEF HandleIo, QueueOnLoopThread, Functors
  <2>8. CASE Swap
    BY <2>8 DEF Swap
  <2>9. CASE RunFunctor
    <3>1. /\ Tail(batch) \in Seq(Functors)
          /\ Append(executed, Head(batch)) \in Seq(Functors)
      BY <2>9 DEF RunFunctor
    <3>2. CASE UNCHANGED <<pending, posted>>
      BY <2>9, <3>1, <3>2 DEF RunFunctor
    <3>3. ASSUME NEW f \in Nested \ posted, QueueOnLoopThread(f)
          PROVE  TypeOK'
      <4>1. f \in Functors
        BY DEF Functors
      <4>2. pending' \in Seq(Functors) /\ posted' \subseteq Functors
        BY <3>3, <4>1 DEF QueueOnLoopThread
      <4>3. QED
        BY <2>9, <3>1, <4>2 DEF RunFunctor
    <3>4. QED
      BY <2>9, <3>2, <3>3 DEF RunFunctor
  <2>10. CASE UNCHANGED vars
    BY <2>10 DEF vars
  <2>11. QED
    BY <2>1, <2>2, <2>3, <2>4, <2>5, <2>6, <2>7, <2>8, <2>9, <2>10
       DEF Next, LoopRuns
<1>3. QED
  BY <1>1, <1>2, PTL DEF Spec

------------------------------------------------------------------------------
\* What the loop thread knows of pending_functors_ whenever it is not handling
\* events: the eventfd is drained only there, and the swap that follows takes
\* whatever the drained wakeup announced.  A destroyed loop has no eventfd.
PendingAnnounced ==
  pc \notin {"events", "destroyed"} =>
    ((\E f \in Foreign : InPending(f)) => WakeupComing)

HandlerWorkTaken == pc # "events" => \A f \in ByHandler : ~InPending(f)

\* There is no loop thread before startLoop.
StartedByOwner == owner = "idle" => pc = "none"

StrandedInv == StartedByOwner /\ PendingAnnounced /\ HandlerWorkTaken

\* Queueing adds the functor to pending and nothing else.
LEMMA InPendingAfterAppend ==
  ASSUME pending \in Seq(Functors), NEW g, g \in Functors,
         pending' = Append(pending, g), NEW f
  PROVE  InPending(f)' <=> (InPending(f) \/ f = g)
  BY DEF InPending

LEMMA StrandedInvStep ==
  TypeOK /\ StrandedInv /\ [Next]_vars => StrandedInv'
<1> SUFFICES ASSUME TypeOK, StrandedInv, [Next]_vars
             PROVE  StrandedInv'
  OBVIOUS
<1> USE DEF StrandedInv, StartedByOwner, PendingAnnounced, HandlerWorkTaken
<1>1. CASE Owner
  <2>1. CASE QuitWakeup
    BY <2>1 DEF QuitWakeup, loopVars, InPending, WakeupComing
  <2>2. CASE StartThread
    BY <2>2 DEF StartThread, InPending, WakeupComing, TypeOK
  <2>3. CASE StartReturns \/ StopRead \/ QuitStore \/ StopJoined
    BY <2>3 DEF StartReturns, StopRead, QuitStore, StopJoined, loopVars,
                      InPending, WakeupComing
  <2>4. QED
    BY <1>1, <2>1, <2>2, <2>3 DEF Owner
<1>2. ASSUME NEW p \in Posters, Post(p)
      PROVE  StrandedInv'
  <2>1. PICK g \in Foreign \ posted : pending' = Append(pending, g)
    BY <1>2 DEF Post
  <2>2. poster'[p] = "wake" /\ UNCHANGED <<pc, signalled, owner>>
    BY <1>2 DEF Post, loopVars, TypeOK
  <2>3. \A f \in ByHandler : InPending(f)' => InPending(f)
    BY <2>1, InPendingAfterAppend, OriginsDisjoint DEF TypeOK, Functors
  <2>4. QED
    BY <2>2, <2>3 DEF WakeupComing
<1>3. ASSUME NEW p \in Posters, PostWakeup(p)
      PROVE  StrandedInv'
  BY <1>3 DEF PostWakeup, loopVars, InPending, WakeupComing
<1>4. CASE Publish \/ Enter \/ Check \/ BatchDone \/ Unpublish \/ Destroy
  BY <1>4 DEF Publish, Enter, Check, BatchDone, Unpublish, Destroy, InPending,
              WakeupComing
<1>5. CASE PollWoken \/ PollIo \/ PollTimeout \/ HandleWakeup
  BY <1>5 DEF PollWoken, PollIo, PollTimeout, PollReturns, HandleWakeup
<1>6. CASE HandleIo
  BY <1>6 DEF HandleIo
<1>7. CASE Swap
  BY <1>7 DEF Swap, InPending
<1>8. CASE RunFunctor
  <2>1. UNCHANGED <<pc, signalled, poster, owner>>
    BY <1>8 DEF RunFunctor
  <2>2. \A f \in Foreign \cup ByHandler : InPending(f)' => InPending(f)
    <3>1. CASE UNCHANGED pending
      BY <3>1 DEF InPending
    <3>2. ASSUME NEW g \in Nested, pending' = Append(pending, g)
          PROVE  \A f \in Foreign \cup ByHandler : InPending(f)' => InPending(f)
      BY <3>2, InPendingAfterAppend, OriginsDisjoint DEF TypeOK, Functors
    <3>3. QED
      BY <1>8, <3>1, <3>2 DEF RunFunctor, QueueOnLoopThread
  <2>3. QED
    BY <2>1, <2>2 DEF WakeupComing
<1>9. CASE UNCHANGED vars
  BY <1>9 DEF vars, InPending, WakeupComing
<1>10. QED
  BY <1>1, <1>2, <1>3, <1>4, <1>5, <1>6, <1>7, <1>8, <1>9 DEF Next, LoopRuns

LEMMA StrandedInvHolds == Spec => []StrandedInv
<1>1. Init => StrandedInv
  BY DEF Init, StrandedInv, StartedByOwner, PendingAnnounced,
         HandlerWorkTaken, InPending
<1>2. QED
  BY <1>1, TypeCorrect, StrandedInvStep, PTL DEF Spec

\* No functor from another thread waits for the ten-second timeout, and none
\* queued by an event handler is left behind (queueInLoop, wakeup, loop).
THEOREM NothingStranded == Spec => []NoStrandedFunctor
<1>1. StrandedInv => NoStrandedFunctor
  BY DEF StrandedInv, PendingAnnounced, HandlerWorkTaken, NoStrandedFunctor
<1>2. QED
  BY <1>1, StrandedInvHolds, PTL

\* A quit() that finds the loop in poll interrupts it (quit, wakeup).
THEOREM QuitWakes == Spec => []QuitInterruptsPoll
<1> USE DEF QuitInterruptsPoll
<1>1. Init => QuitInterruptsPoll
  BY DEF Init
<1>2. TypeOK /\ QuitInterruptsPoll /\ [Next]_vars => QuitInterruptsPoll'
  BY DEF TypeOK, Next, vars, loopVars, Owner, StartThread, StartReturns,
         StopRead, QuitStore, QuitWakeup, StopJoined, Post, PostWakeup,
         LoopRuns, Publish, Enter, Check, PollWoken, PollIo, PollTimeout,
         PollReturns, HandleWakeup, HandleIo, Swap, RunFunctor, BatchDone,
         Unpublish, Destroy
<1>3. QED
  BY <1>1, <1>2, TypeCorrect, PTL DEF Spec

------------------------------------------------------------------------------
LEMMA ConcatAppend ==
  ASSUME NEW S, NEW s \in Seq(S), NEW t \in Seq(S), NEW e \in S
  PROVE  s \o Append(t, e) = Append(s \o t, e)
  OBVIOUS

LEMMA ConcatHeadTail ==
  ASSUME NEW S, NEW s \in Seq(S), NEW t \in Seq(S), s # <<>>
  PROVE  /\ s \o t # <<>>
         /\ Head(s \o t) = Head(s)
         /\ Tail(s \o t) = Tail(s) \o t
  OBVIOUS

\* doPendingFunctors is done with one batch before it takes the next.
BatchOnlyInRun == pc # "run" => batch = <<>>

LEMMA BatchInv == Spec => []BatchOnlyInRun
<1> USE DEF BatchOnlyInRun
<1>1. Init => BatchOnlyInRun
  BY DEF Init
<1>2. StartedByOwner /\ BatchOnlyInRun /\ [Next]_vars => BatchOnlyInRun'
  <2> SUFFICES ASSUME StartedByOwner, BatchOnlyInRun, [Next]_vars
               PROVE  BatchOnlyInRun'
    OBVIOUS
  <2>1. CASE Owner \/ \E p \in Posters : Post(p) \/ PostWakeup(p)
    BY <2>1 DEF Owner, StartThread, StartReturns, StopRead, QuitStore,
                QuitWakeup, StopJoined, Post, PostWakeup, loopVars,
                StartedByOwner
  <2>2. CASE \/ Publish \/ Enter \/ Check \/ Unpublish \/ Destroy
             \/ PollWoken \/ PollIo \/ PollTimeout \/ HandleWakeup \/ HandleIo
    \* The batch is left alone, and the loop is not running one.
    BY <2>2 DEF Publish, Enter, Check, Unpublish, Destroy, PollWoken, PollIo,
                PollTimeout, PollReturns, HandleWakeup, HandleIo
  <2>3. CASE Swap \/ RunFunctor
    \* A batch taken is run: the loop goes to, or stays in, "run".
    BY <2>3 DEF Swap, RunFunctor
  <2>4. CASE BatchDone \/ UNCHANGED vars
    BY <2>4 DEF BatchDone, vars
  <2>5. QED
    BY <2>1, <2>2, <2>3, <2>4 DEF LoopRuns, Next
<1>3. StrandedInv => StartedByOwner
  BY DEF StrandedInv
<1>4. QED
  BY <1>1, <1>2, <1>3, StrandedInvHolds, PTL DEF Spec

LEMMA SubmitStep ==
  ASSUME TypeOK, NEW f \in Functors \ posted,
         pending' = Append(pending, f), posted' = posted \cup {f},
         UNCHANGED <<batch, executed>>
  PROVE  Executor!Submit
<1>1. batch \o pending' = Append(batch \o pending, f)
  BY ConcatAppend DEF TypeOK
<1>2. QED
  BY <1>1 DEF Executor!Submit, Executor!Fresh

LEMMA ExecuteStep ==
  ASSUME TypeOK, RunFunctor
  PROVE  Executor!Execute
<1>1. batch \in Seq(Functors) /\ pending \in Seq(Functors) /\ batch # <<>>
  BY DEF TypeOK, RunFunctor
<1>2. /\ batch \o pending # <<>>
      /\ executed' = Append(executed, Head(batch \o pending))
      /\ batch' \o pending = Tail(batch \o pending)
  BY <1>1, ConcatHeadTail DEF RunFunctor
<1>3. CASE UNCHANGED <<pending, posted>>
  BY <1>2, <1>3 DEF Executor!Execute
<1>4. ASSUME NEW f \in Nested \ posted, QueueOnLoopThread(f)
      PROVE  Executor!Execute
  <2>1. f \in Functors \ posted
    BY DEF Functors
  <2>2. batch' \in Seq(Functors)
    BY <1>1 DEF RunFunctor
  <2>3. batch' \o pending' = Append(batch' \o pending, f)
    BY <1>1, <1>4, <2>1, <2>2, ConcatAppend DEF QueueOnLoopThread
  <2>4. QED
    BY <1>2, <1>4, <2>1, <2>3
       DEF QueueOnLoopThread, Executor!Execute, Executor!Fresh
<1>5. QED
  BY <1>3, <1>4 DEF RunFunctor

\* The eventfd, the swap and the two threads together run functors one at a
\* time, each once, in the order queueInLoop accepted them.
THEOREM LoopIsASerialExecutor == Spec => RunsInOrder
<1>1. Init => Executor!Init
  BY DEF Init, Executor!Init
<1>2. TypeOK /\ BatchOnlyInRun /\ [Next]_vars => [Executor!Next]_Executor!vars
  <2> SUFFICES ASSUME TypeOK, BatchOnlyInRun, [Next]_vars
               PROVE  [Executor!Next]_Executor!vars
    OBVIOUS
  <2>1. CASE UNCHANGED <<posted, batch, pending, executed>>
    BY <2>1 DEF Executor!vars
  <2>2. CASE Owner \/ Publish \/ Enter \/ Check \/ PollWoken \/ PollIo
             \/ PollTimeout \/ HandleWakeup \/ BatchDone \/ Unpublish
             \/ Destroy \/ \E p \in Posters : PostWakeup(p)
    BY <2>1, <2>2
       DEF loopVars, Owner, StartThread, StartReturns, StopRead, QuitStore,
           QuitWakeup, StopJoined, PostWakeup, Publish, Enter, Check,
           PollWoken, PollIo, PollTimeout, PollReturns, HandleWakeup,
           BatchDone, Unpublish, Destroy
  <2>3. ASSUME NEW p \in Posters, Post(p)
        PROVE  Executor!Submit
    <3>1. PICK f \in Foreign \ posted : /\ pending' = Append(pending, f)
                                        /\ posted' = posted \cup {f}
      BY <2>3 DEF Post
    <3>2. f \in Functors \ posted /\ UNCHANGED <<batch, executed>>
      BY <2>3 DEF Post, loopVars, Functors
    <3>3. QED
      BY <3>1, <3>2, SubmitStep
  <2>4. CASE HandleIo
    <3>1. PICK f \in ByHandler \ posted : QueueOnLoopThread(f)
      BY <2>4 DEF HandleIo
    <3>2. f \in Functors \ posted /\ UNCHANGED <<batch, executed>>
      BY <2>4 DEF HandleIo, Functors
    <3>3. Executor!Submit
      BY <3>1, <3>2, SubmitStep DEF QueueOnLoopThread
    <3>4. QED
      BY <3>3 DEF Executor!Next
  <2>5. CASE Swap
    <3>1. batch = <<>> /\ pending \in Seq(Functors)
      BY <2>5 DEF Swap, BatchOnlyInRun, TypeOK
    <3>2. batch' \o pending' = batch \o pending
      BY <2>5, <3>1 DEF Swap
    <3>3. QED
      BY <2>5, <3>2 DEF Swap, Executor!vars
  <2>6. CASE RunFunctor
    BY <2>6, ExecuteStep DEF Executor!Next
  <2>7. CASE UNCHANGED vars
    BY <2>1, <2>7 DEF vars
  <2>8. QED
    BY <2>2, <2>3, <2>4, <2>5, <2>6, <2>7 DEF Next, LoopRuns, Executor!Next
<1>3. QED
  BY <1>1, <1>2, TypeCorrect, BatchInv, PTL
     DEF Spec, RunsInOrder, Executor!Spec

===============================================================================
