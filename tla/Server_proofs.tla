---------------------------- MODULE Server_proofs ----------------------------
(* Proofs about Server for any connections and any worker loops.              *)
EXTENDS Server, TLAPS

(* ------------------------------ Sequences --------------------------------- *)
In(q, f) == \E i \in 1 .. Len(q) : q[i] = f

Once(q, f) == \A i, j \in 1 .. Len(q) : q[i] = f /\ q[j] = f => i = j

LEMMA InEmpty == \A f : ~In(<<>>, f) /\ Once(<<>>, f)
  BY DEF In, Once

LEMMA InAppend ==
  ASSUME NEW S, NEW q \in Seq(S), NEW x \in S, NEW f
  PROVE  /\ Append(q, x) \in Seq(S)
         /\ In(Append(q, x), f) <=> In(q, f) \/ x = f
         /\ Once(q, f) /\ (x = f => ~In(q, f)) => Once(Append(q, x), f)
<1> DEFINE a == Append(q, x)
<1>1. /\ a \in Seq(S) /\ Len(a) = Len(q) + 1 /\ Len(q) \in Nat
      /\ \A i \in 1 .. Len(q) : a[i] = q[i]
      /\ a[Len(q) + 1] = x
  OBVIOUS
<1> HIDE DEF a
<1>2. In(a, f) <=> In(q, f) \/ x = f
  <2>1. ASSUME In(a, f) PROVE In(q, f) \/ x = f
    <3>1. PICK i \in 1 .. Len(a) : a[i] = f
      BY <2>1 DEF In
    <3>2. i \in 1 .. Len(q) \/ i = Len(q) + 1
      BY <1>1
    <3>3. QED
      BY <1>1, <3>1, <3>2 DEF In
  <2>2. ASSUME In(q, f) PROVE In(a, f)
    <3>1. PICK i \in 1 .. Len(q) : q[i] = f
      BY <2>2 DEF In
    <3>2. i \in 1 .. Len(a) /\ a[i] = f
      BY <1>1, <3>1
    <3>3. QED
      BY <3>2 DEF In
  <2>3. ASSUME x = f PROVE In(a, f)
    <3>1. Len(q) + 1 \in 1 .. Len(a)
      BY <1>1
    <3>2. QED
      BY <1>1, <2>3, <3>1 DEF In
  <2>4. QED
    BY <2>1, <2>2, <2>3
<1>3. ASSUME Once(q, f), x = f => ~In(q, f) PROVE Once(a, f)
  <2>1. SUFFICES ASSUME NEW i \in 1 .. Len(a), NEW j \in 1 .. Len(a), a[i] = f, a[j] = f
                 PROVE  i = j
    BY DEF Once
  <2>2. CASE i \in 1 .. Len(q) /\ j \in 1 .. Len(q)
    BY <1>1, <1>3, <2>1, <2>2 DEF Once
  <2>3. CASE i = Len(q) + 1 /\ j = Len(q) + 1
    BY <2>3
  <2>4. CASE i \in 1 .. Len(q) /\ j = Len(q) + 1
    BY <1>1, <1>3, <2>1, <2>4 DEF In
  <2>5. CASE i = Len(q) + 1 /\ j \in 1 .. Len(q)
    BY <1>1, <1>3, <2>1, <2>5 DEF In
  <2>6. QED
    BY <1>1, <2>2, <2>3, <2>4, <2>5
<1>4. QED
  BY <1>1, <1>2, <1>3 DEF a

LEMMA InTail ==
  ASSUME NEW S, NEW q \in Seq(S), q # <<>>, NEW f
  PROVE  /\ Tail(q) \in Seq(S)
         /\ Head(q) \in S
         /\ In(q, Head(q))
         /\ In(Tail(q), f) => In(q, f)
         /\ Once(q, f) => Once(Tail(q), f)
         /\ Once(q, Head(q)) => ~In(Tail(q), Head(q))
<1> DEFINE t == Tail(q)
<1>1. /\ t \in Seq(S) /\ Len(q) \in Nat /\ Len(q) > 0 /\ Len(t) = Len(q) - 1
      /\ \A i \in 1 .. Len(t) : i + 1 \in 1 .. Len(q) /\ t[i] = q[i + 1]
      /\ Head(q) = q[1] /\ q[1] \in S
  OBVIOUS
<1> HIDE DEF t
<1>2. In(q, Head(q)) /\ (In(t, f) => In(q, f))
  BY <1>1 DEF In
<1>3. Once(q, f) => Once(t, f)
  <2>1. SUFFICES ASSUME Once(q, f),
                        NEW i \in 1 .. Len(t), NEW j \in 1 .. Len(t), t[i] = f, t[j] = f
                 PROVE  i = j
    BY DEF Once
  <2>2. i + 1 = j + 1
    BY <1>1, <2>1 DEF Once
  <2>3. QED
    BY <2>2, <1>1
<1>4. Once(q, Head(q)) => ~In(t, Head(q))
  <2>1. SUFFICES ASSUME Once(q, Head(q)), NEW i \in 1 .. Len(t), t[i] = Head(q)
                 PROVE  FALSE
    BY DEF In
  <2>2. 1 = i + 1
    BY <1>1, <2>1 DEF Once
  <2>3. QED
    BY <1>1, <2>2
<1>5. QED
  BY <1>1, <1>2, <1>3, <1>4 DEF t

------------------------------------------------------------------------------
(* Types.                                                                     *)

Functors == Ops \X Sockets

LEMMA LoopTypes ==
  /\ Base \in Loops /\ WorkerLoops \subseteq Loops
  /\ Len(Workers) \in Nat /\ Len(Workers) > 0
  /\ \A i \in 1 .. Len(Workers) : Workers[i] \in WorkerLoops
  /\ Base \notin WorkerLoops
  BY LoopsDiffer DEF Loops, WorkerLoops

LEMMA ModRange ==
  ASSUME NEW n \in Nat, NEW k \in Nat, k > 0
  PROVE  n % k \in 0 .. k - 1
  OBVIOUS

\* A functor of its type is appended to the queue of a loop.
LEMMA AppendType ==
  ASSUME TypeOK, NEW l \in Loops, NEW op \in Ops, NEW s \in Sockets
  PROVE  /\ Functor(op, s) \in Functors
         /\ [todo EXCEPT ![l] = Append(@, Functor(op, s))] \in [Loops -> Seq(Functors)]
<1>1. Functor(op, s) \in Functors
  BY DEF Functor, Functors
<1>2. todo \in [Loops -> Seq(Functors)]
  BY DEF TypeOK, Functors
<1>3. Append(todo[l], Functor(op, s)) \in Seq(Functors)
  BY <1>1, <1>2
<1>4. QED
  BY <1>1, <1>2, <1>3

LEMMA TakeType ==
  ASSUME TypeOK, NEW l \in Loops, NEW op, TakeFunctor(l, op)
  PROVE  /\ batch' \in [Loops -> Seq(Functors)]
         /\ batch[l] \in Seq(Functors) /\ batch[l] # <<>>
         /\ batch' = [batch EXCEPT ![l] = Tail(batch[l])]
         /\ Head(batch[l]) \in Functors
         /\ Head(batch[l])[2] \in Sockets
         /\ Head(batch[l]) = Functor(op, Head(batch[l])[2])
<1>1. /\ batch \in [Loops -> Seq(Functors)]
      /\ batch[l] \in Seq(Functors) /\ batch[l] # <<>>
      /\ batch' = [batch EXCEPT ![l] = Tail(batch[l])]
      /\ Head(batch[l])[1] = op
  BY DEF TypeOK, TakeFunctor, Functors
<1>2. Tail(batch[l]) \in Seq(Functors) /\ Head(batch[l]) \in Functors
  BY <1>1
<1>3. Head(batch[l])[2] \in Sockets /\ Head(batch[l]) = Functor(op, Head(batch[l])[2])
  BY <1>1, <1>2 DEF Functors, Functor
<1>4. QED
  BY <1>1, <1>2, <1>3

LEMMA TypeStep == TypeOK /\ [Next]_vars => TypeOK'
<1> SUFFICES ASSUME TypeOK, [Next]_vars
             PROVE  TypeOK'
  OBVIOUS
<1> USE LoopTypes DEF acceptVars, mapVars, loopVars, poolVars, mainVars
<1>1. ASSUME NEW s \in Sockets, Arrive(s)
      PROVE  TypeOK'
  BY <1>1 DEF Arrive, TypeOK
<1>2. CASE Start
  BY <1>2 DEF Start, TypeOK
<1>3. CASE AcceptEvent \/ AcceptDone
  BY <1>3 DEF AcceptEvent, AcceptDone, TypeOK
<1>4. CASE AcceptFails
  <2>1. CASE UNCHANGED <<backlog, sock>>
    BY <1>4, <2>1 DEF AcceptFails, TypeOK
  <2>2. CASE /\ backlog' = Tail(backlog)
             /\ sock' = [sock EXCEPT ![Head(backlog)] = "aborted"]
    <3>1. Tail(backlog) \in Seq(Sockets)
      BY <1>4 DEF AcceptFails, TypeOK
    <3>2. sock' \in [Sockets -> {"none", "backlog", "aborted", "accepted", "open", "closed"}]
      BY <2>2 DEF TypeOK
    <3>3. QED
      BY <1>4, <2>2, <3>1, <3>2 DEF AcceptFails, TypeOK
  <2>3. QED
    BY <1>4, <2>1, <2>2 DEF AcceptFails
<1>5. CASE Accept
  <2>1. /\ Head(backlog) \in Sockets /\ Tail(backlog) \in Seq(Sockets)
        /\ NextLoop \in Loops
    BY <1>5 DEF Accept, TypeOK, NextLoop
  <2>2. "setup" \in Ops
    BY DEF Ops
  <2>3. next' \in 1 .. Len(Workers)
    <3>1. next % Len(Workers) \in 0 .. Len(Workers) - 1
      BY ModRange DEF TypeOK
    <3>2. next' = (next % Len(Workers)) + 1 \/ next' = next
      BY <1>5 DEF Accept, Place
    <3>3. QED
      BY <3>1, <3>2 DEF TypeOK
  <2>4. todo' \in [Loops -> Seq(Functors)]
    <3>1. todo \in [Loops -> Seq(Functors)]
      BY DEF TypeOK, Functors
    <3>2. [todo EXCEPT ![NextLoop] = Append(@, Functor("setup", Head(backlog)))]
             \in [Loops -> Seq(Functors)]
      BY <2>1, <2>2, AppendType
    <3>3. QED
      BY <1>5, <3>1, <3>2 DEF Accept, Place
  <2>5. making' \in [Loops -> {Idle} \cup (Sockets \X Nat)]
    <3>1. <<Head(backlog), nextConnId>> \in Sockets \X Nat
      BY <2>1 DEF TypeOK
    <3>2. making' = [making EXCEPT ![Base] = <<Head(backlog), nextConnId>>] \/ making' = making
      BY <1>5 DEF Accept, Place
    <3>3. making \in [Loops -> {Idle} \cup (Sockets \X Nat)]
      BY DEF TypeOK
    <3>4. \A x \in {Idle} \cup (Sockets \X Nat) :
            [making EXCEPT ![Base] = x] \in [Loops -> {Idle} \cup (Sockets \X Nat)]
      BY <3>3
    <3>5. QED
      BY <3>1, <3>2, <3>3, <3>4
  <2>6. QED
    BY <1>5, <2>1, <2>3, <2>4, <2>5 DEF Accept, Place, TypeOK, Functors
<1>6. ASSUME NEW l \in Loops, Create(l)
      PROVE  TypeOK'
  <2>1. making[l] \in Sockets \X Nat
    BY <1>6 DEF Create, TypeOK
  <2>2. making[l][1] \in Sockets /\ making[l][2] \in Nat
    BY <2>1
  <2>3. QED
    <3>1. /\ nextConnId' \in Nat
          /\ name' \in [Sockets -> Nat]
          /\ sock' \in [Sockets -> {"none", "backlog", "aborted", "accepted", "open", "closed"}]
          /\ making' \in [Loops -> {Idle} \cup (Sockets \X Nat)]
      BY <1>6, <2>2 DEF Create, TypeOK
    <3>2. /\ DOMAIN connections' \subseteq Nat
          /\ \A n \in DOMAIN connections' : connections'[n] \in Sockets
      BY <1>6, <2>2 DEF Create, TypeOK
    <3>3. QED
      BY <1>6, <3>1, <3>2 DEF Create, TypeOK
<1>7. ASSUME NEW s \in Sockets, Close(s)
      PROVE  /\ sock' \in [Sockets -> {"none", "backlog", "aborted", "accepted", "open", "closed"}]
             /\ todo' \in [Loops -> Seq(Ops \X Sockets)]
  <2>1. loop[s] \in Loops /\ "erase" \in Ops
    BY DEF TypeOK, Ops
  <2>2. QED
    BY <1>7, <2>1, AppendType DEF Close, TypeOK, Functors
<1>8. ASSUME NEW s \in Sockets, HandleClose(s) \/ Dispatch(s)
      PROVE  TypeOK'
  BY <1>7, <1>8 DEF HandleClose, Dispatch, TypeOK
<1>9. ASSUME NEW l \in Loops, Swap(l)
      PROVE  TypeOK'
  <2>1. <<>> \in Seq(Ops \X Sockets)
    OBVIOUS
  <2>2. QED
    BY <1>9, <2>1 DEF Swap, TypeOK
<1>10. ASSUME NEW l \in Loops, RunSetup(l)
       PROVE  TypeOK'
  <2>1. Head(batch[l])[2] \in Sockets /\ batch' \in [Loops -> Seq(Functors)]
    BY <1>10, TakeType DEF RunSetup
  <2>2. QED
    BY <1>10, <2>1 DEF RunSetup, TypeOK, Functors
<1>11. ASSUME NEW l \in Loops, RunErase(l)
       PROVE  TypeOK'
  <2>1. batch' \in [Loops -> Seq(Functors)]
    BY <1>11, TakeType DEF RunErase
  <2>2. QED
    BY <1>11, <2>1 DEF RunErase, TypeOK, Functors
<1>12. ASSUME NEW l \in Loops, RunReply(l) \/ RunShutdown(l)
       PROVE  TypeOK'
  <2>1. Head(batch[l])[2] \in Sockets /\ batch' \in [Loops -> Seq(Functors)]
    BY <1>12, TakeType DEF RunReply, RunShutdown
  <2>2. QED
    BY <1>12, <2>1, <1>7 DEF RunReply, RunShutdown, TypeOK, Functors
<1>13. ASSUME NEW l \in Loops, LastTurn(l) \/ TurnEnds(l) \/ Destroy(l)
       PROVE  TypeOK'
  BY <1>13 DEF LastTurn, TurnEnds, Destroy, TypeOK
<1>14. ASSUME NEW s \in Sockets, TaskEnds(s)
       PROVE  TypeOK'
  BY <1>14 DEF TaskEnds, TypeOK
<1>15. ASSUME NEW s \in Sockets, QueueReply(s)
       PROVE  TypeOK'
  <2>1. loop[s] \in Loops /\ "reply" \in Ops
    BY DEF TypeOK, Ops
  <2>2. todo' \in [Loops -> Seq(Functors)]
    <3>1. todo \in [Loops -> Seq(Functors)]
      BY DEF TypeOK, Functors
    <3>2. [todo EXCEPT ![loop[s]] = Append(@, Functor("reply", s))] \in [Loops -> Seq(Functors)]
      BY <2>1, AppendType
    <3>3. QED
      BY <1>15, <3>1, <3>2 DEF QueueReply
  <2>3. QED
    BY <1>15, <2>2 DEF QueueReply, TypeOK, Functors
<1>16. CASE Signal \/ StopServer \/ StopPool
  <2>1. CASE Signal
    BY <2>1 DEF Signal, TypeOK
  <2>2. CASE StopServer
    <3>1. toStop' \subseteq Sockets /\ main' = "stopping" /\ edge' = FALSE
      BY <2>2 DEF StopServer, TypeOK
    <3>2. QED
      BY <2>2, <3>1 DEF StopServer, TypeOK
  <2>3. CASE StopPool
    BY <2>3 DEF StopPool, TypeOK
  <2>4. QED
    BY <1>16, <2>1, <2>2, <2>3
<1>17. CASE StopWorker
  BY <1>17 DEF StopWorker, TypeOK
<1>18. ASSUME NEW s \in Sockets, ShutDownConnection(s)
       PROVE  TypeOK'
  <2>1. loop[s] \in Loops /\ "shutdown" \in Ops
    BY DEF TypeOK, Ops
  <2>2. todo \in [Loops -> Seq(Functors)]
    BY DEF TypeOK, Functors
  <2>3. [todo EXCEPT ![loop[s]] = Append(@, Functor("shutdown", s))] \in [Loops -> Seq(Functors)]
    BY <2>1, AppendType
  <2>4. CASE Close(s)
    BY <1>18, <1>7, <2>4 DEF ShutDownConnection, TypeOK
  <2>5. CASE UNCHANGED <<sock, todo>>
    BY <1>18, <2>5 DEF ShutDownConnection, TypeOK
  <2>6. CASE /\ todo' = [todo EXCEPT ![loop[s]] = Append(@, Functor("shutdown", s))]
             /\ UNCHANGED sock
    BY <1>18, <2>3, <2>6 DEF ShutDownConnection, TypeOK, Functors
  <2>7. QED
    BY <1>18, <2>4, <2>5, <2>6 DEF ShutDownConnection
<1>19. CASE Return
  BY <1>19 DEF Return, TypeOK
<1>20. CASE UNCHANGED vars
  BY <1>20 DEF vars, TypeOK
<1>21. QED
  BY <1>1, <1>2, <1>3, <1>4, <1>5, <1>6, <1>8, <1>9, <1>10, <1>11, <1>12, <1>13, <1>14,
     <1>15, <1>16, <1>17, <1>18, <1>19, <1>20
     DEF Next, Turn, Task, StopSteps

\* Connections, loops, functors and the map keep their types, on any number of
\* worker loops (TcpServer, EventLoopThreadPool).
THEOREM TypeCorrect == Spec => []TypeOK
<1>1. Init => TypeOK
  <2>1. SUFFICES ASSUME Init PROVE TypeOK
    OBVIOUS
  <2>2. <<>> \in Seq(Sockets) /\ <<>> \in Seq(Ops \X Sockets)
    OBVIOUS
  <2>3. DOMAIN connections = {}
    BY <2>1 DEF Init
  <2>4. /\ sock \in [Sockets -> {"none", "backlog", "aborted", "accepted", "open", "closed"}]
        /\ loop \in [Sockets -> Loops]
        /\ name \in [Sockets -> Nat]
        /\ at \in [Loops -> {"poll", "accept", "run", "ended", "destroyed"}]
        /\ making \in [Loops -> {Idle} \cup (Sockets \X Nat)]
    BY <2>1, LoopTypes DEF Init
  <2>5. /\ todo \in [Loops -> Seq(Ops \X Sockets)]
        /\ batch \in [Loops -> Seq(Ops \X Sockets)]
    BY <2>1, <2>2 DEF Init
  <2>6. next \in 1 .. Len(Workers)
    BY <2>1, LoopTypes DEF Init
  <2>7. QED
    BY <2>1, <2>2, <2>3, <2>4, <2>5, <2>6 DEF Init, TypeOK
<1>2. QED
  BY <1>1, TypeStep, PTL DEF Spec

------------------------------------------------------------------------------
(* The acceptor's edge.                                                       *)

\* Between two accept loops, what is in the backlog has an event, or is left behind
\* by an error.
PendInv ==
  at[Base] # "accept" /\ main = "serving" /\ backlog # <<>> => edge \/ gaveUp

LEMMA PendStep == TypeOK /\ PendInv /\ [Next]_vars => PendInv'
<1> SUFFICES ASSUME TypeOK, PendInv, [Next]_vars
             PROVE  PendInv'
  OBVIOUS
<1> USE LoopTypes DEF acceptVars, mapVars, loopVars, poolVars, mainVars, PendInv
<1>1. CASE \E s \in Sockets : Arrive(s)
  BY <1>1 DEF Arrive
<1>2. CASE Start
  BY <1>2 DEF Start
<1>3. CASE AcceptEvent
  BY <1>3 DEF AcceptEvent, TypeOK
<1>4. CASE Accept
  BY <1>4 DEF Accept
<1>5. CASE AcceptDone \/ AcceptFails
  BY <1>5 DEF AcceptDone, AcceptFails
<1>6. CASE \E s \in Sockets : HandleClose(s) \/ Dispatch(s) \/ TaskEnds(s) \/ QueueReply(s)
  BY <1>6 DEF HandleClose, Dispatch, TaskEnds, QueueReply
<1>7. CASE \E l \in Loops : Create(l) \/ RunSetup(l) \/ RunErase(l) \/ RunReply(l) \/ RunShutdown(l)
  BY <1>7 DEF Create, RunSetup, RunErase, RunReply, RunShutdown
<1>8. CASE \E l \in Loops : Swap(l) \/ LastTurn(l) \/ TurnEnds(l) \/ Destroy(l)
  BY <1>8 DEF Swap, LastTurn, TurnEnds, Destroy, TypeOK
<1>9. CASE Signal \/ StopServer \/ StopWorker \/ StopPool \/ Return
  BY <1>9 DEF Signal, StopServer, StopWorker, StopPool, Return
<1>10. CASE \E s \in Sockets : ShutDownConnection(s)
  BY <1>10 DEF ShutDownConnection
<1>11. CASE UNCHANGED vars
  BY <1>11 DEF vars
<1>12. QED
  BY <1>1, <1>2, <1>3, <1>4, <1>5, <1>6, <1>7, <1>8, <1>9, <1>10, <1>11
     DEF Next, Turn, Task, StopSteps

\* No connection waits in the backlog without an event to come, unless the last accept
\* loop ended at an error (the acceptor's callback of TcpServer::start, edge-triggered).
THEOREM BacklogIsSeen == Spec => []NothingPendsUnseen
<1>1. Init => PendInv
  BY DEF Init, PendInv
<1>2. TypeOK /\ PendInv => NothingPendsUnseen
  BY DEF PendInv, NothingPendsUnseen
<1>3. QED
  BY <1>1, <1>2, PendStep, TypeCorrect, PTL DEF Spec

------------------------------------------------------------------------------
(* The order in which main() takes its objects down.                          *)

\* Base goes when main() returns, and in single mode every connection is on it.
LateInv ==
  /\ at[Base] = "destroyed" <=> main = "returned"
  /\ ~multi => \A s \in Sockets : loop[s] = Base

LEMMA LateStep == TypeOK /\ LateInv /\ [Next]_vars => LateInv'
<1> SUFFICES ASSUME TypeOK, LateInv, [Next]_vars
             PROVE  LateInv'
  OBVIOUS
<1> USE LoopTypes DEF acceptVars, mapVars, loopVars, poolVars, mainVars, LateInv
<1>1. CASE \E s \in Sockets : Arrive(s)
  BY <1>1 DEF Arrive
<1>2. CASE Start
  BY <1>2 DEF Start
<1>3. CASE AcceptEvent \/ AcceptDone \/ AcceptFails
  BY <1>3 DEF AcceptEvent, AcceptDone, AcceptFails, TypeOK
<1>4. CASE Accept
  BY <1>4 DEF Accept, Place, NextLoop, TypeOK
<1>5. CASE \E s \in Sockets : HandleClose(s)
  BY <1>5 DEF HandleClose
<1>6. CASE \E s \in Sockets : Dispatch(s)
  BY <1>6 DEF Dispatch
<1>7. CASE \E s \in Sockets : TaskEnds(s)
  BY <1>7 DEF TaskEnds
<1>8. CASE \E s \in Sockets : QueueReply(s)
  BY <1>8 DEF QueueReply
<1>9. CASE \E l \in Loops : Create(l) \/ RunSetup(l) \/ RunErase(l) \/ RunReply(l) \/ RunShutdown(l)
  BY <1>9 DEF Create, RunSetup, RunErase, RunReply, RunShutdown
<1>10. CASE \E l \in Loops : Swap(l) \/ LastTurn(l) \/ TurnEnds(l) \/ Destroy(l)
  <2>1. PICK l \in Loops : Swap(l) \/ LastTurn(l) \/ TurnEnds(l) \/ Destroy(l)
    BY <1>10
  <2>2. at'[Base] = "destroyed" <=> at[Base] = "destroyed"
    BY <2>1 DEF Swap, LastTurn, TurnEnds, Destroy, TypeOK
  <2>3. UNCHANGED <<main, multi, loop, strayed, pooled, replying>>
    BY <2>1 DEF Swap, LastTurn, TurnEnds, Destroy
  <2>4. QED
    BY <2>2, <2>3
<1>11. CASE Signal \/ StopServer \/ StopWorker \/ StopPool
  BY <1>11 DEF Signal, StopServer, StopWorker, StopPool
<1>12. CASE Return
  BY <1>12 DEF Return, TypeOK
<1>13. CASE \E s \in Sockets : ShutDownConnection(s)
  BY <1>13 DEF ShutDownConnection
<1>14. CASE UNCHANGED vars
  BY <1>14 DEF vars
<1>15. QED
  BY <1>1, <1>2, <1>3, <1>4, <1>5, <1>6, <1>7, <1>8, <1>9, <1>10, <1>11, <1>12, <1>13, <1>14
     DEF Next, Turn, Task, StopSteps

------------------------------------------------------------------------------
(* Who holds a connection.                                                    *)

Setup(s) == Functor("setup", s)
Erase(s) == Functor("erase", s)
Making(l, s) == making[l] # Idle /\ making[l][1] = s
Named(s) == sock[s] \in {"open", "closed"}

\* The kernel has a connection once, and until it is accepted.
BacklogInv ==
  \A s \in Sockets : Once(backlog, s) /\ (In(backlog, s) => sock[s] = "backlog")

\* An accepted connection is set up at most once, on the loop it was given.
TicketInv ==
  \A l \in Loops, s \in Sockets :
    /\ In(todo[l], Setup(s)) \/ In(batch[l], Setup(s)) \/ Making(l, s)
         => sock[s] = "accepted" /\ loop[s] = l
    /\ Once(todo[l], Setup(s)) /\ Once(batch[l], Setup(s))
    /\ In(batch[l], Setup(s)) => ~In(todo[l], Setup(s))
    /\ Making(l, s) => ~In(todo[l], Setup(s)) /\ ~In(batch[l], Setup(s))

\* Only what is closed is erased.
EraseInv ==
  \A l \in Loops, s \in Sockets :
    In(todo[l], Erase(s)) \/ In(batch[l], Erase(s)) => sock[s] = "closed"

\* In single mode no name is given twice.
NamesInv ==
  ~multi =>
    /\ making[Base] # Idle => making[Base][2] = nextConnId
    /\ \A s \in Sockets : Named(s) => name[s] < nextConnId
    /\ \A s, t \in Sockets : Named(s) /\ Named(t) /\ name[s] = name[t] => s = t

\* What is not in the map shares its name.
HeldInv ==
  main # "returned" => \A s \in Sockets : sock[s] = "open" => InMap(s) \/ Twin(s)

HolderInv == BacklogInv /\ TicketInv /\ EraseInv /\ NamesInv /\ HeldInv

\* A queue that becomes r has no new setups, and erases of closed connections only.
Kept(q, r, s) ==
  /\ In(r, Setup(s)) => In(q, Setup(s))
  /\ Once(q, Setup(s)) => Once(r, Setup(s))
  /\ In(r, Erase(s)) => In(q, Erase(s)) \/ sock'[s] = "closed"

\* A step that accepts, sets up and names nothing.
Quiet ==
  /\ UNCHANGED <<backlog, making, loop, name, nextConnId, multi>>
  /\ \A s \in Sockets : sock'[s] = sock[s] \/ (sock[s] = "open" /\ sock'[s] = "closed")
  /\ \A l \in Loops, s \in Sockets : Kept(todo[l], todo'[l], s) /\ Kept(batch[l], batch'[l], s)
  /\ main = "returned" => main' = "returned"

LEMMA AppendKeeps ==
  ASSUME TypeOK, NEW k \in Loops, NEW op \in Ops, op # "setup", NEW t \in Sockets,
         todo' = [todo EXCEPT ![k] = Append(@, Functor(op, t))],
         op = "erase" => sock'[t] = "closed",
         NEW l \in Loops, NEW s \in Sockets
  PROVE  Kept(todo[l], todo'[l], s)
<1>1. todo[k] \in Seq(Functors) /\ Functor(op, t) \in Functors
  BY AppendType DEF TypeOK, Functors
<1>2. Functor(op, t) # Setup(s) /\ (Functor(op, t) = Erase(s) => op = "erase" /\ t = s)
  BY DEF Functor, Setup, Erase
<1>3. CASE l = k
  <2>1. todo'[l] = Append(todo[k], Functor(op, t))
    BY <1>3 DEF TypeOK
  <2>2. ASSUME NEW f
        PROVE  /\ In(todo'[l], f) <=> In(todo[k], f) \/ Functor(op, t) = f
               /\ Once(todo[k], f) /\ (Functor(op, t) = f => ~In(todo[k], f)) => Once(todo'[l], f)
    <3>1. ASSUME NEW q \in Seq(Functors), NEW x \in Functors
          PROVE  /\ In(Append(q, x), f) <=> In(q, f) \/ x = f
                 /\ Once(q, f) /\ (x = f => ~In(q, f)) => Once(Append(q, x), f)
      BY InAppend
    <3>2. QED
      BY <1>1, <2>1, <3>1
  <2>3. QED
    BY <1>2, <1>3, <2>2 DEF Kept
<1>4. CASE l # k
  BY <1>4 DEF Kept, TypeOK
<1>5. QED
  BY <1>3, <1>4

LEMMA TakeKeeps ==
  ASSUME TypeOK, NEW k \in Loops, NEW op, TakeFunctor(k, op),
         NEW l \in Loops, NEW s \in Sockets
  PROVE  Kept(batch[l], batch'[l], s)
<1>1. /\ batch[k] \in Seq(Functors) /\ batch[k] # <<>>
      /\ batch' = [batch EXCEPT ![k] = Tail(batch[k])]
  BY TakeType
<1>2. CASE l = k
  <2>1. batch'[l] = Tail(batch[k])
    BY <1>1, <1>2 DEF TypeOK
  <2>2. /\ In(batch'[l], Setup(s)) => In(batch[k], Setup(s))
        /\ Once(batch[k], Setup(s)) => Once(batch'[l], Setup(s))
        /\ In(batch'[l], Erase(s)) => In(batch[k], Erase(s))
    BY <1>1, <2>1, InTail
  <2>3. QED
    BY <1>2, <2>2 DEF Kept
<1>3. CASE l # k
  BY <1>1, <1>3 DEF Kept, TypeOK
<1>4. QED
  BY <1>2, <1>3

LEMMA CloseKeeps ==
  ASSUME TypeOK, NEW t \in Sockets, sock[t] = "open", Close(t)
  PROVE  /\ \A s \in Sockets : sock'[s] = sock[s] \/ (sock[s] = "open" /\ sock'[s] = "closed")
         /\ \A l \in Loops, s \in Sockets : Kept(todo[l], todo'[l], s)
<1>1. \A s \in Sockets : sock'[s] = sock[s] \/ (sock[s] = "open" /\ sock'[s] = "closed")
  BY DEF Close, TypeOK
<1>2. ASSUME NEW l \in Loops, NEW s \in Sockets
      PROVE  Kept(todo[l], todo'[l], s)
  <2>1. sock'[t] = "closed"
    BY DEF Close, TypeOK
  <2>2. loop[t] \in Loops /\ "erase" \in Ops
    BY DEF TypeOK, Ops
  <2>3. QED
    BY <2>1, <2>2, AppendKeeps DEF Close
<1>3. QED
  BY <1>1, <1>2

\* The steps of the clients and of the acceptor that are not of one connection.
LEMMA QuietEvents ==
  ASSUME TypeOK,
         \/ Start \/ AcceptEvent \/ AcceptDone \/ Signal \/ StopServer \/ StopWorker \/ StopPool
         \/ Return \/ UNCHANGED vars
         \/ \E l \in Loops : LastTurn(l) \/ TurnEnds(l) \/ Destroy(l)
         \/ \E s \in Sockets : Dispatch(s) \/ TaskEnds(s)
  PROVE  Quiet
<1>1. /\ UNCHANGED <<backlog, making, loop, name, nextConnId, multi, sock, todo, batch>>
      /\ main = "returned" => main' = "returned"
  BY DEF Start, AcceptEvent, AcceptDone, Signal, StopServer, StopWorker, StopPool, Return, vars,
         LastTurn, TurnEnds, Destroy, Dispatch, TaskEnds,
         acceptVars, mapVars, loopVars, poolVars, mainVars
<1>2. QED
  BY <1>1 DEF Quiet, Kept

LEMMA QuietQueue ==
  ASSUME TypeOK, NEW t \in Sockets, HandleClose(t) \/ QueueReply(t) \/ ShutDownConnection(t)
  PROVE  Quiet
<1> USE DEF acceptVars, mapVars, loopVars, poolVars, mainVars
<1>1. /\ UNCHANGED <<backlog, making, loop, name, nextConnId, multi, batch>>
      /\ main = "returned" => main' = "returned"
  BY DEF HandleClose, QueueReply, ShutDownConnection
<1>2. \/ sock[t] = "open" /\ Close(t)
      \/ UNCHANGED <<sock, todo>>
      \/ /\ UNCHANGED sock
         /\ \E op \in {"reply", "shutdown"} :
              todo' = [todo EXCEPT ![loop[t]] = Append(@, Functor(op, t))]
  BY DEF HandleClose, QueueReply, ShutDownConnection
<1>3. CASE sock[t] = "open" /\ Close(t)
  BY <1>1, <1>3, CloseKeeps DEF Quiet, Kept
<1>4. CASE UNCHANGED <<sock, todo>>
  BY <1>1, <1>4 DEF Quiet, Kept
<1>5. CASE /\ UNCHANGED sock
           /\ \E op \in {"reply", "shutdown"} :
                todo' = [todo EXCEPT ![loop[t]] = Append(@, Functor(op, t))]
  <2>1. PICK op \in {"reply", "shutdown"} :
               todo' = [todo EXCEPT ![loop[t]] = Append(@, Functor(op, t))]
    BY <1>5
  <2>2. loop[t] \in Loops /\ op \in Ops /\ op # "setup" /\ op # "erase"
    BY DEF TypeOK, Ops
  <2>3. \A l \in Loops, s \in Sockets : Kept(todo[l], todo'[l], s)
    BY <2>1, <2>2, AppendKeeps
  <2>4. QED
    BY <1>1, <1>5, <2>3 DEF Quiet, Kept
<1>6. QED
  BY <1>2, <1>3, <1>4, <1>5

LEMMA QuietFunctors ==
  ASSUME TypeOK, NEW k \in Loops, RunErase(k) \/ RunReply(k) \/ RunShutdown(k)
  PROVE  Quiet
<1> USE DEF acceptVars, mapVars, loopVars, poolVars, mainVars
<1> DEFINE t == Head(batch[k])[2]
<1>1. /\ UNCHANGED <<backlog, making, loop, name, nextConnId, multi>>
      /\ main = "returned" => main' = "returned"
  BY DEF RunErase, RunReply, RunShutdown
<1>2. PICK op : TakeFunctor(k, op)
  BY DEF RunErase, RunReply, RunShutdown
<1>3. \A l \in Loops, s \in Sockets : Kept(batch[l], batch'[l], s)
  BY <1>2, TakeKeeps
<1>4. t \in Sockets
  BY <1>2, TakeType
<1>5. UNCHANGED <<sock, todo>> \/ (sock[t] = "open" /\ Close(t))
  BY DEF RunErase, RunReply, RunShutdown
<1>6. CASE UNCHANGED <<sock, todo>>
  BY <1>1, <1>3, <1>6 DEF Quiet, Kept
<1>7. CASE sock[t] = "open" /\ Close(t)
  <2>1. /\ \A s \in Sockets : sock'[s] = sock[s] \/ (sock[s] = "open" /\ sock'[s] = "closed")
        /\ \A l \in Loops, s \in Sockets : Kept(todo[l], todo'[l], s)
    BY <1>4, <1>7, CloseKeeps
  <2>2. QED
    BY <1>1, <1>3, <2>1 DEF Quiet
<1>8. QED
  BY <1>5, <1>6, <1>7

\* In a quiet step the map stays, or main() returns, or one functor erases.
LEMMA QuietHolds ==
  ASSUME TypeOK, HolderInv, Quiet,
         UNCHANGED connections \/ main' = "returned" \/ \E l \in Loops : RunErase(l)
  PROVE  HolderInv'
<1> USE DEF HolderInv
<1>1. BacklogInv'
  BY DEF Quiet, BacklogInv
<1>2. TicketInv'
  BY DEF Quiet, TicketInv, Making, Kept
<1>3. EraseInv'
  BY DEF Quiet, EraseInv, Kept
<1>4. \A s \in Sockets : /\ Named(s)' <=> Named(s)
                         /\ name'[s] = name[s]
                         /\ sock'[s] = "open" => sock[s] = "open"
  BY DEF Quiet, Named
<1>5. NamesInv'
  BY <1>4 DEF Quiet, NamesInv
<1>6. ASSUME main' # "returned", NEW t \in Sockets, sock'[t] = "open"
      PROVE  InMap(t)' \/ Twin(t)'
  <2>1. InMap(t) \/ Twin(t)
    BY <1>4, <1>6 DEF HeldInv, Quiet
  <2>2. CASE Twin(t)
    BY <1>4, <2>2 DEF Twin, Named
  <2>3. CASE InMap(t) /\ UNCHANGED connections
    BY <1>4, <2>3 DEF InMap
  <2>4. CASE InMap(t) /\ \E l \in Loops : RunErase(l)
    <3>1. PICK l \in Loops : RunErase(l)
      BY <2>4
    <3>2. TakeFunctor(l, "erase")
      BY <3>1 DEF RunErase
    <3>3. PICK s \in Sockets : s = Head(batch[l])[2] /\ Head(batch[l]) = Erase(s)
      BY <3>2, TakeType DEF Erase
    <3>4. In(batch[l], Erase(s))
      BY <3>2, <3>3, TakeType, InTail
    <3>5. sock[s] = "closed"
      BY <3>4 DEF EraseInv
    <3>6. connections' = [k \in DOMAIN connections \ {name[s]} |-> connections[k]]
      BY <3>1, <3>3 DEF RunErase
    <3>7. CASE name[t] = name[s]
      <4>1. s # t /\ Named(s)'
        BY <1>4, <1>6, <3>5 DEF Named
      <4>2. QED
        BY <1>4, <3>7, <4>1 DEF Twin, Named
    <3>8. CASE name[t] # name[s]
      BY <1>4, <2>4, <3>6, <3>8 DEF InMap
    <3>9. QED
      BY <3>7, <3>8
  <2>5. QED
    BY <1>6, <2>1, <2>2, <2>3, <2>4
<1>7. HeldInv'
  BY <1>6 DEF HeldInv
<1>8. QED
  BY <1>1, <1>2, <1>3, <1>5, <1>7

\* What was never set up has neither ticket nor name.
LEMMA NoTicket ==
  ASSUME HolderInv, NEW s \in Sockets, sock[s] \notin {"accepted", "open", "closed"}
  PROVE  /\ \A l \in Loops : /\ ~In(todo[l], Setup(s)) /\ ~In(batch[l], Setup(s)) /\ ~Making(l, s)
                             /\ ~In(todo[l], Erase(s)) /\ ~In(batch[l], Erase(s))
         /\ ~Named(s)
  BY DEF HolderInv, TicketInv, EraseInv, Named

\* A connection without a name may go from the backlog, or into it.
LEMMA UnnamedHolds ==
  ASSUME TypeOK, HolderInv, BacklogInv',
         NEW s \in Sockets, sock[s] \notin {"accepted", "open", "closed"},
         NEW c \in {"backlog", "aborted"}, sock' = [sock EXCEPT ![s] = c],
         UNCHANGED <<todo, batch, making, loop, mapVars, multi, main>>
  PROVE  HolderInv'
<1> USE DEF mapVars
<1>1. \A t \in Sockets : t # s => sock'[t] = sock[t]
  BY DEF TypeOK
<1>2. TicketInv'
  BY <1>1, NoTicket DEF HolderInv, TicketInv, Making
<1>3. EraseInv'
  BY <1>1, NoTicket DEF HolderInv, EraseInv
<1>4. \A t \in Sockets : (Named(t)' <=> Named(t)) /\ (sock'[t] = "open" => sock[t] = "open")
  BY <1>1, NoTicket DEF Named, TypeOK
<1>5. NamesInv'
  BY <1>4 DEF HolderInv, NamesInv
<1>6. HeldInv'
  BY <1>4 DEF HolderInv, HeldInv, InMap, Twin, Named
<1>7. QED
  BY <1>2, <1>3, <1>5, <1>6 DEF HolderInv

LEMMA ArriveHolds ==
  ASSUME TypeOK, HolderInv, NEW s \in Sockets, Arrive(s)
  PROVE  HolderInv'
<1> USE DEF Arrive, acceptVars, mapVars, loopVars, poolVars, mainVars
<1>1. backlog \in Seq(Sockets) /\ ~In(backlog, s)
  BY DEF HolderInv, BacklogInv, TypeOK
<1>2. ASSUME NEW f
      PROVE  /\ In(backlog', f) <=> In(backlog, f) \/ s = f
             /\ Once(backlog, f) /\ (s = f => ~In(backlog, f)) => Once(backlog', f)
  <2>1. ASSUME NEW q \in Seq(Sockets)
        PROVE  /\ In(Append(q, s), f) <=> In(q, f) \/ s = f
               /\ Once(q, f) /\ (s = f => ~In(q, f)) => Once(Append(q, s), f)
    BY InAppend
  <2>2. QED
    BY <1>1, <2>1
<1>3. BacklogInv'
  BY <1>1, <1>2 DEF HolderInv, BacklogInv, TypeOK
<1>4. QED
  BY <1>3, UnnamedHolds

LEMMA BacklogHead ==
  ASSUME TypeOK, HolderInv, backlog # <<>>, backlog' = Tail(backlog)
  PROVE  /\ Head(backlog) \in Sockets /\ sock[Head(backlog)] = "backlog"
         /\ \A s \in Sockets : /\ Once(backlog', s)
                               /\ In(backlog', s) => sock[s] = "backlog" /\ s # Head(backlog)
<1>1. backlog \in Seq(Sockets)
  BY DEF TypeOK
<1>2. Head(backlog) \in Sockets /\ In(backlog, Head(backlog))
  BY <1>1, InTail
<1>3. ~In(backlog', Head(backlog))
  BY <1>1, <1>2, InTail DEF HolderInv, BacklogInv
<1>4. ASSUME NEW s \in Sockets
      PROVE  Once(backlog', s) /\ (In(backlog', s) => sock[s] = "backlog" /\ s # Head(backlog))
  <2>1. (In(backlog', s) => In(backlog, s)) /\ (Once(backlog, s) => Once(backlog', s))
    BY <1>1, InTail
  <2>2. QED
    BY <1>3, <2>1 DEF HolderInv, BacklogInv
<1>5. QED
  BY <1>2, <1>4 DEF HolderInv, BacklogInv

LEMMA AcceptFailsHolds ==
  ASSUME TypeOK, HolderInv, AcceptFails
  PROVE  HolderInv'
<1> USE DEF acceptVars, mapVars, loopVars, poolVars, mainVars
<1>1. CASE UNCHANGED <<backlog, sock>>
  <2>1. Quiet /\ UNCHANGED connections
    BY <1>1 DEF AcceptFails, Quiet, Kept
  <2>2. QED
    BY <2>1, QuietHolds
<1>2. CASE backlog' = Tail(backlog) /\ sock' = [sock EXCEPT ![Head(backlog)] = "aborted"]
  <2>1. backlog # <<>>
    BY DEF AcceptFails
  <2>2. BacklogInv'
    BY <1>2, <2>1, BacklogHead DEF BacklogInv, TypeOK
  <2>3. Head(backlog) \in Sockets /\ sock[Head(backlog)] = "backlog"
    BY <1>2, <2>1, BacklogHead
  <2>4. UNCHANGED <<todo, batch, making, loop, mapVars, multi, main>>
    BY DEF AcceptFails
  <2>5. QED
    BY <1>2, <2>2, <2>3, <2>4, UnnamedHolds
<1>3. QED
  BY <1>1, <1>2 DEF AcceptFails

LEMMA AcceptHolds ==
  ASSUME TypeOK, LateInv, HolderInv, Accept
  PROVE  HolderInv'
<1> USE LoopTypes DEF acceptVars, mapVars, loopVars, poolVars, mainVars
<1> DEFINE s == Head(backlog)
<1>1. /\ s \in Sockets /\ sock[s] = "backlog"
      /\ \A t \in Sockets : /\ Once(backlog', t)
                            /\ In(backlog', t) => sock[t] = "backlog" /\ t # s
  BY BacklogHead DEF Accept
<1>2. /\ sock' = [sock EXCEPT ![s] = "accepted"]
      /\ loop' = [loop EXCEPT ![s] = NextLoop]
      /\ UNCHANGED <<batch, name, nextConnId, connections, multi, main>>
      /\ making[Base] = Idle
      /\ IF multi
         THEN /\ todo' = [todo EXCEPT ![NextLoop] = Append(@, Setup(s))]
              /\ UNCHANGED making
         ELSE /\ making' = [making EXCEPT ![Base] = <<s, nextConnId>>]
              /\ UNCHANGED todo
  BY DEF Accept, Place, Setup
<1>3. NextLoop \in Loops
  BY DEF NextLoop, TypeOK
<1>4. /\ sock'[s] = "accepted" /\ loop'[s] = NextLoop
      /\ \A t \in Sockets : t # s => sock'[t] = sock[t] /\ loop'[t] = loop[t]
  BY <1>1, <1>2, <1>3 DEF TypeOK
<1>5. /\ \A l \in Loops : /\ ~In(todo[l], Setup(s)) /\ ~In(batch[l], Setup(s)) /\ ~Making(l, s)
                          /\ ~In(todo[l], Erase(s)) /\ ~In(batch[l], Erase(s))
      /\ ~Named(s)
  BY <1>1, NoTicket
<1> HIDE DEF s
<1>6. BacklogInv'
  BY <1>1, <1>4 DEF BacklogInv
<1>7. \A t \in Sockets : (Named(t)' <=> Named(t)) /\ (sock'[t] = "open" => sock[t] = "open")
  BY <1>4, <1>5 DEF Named
<1>8. NamesInv'
  <2>1. CASE multi
    BY <1>2, <2>1 DEF NamesInv
  <2>2. CASE ~multi
    <3>1. making'[Base] = <<s, nextConnId>>
      BY <1>2, <2>2 DEF TypeOK
    <3>2. making'[Base][2] = nextConnId'
      BY <1>2, <3>1
    <3>3. QED
      BY <1>2, <1>7, <2>2, <3>2 DEF HolderInv, NamesInv
  <2>3. QED
    BY <2>1, <2>2
<1>9. HeldInv'
  BY <1>2, <1>7 DEF HolderInv, HeldInv, InMap, Twin, Named
<1>10. CASE multi
  <2>1. ASSUME NEW f
        PROVE  /\ In(todo'[NextLoop], f) <=> In(todo[NextLoop], f) \/ Setup(s) = f
               /\ Once(todo[NextLoop], f) /\ (Setup(s) = f => ~In(todo[NextLoop], f))
                    => Once(todo'[NextLoop], f)
    <3>1. ASSUME NEW q \in Seq(Functors), NEW x \in Functors
          PROVE  /\ In(Append(q, x), f) <=> In(q, f) \/ x = f
                 /\ Once(q, f) /\ (x = f => ~In(q, f)) => Once(Append(q, x), f)
      BY InAppend
    <3>2. todo[NextLoop] \in Seq(Functors) /\ Setup(s) \in Functors
      BY <1>1, <1>3, AppendType DEF TypeOK, Functors, Setup, Ops
    <3>3. todo'[NextLoop] = Append(todo[NextLoop], Setup(s))
      BY <1>2, <1>3, <1>10 DEF TypeOK
    <3>4. QED
      BY <3>1, <3>2, <3>3
  <2>2. \A l \in Loops : l # NextLoop => todo'[l] = todo[l]
    BY <1>2, <1>3, <1>10 DEF TypeOK
  <2>3. /\ UNCHANGED <<making, batch>>
        /\ \A t \in Sockets : /\ Setup(s) # Erase(t)
                              /\ Setup(s) = Setup(t) => s = t
    BY <1>2, <1>10 DEF Setup, Erase, Functor
  <2>4. TicketInv'
    <3>1. SUFFICES ASSUME NEW l \in Loops, NEW t \in Sockets
                   PROVE  /\ In(todo'[l], Setup(t)) \/ In(batch'[l], Setup(t)) \/ Making(l, t)'
                               => sock'[t] = "accepted" /\ loop'[t] = l
                          /\ Once(todo'[l], Setup(t)) /\ Once(batch'[l], Setup(t))
                          /\ In(batch'[l], Setup(t)) => ~In(todo'[l], Setup(t))
                          /\ Making(l, t)' => ~In(todo'[l], Setup(t)) /\ ~In(batch'[l], Setup(t))
      BY DEF TicketInv
    <3>2. CASE t = s
      BY <1>3, <1>4, <1>5, <2>1, <2>2, <2>3, <3>2 DEF HolderInv, TicketInv, Making
    <3>3. CASE t # s
      BY <1>3, <1>4, <2>1, <2>2, <2>3, <3>3 DEF HolderInv, TicketInv, Making
    <3>4. QED
      BY <3>2, <3>3
  <2>5. EraseInv'
    BY <1>3, <1>4, <1>5, <2>1, <2>2, <2>3 DEF HolderInv, EraseInv
  <2>6. QED
    BY <1>6, <1>8, <1>9, <2>4, <2>5 DEF HolderInv
<1>11. CASE ~multi
  <2>1. /\ UNCHANGED <<todo, batch>> /\ NextLoop = Base
        /\ making'[Base] = <<s, nextConnId>>
        /\ \A l \in Loops : l # Base => making'[l] = making[l]
    BY <1>2, <1>11 DEF TypeOK, NextLoop
  <2>2. \A l \in Loops, t \in Sockets : Making(l, t)' => Making(l, t) \/ (l = Base /\ t = s)
    BY <2>1 DEF Making
  <2>3. TicketInv'
    BY <1>4, <1>5, <2>1, <2>2 DEF HolderInv, TicketInv
  <2>4. EraseInv'
    BY <1>4, <1>5, <2>1 DEF HolderInv, EraseInv
  <2>5. QED
    BY <1>6, <1>8, <1>9, <2>3, <2>4 DEF HolderInv
<1>12. QED
  BY <1>10, <1>11 DEF TypeOK

LEMMA SwapHolds ==
  ASSUME TypeOK, HolderInv, NEW k \in Loops, Swap(k)
  PROVE  HolderInv'
<1> USE DEF Swap, acceptVars, mapVars, loopVars, poolVars, mainVars
<1>1. \A l \in Loops : \/ batch'[l] = todo[l] /\ todo'[l] = <<>>
                       \/ batch'[l] = batch[l] /\ todo'[l] = todo[l]
  BY DEF TypeOK
<1>2. UNCHANGED <<backlog, sock, making, loop, name, nextConnId, connections, multi, main>>
  OBVIOUS
<1>3. TicketInv'
  BY <1>1, <1>2, InEmpty DEF HolderInv, TicketInv, Making
<1>4. EraseInv'
  BY <1>1, <1>2, InEmpty DEF HolderInv, EraseInv
<1>5. BacklogInv' /\ NamesInv' /\ HeldInv'
  BY <1>2 DEF HolderInv, BacklogInv, NamesInv, HeldInv, Named, InMap, Twin
<1>6. QED
  BY <1>3, <1>4, <1>5 DEF HolderInv

LEMMA RunSetupHolds ==
  ASSUME TypeOK, HolderInv, NEW k \in Loops, RunSetup(k)
  PROVE  HolderInv'
<1> USE DEF RunSetup, acceptVars, mapVars, loopVars, poolVars, mainVars
<1> DEFINE s == Head(batch[k])[2]
<1>1. /\ s \in Sockets /\ Head(batch[k]) = Setup(s)
      /\ batch[k] \in Seq(Functors) /\ batch[k] # <<>>
      /\ batch' = [batch EXCEPT ![k] = Tail(batch[k])]
  BY TakeType DEF Setup
<1>2. /\ making' = [making EXCEPT ![k] = <<s, nextConnId>>]
      /\ UNCHANGED <<backlog, sock, todo, loop, name, nextConnId, connections, multi, main>>
  OBVIOUS
<1> HIDE DEF s, RunSetup
<1>3. In(batch[k], Setup(s)) /\ batch'[k] = Tail(batch[k])
  BY <1>1, InTail DEF TypeOK
<1>4. /\ sock[s] = "accepted" /\ loop[s] = k
      /\ ~In(todo[k], Setup(s)) /\ Once(batch[k], Setup(s))
  BY <1>1, <1>3 DEF HolderInv, TicketInv
<1>5. ~In(batch'[k], Setup(s))
  BY <1>1, <1>3, <1>4, InTail
<1>6. ASSUME NEW f
      PROVE  /\ In(batch'[k], f) => In(batch[k], f)
             /\ Once(batch[k], f) => Once(batch'[k], f)
  BY <1>1, <1>3, InTail
<1>7. \A l \in Loops : l # k => batch'[l] = batch[l] /\ making'[l] = making[l]
  BY <1>1, <1>2 DEF TypeOK
<1>8. making'[k] = <<s, nextConnId>>
  BY <1>2 DEF TypeOK
<1>9. \A l \in Loops, t \in Sockets :
        Making(l, t)' => (l # k /\ Making(l, t)) \/ (l = k /\ t = s)
  BY <1>7, <1>8 DEF Making
<1>10. TicketInv'
  BY <1>2, <1>4, <1>5, <1>6, <1>7, <1>9 DEF HolderInv, TicketInv
<1>11. EraseInv'
  BY <1>2, <1>6, <1>7 DEF HolderInv, EraseInv
<1>12. NamesInv'
  <2>1. ~multi /\ making'[Base] # Idle => making'[Base][2] = nextConnId
    BY <1>7, <1>8, LoopTypes DEF HolderInv, NamesInv
  <2>2. QED
    BY <1>2, <2>1 DEF HolderInv, NamesInv, Named
<1>13. BacklogInv' /\ HeldInv'
  BY <1>2 DEF HolderInv, BacklogInv, HeldInv, InMap, Twin
<1>14. QED
  BY <1>10, <1>11, <1>12, <1>13 DEF HolderInv

LEMMA CreateHolds ==
  ASSUME TypeOK, LateInv, HolderInv, NEW k \in Loops, Create(k)
  PROVE  HolderInv'
<1> USE DEF acceptVars, mapVars, loopVars, poolVars, mainVars
<1>1. making[k] # Idle /\ making[k] \in Sockets \X Nat
  BY DEF Create, TypeOK
<1>2. PICK s \in Sockets, id \in Nat : s = making[k][1] /\ id = making[k][2]
  BY <1>1
<1>3. /\ nextConnId' = id + 1
      /\ name' = [name EXCEPT ![s] = id]
      /\ connections' = [n \in DOMAIN connections \cup {id} |->
                           IF n = id THEN s ELSE connections[n]]
      /\ sock' = [sock EXCEPT ![s] = "open"]
      /\ making' = [making EXCEPT ![k] = Idle]
      /\ UNCHANGED <<backlog, todo, batch, loop, multi, main>>
      /\ Making(k, s)
  BY <1>1, <1>2 DEF Create, Making
<1>4. /\ sock[s] = "accepted" /\ loop[s] = k
      /\ ~In(todo[k], Setup(s)) /\ ~In(batch[k], Setup(s))
  BY <1>3 DEF HolderInv, TicketInv
<1>5. ~multi => id = nextConnId /\ k = Base
  BY <1>1, <1>2, <1>4 DEF LateInv, HolderInv, NamesInv
<1>6. /\ sock'[s] = "open" /\ name'[s] = id
      /\ \A t \in Sockets : t # s => sock'[t] = sock[t] /\ name'[t] = name[t]
      /\ \A l \in Loops : l # k => making'[l] = making[l]
      /\ making'[k] = Idle
  BY <1>2, <1>3 DEF TypeOK
<1>7. \A l \in Loops : ~In(todo[l], Setup(s)) /\ ~In(batch[l], Setup(s)) /\ ~Making(l, s)'
  <2>1. SUFFICES ASSUME NEW l \in Loops
                 PROVE  ~In(todo[l], Setup(s)) /\ ~In(batch[l], Setup(s)) /\ ~Making(l, s)'
    OBVIOUS
  <2>2. CASE l = k
    <3>1. ~Making(l, s)'
      BY <1>6, <2>2 DEF Making
    <3>2. QED
      BY <1>4, <2>2, <3>1
  <2>3. CASE l # k
    <3>1. ~In(todo[l], Setup(s)) /\ ~In(batch[l], Setup(s)) /\ ~Making(l, s)
      BY <1>2, <1>4, <2>3 DEF HolderInv, TicketInv
    <3>2. making'[l] = making[l]
      BY <1>6, <2>3
    <3>3. QED
      BY <3>1, <3>2 DEF Making
  <2>4. QED
    BY <2>2, <2>3
<1>8. BacklogInv'
  BY <1>3, <1>4, <1>6 DEF HolderInv, BacklogInv
<1>9. TicketInv'
  <2>1. \A l \in Loops, t \in Sockets : Making(l, t)' => Making(l, t) /\ t # s
    <3>1. SUFFICES ASSUME NEW l \in Loops, NEW t \in Sockets, Making(l, t)'
                   PROVE  Making(l, t) /\ t # s
      OBVIOUS
    <3>2. t # s
      BY <1>7, <3>1
    <3>3. l # k
      BY <1>6, <3>1 DEF Making
    <3>4. QED
      BY <1>6, <3>1, <3>2, <3>3 DEF Making
  <2>2. QED
    BY <1>3, <1>6, <1>7, <2>1 DEF HolderInv, TicketInv
<1>10. EraseInv'
  <2>1. SUFFICES ASSUME NEW l \in Loops, NEW t \in Sockets,
                        In(todo[l], Erase(t)) \/ In(batch[l], Erase(t))
                 PROVE  sock'[t] = "closed"
    BY <1>3 DEF EraseInv
  <2>2. sock[t] = "closed"
    BY <2>1 DEF HolderInv, EraseInv
  <2>3. QED
    BY <1>4, <1>6, <2>2
<1>11. NamesInv'
  <2>1. SUFFICES ASSUME ~multi
                 PROVE  /\ making'[Base] # Idle => making'[Base][2] = nextConnId'
                        /\ \A t \in Sockets : Named(t)' => name'[t] < nextConnId'
                        /\ \A t, u \in Sockets :
                             Named(t)' /\ Named(u)' /\ name'[t] = name'[u] => t = u
    <3>1. UNCHANGED multi
      BY <1>3
    <3>2. QED
      BY <3>1 DEF NamesInv
  <2>2. k = Base
    BY <1>5, <2>1
  <2>3. \A t \in Sockets : t # s => /\ Named(t)' <=> Named(t)
                                    /\ Named(t) => name'[t] < id
    BY <1>5, <1>6, <2>1 DEF HolderInv, NamesInv, Named
  <2>4. \A t \in Sockets : name'[t] \in Nat
    <3>1. \A t \in Sockets : name[t] \in Nat
      BY DEF TypeOK
    <3>2. QED
      BY <1>2, <1>6, <3>1
  <2>5. \A t \in Sockets : Named(t)' => name'[t] < nextConnId'
    BY <1>2, <1>3, <1>6, <2>3, <2>4
  <2>6. ASSUME NEW t \in Sockets, NEW u \in Sockets, Named(t)', Named(u)', name'[t] = name'[u]
        PROVE  t = u
    <3>1. CASE t = s \/ u = s
      BY <1>2, <1>6, <2>3, <2>4, <2>6, <3>1
    <3>2. CASE t # s /\ u # s
      BY <1>6, <2>1, <2>3, <2>6, <3>2 DEF HolderInv, NamesInv
    <3>3. QED
      BY <3>1, <3>2
  <2>7. QED
    BY <1>6, <2>2, <2>5, <2>6
<1>12. HeldInv'
  <2>1. SUFFICES ASSUME main # "returned", NEW t \in Sockets, sock'[t] = "open"
                 PROVE  InMap(t)' \/ Twin(t)'
    BY <1>3 DEF HeldInv
  <2>2. CASE t = s
    BY <1>3, <1>6, <2>2 DEF InMap
  <2>3. CASE t # s /\ name[t] = id
    BY <1>2, <1>6, <2>3 DEF Twin
  <2>4. CASE t # s /\ name[t] # id
    <3>1. InMap(t) \/ Twin(t)
      BY <1>6, <2>1, <2>4 DEF HolderInv, HeldInv
    <3>2. CASE InMap(t)
      BY <1>3, <1>6, <2>4, <3>2 DEF InMap
    <3>3. CASE Twin(t)
      BY <1>4, <1>6, <2>4, <3>3 DEF Twin
    <3>4. QED
      BY <3>1, <3>2, <3>3
  <2>5. QED
    BY <2>2, <2>3, <2>4
<1>13. QED
  BY <1>8, <1>9, <1>10, <1>11, <1>12 DEF HolderInv

LEMMA HolderStep == TypeOK /\ LateInv /\ HolderInv /\ [Next]_vars => HolderInv'
<1> SUFFICES ASSUME TypeOK, LateInv, HolderInv, [Next]_vars
             PROVE  HolderInv'
  OBVIOUS
<1> USE DEF acceptVars, mapVars, loopVars, poolVars, mainVars
<1>1. CASE \E s \in Sockets : Arrive(s)
  BY <1>1, ArriveHolds
<1>2. CASE Accept
  BY <1>2, AcceptHolds
<1>3. CASE AcceptFails
  BY <1>3, AcceptFailsHolds
<1>4. CASE \E l \in Loops : Create(l)
  BY <1>4, CreateHolds
<1>5. CASE \E l \in Loops : Swap(l)
  BY <1>5, SwapHolds
<1>6. CASE \E l \in Loops : RunSetup(l)
  BY <1>6, RunSetupHolds
<1>7. CASE \/ Start \/ AcceptEvent \/ AcceptDone \/ Signal \/ StopServer \/ StopWorker \/ StopPool
           \/ UNCHANGED vars
           \/ \E l \in Loops : LastTurn(l) \/ TurnEnds(l) \/ Destroy(l)
           \/ \E s \in Sockets : Dispatch(s) \/ TaskEnds(s)
  <2>1. UNCHANGED connections
    BY <1>7 DEF Start, AcceptEvent, AcceptDone, Signal, StopServer, StopWorker, StopPool, vars,
                LastTurn, TurnEnds, Destroy, Dispatch, TaskEnds
  <2>2. QED
    BY <1>7, <2>1, QuietEvents, QuietHolds
<1>8. CASE Return
  <2>1. main' = "returned"
    BY <1>8 DEF Return
  <2>2. QED
    BY <1>8, <2>1, QuietEvents, QuietHolds
<1>9. CASE \E s \in Sockets : HandleClose(s) \/ QueueReply(s) \/ ShutDownConnection(s)
  <2>1. UNCHANGED connections
    BY <1>9 DEF HandleClose, QueueReply, ShutDownConnection
  <2>2. QED
    BY <1>9, <2>1, QuietQueue, QuietHolds
<1>10. CASE \E l \in Loops : RunErase(l) \/ RunReply(l) \/ RunShutdown(l)
  <2>1. UNCHANGED connections \/ \E l \in Loops : RunErase(l)
    BY <1>10 DEF RunReply, RunShutdown
  <2>2. QED
    BY <1>10, <2>1, QuietFunctors, QuietHolds
<1>11. QED
  BY <1>1, <1>2, <1>3, <1>4, <1>5, <1>6, <1>7, <1>8, <1>9, <1>10
     DEF Next, Turn, Task, StopSteps

\* While main() runs, a connection that is open is held by connections_ under its own
\* name, but for a name that racing worker loops gave twice (createConnectionOnLoop,
\* removeConnectionInLoop, TcpServer::stop).
THEOREM MapHoldsTheOpen == Spec => []OpenAreHeld
<1>1. Init => HolderInv
  <2>1. SUFFICES ASSUME Init PROVE HolderInv
    OBVIOUS
  <2>2. \A l \in Loops : todo[l] = <<>> /\ batch[l] = <<>> /\ making[l] = Idle
    BY <2>1 DEF Init
  <2>3. \A s \in Sockets : ~Named(s) /\ sock[s] = "none"
    BY <2>1 DEF Init, Named
  <2>4. backlog = <<>>
    BY <2>1 DEF Init
  <2>5. BacklogInv /\ TicketInv /\ EraseInv
    BY <2>2, <2>4, InEmpty DEF BacklogInv, TicketInv, EraseInv, Making
  <2>6. NamesInv /\ HeldInv
    BY <2>2, <2>3, LoopTypes DEF NamesInv, HeldInv
  <2>7. QED
    BY <2>5, <2>6 DEF HolderInv
<1>2. Init => LateInv
  BY LoopTypes DEF Init, LateInv
<1>3. TypeOK /\ HolderInv => OpenAreHeld
  <2>1. SUFFICES ASSUME TypeOK, HolderInv, main # "returned",
                        NEW s \in Sockets, sock[s] = "open", ~InMap(s)
                 PROVE  multi /\ Twin(s)
    BY DEF OpenAreHeld
  <2>2. Twin(s)
    BY <2>1 DEF HolderInv, HeldInv
  <2>3. multi
    BY <2>1, <2>2 DEF HolderInv, NamesInv, Twin, Named, TypeOK
  <2>4. QED
    BY <2>2, <2>3
<1>4. QED
  BY <1>1, <1>2, <1>3, TypeCorrect, LateStep, HolderStep, PTL DEF Spec
=============================================================================
