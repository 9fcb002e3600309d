-------------------------- MODULE ShellTool_proofs --------------------------
(* Proofs about ShellTool, for any limit on the output and any room of the    *)
(* pipes.                                                                     *)
EXTENDS ShellTool, TLAPS

\* The write ends are open in the server only before the loop; a stream that is
\* closed has been read to its end, and nobody can write to it any more.
EndsInv ==
  /\ pc \in {"idle", "fork", "parent"} => open = Streams
  /\ serverOpen => pc \in {"fork", "parent"}
  /\ \A s \in Streams \ open : pipe[s] = <<>> /\ \A p \in Alive : s \notin holds[p]
  /\ pc = "returned" => open = {}

\* The number of the i-th byte of a stream.
Numbered(i) == IF i <= MaxBytes THEN i ELSE MaxBytes + 1

\* What a pipe holds comes right behind what was kept of it.
Follows(s) ==
  /\ \A i \in 1 .. Len(pipe[s]) : pipe[s][i] = Numbered(Len(kept[s]) + i)
  /\ wrote[s] = Numbered(Len(kept[s]) + Len(pipe[s]))

\* The books of readFromPipe, until poll's failure overwrites what it kept.
Accounts ==
  /\ \A s \in Streams : kept[s] = [i \in 1 .. Len(kept[s]) |-> i]
  /\ budget + Kept = MaxBytes
  /\ truncated => budget = 0 /\ wrote["stdout"] + wrote["stderr"] > MaxBytes
  /\ ~truncated => \A s \in Streams : Follows(s)

AccountInv == PollFailed \/ Accounts

------------------------------------------------------------------------------
(* Types.                                                                     *)

States == {"none", "forked", "group", "away", "zombie", "reaped", "dead"}

LEMMA DieDef ==
  ASSUME TypeOK, NEW group, Die(group)
  PROVE  /\ proc' \in [Processes -> States] /\ holds' \in [Processes -> SUBSET Streams]
         /\ Alive' \subseteq Alive
         /\ \A p \in Processes : holds'[p] \subseteq holds[p]
<1>1. /\ proc \in [Processes -> States] /\ holds \in [Processes -> SUBSET Streams]
  BY DEF TypeOK, States
<1>2. proc' = [p \in Processes |-> IF p \notin group THEN proc[p]
                                   ELSE IF p = "shell" THEN "zombie" ELSE "dead"]
  BY DEF Die
<1>3. holds' = [p \in Processes |-> IF p \in group THEN {} ELSE holds[p]]
  BY DEF Die
<1>4. proc' \in [Processes -> States]
  BY <1>1, <1>2 DEF States
<1>5. holds' \in [Processes -> SUBSET Streams]
  BY <1>1, <1>3
<1>6. Alive' \subseteq Alive
  BY <1>1, <1>2 DEF Alive
<1>7. \A p \in Processes : holds'[p] \subseteq holds[p]
  BY <1>1, <1>3
<1>8. QED
  BY <1>4, <1>5, <1>6, <1>7

LEMMA KillDef ==
  ASSUME TypeOK, KillProcessGroup
  PROVE  /\ proc' \in [Processes -> States] /\ holds' \in [Processes -> SUBSET Streams]
         /\ Alive' \subseteq Alive
         /\ \A p \in Processes : holds'[p] \subseteq holds[p]
         /\ killed' \in {"no", "nobody", "group"} /\ pc' = "reap"
  BY DieDef DEF KillProcessGroup

LEMMA SpawnDef ==
  ASSUME TypeOK, NEW p \in Processes, NEW state \in {"forked", "group", "away"},
         NEW ends \in SUBSET Streams, Spawn(p, state, ends)
  PROVE  /\ proc' \in [Processes -> States] /\ holds' \in [Processes -> SUBSET Streams]
         /\ Alive' = Alive \cup {p} /\ holds'[p] = ends
         /\ \A q \in Processes \ {p} : holds'[q] = holds[q]
<1>1. /\ proc \in [Processes -> States] /\ holds \in [Processes -> SUBSET Streams]
      /\ proc' = [proc EXCEPT ![p] = state] /\ holds' = [holds EXCEPT ![p] = ends]
  BY DEF TypeOK, States, Spawn
<1>2. proc' \in [Processes -> States] /\ holds' \in [Processes -> SUBSET Streams]
  BY <1>1 DEF States
<1>3. Alive' = Alive \cup {p}
  BY <1>1 DEF Alive
<1>4. QED
  BY <1>1, <1>2, <1>3

LEMMA Concatenated ==
  ASSUME NEW k \in Seq(Nat), NEW t \in Seq(Nat)
  PROVE  /\ k \o t \in Seq(Nat) /\ Len(k \o t) = Len(k) + Len(t)
         /\ \A i \in 1 .. Len(k) : (k \o t)[i] = k[i]
         /\ \A i \in 1 .. Len(t) : (k \o t)[Len(k) + i] = t[i]
<1>1. /\ Len(k) \in Nat /\ Len(t) \in Nat
      /\ k \o t \in Seq(Nat) /\ Len(k \o t) = Len(k) + Len(t)
      /\ \A i \in 1 .. Len(k) + Len(t) :
           (k \o t)[i] = IF i <= Len(k) THEN k[i] ELSE t[i - Len(k)]
  OBVIOUS
<1>2. \A i \in 1 .. Len(k) : (k \o t)[i] = k[i]
  BY <1>1
<1>3. ASSUME NEW i \in 1 .. Len(t) PROVE (k \o t)[Len(k) + i] = t[i]
  <2>1. /\ Len(k) + i \in 1 .. Len(k) + Len(t) /\ ~(Len(k) + i <= Len(k))
        /\ (Len(k) + i) - Len(k) = i
    BY <1>1
  <2>2. QED
    BY <1>1, <2>1
<1>4. QED
  BY <1>1, <1>2, <1>3

LEMMA DrainingIsStream == Draining \in Streams
  BY DEF Draining, Streams

\* What one read() takes, and what it leaves.
LEMMA TakeDef ==
  ASSUME TypeOK, NEW n \in 1 .. Len(pipe[Draining]), NEW take \in Nat, take <= n,
         take <= budget, Take(n, take)
  PROVE  /\ kept' \in [Streams -> Seq(Nat)] /\ pipe' \in [Streams -> Seq(Nat)]
         /\ budget' = budget - take /\ truncated' = (truncated \/ take < n)
         /\ \A s \in Streams \ {Draining} : kept'[s] = kept[s] /\ pipe'[s] = pipe[s]
         /\ Len(kept'[Draining]) = Len(kept[Draining]) + take
         /\ \A i \in 1 .. Len(kept[Draining]) : kept'[Draining][i] = kept[Draining][i]
         /\ \A i \in 1 .. take :
              kept'[Draining][Len(kept[Draining]) + i] = pipe[Draining][i]
         /\ Len(pipe'[Draining]) = Len(pipe[Draining]) - n
         /\ \A i \in 1 .. Len(pipe[Draining]) - n :
              pipe'[Draining][i] = pipe[Draining][n + i]
<1>1. PICK s \in Streams : s = Draining
  BY DrainingIsStream
<1>2. PICK k \in Seq(Nat), q \in Seq(Nat) : k = kept[s] /\ q = pipe[s]
  BY DEF TypeOK
<1>3. /\ kept \in [Streams -> Seq(Nat)] /\ pipe \in [Streams -> Seq(Nat)]
      /\ kept' = [kept EXCEPT ![s] = @ \o SubSeq(q, 1, take)]
      /\ pipe' = [pipe EXCEPT ![s] = SubSeq(@, n + 1, Len(@))]
      /\ budget' = budget - take /\ truncated' = (truncated \/ take < n)
  BY <1>1, <1>2 DEF TypeOK, Take
<1>4. n \in 1 .. Len(q) /\ Len(q) \in Nat /\ Len(k) \in Nat
  BY <1>1, <1>2
<1>5. PICK t \in Seq(Nat) :
        /\ t = SubSeq(q, 1, take) /\ Len(t) = take
        /\ \A i \in 1 .. take : t[i] = q[i]
  <2>1. /\ SubSeq(q, 1, take) \in Seq(Nat) /\ Len(SubSeq(q, 1, take)) = take
        /\ \A i \in 1 .. take : SubSeq(q, 1, take)[i] = q[i]
    BY <1>4
  <2>2. QED
    BY <2>1
<1>6. PICK l \in Seq(Nat) :
        /\ l = SubSeq(q, n + 1, Len(q)) /\ Len(l) = Len(q) - n
        /\ \A i \in 1 .. Len(q) - n : l[i] = q[n + i]
  <2>1. /\ SubSeq(q, n + 1, Len(q)) \in Seq(Nat)
        /\ Len(SubSeq(q, n + 1, Len(q))) = Len(q) - n
        /\ \A i \in 1 .. Len(q) - n : SubSeq(q, n + 1, Len(q))[i] = q[n + i]
    BY <1>4
  <2>2. QED
    BY <2>1
<1>7. PICK m \in Seq(Nat) :
        /\ m = k \o t /\ Len(m) = Len(k) + take
        /\ \A i \in 1 .. Len(k) : m[i] = k[i]
        /\ \A i \in 1 .. take : m[Len(k) + i] = t[i]
  <2>1. /\ k \o t \in Seq(Nat) /\ Len(k \o t) = Len(k) + take
        /\ \A i \in 1 .. Len(k) : (k \o t)[i] = k[i]
        /\ \A i \in 1 .. take : (k \o t)[Len(k) + i] = t[i]
    <3>1. /\ k \o t \in Seq(Nat) /\ Len(k \o t) = Len(k) + Len(t)
          /\ \A i \in 1 .. Len(k) : (k \o t)[i] = k[i]
          /\ \A i \in 1 .. Len(t) : (k \o t)[Len(k) + i] = t[i]
      BY Concatenated, Zenon
    <3>2. Len(t) = take
      BY <1>5
    <3>3. QED
      BY <3>1, <3>2, Zenon
  <2>2. QED
    BY <2>1
<1>8. kept' = [kept EXCEPT ![s] = m] /\ pipe' = [pipe EXCEPT ![s] = l]
  BY <1>2, <1>3, <1>5, <1>6, <1>7
<1>9. /\ kept' \in [Streams -> Seq(Nat)] /\ pipe' \in [Streams -> Seq(Nat)]
      /\ kept'[s] = m /\ pipe'[s] = l
      /\ \A u \in Streams \ {s} : kept'[u] = kept[u] /\ pipe'[u] = pipe[u]
  BY <1>3, <1>8
<1>10. QED
  BY <1>1, <1>2, <1>3, <1>5, <1>6, <1>7, <1>9

LEMMA ReadSomeDef ==
  ASSUME TypeOK, ReadSome
  PROVE  \E n \in 1 .. Len(pipe[Draining]), take \in Nat :
           /\ take = (IF n < budget THEN n ELSE budget)
           /\ take <= n /\ take <= budget /\ Take(n, take)
<1>1. PICK n \in 1 .. Len(pipe[Draining]) : Take(n, IF n < budget THEN n ELSE budget)
  BY DEF ReadSome
<1>2. n \in Nat /\ budget \in Nat
  BY RoomIsPositive DEF TypeOK
<1>3. PICK take \in Nat : take = (IF n < budget THEN n ELSE budget)
  BY <1>2
<1>4. take <= n /\ take <= budget
  BY <1>2, <1>3
<1>5. QED
  BY <1>1, <1>3, <1>4

LEMMA WriteDef ==
  ASSUME TypeOK, NEW s \in Streams, Write(s)
  PROVE  \E n \in 1 .. MaxBytes + 1 :
           /\ n = (IF wrote[s] > MaxBytes THEN wrote[s] ELSE wrote[s] + 1)
           /\ wrote' \in [Streams -> 0 .. MaxBytes + 1]
           /\ pipe' \in [Streams -> Seq(Nat)]
           /\ wrote'[s] = n /\ pipe'[s] = Append(pipe[s], n)
           /\ \A u \in Streams \ {s} : wrote'[u] = wrote[u] /\ pipe'[u] = pipe[u]
<1>1. /\ MaxBytes \in Nat /\ wrote[s] \in 0 .. MaxBytes + 1
      /\ wrote \in [Streams -> 0 .. MaxBytes + 1] /\ pipe \in [Streams -> Seq(Nat)]
  BY RoomIsPositive DEF TypeOK
<1>2. PICK w \in 0 .. MaxBytes + 1 : w = wrote[s]
  BY <1>1
<1>3. PICK n \in 1 .. MaxBytes + 1 : n = (IF w > MaxBytes THEN w ELSE w + 1)
  BY <1>1
<1>4. wrote' = [wrote EXCEPT ![s] = n] /\ pipe' = [pipe EXCEPT ![s] = Append(@, n)]
  BY <1>2, <1>3 DEF Write
<1>5. PICK q \in Seq(Nat) : q = Append(pipe[s], n)
  <2>1. pipe[s] \in Seq(Nat) /\ n \in Nat
    BY <1>1
  <2>2. Append(pipe[s], n) \in Seq(Nat)
    BY <2>1
  <2>3. QED
    BY <2>2
<1>6. pipe' = [pipe EXCEPT ![s] = q]
  BY <1>4, <1>5
<1>7. /\ wrote' \in [Streams -> 0 .. MaxBytes + 1] /\ wrote'[s] = n
      /\ \A u \in Streams \ {s} : wrote'[u] = wrote[u]
  BY <1>1, <1>3, <1>4
<1>8. /\ pipe' \in [Streams -> Seq(Nat)] /\ pipe'[s] = q
      /\ \A u \in Streams \ {s} : pipe'[u] = pipe[u]
  BY <1>1, <1>6
<1>9. QED
  BY <1>2, <1>3, <1>5, <1>7, <1>8

LEMMA TypesStep ==
  ASSUME TypeOK, [Next]_vars
  PROVE  TypeOK'
<1> USE DEF vars, callVars, readVars, procVars, pipeVars
<1>1. CASE Refuse \/ OpenPipes \/ ForkFails \/ CloseEnds \/ Deadline \/ UNCHANGED vars
  BY <1>1 DEF Refuse, OpenPipes, ForkFails, CloseEnds, Deadline, TypeOK, Running
<1>2. CASE Fork
  <2>1. Spawn("shell", "forked", Streams)
    BY <1>2 DEF Fork
  <2>2. proc' \in [Processes -> States] /\ holds' \in [Processes -> SUBSET Streams]
    BY <2>1, SpawnDef DEF Processes
  <2>3. QED
    BY <1>2, <2>2 DEF Fork, TypeOK, States
<1>3. CASE TimedOut
  BY <1>3, KillDef DEF TimedOut, TypeOK, States, Running
<1>4. CASE Reap \/ CheckChild
  <2>1. proc' \in [Processes -> States]
    BY <1>4 DEF Reap, CheckChild, Collect, TypeOK, States
  <2>2. QED
    BY <1>4, <2>1 DEF Reap, CheckChild, Collect, TypeOK, States, Running
<1>5. CASE Poll
  BY <1>5 DEF Poll, TurnEnds, TypeOK, Running
<1>6. CASE PollFails
  <2>1. kept' \in [Streams -> Seq(Nat)]
    <3>1. Failure \in Seq(Nat)
      BY DEF Failure
    <3>2. QED
      BY <1>6, <3>1 DEF PollFails, TypeOK
  <2>2. CASE exited
    BY <1>6, <2>1, <2>2 DEF PollFails, TurnEnds, TypeOK, Running
  <2>3. CASE ~exited
    <3>1. KillProcessGroup
      BY <1>6, <2>3 DEF PollFails
    <3>2. QED
      BY <1>6, <2>1, <2>3, <3>1, KillDef DEF PollFails, TypeOK, States, Running
  <2>4. QED
    BY <2>2, <2>3
<1>7. CASE ReadSome
  <2>1. PICK n \in 1 .. Len(pipe[Draining]), take \in Nat :
          take <= n /\ take <= budget /\ Take(n, take)
    BY <1>7, ReadSomeDef
  <2>2. /\ kept' \in [Streams -> Seq(Nat)] /\ pipe' \in [Streams -> Seq(Nat)]
        /\ budget' = budget - take /\ truncated' = (truncated \/ take < n)
    BY <2>1, TakeDef
  <2>3. budget' \in 0 .. MaxBytes /\ truncated' \in BOOLEAN
    BY <2>1, <2>2, RoomIsPositive DEF TypeOK
  <2>4. QED
    BY <1>7, <2>2, <2>3 DEF ReadSome, TypeOK
<1>8. CASE Drained
  BY <1>8 DEF Drained, TurnEnds, TypeOK, Running
<1>9. CASE StrangerForked
  <2>1. Spawn("stranger", "away", Streams)
    BY <1>9 DEF StrangerForked
  <2>2. proc' \in [Processes -> States] /\ holds' \in [Processes -> SUBSET Streams]
    BY <2>1, SpawnDef DEF Processes
  <2>3. QED
    BY <1>9, <2>2 DEF StrangerForked, TypeOK, States
<1>10. CASE StartJob
  <2>1. Spawn("job", "group", holds["shell"]) /\ holds["shell"] \in SUBSET Streams
    BY <1>10 DEF StartJob, TypeOK, Processes
  <2>2. proc' \in [Processes -> States] /\ holds' \in [Processes -> SUBSET Streams]
    BY <2>1, SpawnDef DEF Processes
  <2>3. QED
    BY <1>10, <2>2 DEF StartJob, TypeOK, States
<1>11. CASE SetSid \/ LeaveGroup
  <2>1. proc' \in [Processes -> States]
    BY <1>11 DEF SetSid, LeaveGroup, TypeOK, States
  <2>2. QED
    BY <1>11, <2>1 DEF SetSid, LeaveGroup, TypeOK, States
<1>12. ASSUME NEW p \in Processes, Exit(p) PROVE TypeOK'
  BY <1>12, DieDef DEF Exit, TypeOK, States
<1>13. ASSUME NEW s \in Streams, Write(s) PROVE TypeOK'
  BY <1>13, WriteDef DEF Write, TypeOK
<1>14. ASSUME NEW s \in Streams, CloseStream(s) PROVE TypeOK'
  <2>1. holds' \in [Processes -> SUBSET Streams]
    BY <1>14 DEF CloseStream, TypeOK, Processes
  <2>2. QED
    BY <1>14, <2>1 DEF CloseStream, TypeOK
<1>15. QED
  BY <1>1, <1>2, <1>3, <1>4, <1>5, <1>6, <1>7, <1>8, <1>9, <1>10, <1>11, <1>12, <1>13, <1>14
     DEF Next, RunCommand, Command

LEMMA TypesInit == Init => TypeOK
<1>1. SUFFICES ASSUME Init PROVE TypeOK
  OBVIOUS
<1>2. [s \in Streams |-> <<>>] \in [Streams -> Seq(Nat)]
  OBVIOUS
<1>3. [s \in Streams |-> 0] \in [Streams -> 0 .. MaxBytes + 1] /\ MaxBytes \in 0 .. MaxBytes
  BY RoomIsPositive
<1>4. QED
  BY <1>1, <1>2, <1>3 DEF Init, TypeOK

------------------------------------------------------------------------------
(* The ends of the pipes.                                                     *)

\* Nobody comes to hold the write end of a stream that nobody holds.
LEMMA EndsKept ==
  ASSUME EndsInv, open' = open, serverOpen' = serverOpen,
         \A s \in Streams \ open : pipe'[s] = pipe[s],
         \A p \in Alive' : \E q \in Alive : holds'[p] \subseteq holds[q],
         pc' \in {"idle", "fork", "parent"} => pc' = pc,
         pc \in {"fork", "parent"} => pc' = pc,
         pc' = "returned" => open = {}
  PROVE  EndsInv'
  BY DEF EndsInv

LEMMA EndsStep ==
  ASSUME TypeOK, EndsInv, [Next]_vars
  PROVE  EndsInv'
<1> USE DEF vars, callVars, readVars, procVars, pipeVars
<1>1. \A p \in Alive : p \in Processes /\ holds[p] \subseteq holds[p]
  BY DEF Alive
<1>2. CASE UNCHANGED vars
  BY <1>2 DEF EndsInv, Alive
<1>3. CASE Refuse \/ OpenPipes \/ ForkFails \/ CloseEnds \/ Deadline
  BY <1>3 DEF Refuse, OpenPipes, ForkFails, CloseEnds, Deadline, EndsInv, Alive, Running
<1>4. CASE Fork
  BY <1>4 DEF Fork, EndsInv
<1>5. CASE StrangerForked
  BY <1>5 DEF StrangerForked, EndsInv
<1>6. CASE StartJob
  <2>1. "shell" \in Alive
    BY <1>6 DEF StartJob, Alive, Processes
  <2>2. Spawn("job", "group", holds["shell"]) /\ holds["shell"] \in SUBSET Streams
    BY <1>6 DEF StartJob, TypeOK, Processes
  <2>3. /\ Alive' = Alive \cup {"job"} /\ holds'["job"] = holds["shell"]
        /\ \A q \in Processes \ {"job"} : holds'[q] = holds[q]
    BY <2>2, SpawnDef DEF Processes
  <2>4. \A p \in Alive' : \E q \in Alive : holds'[p] \subseteq holds[q]
    BY <1>1, <2>1, <2>3
  <2>5. QED
    BY <1>6, <2>4, EndsKept DEF StartJob, EndsInv
<1>7. CASE TimedOut
  <2>1. \A p \in Alive' : \E q \in Alive : holds'[p] \subseteq holds[q]
    BY <1>1, <1>7, KillDef DEF TimedOut
  <2>2. pc' = "reap" /\ pc = "check"
    BY <1>7, KillDef DEF TimedOut
  <2>3. QED
    BY <1>7, <2>1, <2>2, EndsKept DEF TimedOut
<1>8. CASE Reap \/ CheckChild
  <2>1. Alive' \subseteq Alive
    BY <1>8 DEF Reap, CheckChild, Collect, Alive, TypeOK
  <2>2. /\ pc' = "returned" => open = {}
        /\ pc' \in {"returned", "poll"} /\ pc \in {"reap", "check"}
    BY <1>8 DEF Reap, CheckChild, LoopEnds
  <2>3. QED
    BY <1>1, <1>8, <2>1, <2>2, EndsKept DEF Reap, CheckChild
<1>9. CASE Poll
  <2>1. Alive' = Alive
    BY <1>9 DEF Poll, Alive
  <2>2. /\ pc' = "returned" => open = {}
        /\ pc' \in {"returned", "check", "read"} /\ pc = "poll"
    BY <1>9 DEF Poll, TurnEnds, LoopEnds
  <2>3. QED
    BY <1>1, <1>9, <2>1, <2>2, EndsKept DEF Poll
<1>10. CASE PollFails
  <2>1. CASE exited
    <3>1. Alive' = Alive
      BY <1>10, <2>1 DEF PollFails, Alive
    <3>2. /\ pc' = "returned" => open = {}
          /\ pc' \in {"returned", "check"} /\ pc = "poll"
      BY <1>10, <2>1 DEF PollFails, TurnEnds, LoopEnds
    <3>3. QED
      BY <1>1, <1>10, <2>1, <3>1, <3>2, EndsKept DEF PollFails
  <2>2. CASE ~exited
    <3>1. KillProcessGroup
      BY <1>10, <2>2 DEF PollFails
    <3>2. \A p \in Alive' : \E q \in Alive : holds'[p] \subseteq holds[q]
      BY <1>1, <3>1, KillDef
    <3>3. pc' = "reap" /\ pc = "poll"
      BY <1>10, <3>1, KillDef DEF PollFails
    <3>4. QED
      BY <1>10, <3>2, <3>3, EndsKept DEF PollFails
  <2>3. QED
    BY <2>1, <2>2
<1>11. CASE ReadSome
  <2>1. PICK n \in 1 .. Len(pipe[Draining]), take \in Nat :
          take <= n /\ take <= budget /\ Take(n, take)
    BY <1>11, ReadSomeDef
  <2>2. pipe[Draining] # <<>>
    BY <2>1
  <2>3. Draining \notin Streams \ open
    BY <2>2 DEF EndsInv
  <2>4. \A s \in Streams \ open : pipe'[s] = pipe[s]
    BY <2>1, <2>3, TakeDef
  <2>5. Alive' = Alive /\ pc' = pc /\ pc = "read"
    BY <1>11 DEF ReadSome, Alive
  <2>6. QED
    BY <1>1, <1>11, <2>4, <2>5, EndsKept DEF ReadSome, EndsInv
<1>12. CASE Drained
  <2>1. Alive' = Alive /\ pc = "read" /\ ~serverOpen
    BY <1>12 DEF Drained, Alive, EndsInv
  <2>2. \A s \in Streams \ open' : s \in Streams \ open \/ (s = Draining /\ s \notin Held)
    BY <1>12 DEF Drained
  <2>3. \A s \in Streams : s \notin Held => \A p \in Alive : s \notin holds[p]
    BY DEF Held
  <2>4. /\ pc' = "returned" => open' = {}
        /\ pc' \in {"returned", "check", "read"}
    BY <1>12 DEF Drained, TurnEnds, LoopEnds
  <2>5. \A s \in Streams \ open' : pipe[s] = <<>> /\ \A p \in Alive : s \notin holds[p]
    BY <1>12, <2>2, <2>3 DEF Drained, EndsInv
  <2>6. QED
    BY <1>12, <2>1, <2>4, <2>5 DEF Drained, EndsInv
<1>13. CASE SetSid \/ LeaveGroup
  <2>1. Alive' = Alive
    BY <1>13 DEF SetSid, LeaveGroup, Alive, TypeOK
  <2>2. QED
    BY <1>1, <1>13, <2>1, EndsKept DEF SetSid, LeaveGroup, EndsInv
<1>14. ASSUME NEW p \in Processes, Exit(p) PROVE EndsInv'
  <2>1. \A x \in Alive' : \E q \in Alive : holds'[x] \subseteq holds[q]
    BY <1>1, <1>14, DieDef DEF Exit
  <2>2. QED
    BY <1>14, <2>1, EndsKept DEF Exit, EndsInv
<1>15. ASSUME NEW s \in Streams, Write(s) PROVE EndsInv'
  <2>1. PICK p \in {"shell", "job"} : proc[p] \in {"group", "away"} /\ s \in holds[p]
    BY <1>15 DEF Write
  <2>2. p \in Alive
    BY <2>1 DEF Alive, Processes
  <2>3. s \notin Streams \ open
    BY <2>1, <2>2 DEF EndsInv
  <2>4. \A u \in Streams \ open : pipe'[u] = pipe[u]
    BY <1>15, <2>3, WriteDef
  <2>5. Alive' = Alive
    BY <1>15 DEF Write, Alive
  <2>6. QED
    BY <1>1, <1>15, <2>4, <2>5, EndsKept DEF Write, EndsInv
<1>16. ASSUME NEW s \in Streams, CloseStream(s) PROVE EndsInv'
  <2>1. Alive' = Alive
    BY <1>16 DEF CloseStream, Alive
  <2>2. \A p \in Processes : holds'[p] \subseteq holds[p]
    BY <1>16 DEF CloseStream, TypeOK
  <2>3. QED
    BY <1>1, <1>16, <2>1, <2>2, EndsKept DEF CloseStream, EndsInv
<1>17. QED
  BY <1>2, <1>3, <1>4, <1>5, <1>6, <1>7, <1>8, <1>9, <1>10, <1>11, <1>12, <1>13, <1>14,
     <1>15, <1>16
     DEF Next, RunCommand, Command

------------------------------------------------------------------------------
(* The books.                                                                 *)

\* Once its message is there it stays.
LEMMA FailureStays ==
  ASSUME TypeOK, PollFailed, [Next]_vars
  PROVE  PollFailed'
<1> USE DEF vars, callVars, readVars, procVars, pipeVars
<1>1. CASE PollFails
  <2>1. kept'["stderr"] = <<0>> /\ <<0>> # <<>> /\ Head(<<0>>) = 0
    BY <1>1 DEF PollFails, Failure, TypeOK, Streams
  <2>2. QED
    BY <2>1 DEF PollFailed, Failure
<1>2. CASE ReadSome
  <2>1. PICK n \in 1 .. Len(pipe[Draining]), take \in Nat :
          take <= n /\ take <= budget /\ Take(n, take)
    BY <1>2, ReadSomeDef
  <2>2. PICK k \in Seq(Nat), l \in Seq(Nat) : k = kept["stderr"] /\ l = kept'["stderr"]
    BY <2>1, TakeDef DEF TypeOK, Streams
  <2>3. k # <<>> /\ k[1] = 0 /\ 1 \in 1 .. Len(k) /\ Len(k) \in Nat
    BY <2>2 DEF PollFailed, Failure
  <2>4. l = k \/ (Len(l) >= Len(k) /\ l[1] = k[1])
    <3>1. CASE Draining = "stderr"
      BY <2>1, <2>2, <2>3, <3>1, TakeDef
    <3>2. CASE Draining # "stderr"
      BY <2>1, <2>2, <3>2, TakeDef DEF Streams
    <3>3. QED
      BY <3>1, <3>2
  <2>5. l # <<>> /\ l[1] = 0
    BY <2>3, <2>4
  <2>6. QED
    BY <2>2, <2>5 DEF PollFailed, Failure
<1>3. CASE UNCHANGED kept
  BY <1>3 DEF PollFailed
<1>4. QED
  BY <1>1, <1>2, <1>3
     DEF Next, RunCommand, Command, Refuse, OpenPipes, ForkFails, CloseEnds, Deadline,
         Fork, TimedOut, Reap, CheckChild, Poll, Drained, StrangerForked, SetSid,
         StartJob, LeaveGroup, Exit, Write, CloseStream

\* A sum over the streams does not depend on which of them comes first.
LEMMA SumOfStreams ==
  ASSUME NEW f \in [Streams -> Nat], NEW s \in Streams, NEW u \in Streams, s # u
  PROVE  f["stdout"] + f["stderr"] = f[s] + f[u]
<1>1. PICK a \in Nat, b \in Nat : a = f["stdout"] /\ b = f["stderr"]
  BY DEF Streams
<1>2. CASE s = "stdout" /\ u = "stderr"
  BY <1>2
<1>3. CASE s = "stderr" /\ u = "stdout"
  <2>1. f[s] = b /\ f[u] = a
    BY <1>1, <1>3
  <2>2. f["stdout"] + f["stderr"] = a + b /\ a + b = b + a
    BY <1>1
  <2>3. QED
    BY <2>1, <2>2
<1>4. QED
  BY <1>2, <1>3 DEF Streams

LEMMA KeptOfStreams ==
  ASSUME NEW k \in [Streams -> Seq(Nat)], NEW s \in Streams, NEW u \in Streams, s # u
  PROVE  /\ Len(k["stdout"]) \in Nat /\ Len(k["stderr"]) \in Nat
         /\ Len(k["stdout"]) + Len(k["stderr"]) = Len(k[s]) + Len(k[u])
<1>1. PICK f \in [Streams -> Nat] : f = [v \in Streams |-> Len(k[v])]
  <2>1. [v \in Streams |-> Len(k[v])] \in [Streams -> Nat]
    OBVIOUS
  <2>2. QED
    BY <2>1
<1>2. f["stdout"] + f["stderr"] = f[s] + f[u]
  BY SumOfStreams
<1>3. \A v \in Streams : f[v] = Len(k[v]) /\ f[v] \in Nat
  BY <1>1
<1>4. /\ f["stdout"] = Len(k["stdout"]) /\ f["stderr"] = Len(k["stderr"])
      /\ f["stdout"] \in Nat /\ f["stderr"] \in Nat
      /\ f[s] = Len(k[s]) /\ f[u] = Len(k[u])
  BY <1>3 DEF Streams
<1>5. QED
  BY <1>2, <1>4, Zenon

\* One read() keeps the books.
LEMMA ReadAccounts ==
  ASSUME TypeOK, Accounts, ReadSome
  PROVE  Accounts'
<1>1. PICK n \in 1 .. Len(pipe[Draining]), take \in Nat :
        /\ take = (IF n < budget THEN n ELSE budget)
        /\ take <= n /\ take <= budget /\ Take(n, take)
  BY ReadSomeDef
<1>2. PICK s \in Streams, u \in Streams :
        s = Draining /\ Streams = {s, u} /\ s # u
  BY DEF Draining, Streams
<1>3. /\ kept \in [Streams -> Seq(Nat)] /\ pipe \in [Streams -> Seq(Nat)]
      /\ wrote \in [Streams -> 0 .. MaxBytes + 1] /\ budget \in 0 .. MaxBytes
      /\ truncated \in BOOLEAN /\ MaxBytes \in Nat
  BY RoomIsPositive DEF TypeOK
<1>4. PICK ks \in Nat, ku \in Nat, ps \in Nat, pu \in Nat :
        /\ ks = Len(kept[s]) /\ ku = Len(kept[u])
        /\ ps = Len(pipe[s]) /\ pu = Len(pipe[u])
  BY <1>3
<1>5. Kept = ks + ku
  <2>1. Len(kept["stdout"]) + Len(kept["stderr"]) = Len(kept[s]) + Len(kept[u])
    BY <1>2, <1>3, KeptOfStreams
  <2>2. QED
    BY <1>4, <2>1, Zenon DEF Kept
<1>6. /\ budget + ks + ku = MaxBytes
      /\ \A v \in Streams : kept[v] = [i \in 1 .. Len(kept[v]) |-> i]
      /\ truncated => budget = 0 /\ wrote[s] + wrote[u] > MaxBytes
      /\ ~truncated => Follows(s) /\ Follows(u)
  <2>1. wrote["stdout"] + wrote["stderr"] = wrote[s] + wrote[u]
    <3>1. wrote \in [Streams -> Nat]
      BY <1>3
    <3>2. QED
      BY <1>2, <3>1, SumOfStreams
  <2>2. PICK total : total = Kept
    OBVIOUS
  <2>3. budget + total = MaxBytes
    BY <2>2, Zenon DEF Accounts
  <2>4. budget + ks + ku = MaxBytes
    BY <1>3, <1>5, <2>2, <2>3
  <2>5. \A v \in Streams : kept[v] = [i \in 1 .. Len(kept[v]) |-> i]
    BY Zenon DEF Accounts
  <2>6. truncated => budget = 0 /\ wrote[s] + wrote[u] > MaxBytes
    <3>1. truncated => budget = 0 /\ wrote["stdout"] + wrote["stderr"] > MaxBytes
      BY Zenon DEF Accounts
    <3>2. QED
      BY <2>1, <3>1, Zenon
  <2>7. ~truncated => Follows(s) /\ Follows(u)
    BY Zenon DEF Accounts
  <2>8. QED
    BY <2>4, <2>5, <2>6, <2>7
<1>7. /\ kept' \in [Streams -> Seq(Nat)] /\ pipe' \in [Streams -> Seq(Nat)]
      /\ budget' = budget - take /\ truncated' = (truncated \/ take < n)
      /\ kept'[u] = kept[u] /\ pipe'[u] = pipe[u]
      /\ Len(kept'[s]) = ks + take
      /\ \A i \in 1 .. ks : kept'[s][i] = kept[s][i]
      /\ \A i \in 1 .. take : kept'[s][ks + i] = pipe[s][i]
      /\ Len(pipe'[s]) = ps - n
      /\ \A i \in 1 .. ps - n : pipe'[s][i] = pipe[s][n + i]
      /\ wrote' = wrote
  BY <1>1, <1>2, <1>4, TakeDef DEF ReadSome
<1>8. n \in Nat /\ 1 <= n /\ n <= ps /\ budget \in Nat
  BY <1>1, <1>2, <1>3, <1>4
<1>9. Kept' = ks + take + ku
  <2>1. Len(kept'["stdout"]) + Len(kept'["stderr"]) = Len(kept'[s]) + Len(kept'[u])
    BY <1>2, <1>7, KeptOfStreams
  <2>2. Len(kept'[u]) = ku
    BY <1>4, <1>7
  <2>3. QED
    BY <1>7, <2>1, <2>2, Zenon DEF Kept
<1>10. budget' + Kept' = MaxBytes
  BY <1>3, <1>6, <1>7, <1>8, <1>9
<1>11. \A i \in 1 .. take : pipe[s][i] = ks + i
  <2>1. CASE truncated
    BY <1>1, <1>6, <1>8, <2>1
  <2>2. CASE ~truncated
    <3>1. SUFFICES ASSUME NEW i \in 1 .. take PROVE pipe[s][i] = ks + i
      OBVIOUS
    <3>2. pipe[s][i] = Numbered(ks + i)
      BY <1>1, <1>4, <1>6, <1>8, <2>2, <3>1 DEF Follows
    <3>3. ks + i <= MaxBytes
      BY <1>1, <1>3, <1>6, <1>8, <3>1
    <3>4. QED
      BY <3>2, <3>3 DEF Numbered
  <2>3. QED
    BY <2>1, <2>2
<1>12. \A v \in Streams : kept'[v] = [i \in 1 .. Len(kept'[v]) |-> i]
  <2>1. kept'[u] = [i \in 1 .. Len(kept'[u]) |-> i]
    BY <1>6, <1>7
  <2>2. PICK l \in Seq(Nat) : l = kept'[s] /\ Len(l) = ks + take
    BY <1>7
  <2>3. ASSUME NEW i \in 1 .. ks + take PROVE l[i] = i
    <3>1. CASE i <= ks
      <4>1. i \in 1 .. ks
        BY <3>1
      <4>2. kept[s] = [j \in 1 .. ks |-> j]
        BY <1>4, <1>6
      <4>3. kept[s][i] = i
        BY <4>1, <4>2
      <4>4. QED
        BY <1>7, <2>2, <4>1, <4>3
    <3>2. CASE ~(i <= ks)
      <4>1. PICK j \in 1 .. take : i = ks + j
        <5>1. i - ks \in 1 .. take /\ i = ks + (i - ks)
          BY <1>1, <1>4, <3>2
        <5>2. QED
          BY <5>1
      <4>2. QED
        BY <1>7, <1>11, <2>2, <4>1
    <3>3. QED
      BY <3>1, <3>2
  <2>4. l = [i \in 1 .. Len(l) |-> l[i]]
    BY <2>2
  <2>5. l = [i \in 1 .. Len(l) |-> i]
    BY <2>2, <2>3, <2>4
  <2>6. QED
    BY <1>2, <2>1, <2>2, <2>5
<1>13. truncated' => budget' = 0 /\ wrote[s] + wrote[u] > MaxBytes
  <2>1. CASE truncated
    BY <1>1, <1>6, <1>7, <1>8, <2>1
  <2>2. CASE ~truncated /\ take < n
    <3>1. take = budget
      BY <1>1, <1>8, <2>2
    <3>2. wrote[s] = Numbered(ks + ps) /\ wrote[u] = Numbered(ku + pu)
      BY <1>4, <1>6, <2>2 DEF Follows
    <3>3. wrote[s] >= ks + budget + 1
      BY <1>3, <1>6, <1>8, <2>2, <3>1, <3>2 DEF Numbered
    <3>4. wrote[u] >= ku
      BY <1>3, <1>6, <1>8, <3>2 DEF Numbered
    <3>5. wrote[s] \in Nat /\ wrote[u] \in Nat
      BY <1>3
    <3>6. QED
      BY <1>3, <1>6, <1>7, <1>8, <3>1, <3>3, <3>4, <3>5
  <2>3. QED
    BY <1>7, <2>1, <2>2
<1>14. ~truncated' => \A v \in Streams : Follows(v)'
  <2>1. SUFFICES ASSUME ~truncated, take = n PROVE Follows(s)' /\ Follows(u)'
    <3>1. truncated' = FALSE => ~truncated /\ ~(take < n)
      BY <1>3, <1>7
    <3>2. ~(take < n) => take = n
      BY <1>1, <1>8
    <3>3. (Follows(s)' /\ Follows(u)') => \A v \in Streams : Follows(v)'
      BY <1>2
    <3>4. ~truncated' => ~truncated /\ take = n
      BY <1>3, <1>7, <3>2
    <3>5. QED
      BY <2>1, <3>3, <3>4
  <2>2. Follows(s) /\ Follows(u)
    BY <1>6, <2>1
  <2>3. Follows(u)'
    BY <1>7, <2>2 DEF Follows
  <2>4. Numbered(ks + ps) = Numbered((ks + n) + (ps - n))
    <3>1. ks + ps = (ks + n) + (ps - n)
      BY <1>8
    <3>2. QED
      BY <3>1
  <2>5. ASSUME NEW i \in 1 .. ps - n PROVE pipe'[s][i] = Numbered((ks + n) + i)
    <3>1. pipe'[s][i] = pipe[s][n + i]
      BY <1>7, <2>5
    <3>2. n + i \in 1 .. ps
      <4>1. i \in 1 .. ps - n
        BY <2>5
      <4>2. QED
        BY <1>8, <4>1
    <3>3. pipe[s][n + i] = Numbered(ks + (n + i))
      BY <1>4, <2>2, <3>2 DEF Follows
    <3>4. ks + (n + i) = (ks + n) + i
      BY <1>8
    <3>5. QED
      BY <3>1, <3>3, <3>4
  <2>6. Follows(s)'
    BY <1>4, <1>7, <2>1, <2>2, <2>4, <2>5 DEF Follows
  <2>7. QED
    BY <2>3, <2>6
<1>15. wrote'["stdout"] + wrote'["stderr"] = wrote[s] + wrote[u]
  <2>1. wrote \in [Streams -> Nat] /\ wrote' = wrote
    BY <1>3, <1>7
  <2>2. wrote["stdout"] + wrote["stderr"] = wrote[s] + wrote[u]
    BY <1>2, <2>1, SumOfStreams
  <2>3. QED
    BY <2>1, <2>2, Zenon
<1>16. QED
  BY <1>10, <1>12, <1>13, <1>14, <1>15 DEF Accounts

\* So does a write.
LEMMA WriteAccounts ==
  ASSUME TypeOK, Accounts, NEW s \in Streams, Write(s)
  PROVE  Accounts'
<1> USE DEF callVars, readVars, procVars
<1>1. PICK n \in 1 .. MaxBytes + 1 :
        /\ n = (IF wrote[s] > MaxBytes THEN wrote[s] ELSE wrote[s] + 1)
        /\ wrote'[s] = n /\ pipe'[s] = Append(pipe[s], n)
        /\ \A u \in Streams \ {s} : wrote'[u] = wrote[u] /\ pipe'[u] = pipe[u]
  BY WriteDef
<1>2. /\ kept \in [Streams -> Seq(Nat)] /\ pipe \in [Streams -> Seq(Nat)]
      /\ wrote \in [Streams -> 0 .. MaxBytes + 1] /\ MaxBytes \in Nat
  BY RoomIsPositive DEF TypeOK
<1>3. kept' = kept /\ budget' = budget /\ truncated' = truncated /\ Kept' = Kept
  BY DEF Write, Kept
<1>4. /\ wrote'["stdout"] + wrote'["stderr"] >= wrote["stdout"] + wrote["stderr"]
      /\ wrote["stdout"] + wrote["stderr"] \in Nat
      /\ wrote'["stdout"] + wrote'["stderr"] \in Nat
  <2>1. ASSUME NEW u \in Streams
        PROVE  wrote[u] \in Nat /\ wrote'[u] \in Nat /\ wrote'[u] >= wrote[u]
    <3>1. CASE u = s
      <4>1. PICK w \in 0 .. MaxBytes + 1 : w = wrote[s]
        BY <1>2
      <4>2. w \in Nat /\ n \in Nat /\ n >= w
        BY <1>1, <1>2, <4>1
      <4>3. QED
        BY <1>1, <3>1, <4>1, <4>2
    <3>2. CASE u # s
      <4>1. wrote'[u] = wrote[u]
        BY <1>1, <3>2
      <4>2. PICK w \in 0 .. MaxBytes + 1 : w = wrote[u]
        BY <1>2
      <4>3. w \in Nat /\ w >= w
        BY <1>2
      <4>4. QED
        BY <4>1, <4>2, <4>3
    <3>3. QED
      BY <3>1, <3>2
  <2>2. PICK a \in Nat, b \in Nat, c \in Nat, d \in Nat :
          /\ a = wrote["stdout"] /\ b = wrote["stderr"]
          /\ c = wrote'["stdout"] /\ d = wrote'["stderr"] /\ c >= a /\ d >= b
    BY <2>1 DEF Streams
  <2>3. c + d >= a + b /\ a + b \in Nat /\ c + d \in Nat
    BY <2>2
  <2>4. QED
    BY <2>2, <2>3
<1>5. ASSUME Follows(s) PROVE Follows(s)'
  <2>1. PICK q \in Seq(Nat), m \in Nat, k \in Nat : q = pipe[s] /\ m = Len(q) /\ k = Len(kept[s])
    BY <1>2
  <2>2. n = Numbered(k + (m + 1))
    BY <1>1, <1>2, <1>5, <2>1 DEF Follows, Numbered
  <2>3. PICK p : p = Append(q, n)
    OBVIOUS
  <2>4. /\ Len(p) = m + 1 /\ p[m + 1] = n
        /\ \A i \in 1 .. m : p[i] = q[i]
    BY <2>1, <2>3
  <2>5. ASSUME NEW i \in 1 .. m + 1 PROVE p[i] = Numbered(k + i)
    <3>1. CASE i = m + 1
      BY <2>2, <2>4, <3>1
    <3>2. CASE i # m + 1
      <4>1. i \in 1 .. m
        BY <2>1, <3>2
      <4>2. QED
        BY <1>5, <2>1, <2>4, <4>1 DEF Follows
    <3>3. QED
      BY <3>1, <3>2
  <2>6. pipe'[s] = p /\ wrote'[s] = n
    BY <1>1, <2>1, <2>3
  <2>7. QED
    BY <1>3, <2>1, <2>2, <2>4, <2>5, <2>6 DEF Follows
<1>6. ASSUME NEW u \in Streams \ {s}, Follows(u) PROVE Follows(u)'
  BY <1>1, <1>3, <1>6 DEF Follows
<1>7. ~truncated => \A u \in Streams : Follows(u)'
  BY <1>5, <1>6 DEF Accounts
<1>8. truncated => wrote'["stdout"] + wrote'["stderr"] > MaxBytes
  BY <1>2, <1>4 DEF Accounts
<1>9. QED
  BY <1>3, <1>7, <1>8 DEF Accounts

LEMMA AccountStep ==
  ASSUME TypeOK, AccountInv, [Next]_vars
  PROVE  AccountInv'
<1> USE DEF vars, callVars, readVars, procVars, pipeVars
<1>1. CASE PollFailed
  BY <1>1, FailureStays DEF AccountInv
<1>2. CASE PollFails
  <2>1. kept'["stderr"] = <<0>> /\ <<0>> # <<>> /\ Head(<<0>>) = 0
    BY <1>2 DEF PollFails, Failure, TypeOK, Streams
  <2>2. QED
    BY <2>1 DEF PollFailed, Failure, AccountInv
<1>3. CASE ~PollFailed /\ ReadSome
  BY <1>3, ReadAccounts DEF AccountInv
<1>4. ASSUME ~PollFailed, NEW s \in Streams, Write(s) PROVE AccountInv'
  BY <1>4, WriteAccounts DEF AccountInv
<1>5. CASE ~PollFailed /\ UNCHANGED <<budget, truncated, kept, pipe, wrote>>
  BY <1>5 DEF AccountInv, Accounts, Follows, Kept
<1>6. QED
  BY <1>1, <1>2, <1>3, <1>4, <1>5
     DEF Next, RunCommand, Command, Refuse, OpenPipes, ForkFails, CloseEnds, Deadline,
         Fork, TimedOut, Reap, CheckChild, Poll, Drained, StrangerForked, SetSid,
         StartJob, LeaveGroup, Exit, CloseStream

LEMMA BooksInit == Init => EndsInv /\ AccountInv
<1>1. SUFFICES ASSUME Init PROVE EndsInv /\ AccountInv
  OBVIOUS
<1>2. \A s \in Streams : kept[s] = <<>> /\ pipe[s] = <<>> /\ wrote[s] = 0
  BY <1>1 DEF Init
<1>3. Len(<<>>) = 0 /\ <<>> = [i \in 1 .. 0 |-> i] /\ MaxBytes \in Nat
  BY RoomIsPositive
<1>4. \A s \in Streams : Follows(s)
  <2>1. Numbered(0 + 0) = 0 /\ 0 + 0 = 0
    BY <1>3 DEF Numbered
  <2>2. \A s \in Streams : Len(kept[s]) = 0 /\ Len(pipe[s]) = 0 /\ wrote[s] = 0
    BY <1>2, <1>3
  <2>3. 1 .. 0 = {}
    OBVIOUS
  <2>4. QED
    BY <2>1, <2>2, <2>3 DEF Follows
<1>5. Kept = 0
  <2>1. Len(kept["stdout"]) = 0 /\ Len(kept["stderr"]) = 0
    BY <1>2, <1>3 DEF Streams
  <2>2. QED
    BY <2>1 DEF Kept
<1>6. Accounts
  BY <1>1, <1>2, <1>3, <1>4, <1>5 DEF Accounts, Init
<1>7. EndsInv
  BY <1>1 DEF EndsInv, Init
<1>8. QED
  BY <1>6, <1>7 DEF AccountInv

------------------------------------------------------------------------------
(* The theorem.                                                               *)

LEMMA WholeWhenReturned ==
  ASSUME TypeOK, EndsInv, AccountInv
  PROVE  OutputIsWhole
<1>1. SUFFICES ASSUME pc = "returned", ~PollFailed
               PROVE  /\ \A s \in Streams : kept[s] = [i \in 1 .. Len(kept[s]) |-> i]
                      /\ IF truncated
                         THEN Kept = MaxBytes /\ wrote["stdout"] + wrote["stderr"] > MaxBytes
                         ELSE Kept <= MaxBytes /\ \A s \in Streams : Len(kept[s]) = wrote[s]
  BY DEF OutputIsWhole
<1>2. Accounts /\ \A s \in Streams : pipe[s] = <<>>
  BY <1>1 DEF AccountInv, EndsInv
<1>3. /\ MaxBytes \in Nat /\ budget \in 0 .. MaxBytes
      /\ \A s \in Streams : Len(kept[s]) \in Nat
  BY RoomIsPositive DEF TypeOK
<1>4. Kept \in Nat /\ \A s \in Streams : Len(kept[s]) <= Kept
  <2>1. PICK a \in Nat, b \in Nat : a = Len(kept["stdout"]) /\ b = Len(kept["stderr"])
    BY <1>3 DEF Streams
  <2>2. Kept = a + b
    BY <2>1, Zenon DEF Kept
  <2>3. a + b \in Nat /\ a <= a + b /\ b <= a + b
    OBVIOUS
  <2>4. Len(kept["stdout"]) <= Kept /\ Len(kept["stderr"]) <= Kept
    BY <2>1, <2>2, <2>3
  <2>5. QED
    BY <2>2, <2>3, <2>4 DEF Streams
<1>5. Kept <= MaxBytes
  BY <1>2, <1>3, <1>4 DEF Accounts
<1>6. ASSUME ~truncated, NEW s \in Streams PROVE Len(kept[s]) = wrote[s]
  <2>1. wrote[s] = Numbered(Len(kept[s]) + 0)
    BY <1>2, <1>6 DEF Accounts, Follows
  <2>2. QED
    BY <1>3, <1>4, <1>5, <2>1 DEF Numbered
<1>7. truncated => Kept = MaxBytes
  BY <1>2, <1>3, <1>4 DEF Accounts
<1>8. QED
  BY <1>2, <1>5, <1>6, <1>7 DEF Accounts

\* The variables keep their types through every step of the call and of the
\* processes around it: the budget of readFromPipe never goes below zero.
THEOREM TypeCorrect == Spec => []TypeOK
<1>1. Init => TypeOK
  BY TypesInit
<1>2. TypeOK /\ [Next]_vars => TypeOK'
  BY TypesStep
<1>3. QED
  BY <1>1, <1>2, PTL DEF Spec

\* What a call returns is the beginning of each stream, without a hole and within
\* the limit, and says so exactly when bytes were left out -- whatever the command
\* writes, whenever it exits or is killed, and wherever a read() cuts the stream:
\* readFromPipe keeps what comes next or nothing more, and the loop ends only
\* with both pipes at their end.
THEOREM OutputHolds == Spec => []OutputIsWhole
<1>1. Init => TypeOK /\ EndsInv /\ AccountInv
  BY TypesInit, BooksInit
<1>2. TypeOK /\ EndsInv /\ AccountInv /\ [Next]_vars => (TypeOK /\ EndsInv /\ AccountInv)'
  BY TypesStep, EndsStep, AccountStep
<1>3. TypeOK /\ EndsInv /\ AccountInv => OutputIsWhole
  BY WholeWhenReturned
<1>4. QED
  BY <1>1, <1>2, <1>3, PTL DEF Spec

=============================================================================
