----------------------------- MODULE ShellTool -----------------------------
(* One call of ShellTool::runCommand: the caller that forks, polls, reads,    *)
(* times out, kills and reaps; the shell it forks; a background job the shell *)
(* may start; and a stranger, the child of a call on another pool thread.     *)
(*                                                                            *)
(* The pipes are made without O_CLOEXEC: the stranger inherits the write ends *)
(* if it is forked while the server has them open, and the job gets those of  *)
(* its shell.  A pipe is at its end once no process holds its write end.      *)
(* A byte is its number in the stream it was written to; the numbers stop at  *)
(* MaxBytes + 1, past what is ever kept, so that a command may write for ever.*)
(* The call has a deadline: execute refuses a timeout that is not positive.   *)
EXTENDS Naturals, Sequences

CONSTANTS
  MaxBytes,   \* max_output_bytes_, for both streams together
  PipeRoom    \* what a pipe holds

ASSUME RoomIsPositive == MaxBytes \in Nat \ {0} /\ PipeRoom \in Nat \ {0}

Streams == {"stdout", "stderr"}
Processes == {"shell", "job", "stranger"}

VARIABLES
  pc,         \* where the call is in runCommand
  late,       \* the deadline has passed
  exited,     \* child_exited
  killed,     \* whom killProcessGroup reached: nobody, while the child has no group yet
  open,       \* stdout_open and stderr_open, as the set of the open streams
  reading,    \* the streams poll reported and the call has not drained yet
  budget,     \* what may still be kept
  truncated,  \* truncated
  kept,       \* stdout_data and stderr_data
  serverOpen, \* the server process has the write ends open
  proc,       \* the state of each process
  holds,      \* the write ends each of them has open
  pipe,       \* the bytes in each pipe
  wrote       \* history: how many bytes each stream was given

readVars == <<open, reading, budget, truncated, kept>>
callVars == <<pc, late, exited, killed, readVars>>
procVars == <<proc, holds>>
pipeVars == <<pipe, wrote>>
vars == <<callVars, serverOpen, procVars, pipeVars>>

Running == {"check", "reap", "poll", "read"}

Alive == {p \in Processes : proc[p] \in {"forked", "group", "away"}}
Group == {p \in Processes : proc[p] = "group"}
Held == UNION {holds[p] : p \in Alive} \cup (IF serverOpen THEN Streams ELSE {})

Init ==
  /\ pc = "idle"
  /\ late = FALSE
  /\ exited = FALSE
  /\ killed = "no"
  /\ open = Streams
  /\ reading = {}
  /\ budget = MaxBytes
  /\ truncated = FALSE
  /\ kept = [s \in Streams |-> <<>>]
  /\ serverOpen = FALSE
  /\ proc = [p \in Processes |-> "none"]
  /\ holds = [p \in Processes |-> {}]
  /\ pipe = [s \in Streams |-> <<>>]
  /\ wrote = [s \in Streams |-> 0]

------------------------------------------------------------------------------
(* The call: before the loop.                                                 *)

\* No shell may be executed, or a pipe cannot be made.
Refuse ==
  /\ pc = "idle"
  /\ pc' = "refused"
  /\ UNCHANGED <<late, exited, killed, readVars, serverOpen, procVars, pipeVars>>

OpenPipes ==
  /\ pc = "idle"
  /\ pc' = "fork"
  /\ serverOpen' = TRUE
  /\ UNCHANGED <<late, exited, killed, readVars, procVars, pipeVars>>

ForkFails ==
  /\ pc = "fork"
  /\ pc' = "refused"
  /\ serverOpen' = FALSE
  /\ UNCHANGED <<late, exited, killed, readVars, procVars, pipeVars>>

Spawn(p, state, ends) ==
  /\ proc[p] = "none"
  /\ proc' = [proc EXCEPT ![p] = state]
  /\ holds' = [holds EXCEPT ![p] = ends]

Fork ==
  /\ pc = "fork"
  /\ pc' = "parent"
  /\ Spawn("shell", "forked", Streams)
  /\ UNCHANGED <<late, exited, killed, readVars, serverOpen, pipeVars>>

CloseEnds ==
  /\ pc = "parent"
  /\ pc' = "check"
  /\ serverOpen' = FALSE
  /\ UNCHANGED <<late, exited, killed, readVars, procVars, pipeVars>>

------------------------------------------------------------------------------
(* The call: one turn of the loop.                                            *)

Deadline ==
  /\ pc \in Running
  /\ ~late
  /\ late' = TRUE
  /\ UNCHANGED <<pc, exited, killed, readVars, serverOpen, procVars, pipeVars>>

LoopEndsWithChild(childExited, stillOpen) == childExited   \* mutant: what is in the pipes stays there

\* The loop ends when the child is reaped and both pipes are at their end.
LoopEnds(childExited, stillOpen) == childExited /\ stillOpen = {}

Die(group) ==
  /\ proc' = [p \in Processes |-> IF p \notin group THEN proc[p]
                                  ELSE IF p = "shell" THEN "zombie" ELSE "dead"]
  /\ holds' = [p \in Processes |-> IF p \in group THEN {} ELSE holds[p]]

KillShell ==   \* mutant: kill(pid) instead of kill(-pid)
  /\ Die(Group \ {"job"})
  /\ killed' = IF proc["shell"] = "forked" THEN "nobody" ELSE "group"
  /\ pc' = "reap"

\* kill(-pid) finds the group once the child has called setsid().
KillProcessGroup ==
  /\ Die(Group)
  /\ killed' = IF proc["shell"] = "forked" THEN "nobody" ELSE "group"
  /\ pc' = "reap"

TimedOut ==
  /\ pc = "check"
  /\ ~exited /\ late
  /\ KillProcessGroup
  /\ UNCHANGED <<late, exited, readVars, serverOpen, pipeVars>>

Collect ==
  /\ proc["shell"] = "zombie"
  /\ proc' = [proc EXCEPT !["shell"] = "reaped"]
  /\ exited' = TRUE

\* The waitpid of killProcessGroup, which waits.
Reap ==
  /\ pc = "reap"
  /\ Collect
  /\ pc' = IF LoopEnds(TRUE, open) THEN "returned" ELSE "poll"
  /\ UNCHANGED <<late, killed, readVars, serverOpen, holds, pipeVars>>

\* The waitpid of the loop, which does not wait.
CheckChild ==
  /\ pc = "check"
  /\ exited \/ ~late
  /\ \/ Collect
     \/ proc["shell"] # "zombie" /\ UNCHANGED <<proc, exited>>
  /\ pc' = IF LoopEnds(exited', open) THEN "returned" ELSE "poll"
  /\ UNCHANGED <<late, killed, readVars, serverOpen, holds, pipeVars>>

TurnEnds == pc' = IF LoopEnds(exited, open') THEN "returned" ELSE "check"

PollWhenExited ==   \* mutant: waits for the command and then reads
  /\ pc = "poll"
  /\ reading' = {s \in open : exited /\ (pipe[s] # <<>> \/ s \notin Held)}
  /\ UNCHANGED <<late, exited, killed, open, budget, truncated, kept,
                 serverOpen, procVars, pipeVars>>
  /\ IF reading' = {} THEN TurnEnds ELSE pc' = "read"

\* poll waits a tenth of a second at most, and not at all once the child exited.
Poll ==
  /\ pc = "poll"
  /\ reading' = {s \in open : pipe[s] # <<>> \/ s \notin Held}
  /\ UNCHANGED <<late, exited, killed, open, budget, truncated, kept,
                 serverOpen, procVars, pipeVars>>
  /\ IF reading' = {} THEN TurnEnds ELSE pc' = "read"

\* What poll's error puts into stderr_data, in place of what was read.
Failure == <<0>>

PollFails ==
  /\ pc = "poll"
  /\ open # {}
  /\ kept' = [kept EXCEPT !["stderr"] = Failure]
  /\ UNCHANGED <<late, exited, open, reading, budget, truncated, serverOpen,
                 pipeVars>>
  /\ IF exited THEN TurnEnds /\ UNCHANGED <<killed, procVars>>
               ELSE KillProcessGroup

\* stdout is drained before stderr.
Draining == IF "stdout" \in reading THEN "stdout" ELSE "stderr"

Take(n, take) ==
  LET s == Draining
  IN /\ kept' = [kept EXCEPT ![s] = @ \o SubSeq(pipe[s], 1, take)]
     /\ budget' = budget - take
     /\ truncated' = (truncated \/ take < n)
     /\ pipe' = [pipe EXCEPT ![s] = SubSeq(@, n + 1, Len(@))]

\* One read() of readFromPipe; the command may fill the pipe again meanwhile.
ReadSome ==
  /\ pc = "read"
  /\ \E n \in 1 .. Len(pipe[Draining]) : Take(n, IF n < budget THEN n ELSE budget)
  /\ UNCHANGED <<pc, late, exited, killed, open, reading, serverOpen, procVars,
                 wrote>>

\* read() returns EAGAIN, or 0 when nobody holds the write end any more.
Drained ==
  /\ pc = "read"
  /\ pipe[Draining] = <<>>
  /\ open' = IF Draining \in Held THEN open ELSE open \ {Draining}
  /\ reading' = reading \ {Draining}
  /\ UNCHANGED <<late, exited, killed, budget, truncated, kept, serverOpen,
                 procVars, pipeVars>>
  /\ IF reading' = {} THEN TurnEnds ELSE pc' = pc

------------------------------------------------------------------------------
(* The processes.                                                             *)

\* The child of another call, forked while this one's write ends are open.
StrangerForked ==
  /\ serverOpen
  /\ Spawn("stranger", "away", Streams)
  /\ UNCHANGED <<callVars, serverOpen, pipeVars>>

SetSid ==
  /\ proc["shell"] = "forked"
  /\ proc' = [proc EXCEPT !["shell"] = "group"]
  /\ UNCHANGED <<callVars, serverOpen, holds, pipeVars>>

\* A write to a full pipe blocks.
Write(s) ==
  LET n == IF wrote[s] > MaxBytes THEN wrote[s] ELSE wrote[s] + 1
  IN /\ \E p \in {"shell", "job"} : proc[p] \in {"group", "away"} /\ s \in holds[p]
     /\ Len(pipe[s]) < PipeRoom
     /\ wrote' = [wrote EXCEPT ![s] = n]
     /\ pipe' = [pipe EXCEPT ![s] = Append(@, n)]
     /\ UNCHANGED <<callVars, serverOpen, procVars>>

CloseStream(s) ==
  /\ proc["shell"] = "group"
  /\ holds' = [holds EXCEPT !["shell"] = @ \ {s}]
  /\ UNCHANGED <<callVars, serverOpen, proc, pipeVars>>

StartJob ==
  /\ proc["shell"] = "group"
  /\ Spawn("job", "group", holds["shell"])
  /\ UNCHANGED <<callVars, serverOpen, pipeVars>>

\* The job starts a session of its own, out of the reach of the kill.
LeaveGroup ==
  /\ proc["job"] = "group"
  /\ proc' = [proc EXCEPT !["job"] = "away"]
  /\ UNCHANGED <<callVars, serverOpen, holds, pipeVars>>

Exit(p) ==
  /\ proc[p] \in {"group", "away"}
  /\ Die({p})
  /\ UNCHANGED <<callVars, serverOpen, pipeVars>>

------------------------------------------------------------------------------
RunCommand ==
  \/ Fork \/ ForkFails \/ CloseEnds
  \/ TimedOut \/ Reap \/ CheckChild
  \/ Poll \/ PollFails \/ ReadSome \/ Drained

Command ==
  \/ StrangerForked \/ SetSid \/ StartJob \/ LeaveGroup
  \/ \E p \in Processes : Exit(p)
  \/ \E s \in Streams : Write(s) \/ CloseStream(s)

Next == Refuse \/ OpenPipes \/ Deadline \/ RunCommand \/ Command

Spec == Init /\ [][Next]_vars

\* The pool thread is scheduled, the forked child comes to run and poll does not
\* fail for ever.  Nothing is asked of the command, nor that the deadline comes.
FairSpec ==
  /\ Spec
  /\ WF_vars(RunCommand) /\ SF_vars(Poll)
  /\ WF_vars(SetSid)

------------------------------------------------------------------------------
\* The values the variables take.
TypeOK ==
  /\ pc \in {"idle", "fork", "parent", "refused", "returned"} \cup Running
  /\ late \in BOOLEAN
  /\ exited \in BOOLEAN
  /\ killed \in {"no", "nobody", "group"}
  /\ open \subseteq Streams
  /\ reading \subseteq Streams
  /\ budget \in 0 .. MaxBytes
  /\ truncated \in BOOLEAN
  /\ kept \in [Streams -> Seq(Nat)]
  /\ serverOpen \in BOOLEAN
  /\ proc \in [Processes -> {"none", "forked", "group", "away", "zombie", "reaped",
                             "dead"}]
  /\ holds \in [Processes -> SUBSET Streams]
  /\ pipe \in [Streams -> Seq(Nat)]
  /\ wrote \in [Streams -> 0 .. MaxBytes + 1]

PollFailed == kept["stderr"] # <<>> /\ Head(kept["stderr"]) = Head(Failure)

Kept == Len(kept["stdout"]) + Len(kept["stderr"])

\* What the call returns is the beginning of each stream, without a hole, and
\* within the limit; it says [TRUNCATED] exactly when bytes were left out, and
\* then the limit is used up.  What the command leaves in the pipes when it exits
\* or is killed is part of its output.  (If poll failed, its message has taken the
\* place of what was read of stderr.)
OutputIsWhole ==
  pc = "returned" /\ ~PollFailed =>
    /\ \A s \in Streams : kept[s] = [i \in 1 .. Len(kept[s]) |-> i]
    /\ IF truncated
       THEN Kept = MaxBytes /\ wrote["stdout"] + wrote["stderr"] > MaxBytes
       ELSE Kept <= MaxBytes /\ \A s \in Streams : Len(kept[s]) = wrote[s]

\* The deadline is not looked at once the child is reaped, and its kill does not
\* reach these: they may hold a pipe of the call open for ever.
Survivors ==
  {p \in Alive : holds[p] # {} /\ (p \in Group => killed # "group")}

\* The kill fell before the child's setsid(), and the call waits for the command.
KillMissed == killed = "nobody" /\ ~exited

\* Once its deadline comes the call returns, unless for ever a process beyond its
\* kill holds a pipe, the kill was missed, or the command keeps ahead of the drain
\* loop, which looks at no clock.
CallReturns ==
  \/ late ~> pc = "returned"
  \/ <>[](exited /\ Survivors # {})
  \/ <>[]KillMissed
  \/ <>[](pc = "read")

\* No writer stays blocked on a full pipe, on either stream, whether or not the
\* deadline comes (shell_tool.h: poll reads while it waits, so that the pipes do not
\* deadlock), but for a missed kill and for the stream that waits while the other
\* is never dry.
WritersAreNotBlocked ==
  \A s \in Streams :
    \/ Len(pipe[s]) = PipeRoom ~> Len(pipe[s]) < PipeRoom
    \/ <>[]KillMissed
    \/ <>[](pc = "read" /\ Draining # s)
=============================================================================
