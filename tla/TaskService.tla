----------------------------- MODULE TaskService -----------------------------
(* What a thread pool behind a bounded queue promises: a task is accepted,    *)
(* turned away because the queue is full, or refused because the pool is      *)
(* stopping; an accepted task is started once, by one thread, and ends once;  *)
(* and the pool is closed only when every task it accepted has ended.         *)
CONSTANT Tasks

VARIABLES
  phase,    \* how far each task has come
  closing,  \* no task is accepted any more
  closed    \* the pool is gone

vars == <<phase, closing, closed>>

Move(t, from, to) == phase[t] = from /\ phase' = [phase EXCEPT ![t] = to]

Init ==
  /\ phase = [t \in Tasks |-> "new"]
  /\ closing = FALSE
  /\ closed = FALSE

Accept(t) == ~closing /\ Move(t, "new", "accepted") /\ UNCHANGED <<closing, closed>>

TurnAway(t) == Move(t, "new", "busy") /\ UNCHANGED <<closing, closed>>

Refuse(t) == closing /\ Move(t, "new", "refused") /\ UNCHANGED <<closing, closed>>

Start(t) == ~closed /\ Move(t, "accepted", "running") /\ UNCHANGED <<closing, closed>>

Complete(t) == ~closed /\ Move(t, "running", "done") /\ UNCHANGED <<closing, closed>>

BeginClose == ~closing /\ closing' = TRUE /\ UNCHANGED <<phase, closed>>

Close ==
  /\ closing
  /\ \A t \in Tasks : phase[t] \notin {"accepted", "running"}
  /\ closed' = TRUE
  /\ UNCHANGED <<phase, closing>>

Next ==
  \/ \E t \in Tasks : Accept(t) \/ TurnAway(t) \/ Refuse(t)
  \/ \E t \in Tasks : Start(t) \/ Complete(t)
  \/ BeginClose
  \/ Close

Spec == Init /\ [][Next]_vars

=============================================================================
