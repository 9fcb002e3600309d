------------------------------- MODULE LogFile -------------------------------
(* What an asynchronous log promises to the threads that append to it: the    *)
(* lines reach the file in the order they were appended, each at most once.   *)
(* A block of lines may be lost, when the file cannot be opened; the lines    *)
(* after it are still written in order.                                       *)
EXTENDS Naturals, Sequences

CONSTANT Lines   \* the lines appended, each one an entry of its own

VARIABLES
  submitted,  \* the lines appended so far
  waiting,    \* those not handed to the file yet, in order
  written     \* those in the file

vars == <<submitted, waiting, written>>

Init ==
  /\ submitted = {}
  /\ waiting = <<>>
  /\ written = <<>>

Submit ==
  \E l \in Lines \ submitted :
    /\ submitted' = submitted \cup {l}
    /\ waiting' = Append(waiting, l)
    /\ UNCHANGED written

\* The n oldest lines leave together.
Write ==
  \E n \in 1 .. Len(waiting) :
    /\ written' = written \o SubSeq(waiting, 1, n)
    /\ waiting' = SubSeq(waiting, n + 1, Len(waiting))
    /\ UNCHANGED submitted

Lose ==
  \E n \in 1 .. Len(waiting) :
    /\ waiting' = SubSeq(waiting, n + 1, Len(waiting))
    /\ UNCHANGED <<submitted, written>>

Next == Submit \/ Write \/ Lose

Spec == Init /\ [][Next]_vars

=============================================================================
