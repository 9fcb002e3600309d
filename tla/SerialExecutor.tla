--------------------------- MODULE SerialExecutor ---------------------------
(* What an EventLoop promises to the threads that hand it functors: they run  *)
(* one at a time, each at most once, in the order they were accepted.  A      *)
(* functor that runs may hand in one more.  Nothing is promised about when:   *)
(* the loop may stop at any point and leave the rest unrun.                   *)
EXTENDS Sequences

CONSTANT Functors   \* the closures handed in, each one an object of its own

VARIABLES
  submitted,  \* the functors accepted so far
  todo,       \* those not run yet, in the order they will run
  done        \* those run, in the order they ran

vars == <<submitted, todo, done>>

Fresh == Functors \ submitted

Init ==
  /\ submitted = {}
  /\ todo = <<>>
  /\ done = <<>>

Submit ==
  \E f \in Fresh :
    /\ submitted' = submitted \cup {f}
    /\ todo' = Append(todo, f)
    /\ UNCHANGED done

Execute ==
  /\ todo # <<>>
  /\ done' = Append(done, Head(todo))
  /\ \/ todo' = Tail(todo) /\ UNCHANGED submitted
     \/ \E f \in Fresh : /\ submitted' = submitted \cup {f}
                         /\ todo' = Append(Tail(todo), f)

Next == Submit \/ Execute

Spec == Init /\ [][Next]_vars

=============================================================================
