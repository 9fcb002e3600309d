---------------------------- MODULE AsyncLogger ----------------------------
(* The AsyncLogger behind the Logger: any thread appends lines to the current *)
(* buffer under the mutex; the backend thread swaps the buffers when 512      *)
(* lines have come or 100 ms have gone by and writes the other one to the     *)
(* file outside the mutex; the owner stops the backend and writes what is     *)
(* left, and may start it again on another file (Logger::setFile).            *)
(*                                                                            *)
(* The buffers are the sequences `current` and `flush`.  The mutex is held    *)
(* over more than one step only by the backend inside cond_.wait_for, between *)
(* the test of the predicate and the release that puts it to sleep.  stop()   *)
(* stores running_ and notifies without it.                                   *)
EXTENDS Naturals, Sequences, Functions

CONSTANTS
  Lines,      \* the entries appended, each a fresh one
  Threshold,  \* kFlushThreshold
  MaxStarts   \* bound: how often start() is called

ASSUME BoundsArePositive == Threshold \in Nat \ {0} /\ MaxStarts \in Nat \ {0}

VARIABLES
  running,   \* running_
  backend,   \* where the backend thread is
  current,   \* current_buffer_->lines
  flush,     \* flush_buffer_->lines
  written,   \* what is in the files, in the order it was written
  lost,      \* history: the lines dropped because the file did not open
  appended,  \* history: the lines append() was given
  owner,     \* where the caller of start() and stop() is
  starts,    \* how often start() has been called
  owed       \* history: the lines appended before stop() was called

vars == <<running, backend, current, flush, written, lost, appended, owner,
          starts, owed>>

ownerVars == <<owner, starts, owed>>
fileVars == <<written, lost>>

BackendStates == {"none", "check", "lock", "holding", "waiting", "swap", "write"}
OwnerStates == {"stopped", "started", "stopping", "joining"}

Init ==
  /\ running = FALSE
  /\ backend = "none"
  /\ current = <<>>
  /\ flush = <<>>
  /\ written = <<>>
  /\ lost = {}
  /\ appended = {}
  /\ owner = "stopped"
  /\ starts = 0
  /\ owed = {}

MutexFree == backend # "holding"

\* An ofstream is opened for appending; if it cannot be, the lines are dropped.
ToFile(s) ==
  \/ written' = written \o s /\ UNCHANGED lost
  \/ lost' = lost \cup Range(s) /\ UNCHANGED written

\* notify_one: the backend is the only thread that waits.
Notified == IF backend = "waiting" THEN "lock" ELSE backend

------------------------------------------------------------------------------
(* append, from any thread, started or not.                                   *)

AppendLine(l) ==
  /\ MutexFree
  /\ l \notin appended
  /\ appended' = appended \cup {l}
  /\ current' = Append(current, l)
  /\ backend' = IF Len(current') >= Threshold THEN Notified ELSE backend
  /\ UNCHANGED <<running, flush, fileVars, ownerVars>>

------------------------------------------------------------------------------
(* backendRoutine.                                                            *)

CheckRunning ==
  /\ backend = "check"
  /\ backend' = IF running THEN "lock" ELSE "none"
  /\ UNCHANGED <<running, current, flush, fileVars, appended, ownerVars>>

Ready == ~running \/ Len(current) >= Threshold

WaitIsOver ==
  /\ backend = "lock"
  /\ Ready
  /\ backend' = "swap"
  /\ UNCHANGED <<running, current, flush, fileVars, appended, ownerVars>>

BeginWait ==
  /\ backend = "lock"
  /\ ~Ready
  /\ backend' = "holding"
  /\ UNCHANGED <<running, current, flush, fileVars, appended, ownerVars>>

Sleep ==
  /\ backend = "holding"
  /\ backend' = "waiting"
  /\ UNCHANGED <<running, current, flush, fileVars, appended, ownerVars>>

NoTimeout == FALSE   \* mutant: wait instead of wait_for

\* The 100 ms are over, whatever the predicate says.
Timeout ==
  /\ backend = "waiting"
  /\ backend' = "swap"
  /\ UNCHANGED <<running, current, flush, fileVars, appended, ownerVars>>

Spurious ==
  /\ backend = "waiting"
  /\ backend' = "lock"
  /\ UNCHANGED <<running, current, flush, fileVars, appended, ownerVars>>

\* continue goes back to the test of running_.
NothingToFlush ==
  /\ backend = "swap"
  /\ current = <<>>
  /\ backend' = "check"
  /\ UNCHANGED <<running, current, flush, fileVars, appended, ownerVars>>

SwapBuffers ==
  /\ backend = "swap"
  /\ current # <<>>
  /\ current' = flush
  /\ flush' = current
  /\ backend' = "write"
  /\ UNCHANGED <<running, fileVars, appended, ownerVars>>

WriteKeepsBuffer ==   \* mutant: flush_buffer_->lines.clear() is forgotten
  /\ backend = "write"
  /\ ToFile(flush)
  /\ backend' = "check"
  /\ UNCHANGED <<running, current, flush, appended, ownerVars>>

WriteFlush ==
  /\ backend = "write"
  /\ ToFile(flush)
  /\ flush' = <<>>
  /\ backend' = "check"
  /\ UNCHANGED <<running, current, appended, ownerVars>>

------------------------------------------------------------------------------
(* The owner: start and stop.                                                 *)

Start ==
  /\ owner = "stopped"
  /\ starts < MaxStarts
  /\ starts' = starts + 1
  /\ running' = TRUE
  /\ backend' = "check"
  /\ owner' = "started"
  /\ UNCHANGED <<current, flush, fileVars, appended, owed>>

StopStore ==
  /\ owner = "started"
  /\ running' = FALSE
  /\ owed' = appended
  /\ owner' = "stopping"
  /\ UNCHANGED <<backend, current, flush, fileVars, appended, starts>>

StopNotify ==
  /\ owner = "stopping"
  /\ backend' = Notified
  /\ owner' = "joining"
  /\ UNCHANGED <<running, current, flush, fileVars, appended, starts, owed>>

StopDropsCurrent ==   \* mutant: only flush_buffer_ is written
  /\ owner = "joining"
  /\ backend = "none"
  /\ ToFile(flush)
  /\ current' = <<>>
  /\ flush' = <<>>
  /\ owner' = "stopped"
  /\ UNCHANGED <<running, backend, appended, starts, owed>>

StopUnjoined ==   \* mutant: the final flush does not wait for the join
  /\ owner = "joining"
  /\ ToFile(current \o flush)
  /\ current' = <<>>
  /\ flush' = <<>>
  /\ owner' = "stopped"
  /\ UNCHANGED <<running, backend, appended, starts, owed>>

\* Joined; the rest is written under the mutex: current_buffer_ first, then
\* what flush_buffer_ may hold.
StopFlush ==
  /\ owner = "joining"
  /\ backend = "none"
  /\ ToFile(current \o flush)
  /\ current' = <<>>
  /\ flush' = <<>>
  /\ owner' = "stopped"
  /\ UNCHANGED <<running, backend, appended, starts, owed>>

------------------------------------------------------------------------------
BackendRuns ==
  \/ CheckRunning \/ WaitIsOver \/ BeginWait \/ Sleep \/ Timeout
  \/ NothingToFlush \/ SwapBuffers \/ WriteFlush

Next ==
  \/ \E l \in Lines : AppendLine(l)
  \/ BackendRuns
  \/ Spurious
  \/ Start \/ StopStore \/ StopNotify \/ StopFlush

Spec == Init /\ [][Next]_vars

(* The backend is scheduled; its timeout, counted from the call of wait_for   *)
(* and not from the last wakeup, comes however often it is woken before (SF); *)
(* a stop() that has begun goes on.  Nobody has to append, start or stop.     *)
FairSpec ==
  /\ Spec
  /\ WF_vars(BackendRuns)
  /\ SF_vars(Timeout)
  /\ WF_vars(StopNotify)
  /\ WF_vars(StopFlush)

------------------------------------------------------------------------------
\* Every variable holds a value of its type, the buffers and the files hold
\* only lines that were appended, and flush_buffer_ is empty whenever it is
\* about to become the buffer that append() fills (append, backendRoutine).
TypeOK ==
  /\ running \in BOOLEAN
  /\ backend \in BackendStates
  /\ appended \subseteq Lines
  /\ current \in Seq(appended)
  /\ flush \in Seq(appended)
  /\ backend # "write" => flush = <<>>
  /\ written \in Seq(appended)
  /\ lost \subseteq appended
  /\ owner \in OwnerStates
  /\ starts \in 0 .. MaxStarts
  /\ owed \subseteq appended

File == INSTANCE LogFile
          WITH submitted <- appended, waiting <- flush \o current

\* However appends interleave with the swap, the write and the final flush, the
\* lines reach the file in the order they were appended and at most once: the
\* block being written is always the oldest (backendRoutine, stop).
WritesInOrder == File!Spec

\* What was appended before stop() was called is in the file, or lost to a file
\* that did not open, when stop() has returned (stop).
StopWritesAll ==
  owner = "stopped" => owed \subseteq Range(written) \cup lost

\* A line appended while the backend runs leaves the buffers without help from
\* further lines or from stop(): the timeout sees to it (backendRoutine).
LinesAreFlushed ==
  \A l \in Lines :
    l \in Range(current) /\ owner # "stopped" ~> l \in Range(written) \cup lost

\* stop() returns, also when its notify falls between the backend's test of
\* the predicate and its sleep (wait_for).
StopReturns == owner = "stopping" ~> owner = "stopped"

=============================================================================
