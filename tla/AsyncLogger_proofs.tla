------------------------- MODULE AsyncLogger_proofs -------------------------
(* Proofs about AsyncLogger for any set of lines, threshold and number of     *)
(* starts.                                                                    *)
EXTENDS AsyncLogger, SequenceTheorems, TLAPS

\* stop() does not return before the join.
JoinedWhenStopped == owner = "stopped" => backend = "none"

TypeInv == TypeOK /\ JoinedWhenStopped

LEMMA ToFileType ==
  ASSUME TypeOK, NEW s \in Seq(appended), ToFile(s)
  PROVE  written' \in Seq(appended) /\ lost' \subseteq appended
<1>1. Range(s) \subseteq appended
  BY ElementOfSeq DEF Range
<1>2. written \in Seq(appended) /\ lost \subseteq appended
  BY DEF TypeOK
<1>3. written \o s \in Seq(appended)
  BY <1>2, ConcatProperties
<1>4. \/ written' = written \o s /\ lost' = lost
      \/ lost' = lost \cup Range(s) /\ written' = written
  BY DEF ToFile
<1>5. QED
  BY <1>1, <1>2, <1>3, <1>4

LEMMA TypeStep == TypeInv /\ [Next]_vars => TypeInv'
<1> SUFFICES ASSUME TypeInv, [Next]_vars
             PROVE  TypeInv'
  OBVIOUS
<1> USE BoundsArePositive DEF TypeInv, TypeOK, JoinedWhenStopped,
        BackendStates, OwnerStates, ownerVars, fileVars
<1>0. <<>> \in Seq(appended)
  OBVIOUS
<1>1. ASSUME NEW l \in Lines, AppendLine(l)
      PROVE  TypeInv'
  <2>1. appended \subseteq appended' /\ l \in appended' /\ appended' \subseteq Lines
    BY <1>1 DEF AppendLine
  <2>2. /\ current \in Seq(appended') /\ flush \in Seq(appended')
        /\ written \in Seq(appended')
    BY <2>1, SeqMonotonic
  <2>3. current' \in Seq(appended')
    BY <1>1, <2>1, <2>2, AppendProperties DEF AppendLine
  <2>4. /\ backend' \in BackendStates
        /\ backend' # "write" => backend # "write"
        /\ backend = "none" => backend' = "none"
    BY <1>1 DEF AppendLine, Notified
  <2>5. QED
    BY <1>1, <2>1, <2>2, <2>3, <2>4 DEF AppendLine
<1>2. CASE CheckRunning \/ WaitIsOver \/ BeginWait \/ Sleep \/ Timeout
           \/ NothingToFlush \/ Spurious
  BY <1>2 DEF CheckRunning, WaitIsOver, BeginWait, Sleep, Timeout,
              NothingToFlush, Spurious
<1>3. CASE SwapBuffers
  BY <1>3 DEF SwapBuffers
<1>4. CASE WriteFlush
  <2>1. written' \in Seq(appended) /\ lost' \subseteq appended
    BY <1>4, ToFileType DEF WriteFlush
  <2>2. QED
    BY <1>0, <1>4, <2>1 DEF WriteFlush
<1>5. CASE Start \/ StopStore
  <2>1. CASE Start
    BY <2>1 DEF Start
  <2>2. CASE StopStore
    BY <2>2 DEF StopStore
  <2>3. QED
    BY <1>5, <2>1, <2>2
<1>6. CASE StopNotify
  BY <1>6 DEF StopNotify, Notified
<1>7. CASE StopFlush
  <2>1. current \o flush \in Seq(appended)
    OBVIOUS
  <2>2. written' \in Seq(appended) /\ lost' \subseteq appended
    BY <1>7, <2>1, ToFileType DEF StopFlush
  <2>3. QED
    BY <1>0, <1>7, <2>2 DEF StopFlush
<1>8. CASE UNCHANGED vars
  BY <1>8 DEF vars
<1>9. QED
  BY <1>1, <1>2, <1>3, <1>4, <1>5, <1>6, <1>7, <1>8 DEF Next, BackendRuns

LEMMA InitTypeInv == Init => TypeInv
<1> SUFFICES ASSUME Init
             PROVE  TypeInv
  OBVIOUS
<1>1. <<>> \in Seq(appended)
  OBVIOUS
<1>2. /\ current \in Seq(appended) /\ flush \in Seq(appended)
      /\ written \in Seq(appended)
  BY <1>1 DEF Init
<1>3. /\ running \in BOOLEAN /\ appended \subseteq Lines
      /\ lost \subseteq appended /\ owed \subseteq appended
  BY DEF Init
<1>4. starts \in 0 .. MaxStarts
  BY BoundsArePositive DEF Init
<1>5. QED
  BY <1>2, <1>3, <1>4
     DEF Init, TypeInv, TypeOK, JoinedWhenStopped, BackendStates, OwnerStates

LEMMA TypeInvHolds == Spec => []TypeInv
  BY InitTypeInv, TypeStep, PTL DEF Spec

\* The backend and any number of appenders keep every variable in its type,
\* and flush_buffer_ is empty at every swap (append, backendRoutine, stop).
THEOREM TypeCorrect == Spec => []TypeOK
<1>1. TypeInv => TypeOK
  BY DEF TypeInv
<1>2. QED
  BY <1>1, TypeInvHolds, PTL

------------------------------------------------------------------------------
(* The refinement.                                                            *)

LEMMA AppendAtEnd ==
  ASSUME NEW S, NEW s \in Seq(S), NEW t \in Seq(S), NEW e \in S
  PROVE  s \o Append(t, e) = Append(s \o t, e)
  OBVIOUS

\* A block from the front of the waiting lines.
LEMMA FrontBlock ==
  ASSUME NEW S, NEW s \in Seq(S), NEW t \in Seq(S), s # <<>>
  PROVE  /\ Len(s) \in 1 .. Len(s \o t)
         /\ SubSeq(s \o t, 1, Len(s)) = s
         /\ SubSeq(s \o t, Len(s) + 1, Len(s \o t)) = t
<1>1. /\ s \o t \in Seq(S)
      /\ Len(s \o t) = Len(s) + Len(t)
      /\ Len(s) \in Nat \ {0} /\ Len(t) \in Nat
  BY ConcatProperties, EmptySeq
<1>2. SubSeq(s \o t, 1, Len(s)) = s
  BY <1>1, SubSeqOfConcat1, SubSeqFull
<1>3. SubSeq(s \o t, Len(s) + 1, Len(s \o t)) = t
  <2>1. CASE t = <<>>
    BY <1>1, <2>1, SubSeqEmpty
  <2>2. CASE t # <<>>
    <3>1. Len(t) \in Nat \ {0}
      BY <2>2, EmptySeq
    <3>2. SubSeq(s \o t, Len(s) + 1, Len(s) + Len(t)) = SubSeq(t, 1, Len(t))
      <4>1. /\ Len(s) + 1 \in Len(s) + 1 .. Len(s) + Len(t)
            /\ Len(s) + Len(t) \in Len(s) + 1 .. Len(s) + Len(t)
        BY <1>1, <3>1
      <4>2. Len(s) + 1 - Len(s) = 1 /\ Len(s) + Len(t) - Len(s) = Len(t)
        BY <1>1
      <4>3. SubSeq(s \o t, Len(s) + 1, Len(s) + Len(t))
              = SubSeq(t, Len(s) + 1 - Len(s), Len(s) + Len(t) - Len(s))
        BY <4>1, SubSeqOfConcat2
      <4>4. QED
        BY <4>2, <4>3
    <3>3. QED
      BY <1>1, <3>2, SubSeqFull
  <2>3. QED
    BY <2>1, <2>2
<1>4. QED
  BY <1>1, <1>2, <1>3

\* The same, of what waits in the two buffers.
LEMMA FrontOfWaiting ==
  ASSUME NEW s \in Seq(appended), NEW t \in Seq(appended), s # <<>>,
         flush \o current = s \o t
  PROVE  /\ Len(s) \in 1 .. Len(flush \o current)
         /\ SubSeq(flush \o current, 1, Len(s)) = s
         /\ SubSeq(flush \o current, Len(s) + 1, Len(flush \o current)) = t
<1>1. /\ Len(s) \in 1 .. Len(s \o t)
      /\ SubSeq(s \o t, 1, Len(s)) = s
      /\ SubSeq(s \o t, Len(s) + 1, Len(s \o t)) = t
  BY FrontBlock
<1>2. QED
  BY <1>1

\* A block that goes to the file, or is lost, is a step of LogFile.
LEMMA BlockLeaves ==
  ASSUME NEW s \in Seq(appended), NEW t \in Seq(appended), s # <<>>,
         flush \o current = s \o t, ToFile(s), flush' \o current' = t,
         UNCHANGED appended
  PROVE  File!Write \/ File!Lose
<1>1. /\ Len(s) \in 1 .. Len(flush \o current)
      /\ SubSeq(flush \o current, 1, Len(s)) = s
      /\ SubSeq(flush \o current, Len(s) + 1, Len(flush \o current)) = t
  BY FrontOfWaiting
<1>2. CASE written' = written \o s
  BY <1>1, <1>2 DEF File!Write
<1>3. CASE UNCHANGED written
  BY <1>1, <1>3 DEF File!Lose
<1>4. QED
  BY <1>2, <1>3 DEF ToFile

\* Under every interleaving the lines reach the file in the order in which
\* append() accepted them and at most once (append, backendRoutine, stop).
THEOREM LoggerIsALogFile == Spec => WritesInOrder
<1>1. Init => File!Init
  BY DEF Init, File!Init
<1>2. TypeInv /\ [Next]_vars => [File!Next]_File!vars
  <2> SUFFICES ASSUME TypeInv, [Next]_vars
               PROVE  [File!Next]_File!vars
    OBVIOUS
  <2> USE DEF ownerVars, fileVars
  <2>0. /\ current \in Seq(appended) /\ flush \in Seq(appended)
        /\ appended \subseteq Lines /\ TypeOK
    BY DEF TypeInv, TypeOK
  <2>1. CASE UNCHANGED <<appended, flush, current, written>>
    BY <2>1 DEF File!vars
  <2>2. ASSUME NEW l \in Lines, AppendLine(l)
        PROVE  File!Submit
    <3>1. flush \in Seq(Lines) /\ current \in Seq(Lines)
      BY <2>0, SeqMonotonic
    <3>2. flush \o Append(current, l) = Append(flush \o current, l)
      BY <3>1, AppendAtEnd
    <3>3. QED
      BY <2>2, <3>2 DEF AppendLine, File!Submit
  <2>3. CASE CheckRunning \/ WaitIsOver \/ BeginWait \/ Sleep \/ Timeout
             \/ NothingToFlush \/ Spurious \/ Start \/ StopStore \/ StopNotify
    BY <2>1, <2>3
       DEF CheckRunning, WaitIsOver, BeginWait, Sleep, Timeout,
           NothingToFlush, Spurious, Start, StopStore, StopNotify
  <2>4. CASE SwapBuffers
    <3>1. flush = <<>>
      BY <2>4 DEF SwapBuffers, TypeInv, TypeOK
    <3>2. flush' \o current' = flush \o current
      BY <2>0, <2>4, <3>1 DEF SwapBuffers
    <3>3. QED
      BY <2>4, <3>2 DEF SwapBuffers, File!vars
  <2>5. CASE WriteFlush
    <3>1. CASE flush = <<>>
      <4>1. UNCHANGED <<appended, flush, current>>
        BY <2>5, <3>1 DEF WriteFlush
      <4>2. written' = written
        BY <2>0, <2>5, <3>1 DEF WriteFlush, ToFile, TypeOK
      <4>3. QED
        BY <2>1, <4>1, <4>2
    <3>2. CASE flush # <<>>
      <4>1. flush' \o current' = current
        BY <2>0, <2>5 DEF WriteFlush
      <4>2. File!Write \/ File!Lose
        BY <2>0, <2>5, <3>2, <4>1, BlockLeaves DEF WriteFlush
      <4>3. QED
        BY <4>2 DEF File!Next
    <3>3. QED
      BY <3>1, <3>2
  <2>6. CASE StopFlush
    <3>1. flush = <<>>
      BY <2>6 DEF StopFlush, TypeInv, TypeOK
    <3>2. current \o flush = current /\ flush \o current = current
      BY <2>0, <3>1
    <3>3. flush' \o current' = <<>>
      BY <2>6 DEF StopFlush
    <3>4. CASE current = <<>>
      <4>1. UNCHANGED <<appended, flush, current>>
        BY <2>6, <3>1, <3>4 DEF StopFlush
      <4>2. written' = written
        BY <2>0, <2>6, <3>2, <3>4 DEF StopFlush, ToFile, TypeOK
      <4>3. QED
        BY <2>1, <4>1, <4>2
    <3>5. CASE current # <<>>
      <4>1. /\ ToFile(current) /\ UNCHANGED appended
            /\ <<>> \in Seq(appended) /\ current \o <<>> = current
        BY <2>0, <2>6, <3>2 DEF StopFlush
      <4>2. File!Write \/ File!Lose
        BY <2>0, <3>2, <3>3, <3>5, <4>1, BlockLeaves
      <4>3. QED
        BY <4>2 DEF File!Next
    <3>6. QED
      BY <3>4, <3>5
  <2>7. CASE UNCHANGED vars
    BY <2>1, <2>7 DEF vars
  <2>8. QED
    BY <2>2, <2>3, <2>4, <2>5, <2>6, <2>7 DEF Next, BackendRuns, File!Next
<1>3. QED
  BY <1>1, <1>2, TypeInvHolds, PTL DEF Spec, WritesInOrder, File!Spec

------------------------------------------------------------------------------
(* No line goes missing.                                                      *)

LEMMA RangeOfConcat ==
  ASSUME NEW S, NEW s \in Seq(S), NEW t \in Seq(S)
  PROVE  Range(s \o t) = Range(s) \cup Range(t)
<1>1. /\ s \o t \in Seq(S) /\ Len(s \o t) = Len(s) + Len(t)
      /\ \A i \in 1 .. Len(s) : (s \o t)[i] = s[i]
      /\ \A i \in 1 .. Len(t) : (s \o t)[Len(s) + i] = t[i]
      /\ \A i \in 1 .. Len(s) + Len(t) :
           i \in 1 .. Len(s) \/ i - Len(s) \in 1 .. Len(t)
  OBVIOUS
<1>2. /\ DOMAIN s = 1 .. Len(s) /\ DOMAIN t = 1 .. Len(t)
      /\ DOMAIN (s \o t) = 1 .. Len(s) + Len(t)
      /\ Len(s) \in Nat /\ Len(t) \in Nat
  BY <1>1
<1>3. ASSUME NEW x \in Range(s \o t)
      PROVE  x \in Range(s) \cup Range(t)
  <2>1. PICK i \in 1 .. Len(s) + Len(t) : (s \o t)[i] = x
    BY <1>2, <1>3 DEF Range
  <2>2. CASE i \in 1 .. Len(s)
    BY <1>1, <1>2, <2>1, <2>2 DEF Range
  <2>3. CASE i - Len(s) \in 1 .. Len(t)
    <3>1. Len(s) + (i - Len(s)) = i
      BY <1>2
    <3>2. t[i - Len(s)] = x
      BY <1>1, <2>1, <2>3, <3>1
    <3>3. QED
      BY <1>2, <2>3, <3>2 DEF Range
  <2>4. QED
    BY <1>1, <2>1, <2>2, <2>3
<1>4. ASSUME NEW x \in Range(s)
      PROVE  x \in Range(s \o t)
  <2>1. PICK i \in 1 .. Len(s) : s[i] = x
    BY <1>2, <1>4 DEF Range
  <2>2. i \in 1 .. Len(s) + Len(t) /\ (s \o t)[i] = x
    BY <1>1, <1>2, <2>1
  <2>3. QED
    BY <1>2, <2>2 DEF Range
<1>5. ASSUME NEW x \in Range(t)
      PROVE  x \in Range(s \o t)
  <2>1. PICK i \in 1 .. Len(t) : t[i] = x
    BY <1>2, <1>5 DEF Range
  <2>2. Len(s) + i \in 1 .. Len(s) + Len(t) /\ (s \o t)[Len(s) + i] = x
    BY <1>1, <1>2, <2>1
  <2>3. QED
    BY <1>2, <2>2 DEF Range
<1>6. QED
  BY <1>3, <1>4, <1>5

LEMMA RangeOfAppend ==
  ASSUME NEW S, NEW s \in Seq(S), NEW e \in S
  PROVE  Range(Append(s, e)) = Range(s) \cup {e}
<1>1. /\ DOMAIN s = 1 .. Len(s) /\ Len(s) \in Nat
      /\ DOMAIN Append(s, e) = 1 .. Len(s) + 1
      /\ Append(s, e)[Len(s) + 1] = e
      /\ \A i \in 1 .. Len(s) : Append(s, e)[i] = s[i]
  OBVIOUS
<1>2. 1 .. Len(s) + 1 = (1 .. Len(s)) \cup {Len(s) + 1}
  BY <1>1
<1>3. QED
  BY <1>1, <1>2 DEF Range

LEMMA RangeOfEmpty == Range(<<>>) = {}
  BY DEF Range

\* The files and the lines known to be lost.
Settled == Range(written) \cup lost

\* Every line that append() took is in a file, lost with one that did not open,
\* or in one of the two buffers.
NoLineMissing ==
  appended \subseteq Settled \cup Range(flush) \cup Range(current)

KeepInv == TypeInv /\ NoLineMissing /\ StopWritesAll

\* A block that is given to a file is settled, and nothing that was settled is
\* taken back.
LEMMA ToFileSettles ==
  ASSUME TypeOK, NEW s \in Seq(appended), ToFile(s)
  PROVE  Settled' = Settled \cup Range(s)
<1>1. written \in Seq(appended)
  BY DEF TypeOK
<1>2. Range(written \o s) = Range(written) \cup Range(s)
  BY <1>1, RangeOfConcat
<1>3. CASE written' = written \o s /\ lost' = lost
  BY <1>2, <1>3 DEF Settled
<1>4. CASE lost' = lost \cup Range(s) /\ written' = written
  BY <1>4 DEF Settled
<1>5. QED
  BY <1>3, <1>4 DEF ToFile

LEMMA KeepStep == KeepInv /\ [Next]_vars => KeepInv'
<1> SUFFICES ASSUME KeepInv, [Next]_vars
             PROVE  KeepInv'
  OBVIOUS
<1> USE DEF ownerVars, fileVars
<1>0. /\ TypeInv /\ TypeInv' /\ TypeOK
      /\ current \in Seq(appended) /\ flush \in Seq(appended)
  BY TypeStep DEF KeepInv, TypeInv, TypeOK
<1>1. SUFFICES NoLineMissing' /\ StopWritesAll'
  BY <1>0 DEF KeepInv
<1>2. NoLineMissing /\ StopWritesAll
  BY DEF KeepInv
<1>3. CASE /\ UNCHANGED <<appended, flush, current, written, lost, owed>>
           /\ owner' = "stopped" => owner = "stopped"
  BY <1>2, <1>3 DEF NoLineMissing, StopWritesAll, Settled
<1>4. ASSUME NEW l \in Lines, AppendLine(l)
      PROVE  NoLineMissing' /\ StopWritesAll'
  <2>1. /\ current \in Seq(Lines) /\ current' = Append(current, l)
        /\ appended' = appended \cup {l}
        /\ UNCHANGED <<flush, written, lost, owner, owed>>
    BY <1>0, <1>4, SeqMonotonic DEF AppendLine, TypeOK
  <2>2. Range(current') = Range(current) \cup {l}
    BY <2>1, RangeOfAppend
  <2>3. QED
    BY <1>2, <2>1, <2>2 DEF NoLineMissing, StopWritesAll, Settled
<1>5. CASE CheckRunning \/ WaitIsOver \/ BeginWait \/ Sleep \/ Timeout
           \/ NothingToFlush \/ Spurious \/ Start \/ StopNotify
  BY <1>3, <1>5
     DEF CheckRunning, WaitIsOver, BeginWait, Sleep, Timeout, NothingToFlush,
         Spurious, Start, StopNotify
<1>6. CASE SwapBuffers
  BY <1>2, <1>6 DEF SwapBuffers, NoLineMissing, StopWritesAll, Settled
<1>7. CASE WriteFlush
  <2>1. Settled' = Settled \cup Range(flush)
    BY <1>0, <1>7, ToFileSettles DEF WriteFlush
  <2>2. QED
    BY <1>2, <1>7, <2>1, RangeOfEmpty
       DEF WriteFlush, NoLineMissing, StopWritesAll, Settled
<1>8. CASE StopStore
  BY <1>2, <1>8 DEF StopStore, NoLineMissing, StopWritesAll, Settled
<1>9. CASE StopFlush
  <2>1. current \o flush \in Seq(appended)
    BY <1>0
  <2>2. Settled' = Settled \cup Range(current \o flush)
    BY <1>0, <1>9, <2>1, ToFileSettles DEF StopFlush
  <2>3. Range(current \o flush) = Range(current) \cup Range(flush)
    BY <1>0, RangeOfConcat
  <2>4. appended \subseteq Settled' /\ owed \subseteq appended
    BY <1>0, <1>2, <2>2, <2>3 DEF NoLineMissing, TypeOK
  <2>5. QED
    BY <1>9, <2>4 DEF StopFlush, NoLineMissing, StopWritesAll, Settled
<1>10. CASE UNCHANGED vars
  BY <1>3, <1>10 DEF vars
<1>11. QED
  BY <1>4, <1>5, <1>6, <1>7, <1>8, <1>9, <1>10 DEF Next, BackendRuns

\* Whatever append() took before stop() was called is in a file, or went down
\* with one that did not open, once stop() has returned: the final flush comes
\* after the join and takes both buffers (stop).
THEOREM StopLosesNothing == Spec => []StopWritesAll
<1>1. Init => KeepInv
  <2> SUFFICES ASSUME Init
               PROVE  KeepInv
    OBVIOUS
  <2>1. TypeInv
    BY InitTypeInv
  <2>2. QED
    BY <2>1 DEF Init, KeepInv, NoLineMissing, StopWritesAll
<1>2. KeepInv => StopWritesAll
  BY DEF KeepInv
<1>3. QED
  BY <1>1, <1>2, KeepStep, PTL DEF Spec

=============================================================================
