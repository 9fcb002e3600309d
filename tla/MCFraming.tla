------------------------------ MODULE MCFraming ------------------------------
EXTENDS Framing

X == [is |-> "text", of |-> "x"]
Y == [is |-> "text", of |-> "y"]

MCBytes == {CR, LF, BadLength, X, Y} \cup {ContentLength(n) : n \in 2 .. 3}
MCZero == Y

\* encode() never starts a body with a line break; other writers of JSON may.
MCRequests == {<<X, Y>>}
MCGarbage == {<<Y, CR, LF>>}
MCLines == {<<>>, <<Y, CR>>}

ASSUME PeerKeepsFrames == WellFramed
=============================================================================
