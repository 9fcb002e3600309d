----------------------------- MODULE ByteStream -----------------------------
(* What a connection's socket and input buffer together promise the codec:    *)
(* the bytes the peer writes can be read in order, none lost, none twice.     *)
EXTENDS Naturals, Sequences

VARIABLE unread   \* the bytes written and not taken yet

Init == unread = <<>>

\* The peer writes: the bytes go to the end.
Write ==
  /\ Len(unread') > Len(unread)
  /\ SubSeq(unread', 1, Len(unread)) = unread

\* The codec takes bytes from the front.
Take ==
  \E n \in 1 .. Len(unread) : unread' = SubSeq(unread, n + 1, Len(unread))

Next == Write \/ Take

Spec == Init /\ [][Next]_unread

=============================================================================
