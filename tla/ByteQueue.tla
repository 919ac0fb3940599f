----------------------------- MODULE ByteQueue ------------------------------
(***************************************************************************)
(* What the keyboard buffer promises: bytes come out in the order they     *)
(* went in, each of them once; a byte that finds the buffer full is lost,  *)
(* and no other byte is.                                                   *)
(***************************************************************************)
EXTENDS Naturals, Sequences

CONSTANTS Byte, Capacity

VARIABLES
  q,    \* the bytes in the buffer
  out   \* the byte that was taken out last

Init == q = <<>> /\ out \in Byte

Offer ==
  /\ \E b \in Byte : q' = IF Len(q) < Capacity THEN Append(q, b) ELSE q
  /\ UNCHANGED out

Take ==
  /\ q # <<>>
  /\ q' = Tail(q)
  /\ out' = Head(q)

Next == Offer \/ Take

Spec == Init /\ [][Next]_<<q, out>>
=============================================================================
