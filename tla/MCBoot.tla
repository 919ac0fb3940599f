------------------------------ MODULE MCBoot -------------------------------
EXTENDS Boot

(* Names that differ in the first character, and one that differs in the   *)
(* last.                                                                   *)
MCLoader == <<"L", "O">>
MCKernel == <<"K", "O">>
MCOthers == {<<"L", "X">>}

Range(b, l, t) == [base |-> b, length |-> l, type |-> t]

(* None; in order, with the rest of a page table; reserved ranges, out of  *)
(* order; memory above 4 GB.                                               *)
MCMaps ==
  {<<>>,
   <<Range(0, 8, 1), Range(8, 1, 2), Range(9, 13, 1)>>,
   <<Range(9, 11, 1), Range(28, 4, 2), Range(0, 8, 1), Range(20, 2, 3)>>,
   <<Range(0, 8, 1), Range(9, 11, 1), Range(32, 8, 1)>>}

PH(t, o, v, f) == [type |-> t, offset |-> o, vaddr |-> v, filesz |-> f]

(* Code; code and data, with an empty header and one for the stack.        *)
MCLinked(n) ==
  CASE n = 0 -> <<>>
    [] n = 1 -> <<PH(1, 0, 1, 1)>>
    [] n = 2 -> <<PH(1, 0, 0, 1), PH(0, 1, 0, 1), PH(1, 1, 2, 1)>>
    [] n > 2 -> <<PH(1, 0, 0, 2), PH(1, 2, 2, n - 2), PH(7, 0, 0, 0)>>

(* None; a page fault of a process that reads; a gate of the IDT.          *)
MCErrorCodes == {0, 4, 42}
=============================================================================
