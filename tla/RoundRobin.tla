----------------------------- MODULE RoundRobin -----------------------------
(***************************************************************************)
(* What the scheduler promises: one process has the CPU, and the CPU goes  *)
(* round all processes in one fixed cyclic order, from the highest         *)
(* priority to the lowest, processes of one priority in the order of       *)
(* proc_table.  Nobody is skipped and nobody is served twice in a round.   *)
(*                                                                         *)
(* Nothing of kernel/proc.c appears here: no tick counts, no table scan.   *)
(* Schedule.tla and Interrupt.tla are shown to implement this module.      *)
(***************************************************************************)
EXTENDS Integers

CONSTANTS
  N,        \* number of processes, the indexes of proc_table
  priority  \* the priority of each process

VARIABLE cur  \* the process that has the CPU

Proc == 0 .. N - 1

(* p comes before q in a round.                                            *)
Before(p, q) ==
  \/ priority[p] > priority[q]
  \/ priority[p] = priority[q] /\ p < q

IsFirst(p) == \A q \in Proc \ {p} : Before(p, q)

IsLast(p) == \A q \in Proc \ {p} : Before(q, p)

(* q is served right after p: the nearest one behind p in the round, or,   *)
(* behind the last one, the first one of the next round.                   *)
IsNext(p, q) ==
  \/ /\ Before(p, q)
     /\ \A r \in Proc : Before(p, r) => r = q \/ Before(q, r)
  \/ IsLast(p) /\ IsFirst(q)

Init == cur \in Proc /\ IsFirst(cur)

Rotate == \E q \in Proc : IsNext(cur, q) /\ cur' = q

(* The order of service, and that the CPU is handed on again and again.    *)
SafeSpec == Init /\ [][Rotate]_cur

FairSpec == SafeSpec /\ WF_cur(Rotate)
=============================================================================
