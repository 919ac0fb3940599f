----------------------------- MODULE MCSchedule -----------------------------
EXTENDS Schedule

(* One task above three user processes, two of them of equal priority.     *)
MCPriority == [p \in 0 .. 3 |-> CASE p = 0 -> 4 [] p = 2 -> 2 [] OTHER -> 3]
=============================================================================
