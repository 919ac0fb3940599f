------------------------------- MODULE MCUser -------------------------------
EXTENDS User

(* One task above three user processes, two of them of equal priority.     *)
MCPriority == [p \in 0 .. 3 |-> CASE p = 0 -> 3 [] p = 2 -> 2 [] OTHER -> 1]

(* What TestA prints, shortened: "<T:" and the time.                       *)
MCMsg == [p \in {3} |-> <<60, 84, 58, Number>>]
MCMilliSec == [p \in {3} |-> 9]
=============================================================================
