---------------------------- MODULE MCInterrupt ----------------------------
EXTENDS Interrupt

MCPriority == [p \in 0 .. 2 |-> IF p = 0 THEN 2 ELSE 1]
=============================================================================
