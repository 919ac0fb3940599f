------------------------------ MODULE MCKbRing ------------------------------
EXTENDS KbRing
=============================================================================
