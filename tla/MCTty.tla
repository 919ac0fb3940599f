------------------------------- MODULE MCTty --------------------------------
EXTENDS Tty
=============================================================================
