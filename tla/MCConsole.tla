----------------------------- MODULE MCConsole ------------------------------
EXTENDS Console
=============================================================================
