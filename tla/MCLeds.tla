------------------------------- MODULE MCLeds -------------------------------
EXTENDS Leds
=============================================================================
