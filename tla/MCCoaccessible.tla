--------------------------- MODULE MCCoaccessible ---------------------------
\* fsm_coaccessible on every machine of at most MaxStates states and MaxLines lines.
EXTENDS Coaccessible
=============================================================================
