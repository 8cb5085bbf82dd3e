------------------------------ MODULE MCClient ------------------------------
EXTENDS Client
CONSTANTS a1, a2, s1, s2
MCCalls == {a1, a2}
MCRows == {s1, s2}
=============================================================================
