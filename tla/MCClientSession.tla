--------------------------- MODULE MCClientSession ---------------------------
(* ClientSession for TLC: no symmetry, because two properties are temporal.  *)
EXTENDS ClientSession, TLC
=============================================================================
