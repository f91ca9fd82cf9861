------------------------- MODULE MCProfileInterests -------------------------
(* Small instances of ProfileInterests for TLC.                            *)
EXTENDS ProfileInterests

CONSTANTS p, q

One == <<p>>
=============================================================================
