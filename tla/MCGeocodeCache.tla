--------------------------- MODULE MCGeocodeCache ---------------------------
(***************************************************************************)
(* Small instances of GeocodeCache for TLC.                                *)
(***************************************************************************)
EXTENDS GeocodeCache, TLC

CONSTANTS c1, c2, c3, k1

OneAddress == [c \in Call |-> k1]
=============================================================================
