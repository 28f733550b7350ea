------------------- MODULE MCReloadableHandlerRefinement -------------------
(***************************************************************************)
(* A small instance of ReloadableHandlerRefinement for TLC.                *)
(***************************************************************************)
EXTENDS ReloadableHandlerRefinement

CONSTANTS r1, r2, i1, i2

TwoRequests  == {r1, r2}
TwoReloaders == {i1, i2}
=============================================================================
