------------------------ MODULE MCReloadableHandler ------------------------
(***************************************************************************)
(* A small instance of ReloadableHandler for TLC.                          *)
(***************************************************************************)
EXTENDS ReloadableHandler

CONSTANTS r1, r2, i1

TwoRequests == {r1, r2}
OneReloader == {i1}
=============================================================================
