-------------------------- MODULE MCResponseWriter --------------------------
(***************************************************************************)
(* A small instance of ResponseWriter for TLC.                             *)
(***************************************************************************)
EXTENDS ResponseWriter

\* Early Hints, OK, No Content and Not Found.
SomeCodes == {103, 200, 204, 404}
Hints     == {103}
Bodiless  == {204}
Success   == 200
=============================================================================
