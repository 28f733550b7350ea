---------------------------- MODULE MCClientTrace ----------------------------
(***************************************************************************)
(* A small instance of ClientTrace for TLC.                                *)
(***************************************************************************)
EXTENDS ClientTrace

SomeLevels  == {{"dns", "redirects"}}
SomeHeaders == {":method", "Accept"}
PseudoOnes  == {":method"}
\* A redirect to an IP address.
OnlySecond  == {2}
=============================================================================
