----------------------------- MODULE MCRunServer -----------------------------
(***************************************************************************)
(* A small instance of RunServer for TLC.                                  *)
(***************************************************************************)
EXTENDS RunServer

CONSTANTS c1, c2

TwoConns == {c1, c2}

\* Every configuration.
EveryOption == AllOptions
=============================================================================
