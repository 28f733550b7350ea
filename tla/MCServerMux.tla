----------------------------- MODULE MCServerMux -----------------------------
(***************************************************************************)
(* Small instances of ServerMux for TLC.                                   *)
(***************************************************************************)
EXTENDS ServerMux, TLC

CONSTANTS p1, p2, p3, bad, h1, h2, k1, k2

ThreePatterns  == {p1, p2, p3}
FourPatterns   == {p1, p2, p3, bad}
OneMalformed   == {bad}
NoneMalformed  == {}
TwoReloadables == {h1, h2}
TwoPosts       == {k1, k2}
OnePost        == {k1}

Symmetry ==
    Permutations(ThreePatterns) \cup Permutations(TwoReloadables) \cup Permutations(TwoPosts)
=============================================================================
