----------------------------- MODULE MCDownload -----------------------------
(***************************************************************************)
(* Small instances of Download for TLC.                                    *)
(***************************************************************************)
EXTENDS Download, TLC

SomeNames == {"", "a", "b", "c", "x"}
\* "/", "/x", "/a/", "/a/x", "/a//x", "/a/b/x" and "/a/b/c/x".
SomePaths == {<<"">>, <<"x">>, <<"a", "">>, <<"a", "x">>, <<"a", "", "x">>,
              <<"a", "b", "x">>, <<"a", "b", "c", "x">>}
NoString == ""
DotIndex == [i \in 1..2 |-> "." \o ToString(i)]

Chains == SeqOf({"integrity", "strip"}, 2)

\* Everything, where counts and links matter.
EveryOption ==
    {o \in [downloader : Downloaders, middleware : Chains, count : {-9, -4, -2, -1, 0, 1, 2, 4, 9},
            linked : BOOLEAN, headers : BOOLEAN] :
        /\ "strip" \notin ToSet(o.middleware) => o.count = 0
        /\ "integrity" \notin ToSet(o.middleware) => o.linked}
=============================================================================
