----------------------------- MODULE MCLocations -----------------------------
(***************************************************************************)
(* Small instances of Locations for TLC.  "s" and "t" are unreserved       *)
(* characters of values, "!" is reserved, "^" is always escaped.           *)
(***************************************************************************)
EXTENDS Locations

Names2  == {"a", "b"}
Digits  == [d \in {"0", "1"} |-> IF d = "0" THEN 0 ELSE 1]
Plain   == {"s", "t"}
Kept    == {"!"}
Types   == ("string" :> "string") @@ ("array" :> "array") @@ ("m" :> "map")
Scheme2 == {"http:", "https:"}
Tokens  == Names2 \cup DOMAIN Digits \cup Plain \cup Kept \cup DOMAIN Types \cup Scheme2
           \cup Operators \cup {"^", "{", "}", "[", "]", "=", ",", ":", "*"}

\* Names alone and types alone, inline and separate, values with each kind.
SomeParamArgs ==
    { << <<"a", "=", "!", "s">> >>,
      << <<"array", ",", "a", "=", "s", ",", "t">> >>,
      << <<"array">>, <<"b">>, <<"t">> >>,
      << <<"m">>, <<"a", "=", "s", "=", "t">> >>,
      << <<"string">>, <<"a">> >>,
      << <<"a">> >> }

MapOf(keys) == [kind |-> "map", items |-> [i \in DOMAIN keys |-> Item(<<keys[i]>>, <<"t">>)]]

SomeParamsArgs ==
    { << Entry(<<"a">>, MapOf(<<"s", "t">>)), Entry(<<"b">>, Array(<< <<"^">> >>)) >>,
      << Entry(<<"b">>, Other(<<"0">>)) >> }

SomeParamsTexts ==
    { <<"a", "=", "[", "t", ",", "s", "]">>, <<"b", "=", "{", "s", ":", "t", "}">>,
      <<"a">>, <<"b", "=", "[", "s">> }

\* One template for each way an expression can be filled; one that is broken.
SomeTemplates ==
    { <<"s", "{", "a", "}">>, <<"{", "+", "a", "}">>, <<"{", "?", "a", ",", "b", "*", "}">>,
      <<"{", "/", "a", "*", ",", "b", ":", "1", "}">>, <<"{", "#", "b", ",", "a", "}">>,
      <<"{", ";", "a", "*", "}", "{", "&", "b", "}">>, <<"{", "}">>, <<"{", "a">> }

SomeUrls ==
    { <<"https:", "/", "/", "t", "/", "/", "s", "/">>, <<":", "t">>, <<"/", "/", "s", "/">>,
      <<"s", "{", "/", "a", "}">>, <<"{", "}">> }
SomeBases == { <<"s">>, <<"/", "t">> }
SomeRests == { String(<<"s", "!">>), Array(<< <<"s">>, <<"t">> >>) }
=============================================================================
