---------------------------- MODULE MCClientFlags ----------------------------
(***************************************************************************)
(* Small instances of ClientFlags for TLC.                                 *)
(***************************************************************************)
EXTENDS ClientFlags, TLC

F(flag, arg) == Occurrence(flag, arg)
NV(name, value) == [name |-> name, value |-> value]

BodyFlags ==
    {F("method", "put"), F("body", "text"), F("body-content", "json"),
     F("body-content", "form"), F("json-content", "json"),
     F("fill", NV("a", "x")), F("fill", NV("a.b", "x")),
     F("header", << <<"Content-Type", ":", " ", "text">> >>), F("query", NV("q", "z"))}

AuthFlags ==
    {F("user", <<"u">>), F("user", <<"u", ":", "p">>), F("user", <<"u", ":">>),
     F("user", <<":", "p">>), F("auth", AuthMode("none")), F("basic", TRUE),
     F("auth", NewBearer("tok", <<"Authentication">>)), F("auth", NewBearer("tok", <<"X">>)),
     F("request-id", ""), F("request-id", "7"), F("query", NV("q", "z")),
     F("header", << <<"X">>, <<"v">> >>), F("header", << <<"X-Request-ID">>, <<"v">> >>)}

OtherFlags ==
    {F("user-agent", <<"me">>), F("json", TRUE), F("query", NV("p", "y")),
     F("header", << <<"Accept", "=", "html">> >>), F("header", << <<"k", "\\=", "=", "v">> >>),
     F("follow-redirects", FALSE), F("include", TRUE), F("fail", TRUE), F("write-out", "w"),
     F("write-err", "w"), F("output", "file"), F("no-output", FALSE), F("integrity", "h"),
     F("strip-components", 1), F("download", 1), F("download", 2), F("download", 3),
     F("bind-address", "addr"), F("interface", "eth0"), F("dns-interface", "eth0"),
     F("dial-timeout", "1s"), F("dial-keep-alive", "1s"), F("disable-dial-keep-alive", TRUE),
     F("prefer-go", TRUE), F("strict-errors", TRUE), F("list-interfaces", TRUE)}

TLSFlags ==
    {F("cacert", "ca.pem"), F("cacert", "b"), F("cacert", "none"), F("capath", "dir"),
     F("capath", "sub"), F("tlsv1", TRUE), F("tlsv1.0", TRUE), F("tlsv1.1", FALSE),
     F("tlsv1.2", TRUE), F("tlsv1.3", TRUE)}

OtherTLSFlags ==
    {F("insecure-skip-verify", TRUE), F("server-name", "n"), F("next-protos", <<"h2">>),
     F("random", "file"), F("insecure-key-log-file", "file"), F("time", "file"),
     F("ciphers", <<"s">>), F("ciphers", <<"s", "u">>), F("curves", <<"s">>),
     F("curves", <<"u">>), F("list-ciphers", TRUE), F("list-curves", TRUE)}

\* --cert and --key require each other.
KeyPairLines == {{F("cert", c), F("key", "k")} : c \in {"c", "none"}}

\* Only flags with EachOccurrence occur more than once.
WellFormed(occurrences) ==
    \A o1, o2 \in occurrences :
        o1[1] = o2[1] => o1 = o2 \/ o1[1] \in EachOccurrence

SomeLines ==
    {s \in {{f, g, h, i} : f, g, h, i \in BodyFlags}
           \cup {{f, g, h} : f, g, h \in AuthFlags}
           \cup {{f, g, h} : f, g, h \in TLSFlags}
           \cup {{f, g} : f, g \in OtherFlags} \cup {{f} : f \in OtherTLSFlags} : WellFormed(s)}
    \cup KeyPairLines

\* Two locations with the same query, and one without.
SomeQueries == << ("q" :> <<"1">>), ("q" :> <<"1">>), NoFields >>
SomeDotted  == {"a.b"}
SomeTyped   == {"", "s", "t"}

SomeCerts    == ("ca.pem" :> {"c1"}) @@ ("here.pem" :> {"c2"}) @@ ("there.pem" :> {"c3"})
                @@ ("b" :> {})
SomePem      == ("." :> {"ca.pem", "here.pem"}) @@ ("dir" :> {"there.pem"}) @@ ("sub" :> {})
SomeKeyPairs == {<<"c", "k">>}
SomeNames    == ("s" :> 1)
=============================================================================
