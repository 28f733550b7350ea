---------------------------- MODULE MCServerFlags ----------------------------
(***************************************************************************)
(* Small instances of ServerFlags for TLC.                                 *)
(***************************************************************************)
EXTENDS ServerFlags, TLC

F(flag, arg) == <<flag, arg>>
V(text, colon, physical, options) ==
    [text |-> text, colon |-> colon, physical |-> physical, options |-> options]
H(text, name, options) == F("handler", V(text, TRUE, <<name>>, options))

SomeTokens == {"/", "./", "a", "b", "d", "f"}

AddressFlags ==
    {F("host", "h"), F("host", ""), F("port", "1"), F("addr", JoinHostPort("x", "")),
     F("addr", Malformed("x")), F("addr", Malformed(""))}

ServerFlagSet ==
    {F("directory", <<"d">>), F("hide-directory-listings", FALSE), F("open", TRUE),
     F("access-log", "f"), F("no-access-log", TRUE), F("server", "s")}

TimeFlags ==
    {F("read-timeout", "1s"), F("read-header-timeout", "1s"), F("write-header-timeout", "1s"),
     F("idle-timeout", "1s"), F("shutdown-timeout", "1s"), F("max-header-bytes", 1)}

TLSFlags == {F("cert", "c"), F("key", "k")}

HandlerFlags ==
    {H(<<"/", "a", "/">>, "file", "directory" :> <<"d">>),
     H(<<"a">>, "echo", << >>), H(<<"./", "a">>, "reflect", "failsafe" :> TRUE),
     H(<<"/">>, "redirect", "code" :> 0), H(<<"b">>, "ping", << >>),
     H(<<"b">>, "reload", << >>), H(<<"b">>, "none", << >>),
     H(<<>>, "ping", << >>), F("files", V(<<"d">>, FALSE, NoPath, << >>)),
     F("files", V(<<"a", "/">>, TRUE, <<"d">>, "hide_directory_listing" :> TRUE)),
     F("files", V(<<"/">>, TRUE, NoPath, "hide_directory_listing" :> TRUE))}

\* --cert and --key require each other; other flags occur once, --handler and
\* directories as often as they are given.
WellFormed(s) ==
    /\ \A o1, o2 \in s : o1[1] = o2[1] => o1 = o2 \/ o1[1] \in {"handler", "files"}
    /\ F("cert", "c") \in s <=> F("key", "k") \in s

SomeLines ==
    {s \in {{f, g, h} : f, g, h \in AddressFlags}
           \cup {{f, g, h} : f, g, h \in ServerFlagSet \cup TLSFlags}
           \cup {{f, g, h} : f, g \in HandlerFlags, h \in {F("server", "s"), F("no-access-log", TRUE)}}
           \cup {{f, g} : f, g \in TimeFlags} : WellFormed(s)}
    \cup {{F("list-handlers", TRUE)}}

SomeConfigs ==
    {<< >>,
     "hostname" :> "c" @@ "port" :> "2",
     "hostname" :> "c" @@ "port" :> "2" @@ "addr" :> JoinHostPort("e", "3"),
     "addr" :> Malformed("e"),
     "keyFile" :> "k" @@ "accessLog" :> "",
     "certFile" :> "c" @@ "keyFile" :> "k" @@ "serverHeader" :> "o",
     "certFile" :> "c" @@ "accessLog" :> "g",
     "staticDir" :> <<"d">> @@ "hideDirListings" :> TRUE @@ "maxHeaderBytes" :> 2,
     "shutdown" :> "2s" @@ "read" :> "2s" @@ "readHeader" :> "2s" @@ "write" :> "2s" @@ "idle" :> "2s"}

R(method, path, type, body) == [method |-> method, path |-> path, type |-> type, body |-> body]

SomeRequests ==
    {R("GET", path, "none", "text") :
        path \in {NoPath, <<"/">>, <<"/", "a">>, <<"/", "a", "/">>, <<"/", "a", "/", "f">>,
                  <<"/", "a", "/", "b">>, <<"/", "a", "/", "b", "/">>, <<"/", "d">>,
                  <<"/", "d", "/">>, <<"/", "/", "d">>, <<"/", "d", "/", "f">>, <<"/", "f">>,
                  <<"/", "b">>}}
    \cup {R("POST", <<"/", "a">>, type, body) :
             type \in {"form", "multipart", "json", "none"},
             body \in {"text", "json", "broken", "parts", "badFiles"}}
    \cup {R("POST", <<"/", "b">>, "none", "text")}

SomeFiles ==
    <<"d">> :> ("f" :> "file" @@ "b" :> "directory")
    @@ Dot :> ("f" :> "file" @@ "d" :> "directory")
=============================================================================
