----------------------------- MODULE ServerFlags -----------------------------
(***************************************************************************)
(* From the command line of weave to the responses it sends (httpserver:   *)
(* server_commands.go, options.go, the setters of server.go, handler.go,   *)
(* echo_handler.go; ParseVirtualPath of httpclient/value.go).              *)
(*                                                                         *)
(* An application may apply an Options value first.  The flags then run    *)
(* their setters on the Server, in an order that this package does not     *)
(* choose, the server listens, and requests are answered.  What happens    *)
(* while it starts and stops is in RunServer, reloading in ServerMux.      *)
(*                                                                         *)
(* A path is a sequence of tokens, "/" among them.                         *)
(***************************************************************************)
EXTENDS Integers, SequencesExt

CONSTANTS
    Tokens,        \* what paths are made of
    CommandLines,  \* sets of occurrences <<flag, arg>>
    Configs,       \* Options values: [field -> value] of the fields that are not nil
    Requests,      \* [method, path, type, body] of the requests
    Files          \* [directory -> [name of an entry -> "file" or "directory"]]

Nothing == ""
NoPath  == <<>>
Dot     == <<".">>

\* Options.parts: what the fields set, the address after its parts.
Parts == <<"hostname", "port", "addr", "certFile", "keyFile", "serverHeader", "accessLog",
           "staticDir", "hideDirListings", "shutdown", "read", "readHeader", "write",
           "idle", "maxHeaderBytes">>

\* A virtual path before it is parsed: what is left of ":" if there is one,
\* what is right of it, and options, of which these have a type.
IsVirtualPath(arg) ==
    /\ arg.text \in Seq(Tokens) /\ arg.colon \in BOOLEAN
    /\ "failsafe" \in DOMAIN arg.options => arg.options["failsafe"] \in BOOLEAN
    /\ "code" \in DOMAIN arg.options => arg.options["code"] \in Nat

IsAddress(arg) ==
    /\ arg = [splits |-> arg.splits, host |-> arg.host, port |-> arg.port]
    /\ arg.splits \in BOOLEAN

\* Only --handler and the directories are EachOccurrence: the setter of any
\* other flag runs once.  A port is a number, and its text is not empty.
ASSUME OccurrencesAssumption ==
    \A s \in CommandLines : \A o \in s :
        /\ o = <<o[1], o[2]>>
        /\ o[1] \notin {"handler", "files"} => \A p \in s : p[1] = o[1] => p = o
ASSUME ArgumentsAssumption ==
    \A s \in CommandLines : \A o \in s :
        /\ o[1] \in {"handler", "files"} => IsVirtualPath(o[2])
        /\ o[1] = "addr" => IsAddress(o[2])
        /\ o[1] = "port" => o[2] # Nothing
ASSUME ConfigsAssumption ==
    \A c \in Configs :
        /\ DOMAIN c \subseteq ToSet(Parts)
        /\ "addr" \in DOMAIN c => IsAddress(c["addr"])
        /\ "port" \in DOMAIN c => c["port"] # Nothing
\* A path begins with "/", or is empty if the request names a host alone.
ASSUME RequestsAssumption ==
    /\ "/" \in Tokens
    /\ \A req \in Requests :
          /\ req.path \in Seq(Tokens)
          /\ req.path # NoPath => Head(req.path) = "/"
ASSUME FilesAssumption ==
    \A d \in DOMAIN Files : \A n \in DOMAIN Files[d] : Files[d][n] \in {"file", "directory"}

VARIABLES
    line,     \* the command line
    config,   \* the Options value
    phase,    \* "flags", "serving", "done" or "failed"
    pending,  \* occurrences whose setter has not run
    server,   \* the fields of Server
    routes,   \* the mux: [pattern -> handler]
    bind,     \* actualBind
    reports,  \* history: what the ready functions showed, each [what, scheme]
    last      \* history: the last request, its response and its log entries

vars == <<line, config, phase, pending, server, routes, bind, reports, last>>

(***************************************************************************)
(* The address                                                             *)
(***************************************************************************)
\* An address is a host and a port, or a text that SplitHostPort rejects.
JoinHostPort(host, port) == [splits |-> TRUE, host |-> host, port |-> port]
Malformed(text)          == [splits |-> FALSE, host |-> text, port |-> Nothing]

\* Fault: the part that is not set is lost.
UpdateAddrForgets(s, hostname, port) == [s EXCEPT !.addr = JoinHostPort(hostname, port)]

UpdateAddr(s, hostname, port) ==
    LET Or(new, old) == IF new = Nothing /\ s.addr.splits THEN old ELSE new
    IN  [s EXCEPT !.addr = JoinHostPort(Or(hostname, s.addr.host), Or(port, s.addr.port))]

SetHostname(s, name) == UpdateAddr(s, name, Nothing)
SetPort(s, port)     == UpdateAddr(s, Nothing, port)
SetAddr(s, addr)     == [s EXCEPT !.addr = addr]

(***************************************************************************)
(* The other setters                                                       *)
(***************************************************************************)
SetShutdownTimeout(s, d)       == [s EXCEPT !.timeouts.shutdown = d]
SetReadTimeout(s, d)           == [s EXCEPT !.timeouts.read = d]
SetReadHeaderTimeout(s, d)     == [s EXCEPT !.timeouts.readHeader = d]
SetWriteTimeout(s, d)          == [s EXCEPT !.timeouts.write = d]
SetIdleTimeout(s, d)           == [s EXCEPT !.timeouts.idle = d]
SetMaxHeaderBytes(s, n)        == [s EXCEPT !.maxHeaderBytes = n]
SetStaticDirectory(s, path)    == [s EXCEPT !.staticDir = path]
SetHideDirectoryListings(s, v) == [s EXCEPT !.hideDirListings = v]
SetAccessLog(s, format)        == [s EXCEPT !.accessLog = format]
SetTLSCertFile(s, file)        == [s EXCEPT !.certFile = file]
SetTLSKeyFile(s, file)         == [s EXCEPT !.keyFile = file]
AddMiddleware(s, m)            == [s EXCEPT !.middleware = Append(@, m)]
AddReadyFunc(s, f)             == [s EXCEPT !.ready = Append(@, f)]

NewHeaderMiddleware(value) == [kind |-> "header", value |-> value]
SetServerHeader(s, value)  == AddMiddleware(s, NewHeaderMiddleware(value))

\* The middleware reads accessLog when it is applied.
AccessLogMiddleware == [kind |-> "accessLog", value |-> Nothing]

\* New with defaultOptions.
NewServer ==
    [addr            |-> JoinHostPort("localhost", "8000"),
     timeouts        |-> [shutdown |-> "3s", read |-> "0", readHeader |-> "0",
                          write |-> "0", idle |-> "0"],
     maxHeaderBytes  |-> 0,
     staticDir       |-> NoPath,
     hideDirListings |-> FALSE,
     accessLog       |-> "default",
     certFile        |-> Nothing,
     keyFile         |-> Nothing,
     middleware      |-> <<AccessLogMiddleware>>,
     ready           |-> <<"report", "reload">>]

Setting(s, field, v) ==
    CASE field = "hostname"        -> SetHostname(s, v)
      [] field = "port"            -> SetPort(s, v)
      [] field = "addr"            -> SetAddr(s, v)
      [] field = "certFile"        -> SetTLSCertFile(s, v)
      [] field = "keyFile"         -> SetTLSKeyFile(s, v)
      [] field = "serverHeader"    -> SetServerHeader(s, v)
      [] field = "accessLog"       -> SetAccessLog(s, v)
      [] field = "staticDir"       -> SetStaticDirectory(s, v)
      [] field = "hideDirListings" -> SetHideDirectoryListings(s, v)
      [] field = "shutdown"        -> SetShutdownTimeout(s, v)
      [] field = "read"            -> SetReadTimeout(s, v)
      [] field = "readHeader"      -> SetReadHeaderTimeout(s, v)
      [] field = "write"           -> SetWriteTimeout(s, v)
      [] field = "idle"            -> SetIdleTimeout(s, v)
      [] field = "maxHeaderBytes"  -> SetMaxHeaderBytes(s, v)

Part(s, field, options) ==
    IF field \in DOMAIN options THEN Setting(s, field, options[field]) ELSE s

\* The server after each of the parts, in their order.
Applied(s, options) ==
    LET applied[i \in 0..Len(Parts)] ==
            IF i = 0 THEN s ELSE Part(applied[i - 1], Parts[i], options)
    IN  applied
Apply(s, options) == Applied(s, options)[Len(Parts)]

(***************************************************************************)
(* Handlers                                                                *)
(***************************************************************************)
\* Fault: a request path is taken as it was given.
ParseVirtualPathAsIs(arg) ==
    [request  |-> arg.text,
     physical |-> IF ~arg.colon THEN arg.text ELSE arg.physical,
     options  |-> IF arg.colon THEN arg.options ELSE << >>]

\* text is what is left of ":"; no colon, and it is the physical path as well,
\* with the options still in it.
ParseVirtualPath(arg) ==
    LET text == arg.text
        Begins(token) == text # NoPath /\ Head(text) = token
    IN  [request  |-> IF Begins("/") THEN text
                      ELSE <<"/">> \o (IF Begins("./") THEN Tail(text) ELSE text),
         physical |-> IF ~arg.colon THEN text
                      ELSE IF arg.physical = NoPath THEN Dot ELSE arg.physical,
         options  |-> IF arg.colon THEN arg.options ELSE << >>]

Option(options, name, default) == IF name \in DOMAIN options THEN options[name] ELSE default

Handler(kind, strip, directory, hide, failsafe, code) ==
    [kind |-> kind, strip |-> strip, directory |-> directory, hide |-> hide,
     failsafe |-> failsafe, code |-> code]

NewFileServerHandler(strip, directory, hide) ==
    Handler("file", strip, directory, hide, FALSE, 0)

FileServerHandlerSpec(vp) ==
    NewFileServerHandler(vp.request, Option(vp.options, "directory", vp.physical),
                         Option(vp.options, "hide_directory_listing", FALSE))

Providers ==
    {<<"ping">>, <<"file">>, <<"reload">>, <<"redirect">>, <<"echo">>, <<"reflect">>}

\* The option of that name, or the default of HandlerRegistry, in which reflect
\* is an alias.
RegistryHandlerSpec(vp) ==
    LET Opt(name, default) == Option(vp.options, name, default)
        kind == IF Head(vp.physical) = "reflect" THEN "echo" ELSE Head(vp.physical)
    IN  Handler(kind, IF kind = "reload" THEN NoPath ELSE vp.request,
                Opt("directory", Dot), Opt("hide_directory_listing", FALSE),
                Opt("failsafe", FALSE), Opt("code", 307))

(***************************************************************************)
(* The flags                                                               *)
(***************************************************************************)
NoRequest == [method |-> Nothing, path |-> NoPath, type |-> Nothing, body |-> Nothing]

Init ==
    /\ line    \in CommandLines
    /\ config  \in Configs
    /\ phase   = "flags"
    /\ pending = line
    /\ server  = Apply(NewServer, config)
    /\ routes  = << >>
    /\ bind    = [listening |-> FALSE, tls |-> FALSE]
    /\ reports = <<>>
    /\ last    = [request |-> NoRequest, status |-> 0, body |-> Nothing,
                  headers |-> <<>>, logs |-> <<>>]

\* The flags with this name that have not run.
Args(flag) == {o[2] : o \in {o \in pending : o[1] = flag}}

Ran(flag, arg) ==
    /\ phase = "flags"
    /\ pending' = pending \ {<<flag, arg>>}
    /\ UNCHANGED <<line, config, bind, reports, last>>

\* option.Execute drops the error of the setter; none has one.
Runs(flag, Setter(_, _)) ==
    \E arg \in Args(flag) :
        Ran(flag, arg) /\ server' = Setter(server, arg) /\ UNCHANGED <<phase, routes>>

HostFlag              == Runs("host", SetHostname)
PortFlag              == Runs("port", SetPort)
AddrFlag              == Runs("addr", SetAddr)
ReadTimeoutFlag       == Runs("read-timeout", SetReadTimeout)
ShutdownTimeoutFlag   == Runs("shutdown-timeout", SetShutdownTimeout)
ReadHeaderTimeoutFlag == Runs("read-header-timeout", SetReadHeaderTimeout)
WriteTimeoutFlag      == Runs("write-header-timeout", SetWriteTimeout)
IdleTimeoutFlag       == Runs("idle-timeout", SetIdleTimeout)
MaxHeaderBytesFlag    == Runs("max-header-bytes", SetMaxHeaderBytes)
DirectoryFlag         == Runs("directory", SetStaticDirectory)
AccessLogFlag         == Runs("access-log", SetAccessLog)
ServerHeaderFlag      == Runs("server", SetServerHeader)
CertFlag              == Runs("cert", SetTLSCertFile)
KeyFlag               == Runs("key", SetTLSKeyFile)

\* These three do what they are for even with --flag=false.
HideFlag        == Runs("hide-directory-listings", LAMBDA s, v : SetHideDirectoryListings(s, TRUE))
OpenFlag        == Runs("open", LAMBDA s, v : AddReadyFunc(s, "open"))
NoAccessLogFlag == Runs("no-access-log", LAMBDA s, v : SetAccessLog(s, Nothing))

Handle(pattern, handler) ==
    [p \in DOMAIN routes \cup {pattern} |-> IF p = pattern THEN handler ELSE routes[p]]

\* HandleSpec.  The mux panics on a pattern it has, and Handle makes it an error.
HandleSpec(flag, Spec(_), Exists(_)) ==
    \E arg \in Args(flag) :
        LET vp == ParseVirtualPath(arg)
            ok == Exists(vp) /\ vp.request \notin DOMAIN routes
        IN  /\ Ran(flag, arg)
            /\ UNCHANGED server
            /\ \/ ok  /\ routes' = Handle(vp.request, Spec(vp)) /\ UNCHANGED phase
               \/ ~ok /\ phase' = "failed" /\ UNCHANGED routes

HandlerFlag == HandleSpec("handler", RegistryHandlerSpec, LAMBDA vp : vp.physical \in Providers)
FilesArg    == HandleSpec("files", FileServerHandlerSpec, LAMBDA vp : TRUE)

\* --list-handlers prints them and exits.
ListHandlers ==
    \E arg \in Args("list-handlers") :
        Ran("list-handlers", arg) /\ phase' = "done" /\ UNCHANGED <<server, routes>>

FlagRuns ==
    \/ HostFlag \/ PortFlag \/ AddrFlag \/ ReadTimeoutFlag \/ ShutdownTimeoutFlag
    \/ ReadHeaderTimeoutFlag \/ WriteTimeoutFlag \/ IdleTimeoutFlag \/ MaxHeaderBytesFlag
    \/ DirectoryFlag \/ HideFlag \/ OpenFlag \/ AccessLogFlag \/ NoAccessLogFlag
    \/ ServerHeaderFlag \/ CertFlag \/ KeyFlag \/ HandlerFlag \/ FilesArg \/ ListHandlers

(***************************************************************************)
(* Listening                                                               *)
(***************************************************************************)
configured == <<line, config, pending, server, routes>>

ServesTLS(s) == s.certFile # Nothing

\* net.Listen takes any port of an empty address.
Listen ==
    /\ phase = "flags" /\ pending = {}
    /\ \/ phase' = "failed" /\ UNCHANGED bind
       \/ /\ server.addr.splits \/ server.addr = Malformed(Nothing)
          /\ bind' = [listening |-> TRUE, tls |-> ServesTLS(server)]
          \* ServeTLS reads both files.
          /\ \/ phase' = "serving" /\ (server.certFile # Nothing => server.keyFile # Nothing)
             \/ phase' = "failed" /\ server.certFile # Nothing
    /\ UNCHANGED configured /\ UNCHANGED <<reports, last>>

Url == IF bind.tls THEN "https" ELSE "http"

\* The ready functions run once, in the order in which they were added.
Ready ==
    /\ phase = "serving" /\ reports = <<>>
    /\ reports' = [i \in DOMAIN server.ready |->
                      [what   |-> server.ready[i],
                       scheme |-> IF server.ready[i] = "reload" THEN Nothing ELSE Url]]
    /\ UNCHANGED configured /\ UNCHANGED <<phase, bind, last>>

(***************************************************************************)
(* Answers: [status, body], and the errors of the echo handler             *)
(***************************************************************************)
Answer(status, body) == [status |-> status, body |-> body]

EndsInSlash(path) == path # NoPath /\ Last(path) = "/"

\* What is in the directory under these names, which do not go deeper than one.
Entry(directory, names) ==
    CASE names = <<>> -> "directory"
      [] Len(names) = 1 /\ names[1] \in DOMAIN Files[directory] -> Files[directory][names[1]]
      [] OTHER -> "none"

\* http.FileServer, which puts a "/" before the path if it begins with none,
\* and redirects to the one form that a directory, or a file, has; path is what
\* http.StripPrefix left.
FileServer(directory, path) ==
    LET entry == IF directory \notin DOMAIN Files THEN "none"
                 ELSE Entry(directory, SelectSeq(path, LAMBDA t : t # "/"))
        slash == path = NoPath \/ EndsInSlash(path)
    IN  CASE entry = "none"           -> Answer(404, Nothing)
          [] entry = "directory"      -> IF slash THEN Answer(200, "listing") ELSE Answer(301, Nothing)
          [] entry = "file"           -> IF slash THEN Answer(301, Nothing) ELSE Answer(200, "file")

\* hideListing sees the path after StripPrefix, and passes an empty one on.
HideListing(h, path) == h.hide /\ EndsInSlash(path)

ServeFile(h, path) ==
    IF HideListing(h, path) THEN Answer(404, Nothing) ELSE FileServer(h.directory, path)

\* ParseMultipartForm says ErrNotMultipart of every form that is not multipart,
\* whatever is in it.  JSON is decoded if the type or the text is JSON.
EchoErrors(req) ==
    CASE req.type = "form"      -> <<>>
      [] req.type = "multipart" -> IF req.body = "parts" THEN <<>>
                                   ELSE IF req.body = "badFiles" THEN <<"open", "read">>
                                   ELSE <<"form">>
      [] OTHER                  -> IF req.body = "broken" THEN <<"read">>
                                   ELSE IF req.type = "json" /\ req.body # "json" THEN <<"JSON">>
                                   ELSE <<>>

\* The status of a response is that of the first WriteHeader.
WriteHeader(resp, status) == IF resp.status = 0 THEN [resp EXCEPT !.status = status] ELSE resp

\* Fault: failsafe keeps the status from nothing.
HandleErrorAlways(resp, failsafe, e) ==
    WriteHeader([resp EXCEPT !.errors = Append(@, e)], 400)

HandleError(resp, failsafe, e) ==
    LET noted == [resp EXCEPT !.errors = Append(@, e)]
    IN  IF failsafe THEN noted ELSE WriteHeader(noted, 400)

\* The response after each of the errors.
Noted(failsafe, errors) ==
    LET noted[i \in 0..Len(errors)] ==
            IF i = 0 THEN [status |-> 0, errors |-> <<>>]
            ELSE HandleError(noted[i - 1], failsafe, errors[i])
    IN  noted

ServeEcho(h, req) ==
    LET errors == EchoErrors(req)
        resp   == Noted(h.failsafe, errors)[Len(errors)]
    IN  Answer(WriteHeader(resp, 200).status,
               IF resp.errors # <<>> /\ ~h.failsafe THEN "errors" ELSE "reflection")

ServeHandler(h, req, path) ==
    CASE h.kind = "file"     -> ServeFile(h, path)
      [] h.kind = "ping"     -> Answer(200, "ping")
      [] h.kind = "redirect" -> Answer(IF h.code = 0 THEN 307 ELSE h.code, Nothing)
      [] h.kind = "echo"     -> ServeEcho(h, req)
      [] h.kind = "reload"   -> Answer(IF req.method = "POST" THEN 204 ELSE 405, Nothing)

\* http.ServeMux: the longest pattern that is the path or, ending in "/", begins it.
Matches(pattern, path) == pattern = path \/ (Last(pattern) = "/" /\ IsPrefix(pattern, path))
Matching(path) == {p \in DOMAIN routes : Matches(p, path)}
Pattern(path)  == CHOOSE p \in Matching(path) : \A q \in Matching(path) : Len(p) >= Len(q)

\* An empty path, or one with an empty component, is redirected to the clean
\* one, and a path to the pattern that it is without its last "/".
Redirects(path) ==
    \/ path = NoPath
    \/ \E i \in 2..Len(path) : path[i - 1] = "/" /\ path[i] = "/"
    \/ path \notin DOMAIN routes /\ Append(path, "/") \in DOMAIN routes

ServeMux(req) ==
    IF Redirects(req.path) THEN Answer(301, Nothing)
    ELSE IF Matching(req.path) = {} THEN Answer(404, Nothing)
    ELSE LET h == routes[Pattern(req.path)]
         IN  ServeHandler(h, req, SubSeq(req.path, Len(h.strip) + 1, Len(req.path)))

\* The factory of DefaultServer: used unless a handler was registered.
DefaultHandler ==
    NewFileServerHandler(NoPath, IF server.staticDir = NoPath THEN Dot ELSE server.staticDir,
                         server.hideDirListings)

ServeBase(req) ==
    IF DOMAIN routes = {} THEN ServeHandler(DefaultHandler, req, req.path) ELSE ServeMux(req)

\* Fault: the access log that New was given.
WrapEarly(inner, m) ==
    IF m.kind = "header" THEN [inner EXCEPT !.headers = <<m.value>> \o @]
    ELSE [inner EXCEPT !.logs = Append(@, [format |-> "default", status |-> inner.status])]

\* One middleware around what is inside it.
Wrap(inner, m) ==
    CASE m.kind = "header" -> [inner EXCEPT !.headers = <<m.value>> \o @]
      [] m.kind = "accessLog" /\ server.accessLog # Nothing ->
             [inner EXCEPT !.logs = Append(@, [format |-> server.accessLog,
                                               status |-> inner.status])]
      [] OTHER -> inner

\* What each of the middleware makes of the exchange inside it.
Wrapped(inner) ==
    LET wrapped[i \in 0..Len(server.middleware)] ==
            IF i = 0 THEN inner ELSE Wrap(wrapped[i - 1], server.middleware[i])
    IN  wrapped

Exchange(req) ==
    LET answer == ServeBase(req)
        inner  == [request |-> req, status |-> answer.status, body |-> answer.body,
                   headers |-> <<>>, logs |-> <<>>]
    IN  Wrapped(inner)[Len(server.middleware)]

Serve(req) ==
    /\ phase = "serving"
    /\ last' = Exchange(req)
    /\ UNCHANGED configured /\ UNCHANGED <<phase, bind, reports>>

Next == FlagRuns \/ Listen \/ Ready \/ \E req \in Requests : Serve(req)

Spec == Init /\ [][Next]_vars

-----------------------------------------------------------------------------
(***************************************************************************)
(* Properties                                                              *)
(***************************************************************************)
Texts(flag) == {o[2] : o \in {o \in line : o[1] = flag}}
Configured(field, default) == IF field \in DOMAIN config THEN config[field] ELSE default

\* The handler that serves a path, unless the mux redirects it.
HandlerFor(path) == IF DOMAIN routes = {} THEN DefaultHandler ELSE routes[Pattern(path)]

\* Every variable holds a value of its type.
TypeOK ==
    /\ pending \subseteq line
    /\ phase \in {"flags", "serving", "done", "failed"}
    /\ DOMAIN server = DOMAIN NewServer
    /\ IsAddress(server.addr)
    /\ DOMAIN server.timeouts = DOMAIN NewServer.timeouts
    /\ server.middleware[1] = AccessLogMiddleware
    /\ \A p \in DOMAIN routes : /\ p \in Seq(Tokens) /\ p # NoPath /\ Head(p) = "/"
                                /\ routes[p].strip \in {NoPath, p}
    /\ bind.listening \in BOOLEAN /\ bind.tls \in BOOLEAN
    /\ phase = "serving" => bind.listening
    /\ last.status \in Nat

\* "Addr must come after port and hostname" in Options, and the flags for them
\* keep each other's part: without --addr, the server listens on the host of
\* --host and the port of --port, in whatever order they run, and else on
\* those of Options, whose Addr wins over its Hostname and Port.
AddressFromFlags ==
    LET hosts == Texts("host") \ {Nothing}
        base  == Configured("addr", JoinHostPort(
                     IF Configured("hostname", Nothing) = Nothing THEN "localhost"
                     ELSE config.hostname, Configured("port", "8000")))
        Given(texts, default) == IF texts = {} THEN default ELSE CHOOSE t \in texts : TRUE
    IN  (phase = "serving" /\ Texts("addr") = {} /\ base.splits) =>
            server.addr = JoinHostPort(Given(hosts, base.host), Given(Texts("port"), base.port))

\* Every response is logged once, by a format that was set, with the status that
\* the client gets, or not at all if the access log was disabled: the middleware
\* that New adds sees what flags set later.  Of both flags, either may win.
LoggedAsAsked ==
    LET asked   == Texts("access-log") \cup {Nothing : v \in Texts("no-access-log")}
        formats == IF asked = {} THEN {Configured("accessLog", "default")} ELSE asked
    IN  last.request # NoRequest =>
            \E f \in formats :
                last.logs = IF f = Nothing THEN <<>> ELSE <<[format |-> f, status |-> last.status]>>

\* "Set value of the Server response header": every response has it, errors of
\* the mux and of handlers as well, the one that was added last first.
ServerHeaderOnEvery ==
    LET Seq1(vs) == IF vs = {} THEN <<>> ELSE <<CHOOSE v \in vs : TRUE>>
    IN  last.request # NoRequest =>
            last.headers = Seq1(Texts("server")) \o (IF "serverHeader" \in DOMAIN config
                                             THEN <<config.serverHeader>> ELSE <<>>)

\* What the ready functions show is where the server answers: over TLS if and
\* only if it has a certificate to present.
ReportsScheme ==
    \A i \in DOMAIN reports :
        reports[i].what # "reload" =>
            (reports[i].scheme = "https" <=> server.certFile # Nothing /\ server.keyFile # Nothing)

\* "An option failsafe indicates whether the response will always be 200 OK even
\* if the request is malformed": with it nothing but the reflection is sent;
\* without it errors are sent, as a bad request, and never the reflection.
EchoAnswers ==
    (last.body \in {"errors", "reflection"}) =>
        LET h == HandlerFor(last.request.path)
        IN  /\ h.failsafe => last.status = 200 /\ last.body = "reflection"
            /\ last.status = 400 <=> last.body = "errors"

\* A file server that is to hide listings shows one for no path but the one that
\* it is registered for, which http.StripPrefix leaves nothing of, and never one
\* of a directory below it; the server of DefaultServer for the empty path alone.
ListingsOfRoots ==
    LET h == HandlerFor(last.request.path)
    IN  last.body = "listing" /\ h.hide => last.request.path = h.strip

\* FileServerHandlerSpec, for the directories that are named, says: "An option named
\* hide_directory_listing controls whether the directory listing response is served".
\* The code serves that of the root all the same, the case that ListingsOfRoots allows.
ListingsHidden ==
    (last.body = "listing" /\ DOMAIN routes # {} /\ Texts("handler") = {}) =>
        ~HandlerFor(last.request.path).hide

\* And: "The handler also consults the server for whether directory listings can
\* be served", so that its own option is not needed.  The code reads that option alone.
ServerConsulted ==
    (/\ last.body = "listing" /\ DOMAIN routes # {} /\ Texts("handler") = {}
     /\ ~HandlerFor(last.request.path).hide) => ~server.hideDirListings

\* The server listens where flags and Options say, and its ready functions say
\* how it can be reached there.
ServesWhereTold == AddressFromFlags /\ ReportsScheme

\* The middleware is around every handler, whatever order it was added in.
MiddlewareOnEvery == LoggedAsAsked /\ ServerHeaderOnEvery

\* The echo handler answers as its options promise, and what a file server shows
\* against its option is the listing of its root alone.
HandlersAsOptions == EchoAnswers /\ ListingsOfRoots
=============================================================================
