----------------------------- MODULE ClientFlags -----------------------------
(***************************************************************************)
(* From the command line of wig to the requests it sends                   *)
(* (httpclient/command.go, the setters of client.go, auth.go, content.go   *)
(* and its siblings, value.go, request_id_generator.go, tls).              *)
(*                                                                         *)
(* The flags that occurred, and those they imply, run their setters on the *)
(* Client, in an order that this package does not choose.  Then, for every *)
(* location, the middleware puts content, query, credentials and request   *)
(* ID into the one http.Request.  Client has what surrounds these steps.   *)
(*                                                                         *)
(* An occurrence is <<flag, arg>>.  The text of a header or of --user is a   *)
(* sequence of tokens; other texts are atoms.                              *)
(***************************************************************************)
EXTENDS TLSConfig

CONSTANTS
    CommandLines,  \* sets of occurrences
    Queries,       \* the query of each location: [name -> sequence of values]
    Dotted,        \* names with a dot in them
    Typed          \* what may be typed at a prompt; Nothing is an empty line

Nothing == ""

ContentTypes == {"raw", "json", "form", "urlencoded", "multipart"}

\* Flags with EachOccurrence run as often as they are given, others once.
EachOccurrence == {"header", "fill", "query", "cacert", "capath"}

ASSUME OccurrencesAssumption ==
    \A s \in CommandLines : \A o \in s :
        /\ o = <<o[1], o[2]>>
        /\ o[1] \notin EachOccurrence => \A p \in s : p[1] = o[1] => p = o
ASSUME ArgumentsAssumption ==
    \A s \in CommandLines : \A o \in s :
        /\ o[1] = "auth" => o[2].mode \in {"none", "basic", "bearer"}
        /\ o[1] = "body-content" => o[2] \in ContentTypes
        /\ o[1] \in {"tlsv1", "tlsv1.0", "tlsv1.1", "tlsv1.2", "tlsv1.3"} => o[2] \in BOOLEAN
ASSUME QueriesAssumption == Queries \in Seq({Queries[i] : i \in DOMAIN Queries})

VARIABLES
    line,     \* the command line
    phase,    \* "flags", the link of the chain, "done", "failed" or "panicked"
    pending,  \* occurrences whose setter has not run
    client,   \* the fields of Client, with method and headers of Client.Request
    loc,      \* the location that doOne is at
    request,  \* c.Request: its query and body; whole if no link stopped the chain
    sent,     \* history: the requests
    typed     \* history: the user names and the passwords that were typed

vars == <<line, phase, pending, client, loc, request, sent, typed>>

NoFields == << >>  \* the function with an empty domain

Get(fields, name) == IF name \in DOMAIN fields THEN fields[name] ELSE <<>>
Put(fields, name, values) ==
    [n \in DOMAIN fields \cup {name} |-> IF n = name THEN values ELSE fields[n]]
Add(fields, name, values) == Put(fields, name, Get(fields, name) \o values)

(***************************************************************************)
(* Content                                                                 *)
(***************************************************************************)
\* data is the text of raw content; of JSON, the object, which is nil before Set.
NoContent == [kind |-> "none", data |-> Nothing]
NewRawContent(text) == [kind |-> "raw", data |-> text]
NewContent(kind) == [kind |-> kind, data |-> IF kind = "json" THEN NoFields ELSE Nothing]

\* json.MarshalIndent of nil is "null".
Read(content) ==
    IF content.kind = "json" /\ content.data = NoFields THEN "null" ELSE content.data

\* Only raw content can be made of other content.
Converts(content, kind) == kind = "raw"
ConvertContent(content, kind) ==
    IF content.kind = "raw" THEN content ELSE NewRawContent(Read(content))

ContentType(content) == IF content.kind = "json" THEN <<"application/json">> ELSE <<>>

\* setupBodyContent gives Set the name for the value.  Raw content refuses it,
\* form contents panic, JSON does with a dotted name.
SetOutcome(content, nv) ==
    IF content.kind = "raw" THEN "error"
    ELSE IF content.kind = "json" /\ nv.name \notin Dotted THEN "ok" ELSE "panic"
ContentSet(content, nv) ==
    IF SetOutcome(content, nv) # "ok" THEN content
    ELSE [content EXCEPT !.data = Put(@, nv.name, nv.name)]

(***************************************************************************)
(* Values of flags                                                         *)
(***************************************************************************)
\* strings.Cut with a separator of one token.
Cut(text, sep) ==
    LET i == SelectInSeq(text, LAMBDA t : t = sep)
    IN  IF i = 0 THEN [before |-> text, after |-> <<>>, found |-> FALSE]
        ELSE [before |-> SubSeq(text, 1, i - 1), after |-> SubSeq(text, i + 1, Len(text)),
              found |-> TRUE]

\* splitValuePair: at "=" if there is one (an escaped one, "\\=", is none).
SplitValuePair(text) ==
    LET equals    == Cut(text, "=")
        colon     == Cut(text, ":")
        Solid(t)  == t # " "
        Trim(s)   == IF SelectInSeq(s, Solid) = 0 THEN <<>>
                     ELSE SubSeq(s, SelectInSeq(s, Solid), SelectLastInSeq(s, Solid))
        Unescape(s) == [i \in DOMAIN s |-> IF s[i] = "\\=" THEN "=" ELSE s[i]]
    IN  IF equals.found
        THEN [name |-> Unescape(equals.before), value |-> Trim(equals.after), found |-> TRUE]
        ELSE [name |-> colon.before, value |-> Trim(colon.after), found |-> colon.found]

\* headerValueCounter: a second argument, unless the first has both.
HeaderArgs(args) ==
    IF SplitValuePair(args[1]).found THEN SubSeq(args, 1, 1) ELSE args

\* HeaderValue.Set, for one argument after the other.
HeaderSet(h, arg) ==
    IF h.name = <<>>
    THEN [name |-> SplitValuePair(arg).name, value |-> SplitValuePair(arg).value]
    ELSE [h EXCEPT !.value = @ \o arg]

ParseHeader(args) ==
    FoldLeft(HeaderSet, [name |-> <<>>, value |-> <<>>], HeaderArgs(args))

ParseUserInfo(text) ==
    LET cut == Cut(text, ":")
        One(s) == IF s = <<>> THEN Nothing ELSE s[1]
    IN  [user |-> One(cut.before), password |-> One(cut.after), hasPassword |-> cut.found]

\* NewBearerTokenAuthenticator with strings.Fields of the header option.
NewBearer(token, header) ==
    LET words == IF header \in {<<>>, <<"Authentication">>}
                 THEN <<"Authentication", "Bearer">> ELSE header
    IN  [mode |-> "bearer", field |-> <<words[1]>>, value |-> Append(Tail(words), token)]

AuthMode(mode) == [mode |-> mode, field |-> <<>>, value |-> <<>>]

(***************************************************************************)
(* The client, and what flags imply: the other flag, unless it occurred    *)
(***************************************************************************)
Occurrence(flag, arg) == <<flag, arg>>

Implied(flag) ==
    CASE flag = "body" -> {Occurrence("method", "POST"), Occurrence("body-content", "raw")}
      [] flag \in {"body-content", "json-content", "fill"} -> {Occurrence("method", "POST")}
      [] flag = "user" -> {Occurrence("auth", AuthMode("basic"))}
      [] OTHER -> {}

WithImplied(occurrences) ==
    occurrences \cup
        {i \in UNION {Implied(o[1]) : o \in occurrences} :
            \A o \in occurrences : o[1] # i[1]}

NewClient ==
    [method       |-> "GET",
     headers      |-> Put(NoFields, <<"User-Agent">>, << <<"default">> >>),
     content      |-> NoContent,
     fill         |-> <<>>,
     query        |-> NoFields,
     user         |-> [user |-> Nothing, password |-> Nothing, hasPassword |-> FALSE],
     auth         |-> AuthMode("none"),
     requestIDs   |-> <<>>,        \* middleware, "generated" or a fixed ID
     follow       |-> TRUE,
     include      |-> FALSE,
     failFast     |-> FALSE,
     downloader   |-> "stdout",
     downloads    |-> <<>>,        \* middleware of the downloader
     dialer       |-> [local |-> "any", timeout |-> "none", keepAlive |-> "default",
                       preferGo |-> FALSE, strictErrors |-> FALSE],
     dnsLocal     |-> "any",
     tls          |-> NewConfig,   \* the transport gets it with the first request
     writeOut     |-> Nothing,
     writeErr     |-> Nothing]

Init ==
    /\ line    \in CommandLines
    /\ phase   = "flags"
    /\ pending = WithImplied(line)
    /\ client  = NewClient
    /\ loc     = 0
    /\ request = [query |-> NoFields, body |-> Nothing, whole |-> FALSE]
    /\ sent    = <<>>
    /\ typed   = [users |-> <<>>, passwords |-> <<>>]

\* The flags with this name that have not run.
Args(flag) == {o[2] : o \in {o \in pending : o[1] = flag}}

Ran(flag, arg) ==
    /\ phase = "flags"
    /\ pending' = pending \ {Occurrence(flag, arg)}
    /\ UNCHANGED <<line, loc, request, sent, typed>>

\* A flag whose setter cannot fail.
Runs(flag, Setter(_)) ==
    \E arg \in Args(flag) : Ran(flag, arg) /\ client' = Setter(arg) /\ UNCHANGED phase

\* A flag whose setter may find that what arg names does not exist.
Resolves(flag, Setter(_)) ==
    \E arg \in Args(flag) :
        /\ Ran(flag, arg)
        /\ \/ client' = Setter(arg) /\ UNCHANGED phase
           \/ phase' = "failed" /\ UNCHANGED client

(***************************************************************************)
(* Request options                                                         *)
(***************************************************************************)
Upper(s) == IF s = "put" THEN "PUT" ELSE s

SetMethod(s)    == [client EXCEPT !.method = Upper(s)]
SetUserAgent(s) == [client EXCEPT !.headers = Put(@, <<"User-Agent">>, <<s>>)]
SetHeader(args) == LET h == ParseHeader(args)
                   IN  [client EXCEPT !.headers = Add(@, h.name, <<h.value>>)]
SetAccept(v)    == [client EXCEPT !.headers = Put(@, <<"Accept">>, << <<"application/json">> >>)]
SetQueryString(nv) == [client EXCEPT !.query = Add(@, nv.name, <<nv.value>>)]
SetFillValue(nv)   == [client EXCEPT !.fill = Append(@, nv)]
SetBody(text)      == [client EXCEPT !.content = NewRawContent(text)]
SetRequestID(s)    == [client EXCEPT !.requestIDs =
                                  Append(@, IF s = Nothing THEN "generated" ELSE s)]

MethodFlag    == Runs("method", SetMethod)
UserAgentFlag == Runs("user-agent", SetUserAgent)
HeaderFlag    == Runs("header", SetHeader)
JSONFlag      == Runs("json", SetAccept)
QueryFlag     == Runs("query", SetQueryString)
FillFlag      == Runs("fill", SetFillValue)
BodyFlag      == Runs("body", SetBody)
RequestIDFlag == Runs("request-id", SetRequestID)

\* Fault: content of the new type takes the place of what there is.
SetBodyContentReplacing(flag, kind) ==
    /\ kind \in Args(flag) /\ Ran(flag, kind)
    /\ client' = [client EXCEPT !.content = NewContent(kind)] /\ UNCHANGED phase

\* setBodyContentHelper, which keeps what convertContent returns with an error.
SetBodyContentHelper(flag, kind) ==
    LET old == client.content
    IN  /\ kind \in Args(flag) /\ Ran(flag, kind)
        /\ \/ /\ old.kind = "none"
              /\ client' = [client EXCEPT !.content = NewContent(kind)] /\ UNCHANGED phase
           \/ /\ old.kind # "none" /\ Converts(old, kind)
              /\ client' = [client EXCEPT !.content = ConvertContent(old, kind)]
              /\ UNCHANGED phase
           \/ /\ old.kind # "none" /\ ~Converts(old, kind)
              /\ client' = [client EXCEPT !.content = NoContent] /\ phase' = "failed"

BodyContentFlag == \E kind \in Args("body-content") : SetBodyContentHelper("body-content", kind)
JSONContentFlag == SetBodyContentHelper("json-content", "json")

SetAuth(auth)      == [client EXCEPT !.auth = auth]
SetBasicAuth(v)    == SetAuth(AuthMode("basic"))
SetUser(text)      == [client EXCEPT !.user = ParseUserInfo(text)]
AuthFlag      == Runs("auth", SetAuth)
BasicAuthFlag == Runs("basic", SetBasicAuth)
UserFlag      == Runs("user", SetUser)

(***************************************************************************)
(* Response options                                                        *)
(***************************************************************************)
SetFollowRedirects(v)        == [client EXCEPT !.follow = v]
SetIncludeResponseHeaders(v) == [client EXCEPT !.include = v]
SetFailFast(v)               == [client EXCEPT !.failFast = v]
SetWriteOut(w)               == [client EXCEPT !.writeOut = w]
SetWriteErr(w)               == [client EXCEPT !.writeErr = w]
SetOutputFile(f)             == [client EXCEPT !.downloader = f]
\* --no-output=false makes the responses go to stdout again.
SetNoOutput(b)               == [client EXCEPT !.downloader = IF b THEN "discard" ELSE "stdout"]
SetIntegrity(i)              == [client EXCEPT !.downloads = Append(@, "integrity")]
SetStripComponents(count)    == [client EXCEPT !.downloader = "requestPath",
                                               !.downloads = Append(@, "strip")]

FollowRedirectsFlag == Runs("follow-redirects", SetFollowRedirects)
IncludeFlag         == Runs("include", SetIncludeResponseHeaders)
FailFlag            == Runs("fail", SetFailFast)
WriteOutFlag        == Runs("write-out", SetWriteOut)
WriteErrFlag        == Runs("write-err", SetWriteErr)
OutputFlag          == Runs("output", SetOutputFile)
NoOutputFlag        == Runs("no-output", SetNoOutput)
IntegrityFlag       == Runs("integrity", SetIntegrity)
StripFlag           == Runs("strip-components", SetStripComponents)

\* arg is how often the flag occurred.
DownloadFlag ==
    \E arg \in Args("download") :
        /\ Ran("download", arg)
        /\ \/ arg = 1 /\ client' = [client EXCEPT !.downloader = "requestFile"] /\ UNCHANGED phase
           \/ arg = 2 /\ client' = [client EXCEPT !.downloader = "requestPath"] /\ UNCHANGED phase
           \/ arg > 2 /\ phase' = "failed" /\ UNCHANGED client

(***************************************************************************)
(* Network options                                                         *)
(***************************************************************************)
\* --bind-address and --interface share the local address of the dialer.
SetLocalAddr(addr)         == [client EXCEPT !.dialer.local = addr]
SetDNSInterface(addr)      == IF addr = Nothing THEN client ELSE [client EXCEPT !.dnsLocal = addr]
SetDialTimeout(v)          == [client EXCEPT !.dialer.timeout = v]
SetDialKeepAlive(v)        == [client EXCEPT !.dialer.keepAlive = v]
SetDisableDialKeepAlive(v) == [client EXCEPT !.dialer.keepAlive = "disabled"]
SetPreferGoDialer(v)       == [client EXCEPT !.dialer.preferGo = TRUE]
SetStrictErrorsDNS(v)      == [client EXCEPT !.dialer.strictErrors = TRUE]

BindAddressFlag      == Resolves("bind-address", SetLocalAddr)
InterfaceFlag        == Resolves("interface", SetLocalAddr)
DNSInterfaceFlag     == Resolves("dns-interface", SetDNSInterface)
DialTimeoutFlag      == Runs("dial-timeout", SetDialTimeout)
DialKeepAliveFlag    == Runs("dial-keep-alive", SetDialKeepAlive)
DisableKeepAliveFlag == Runs("disable-dial-keep-alive", SetDisableDialKeepAlive)
PreferGoFlag         == Runs("prefer-go", SetPreferGoDialer)
StrictErrorsFlag     == Runs("strict-errors", SetStrictErrorsDNS)

\* --list-interfaces, --list-ciphers and --list-curves print and exit.
Lists(flag) == \E arg \in Args(flag) : Ran(flag, arg) /\ phase' = "done" /\ UNCHANGED client

ListInterfaces == Lists("list-interfaces")
ListCiphers    == Lists("list-ciphers")
ListCurves     == Lists("list-curves")

(***************************************************************************)
(* TLS options                                                             *)
(***************************************************************************)
RunsTLS(flag, Option(_, _)) ==
    Runs(flag, LAMBDA arg : [client EXCEPT !.tls = Option(@, arg)])
ResolvesTLS(flag, Option(_, _)) ==
    Resolves(flag, LAMBDA arg : [client EXCEPT !.tls = Option(@, arg)])

CACertFlag     == RunsTLS("cacert", AddRootCACertFile)
CAPathFlag     == RunsTLS("capath", AddRootCACertPath)
InsecureFlag   == RunsTLS("insecure-skip-verify", WithInsecureSkipVerify)
ServerNameFlag == RunsTLS("server-name", WithServerName)
NextProtosFlag == RunsTLS("next-protos", WithNextProtos)
RandomFlag     == ResolvesTLS("random", WithRand)
KeyLogFlag     == ResolvesTLS("insecure-key-log-file", WithKeyLogWriter)

\* --cert also takes the value of --key, which does nothing of its own.
ClientCertFlag ==
    \E key \in {o[2] : o \in {o \in line : o[1] = "key"}} :
        RunsTLS("cert", LAMBDA c, cert : AddX509KeyPair(c, <<cert, key>>))
KeyFlag == RunsTLS("key", LAMBDA c, key : c)

\* The file of --time may not be there, which changes nothing.
TimeFlag ==
    \/ RunsTLS("time", WithTimeHelper)
    \/ RunsTLS("time", LAMBDA c, file : c)

VersionFlag(flag, min, max) ==
    RunsTLS(flag, LAMBDA c, v : IF v THEN SetVersions(c, <<min, max>>) ELSE c)
VersionFlags ==
    \/ VersionFlag("tlsv1", 10, 13)   \/ VersionFlag("tlsv1.0", 10, 10)
    \/ VersionFlag("tlsv1.1", 11, 11) \/ VersionFlag("tlsv1.2", 12, 12)
    \/ VersionFlag("tlsv1.3", 13, 13)

\* The names are looked up when the flag is read.
NamesFlag(flag, Set(_, _), With(_, _)) ==
    \E names \in Args(flag) :
        /\ Ran(flag, names)
        /\ \/ /\ Set(<<>>, names).ok
              /\ client' = [client EXCEPT !.tls = With(@, Set(<<>>, names).ids)]
              /\ UNCHANGED phase
           \/ ~Set(<<>>, names).ok /\ phase' = "failed" /\ UNCHANGED client
CiphersFlag == NamesFlag("ciphers", SuiteSet, WithCiphers)
CurvesFlag  == NamesFlag("curves", CurveSet, WithCurves)

TLSFlagRuns ==
    \/ CACertFlag \/ CAPathFlag \/ InsecureFlag \/ ServerNameFlag \/ NextProtosFlag
    \/ RandomFlag \/ KeyLogFlag \/ ClientCertFlag \/ KeyFlag \/ TimeFlag
    \/ VersionFlags \/ CiphersFlag \/ CurvesFlag \/ ListCiphers \/ ListCurves

FlagRuns ==
    \/ MethodFlag \/ UserAgentFlag \/ HeaderFlag \/ JSONFlag \/ QueryFlag \/ FillFlag
    \/ BodyFlag \/ RequestIDFlag \/ BodyContentFlag \/ JSONContentFlag
    \/ AuthFlag \/ BasicAuthFlag \/ UserFlag
    \/ FollowRedirectsFlag \/ IncludeFlag \/ FailFlag \/ WriteOutFlag \/ WriteErrFlag
    \/ OutputFlag \/ NoOutputFlag \/ IntegrityFlag \/ StripFlag \/ DownloadFlag
    \/ BindAddressFlag \/ InterfaceFlag \/ DNSInterfaceFlag \/ DialTimeoutFlag
    \/ DialKeepAliveFlag \/ DisableKeepAliveFlag \/ PreferGoFlag \/ StrictErrorsFlag
    \/ ListInterfaces \/ TLSFlagRuns


(***************************************************************************)
(* The request of a location                                               *)
(***************************************************************************)
Goto(link) == phase' = link

NextLocation ==
    /\ \/ phase = "flags" /\ pending = {}
       \/ phase = "next"
    /\ IF loc < Len(Queries)
       THEN /\ Goto("body") /\ loc' = loc + 1
            /\ request' = [request EXCEPT !.query = Queries[loc + 1], !.whole = FALSE]
       ELSE Goto("done") /\ UNCHANGED <<loc, request>>
    /\ UNCHANGED <<line, pending, client, sent, typed>>

\* acc is the content with the values before nv; what refuses one stops.
FillOne(acc, nv) ==
    IF acc.outcome # "ok" THEN acc
    ELSE [content |-> ContentSet(acc.content, nv), outcome |-> SetOutcome(acc.content, nv)]

\* filled[i] is the content with the first i values.
Filled ==
    LET start == IF client.fill # <<>> /\ client.content.kind = "none"
                 THEN NewContent("form") ELSE client.content
        filled[i \in 0..Len(client.fill)] ==
            IF i = 0 THEN [content |-> start, outcome |-> "ok"]
            ELSE FillOne(filled[i - 1], client.fill[i])
    IN  filled[Len(client.fill)]

\* Content has its type sent unless a Content-Type is there.
SetupBodyContent ==
    /\ phase = "body"
    /\ LET content == Filled.content
           type    == ContentType(content)
           filled  == [client EXCEPT !.content = content]
       IN  \/ /\ Filled.outcome = "ok"
              /\ client' = IF type # <<>> /\ Get(client.headers, <<"Content-Type">>) = <<>>
                           THEN [filled EXCEPT !.headers = Put(@, <<"Content-Type">>, <<type>>)]
                           ELSE filled
              /\ request' = IF content.kind = "none" THEN request
                            ELSE [request EXCEPT !.body = Read(content)]
              /\ Goto("query")
           \/ /\ Filled.outcome = "error"
              /\ client' = filled /\ Goto("send") /\ UNCHANGED request
           \/ /\ Filled.outcome = "panic"
              /\ client' = filled /\ Goto("panicked") /\ UNCHANGED request
    /\ UNCHANGED <<line, pending, loc, sent, typed>>

\* Fault: the values of the location are kept with those of the flags.
SetupQueryStringKeeping ==
    /\ phase = "query"
    /\ LET merged == [name \in DOMAIN request.query \cup DOMAIN client.query |->
                         Get(request.query, name) \o Get(client.query, name)]
       IN  /\ request' = [request EXCEPT !.query = merged]
           /\ client' = [client EXCEPT !.query = merged]
    /\ Goto("username")
    /\ UNCHANGED <<line, pending, loc, sent, typed>>

SetupQueryString ==
    /\ phase = "query"
    /\ request' = [request EXCEPT !.query =
                      [name \in DOMAIN @ \cup DOMAIN client.query |->
                          Get(@, name) \o Get(client.query, name)]]
    /\ Goto("username")
    /\ UNCHANGED <<line, pending, client, loc, sent, typed>>

\* promptForCredentials writes what is typed into the one UserInfo there is.  A
\* prompt that fails stops the chain.
PromptUsername ==
    /\ phase = "username"
    /\ \/ /\ client.auth.mode = "basic" /\ client.user.user = Nothing
          /\ \/ \E name \in Typed :
                   /\ client' = [client EXCEPT !.user.user = name]
                   /\ typed' = [typed EXCEPT !.users = Append(@, name)]
                   /\ Goto("password")
             \/ Goto("send") /\ UNCHANGED <<client, typed>>
       \/ /\ ~(client.auth.mode = "basic" /\ client.user.user = Nothing)
          /\ Goto("password") /\ UNCHANGED <<client, typed>>
    /\ UNCHANGED <<line, pending, loc, request, sent>>

\* Fault: the password is always asked for.
AsksPasswordAlways(c) == c.auth.mode = "basic"

\* A password that was typed does not count as one that was given.
AsksPassword(c) == c.auth.mode = "basic" /\ ~c.user.hasPassword

PromptPassword ==
    /\ phase = "password"
    /\ \/ /\ AsksPassword(client)
          /\ \/ \E word \in Typed :
                   /\ client' = [client EXCEPT !.user.password = word]
                   /\ typed' = [typed EXCEPT !.passwords = Append(@, word)]
                   /\ Goto("auth")
             \/ Goto("send") /\ UNCHANGED <<client, typed>>
       \/ ~AsksPassword(client) /\ Goto("auth") /\ UNCHANGED <<client, typed>>
    /\ UNCHANGED <<line, pending, loc, request, sent>>

\* Basic authentication replaces the field, bearer authentication adds to it.
Authenticate(c) ==
    CASE c.auth.mode = "none"   -> c.headers
      [] c.auth.mode = "basic"  ->
            Put(c.headers, <<"Authorization">>, << <<c.user.user, c.user.password>> >>)
      [] c.auth.mode = "bearer" -> Add(c.headers, c.auth.field, <<c.auth.value>>)

ApplyAuth ==
    /\ phase = "auth"
    /\ client' = [client EXCEPT !.headers = Authenticate(client)]
    /\ Goto("requestID")
    /\ UNCHANGED <<line, pending, loc, request, sent, typed>>

\* Each middleware replaces the ID; the generator yields a new one each time.
RequestIDMiddleware ==
    /\ phase = "requestID"
    /\ client' = IF client.requestIDs = <<>> THEN client
                 ELSE LET id == Last(client.requestIDs)
                      IN  [client EXCEPT !.headers =
                              Put(@, <<"X-Request-ID">>,
                                  << IF id = "generated" THEN <<id, loc>> ELSE <<id>> >>)]
    /\ request' = [request EXCEPT !.whole = TRUE]
    /\ Goto("send")
    /\ UNCHANGED <<line, pending, loc, sent, typed>>

\* Fault: a request that failed may be sent again.
SendRetrying ==
    /\ phase = "send"
    /\ sent' = Append(sent, [loc     |-> loc,            whole |-> request.whole,
                             method  |-> client.method,  query |-> request.query,
                             headers |-> client.headers, body  |-> request.body,
                             kind    |-> client.content.kind])
    /\ phase' \in {"next", "send"}
    /\ UNCHANGED <<line, pending, client, loc, request, typed>>

\* net/http may refuse the request, or what follows may fail.
Send ==
    /\ phase = "send"
    /\ \/ Goto("failed") /\ UNCHANGED sent
       \/ /\ sent' = Append(sent, [loc     |-> loc,            whole |-> request.whole,
                                   method  |-> client.method,  query |-> request.query,
                                   headers |-> client.headers, body  |-> request.body,
                                   kind    |-> client.content.kind])
          /\ phase' \in {"next", "failed"}
    /\ UNCHANGED <<line, pending, client, loc, request, typed>>

Next ==
    \/ FlagRuns \/ NextLocation
    \/ SetupBodyContent \/ SetupQueryString \/ PromptUsername \/ PromptPassword
    \/ ApplyAuth \/ RequestIDMiddleware \/ Send

Spec == Init /\ [][Next]_vars

-----------------------------------------------------------------------------
(***************************************************************************)
(* Properties                                                              *)
(***************************************************************************)
Texts(flag) == {o[2] : o \in {o \in line : o[1] = flag}}
Typing(s) == \A i \in DOMAIN s : s[i] \in Typed

\* Every variable holds a value of its type.
TypeOK ==
    /\ pending \subseteq WithImplied(line)
    /\ phase \in {"flags", "next", "body", "query", "username", "password", "auth",
                  "requestID", "send", "done", "failed", "panicked"}
    /\ DOMAIN client = DOMAIN NewClient
    /\ client.content.kind \in {"none", "raw", "json", "form", "urlencoded", "multipart"}
    /\ client.auth.mode \in {"none", "basic", "bearer"}
    /\ loc \in 0..Len(Queries) /\ request.whole \in BOOLEAN
    /\ Len(sent) <= loc
    /\ Typing(typed.users) /\ Typing(typed.passwords)

\* A flag for something else names the header.
Named(name) ==
    client.auth.field = name \/ \E args \in Texts("header") : ParseHeader(args).name = name

Type(r) == Get(r.headers, <<"Content-Type">>)
JSONType == << <<"application/json">> >>

\* The body, in whatever order the flags for it run.  "Sets the raw content of
\* the body of the request": what --body gave is what is sent, or a flag fails,
\* if no values are filled in.  With --fill the body is an object with all names
\* that were given and no others, at every location.
BodyDelivered ==
    \A i \in DOMAIN sent :
        /\ Texts("fill") = {} => \A text \in Texts("body") : sent[i].body = text
        /\ sent[i].whole /\ Texts("fill") # {} =>
              /\ sent[i].kind = "json"
              /\ DOMAIN sent[i].body = {nv.name : nv \in Texts("fill")}

\* The Content-Type when no other flag gave one: it is sent with JSON and with
\* nothing else, and --json-content alone has it sent with every whole request.
\* Left out is --json-content together with --body or --body-content.
TypeDelivered ==
    \A i \in DOMAIN sent : sent[i].whole /\ ~Named(<<"Content-Type">>) =>
        /\ Texts("json-content") = {} =>
              Type(sent[i]) = IF sent[i].kind = "json" THEN JSONType ELSE <<>>
        /\ Texts("json-content") # {} /\ Texts("body") \cup Texts("body-content") = {} =>
              Type(sent[i]) = JSONType

\* What the flags say of the body is what is sent, but for the cases that the
\* two parts leave out.
BodyAsGiven == BodyDelivered /\ TypeDelivered

\* The help of --json-content: "Sets the Content-Type header to application/json".
\* A --body that runs after it takes the place of the JSON content, type and all.
JSONTypeSent ==
    \A i \in DOMAIN sent :
        sent[i].whole /\ Texts("json-content") # {} /\ ~Named(<<"Content-Type">>) =>
            Type(sent[i]) = JSONType

\* The help of --fill: "Fills a value in the body of the request".  The name is
\* filled in where the value should be.
ValuesFilled ==
    \A i \in DOMAIN sent : sent[i].whole /\ Texts("fill") # {} =>
        \A name \in DOMAIN sent[i].body :
            [name |-> name, value |-> sent[i].body[name]] \in Texts("fill")

\* What basic authentication sends is what --user gave, and otherwise what was
\* typed last; nothing that was given, and no user name, is asked for again.
CredentialsAsGiven ==
    LET given == IF Texts("user") = {} THEN NewClient.user
                 ELSE ParseUserInfo(CHOOSE text \in Texts("user") : TRUE)
    IN  /\ (phase = "send" /\ request.whole /\ client.auth.mode = "basic") =>
              client.headers[<<"Authorization">>] =
                  << <<IF given.user # Nothing THEN given.user ELSE Last(typed.users),
                       IF given.hasPassword THEN given.password ELSE Last(typed.passwords)>> >>
        /\ given.user # Nothing => typed.users = <<>>
        /\ given.hasPassword => typed.passwords = <<>>
        /\ \A i \in DOMAIN typed.users : typed.users[i] # Nothing => i = Len(typed.users)

\* All locations share one http.Request, but nothing of one request shows in
\* the next: requests differ in what their locations differ in, and every
\* generated ID is new.  Left out are the fields of credentials: a prompt may
\* change the basic ones, and a bearer token is added once more by each location.
LocationsIndependent ==
    LET Secret == {<<"Authorization">>, <<"X-Request-ID">>, client.auth.field}
        Visible(fields) == [name \in DOMAIN fields \ Secret |-> fields[name]]
        Id(r) == Get(r.headers, <<"X-Request-ID">>)
    IN  \A i, j \in DOMAIN sent : (sent[i].whole /\ sent[j].whole) =>
            /\ sent[i].method = sent[j].method /\ sent[i].body = sent[j].body
            /\ Visible(sent[i].headers) = Visible(sent[j].headers)
            /\ Queries[sent[i].loc] = Queries[sent[j].loc] => sent[i].query = sent[j].query
            /\ Texts("request-id") # {} \/ ~Named(<<"X-Request-ID">>) =>
                  Len(Id(sent[i])) = Cardinality(Texts("request-id"))
            /\ Texts("request-id") = {Nothing} /\ i # j => Id(sent[i]) # Id(sent[j])

\* A range of versions is the one of some flag, never the minimum of one and
\* the maximum of another.  The peer is verified against all certificates of
\* the --cacert files that could be read, or by the system's roots if there were
\* none to read; what --capath adds to them, which is not said here, takes the
\* place of the system's roots and of nothing else.
TLSAsGiven ==
    LET tls      == client.tls
        readable == Texts("cacert") \cap DOMAIN CertsIn
        given    == UNION {CertsIn[file] : file \in readable}
    IN  /\ tls.minVersion <= tls.maxVersion
        /\ tls.minVersion # tls.maxVersion => Texts("tlsv1") = {TRUE}
        /\ loc > 0 /\ Texts("capath") = {} =>
              tls.roots = IF readable = {} THEN System ELSE given
        /\ loc > 0 /\ readable # {} => given \subseteq tls.roots /\ tls.roots \cap System = {}

\* "CA directory to verify peer against": --capath adds the .pem files of the
\* directory that it names.  The code adds those of the current directory.
CAPathSearched ==
    LET files == Texts("cacert") \cup UNION {PemIn[dir] : dir \in Texts("capath") \cap DOMAIN PemIn}
        certs == UNION {CertsIn[file] : file \in files \cap DOMAIN CertsIn}
    IN  loc > 0 /\ Texts("capath") # {} => client.tls.roots \subseteq certs \cup System
=============================================================================
