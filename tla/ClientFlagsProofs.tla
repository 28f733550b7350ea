--------------------------- MODULE ClientFlagsProofs ---------------------------
(***************************************************************************)
(* The safety of ClientFlags, for every command line, every locations,     *)
(* whatever is typed and whatever certificates there are.                  *)
(***************************************************************************)
EXTENDS ClientFlags, FiniteSetTheorems, SequenceTheorems, WellFoundedInduction, TLAPS

-----------------------------------------------------------------------------
(***************************************************************************)
(* The inductive invariant                                                 *)
(***************************************************************************)
\* A sequence of anything.
IsSeq(s) == Len(s) \in Nat /\ s = [i \in 1..Len(s) |-> s[i]]

Kinds == ContentTypes \cup {"none"}

\* A client has all its fields.
Shaped(c) ==
    /\ DOMAIN c = {"method", "headers", "content", "fill", "query", "user", "auth", "requestIDs",
                   "follow", "include", "failFast", "downloader", "downloads", "dialer",
                   "dnsLocal", "tls", "writeOut", "writeErr"}
    /\ DOMAIN c.content = {"kind", "data"} /\ c.content = [kind |-> c.content.kind, data |-> c.content.data]
    /\ c.content.kind \in Kinds
    /\ DOMAIN c.user = {"user", "password", "hasPassword"}
    /\ DOMAIN c.tls = {"roots", "certificates", "minVersion", "maxVersion", "insecure",
                       "serverName", "nextProtos", "suites", "curves", "time", "random", "keyLog"}
    /\ c.auth.mode \in {"none", "basic", "bearer"}
    /\ IsSeq(c.fill)
    /\ \A name \in DOMAIN c.headers : IsSeq(c.headers[name])

GivenInv == line \in CommandLines

ShapeInv == /\ Shaped(client)
            /\ request = [query |-> request.query, body |-> request.body, whole |-> request.whole]
            /\ typed = [users |-> typed.users, passwords |-> typed.passwords]
            /\ IsSeq(typed.users) /\ IsSeq(typed.passwords)

\* The links of the chain, up to what net/http does.
Chain == {"body", "query", "username", "password", "auth", "requestID", "send"}

\* Flags run before the first location, and locations come one after the other.
PhaseInv ==
    /\ phase = "flags" => loc = 0
    /\ loc = 0 => /\ phase \in {"flags", "done", "failed"}
                  /\ sent = <<>> /\ typed.users = <<>> /\ typed.passwords = <<>>
                  /\ request = [query |-> NoFields, body |-> Nothing, whole |-> FALSE]
    /\ loc > 0 => pending = {}
    /\ phase \in Chain \ {"send"} => ~request.whole

\* What the flags with this name that have run were given.
RanTexts(flag) == {o[2] : o \in {o \in line \ pending : o[1] = flag}}

Readable(files, paths) ==
    (files \cup (IF paths # {} THEN PemHere ELSE {})) \cap DOMAIN CertsIn

Versions == {0, 10, 11, 12, 13}

TLSInv ==
    /\ client.tls.minVersion \in Versions /\ client.tls.maxVersion \in Versions
    /\ client.tls.minVersion <= client.tls.maxVersion
    /\ client.tls.minVersion # client.tls.maxVersion => TRUE \in RanTexts("tlsv1")
    /\ client.tls.roots =
          LET readable == Readable(RanTexts("cacert"), RanTexts("capath"))
          IN  IF readable = {} THEN System ELSE UNION {CertsIn[file] : file \in readable}

\* What --user gave, if it has run.
UserOf(texts) == IF texts = {} THEN NewClient.user ELSE ParseUserInfo(CHOOSE text \in texts : TRUE)

\* The one UserInfo is what --user gave, with what was typed last for the rest.
UserInv ==
    LET given == UserOf(RanTexts("user"))
    IN  /\ client.user.user = IF given.user # Nothing \/ typed.users = <<>> THEN given.user
                              ELSE Last(typed.users)
        /\ client.user.password = IF given.hasPassword \/ typed.passwords = <<>>
                                  THEN given.password ELSE Last(typed.passwords)
        /\ client.user.hasPassword = given.hasPassword
        /\ given.user # Nothing => typed.users = <<>>
        /\ given.hasPassword => typed.passwords = <<>>
        /\ \A i \in DOMAIN typed.users : typed.users[i] # Nothing => i = Len(typed.users)

WholeSend == phase = "send" /\ request.whole

\* Where the credentials of basic authentication are complete, and sent.
PromptedInv ==
    client.auth.mode = "basic" =>
        LET given == UserOf(RanTexts("user"))
        IN  /\ phase \in {"password", "auth", "requestID"} \/ WholeSend =>
                  given.user # Nothing \/ typed.users # <<>>
            /\ phase \in {"auth", "requestID"} \/ WholeSend =>
                  given.hasPassword \/ typed.passwords # <<>>
            /\ phase = "requestID" \/ WholeSend =>
                  /\ <<"Authorization">> \in DOMAIN client.headers
                  /\ client.headers[<<"Authorization">>] =
                        << <<client.user.user, client.user.password>> >>

\* What --body gave is the content, and no value is filled in, from the first
\* of these that runs, unless a later one fails.
RawInv ==
    /\ RanTexts("fill") = {} => client.fill = <<>>
    /\ (loc > 0 \/ phase # "failed") =>
           \A text \in RanTexts("body") : client.content = NewRawContent(text)
    /\ Texts("fill") = {} =>
           \A text \in Texts("body") :
               /\ phase \in Chain \ {"body"} => request.body = text
               /\ \A i \in DOMAIN sent : sent[i].body = text

\* The first location has had its content.
Begun == loc > 1 \/ (loc = 1 /\ phase \notin {"body", "panicked"})

FillNames == {client.fill[i].name : i \in 1..Len(client.fill)}

\* An object with each of these names as its own value.
With(data, names) ==
    [name \in DOMAIN data \cup names |-> IF name \in names THEN name ELSE data[name]]

\* To fill in the values again would change nothing.
Settled ==
    \/ client.fill = <<>>
    \/ client.content.kind = "raw"
    \/ /\ client.content.kind = "json" /\ FillNames \cap Dotted = {}
       /\ client.content.data = With(client.content.data, FillNames)

BodyOf(content) == IF content.kind = "none" THEN Nothing ELSE Read(content)

\* The values to fill in are those of the flags that have run, and JSON content
\* has no other names.  --json-content makes JSON of it, if no flag for other
\* content is there.
FillsInv ==
    /\ FillNames = {nv.name : nv \in RanTexts("fill")}
    /\ client.content.kind = "json" => DOMAIN client.content.data \subseteq FillNames
    /\ (loc > 0 \/ phase # "failed") /\ RanTexts("json-content") # {}
          /\ Texts("body") \cup Texts("body-content") = {} => client.content.kind = "json"

FilledInv ==
    /\ Begun => Settled
    /\ phase \in Chain \ {"body", "send"} \/ WholeSend =>
           client.fill = <<>> \/ client.content.kind = "json"
    /\ client.content.kind = "none" => request.body = Nothing
    /\ phase \in Chain \ {"body", "send"} \/ WholeSend =>
           request.body = BodyOf(client.content)

\* The header fields before the first location are those of flags; with the
\* first one JSON adds its type.
HeadersInv ==
    /\ loc = 0 => \A name \in DOMAIN client.headers :
                     \/ name \in {<<"User-Agent">>, <<"Accept">>}
                     \/ \E args \in Texts("header") : ParseHeader(args).name = name
    /\ ~Named(<<"Content-Type">>) =>
           Get(client.headers, <<"Content-Type">>) =
               IF Begun /\ client.content.kind = "json" THEN JSONType ELSE <<>>
    /\ Begun /\ client.content.kind = "json" => Get(client.headers, <<"Content-Type">>) # <<>>
    /\ ~Named(<<"X-Request-ID">>) /\ client.requestIDs = <<>> =>
           <<"X-Request-ID">> \notin DOMAIN client.headers

\* What the last --request-id middleware puts in for a location.
IdOf(location) ==
    LET id == Last(client.requestIDs)
    IN  << IF id = "generated" THEN <<id, location>> ELSE <<id>> >>

\* The middleware of what --request-id gave, if it has run.
RequestIDsOf(texts) ==
    IF texts = {} THEN <<>>
    ELSE << IF (CHOOSE s \in texts : TRUE) = Nothing THEN "generated"
            ELSE CHOOSE s \in texts : TRUE >>

RequestIDsInv == client.requestIDs = RequestIDsOf(RanTexts("request-id"))

Merged(query) ==
    [name \in DOMAIN query \cup DOMAIN client.query |-> Get(query, name) \o Get(client.query, name)]

\* What is in the request for this location.
QueryInv ==
    /\ phase \in {"body", "query"} => request.query = Queries[loc]
    /\ phase \in {"username", "password", "auth", "requestID"} \/ WholeSend =>
           request.query = Merged(Queries[loc])
    /\ WholeSend /\ client.requestIDs # <<>> =>
           Get(client.headers, <<"X-Request-ID">>) = IdOf(loc)

Visible(fields) ==
    [name \in DOMAIN fields \ {<<"Authorization">>, <<"X-Request-ID">>, client.auth.field} |->
        fields[name]]

\* A whole request is what the client still is, but for the query of its
\* location, the ID and the credentials.
AsNow(r) ==
    /\ r.method = client.method /\ r.body = BodyOf(client.content)
    /\ r.kind = client.content.kind /\ (client.fill # <<>> => r.kind = "json")
    /\ Visible(r.headers) = Visible(client.headers)
    /\ r.query = Merged(Queries[r.loc])
    /\ client.requestIDs # <<>> => Get(r.headers, <<"X-Request-ID">>) = IdOf(r.loc)
    /\ ~Named(<<"X-Request-ID">>) /\ client.requestIDs = <<>> =>
           Get(r.headers, <<"X-Request-ID">>) = <<>>
    /\ ~Named(<<"Content-Type">>) =>
           Get(r.headers, <<"Content-Type">>) = IF r.kind = "json" THEN JSONType ELSE <<>>

SentInv ==
    /\ IsSeq(sent)
    /\ Len(sent) <= loc /\ (phase \in Chain \cup {"panicked"} => Len(sent) < loc)
    /\ \A i \in 1..Len(sent) :
          /\ sent[i].loc \in 1..loc /\ (phase \in Chain \cup {"panicked"} => sent[i].loc < loc)
          /\ \A j \in 1..Len(sent) : j < i => sent[j].loc < sent[i].loc
          /\ sent[i].whole => AsNow(sent[i])

IInv == /\ TypeOK /\ GivenInv /\ ShapeInv /\ PhaseInv
        /\ TLSInv /\ UserInv /\ PromptedInv /\ RawInv
        /\ FillsInv /\ FilledInv /\ HeadersInv /\ RequestIDsInv /\ QueryInv /\ SentInv
(***************************************************************************)
(* Induction over the natural numbers, as a fact about sets: a set that    *)
(* lacks a number lacks a least one.                                       *)
(***************************************************************************)
Less == OpToRel(<, Nat)

LEMMA LeastNumber ==
  ASSUME NEW T, T \subseteq Nat, T # {}
  PROVE  \E x \in T : \A y \in T : x <= y
  <1>1. IsWellFoundedOn(Less, Nat)
    BY NatLessThanWellFounded, Zenon DEF Less
  <1>2. \A i, j \in Nat : <<i, j>> \in Less <=> i < j
    BY Zenon DEF Less, OpToRel
  <1>3. PICK x \in T : \A y \in T : <<y, x>> \notin Less
    BY <1>1, WFMin
  <1>4. \A y \in T : x \in Nat /\ y \in Nat /\ ~(y < x)
    BY <1>2, <1>3
  <1>5. \A y \in T : x <= y
    BY <1>4
  <1> QED BY <1>5

LEMMA Induction ==
  ASSUME NEW T, 0 \in T, \A k \in Nat : k \in T => k + 1 \in T
  PROVE  Nat \subseteq T
  <1> SUFFICES ASSUME Nat \ T # {} PROVE FALSE
    OBVIOUS
  <1>1. PICK x \in Nat \ T : \A y \in Nat \ T : x <= y
    BY LeastNumber
  <1>2. x - 1 \in Nat
    BY <1>1
  <1> QED BY <1>1, <1>2

-----------------------------------------------------------------------------
(***************************************************************************)
(* Sequences                                                               *)
(***************************************************************************)
LEMMA TypedSeq ==
  ASSUME NEW S, NEW s \in Seq(S)
  PROVE  IsSeq(s)
  BY DEF IsSeq

LEMMA EmptyIsSeq == IsSeq(<<>>) /\ Len(<<>>) = 0
  <1>1. <<>> \in Seq({})
    OBVIOUS
  <1> QED BY <1>1, TypedSeq

LEMMA NonemptySeq ==
  ASSUME NEW s, IsSeq(s)
  PROVE  s # <<>> <=> Len(s) > 0
  <1>1. s \in Seq({s[i] : i \in 1..Len(s)})
    BY DEF IsSeq
  <1> QED BY <1>1

LEMMA OneSeq ==
  ASSUME NEW e
  PROVE  IsSeq(<<e>>) /\ Len(<<e>>) = 1 /\ <<e>> # <<>> /\ Last(<<e>>) = e
  BY DEF IsSeq, Last

LEMMA SeqIsSeq ==
  ASSUME NEW s, IsSeq(s), NEW e
  PROVE  \E S : s \in Seq(S) /\ e \in S
  <1> DEFINE S == {s[i] : i \in 1..Len(s)} \cup {e}
  <1>1. s \in Seq(S)
    BY DEF IsSeq
  <1> QED BY <1>1

LEMMA AppendSeq ==
  ASSUME NEW s, IsSeq(s), NEW e
  PROVE  /\ IsSeq(Append(s, e)) /\ Len(Append(s, e)) = Len(s) + 1 /\ Append(s, e) # <<>>
         /\ \A i \in 1..Len(s) : Append(s, e)[i] = s[i]
         /\ Append(s, e)[Len(s) + 1] = e /\ Last(Append(s, e)) = e
  <1>1. PICK S : s \in Seq(S) /\ e \in S
    BY SeqIsSeq
  <1>2. /\ Append(s, e) \in Seq(S) /\ Len(Append(s, e)) = Len(s) + 1
        /\ \A i \in 1..Len(s) : Append(s, e)[i] = s[i]
        /\ Append(s, e)[Len(s) + 1] = e
    BY <1>1
  <1>3. Len(s) \in Nat
    BY DEF IsSeq
  <1> HIDE DEF IsSeq
  <1>4. IsSeq(Append(s, e))
    <2> DEFINE t == Append(s, e)
    <2>1. t \in Seq(S)
      BY <1>2
    <2> HIDE DEF t
    <2>2. IsSeq(t)
      BY <2>1 DEF IsSeq
    <2> QED BY <2>2 DEF t
  <1>5. Append(s, e) # <<>>
    BY <1>2, <1>3, EmptyIsSeq
  <1>6. Last(Append(s, e)) = e
    BY <1>2, Zenon DEF Last
  <1> QED BY <1>2, <1>4, <1>5, <1>6

LEMMA ConcatSeq ==
  ASSUME NEW s, IsSeq(s), NEW e
  PROVE  IsSeq(s \o <<e>>) /\ s \o <<e>> # <<>>
  <1>1. PICK S : s \in Seq(S) /\ e \in S
    BY SeqIsSeq
  <1> DEFINE t == s \o <<e>>
  <1>2. t \in Seq(S) /\ Len(t) = Len(s) + 1
    BY <1>1
  <1>3. Len(s) \in Nat
    BY DEF IsSeq
  <1> HIDE DEF t
  <1>4. IsSeq(t)
    BY <1>2 DEF IsSeq
  <1>5. t # <<>>
    BY <1>2, <1>3, EmptyIsSeq
  <1> QED BY <1>4, <1>5 DEF t

-----------------------------------------------------------------------------
(***************************************************************************)
(* The fields of a client                                                  *)
(***************************************************************************)
LEMMA PutDomain ==
  \A fields, name, values : DOMAIN Put(fields, name, values) = DOMAIN fields \cup {name}
  BY DEF Put

LEMMA PutValue ==
  \A fields, name, values : \A n \in DOMAIN fields \cup {name} :
      Put(fields, name, values)[n] = IF n = name THEN values ELSE fields[n]
  BY DEF Put

AllSeqs(fields) == \A name \in DOMAIN fields : IsSeq(fields[name])

LEMMA PutSeqs ==
  ASSUME NEW fields, AllSeqs(fields), NEW name, NEW e
  PROVE  AllSeqs(Put(fields, name, <<e>>)) /\ AllSeqs(Add(fields, name, <<e>>))
  <1>1. IsSeq(<<e>>)
    BY OneSeq
  <1>2. IsSeq(Get(fields, name))
    BY EmptyIsSeq, Zenon DEF Get, AllSeqs
  <1>3. IsSeq(Get(fields, name) \o <<e>>)
    BY <1>2, ConcatSeq
  <1>4. ASSUME NEW values, IsSeq(values) PROVE AllSeqs(Put(fields, name, values))
    <2> DEFINE g == Put(fields, name, values)
    <2>1. DOMAIN g = DOMAIN fields \cup {name}
      BY PutDomain
    <2>2. \A n \in DOMAIN fields \cup {name} : g[n] = IF n = name THEN values ELSE fields[n]
      BY PutValue
    <2> HIDE DEF g
    <2>3. AllSeqs(g)
      BY <1>4, <2>1, <2>2 DEF AllSeqs
    <2> QED BY <2>3 DEF g
  <1> QED BY <1>1, <1>3, <1>4, Zenon DEF Add

\* What a step does to a client, but for one of these fields.
Keeps(c, d, field) ==
    /\ Shaped(d)
    /\ field # "headers" => d.headers = c.headers
    /\ field # "content" => d.content = c.content
    /\ field # "fill" => d.fill = c.fill
    /\ field # "user" => d.user = c.user
    /\ field # "auth" => d.auth = c.auth
    /\ field # "requestIDs" => d.requestIDs = c.requestIDs
    /\ field # "tls" => d.tls = c.tls
    /\ field # "method" => d.method = c.method
    /\ field # "query" => d.query = c.query

Dull == {"follow", "include", "failFast", "downloader", "downloads", "dialer", "dnsLocal",
         "writeOut", "writeErr"}

LEMMA KeepsItself ==
  ASSUME NEW c, Shaped(c), NEW field
  PROVE  Keeps(c, c, field)
  BY DEF Keeps

LEMMA KeepsExcept ==
  ASSUME NEW c, Shaped(c), NEW v
  PROVE  /\ Keeps(c, [c EXCEPT !.method = v], "method")
         /\ Keeps(c, [c EXCEPT !.query = v], "query")
         /\ Keeps(c, [c EXCEPT !.requestIDs = v], "requestIDs")
         /\ Keeps(c, [c EXCEPT !.follow = v], "follow")
         /\ Keeps(c, [c EXCEPT !.include = v], "include")
         /\ Keeps(c, [c EXCEPT !.failFast = v], "failFast")
         /\ Keeps(c, [c EXCEPT !.downloader = v], "downloader")
         /\ Keeps(c, [c EXCEPT !.downloads = v], "downloads")
         /\ Keeps(c, [c EXCEPT !.dialer.local = v], "dialer")
         /\ Keeps(c, [c EXCEPT !.dialer.timeout = v], "dialer")
         /\ Keeps(c, [c EXCEPT !.dialer.keepAlive = v], "dialer")
         /\ Keeps(c, [c EXCEPT !.dialer.preferGo = v], "dialer")
         /\ Keeps(c, [c EXCEPT !.dialer.strictErrors = v], "dialer")
         /\ Keeps(c, [c EXCEPT !.dnsLocal = v], "dnsLocal")
         /\ Keeps(c, [c EXCEPT !.writeOut = v], "writeOut")
         /\ Keeps(c, [c EXCEPT !.writeErr = v], "writeErr")
  BY DEF Keeps, Shaped

LEMMA StripKeeps ==
  ASSUME NEW c, Shaped(c), NEW v, NEW w
  PROVE  Keeps(c, [c EXCEPT !.downloader = v, !.downloads = w], "downloads")
  BY DEF Keeps, Shaped

LEMMA HeadersKeep ==
  ASSUME NEW c, Shaped(c), NEW fields, AllSeqs(fields)
  PROVE  /\ Keeps(c, [c EXCEPT !.headers = fields], "headers")
         /\ [c EXCEPT !.headers = fields].headers = fields
  BY DEF Keeps, Shaped, AllSeqs

IsContent(content) ==
    /\ DOMAIN content = {"kind", "data"} /\ content = [kind |-> content.kind, data |-> content.data]
    /\ content.kind \in Kinds

LEMMA ContentKeeps ==
  ASSUME NEW c, Shaped(c), NEW content, IsContent(content)
  PROVE  /\ Keeps(c, [c EXCEPT !.content = content], "content")
         /\ [c EXCEPT !.content = content].content = content
  BY DEF Keeps, Shaped, IsContent

LEMMA FillKeeps ==
  ASSUME NEW c, Shaped(c), NEW nv
  PROVE  Keeps(c, [c EXCEPT !.fill = Append(@, nv)], "fill")
  <1>1. IsSeq(Append(c.fill, nv))
    BY AppendSeq DEF Shaped
  <1>2. ASSUME NEW v, IsSeq(v) PROVE Keeps(c, [c EXCEPT !.fill = v], "fill")
    BY <1>2 DEF Keeps, Shaped
  <1> QED BY <1>1, <1>2

LEMMA UserKeeps ==
  ASSUME NEW c, Shaped(c), NEW user, DOMAIN user = {"user", "password", "hasPassword"}
  PROVE  Keeps(c, [c EXCEPT !.user = user], "user") /\ [c EXCEPT !.user = user].user = user
  BY DEF Keeps, Shaped

LEMMA AuthKeeps ==
  ASSUME NEW c, Shaped(c), NEW auth, auth.mode \in {"none", "basic", "bearer"}
  PROVE  Keeps(c, [c EXCEPT !.auth = auth], "auth")
  BY DEF Keeps, Shaped

TLSFields == {"roots", "certificates", "minVersion", "maxVersion", "insecure", "serverName",
              "nextProtos", "suites", "curves", "time", "random", "keyLog"}

LEMMA TLSKeeps ==
  ASSUME NEW c, Shaped(c), NEW config, DOMAIN config = TLSFields
  PROVE  Keeps(c, [c EXCEPT !.tls = config], "tls") /\ [c EXCEPT !.tls = config].tls = config
  BY DEF Keeps, Shaped, TLSFields

\* What an option of the TLS configuration leaves.
TLSOptionKeeps(t, u) ==
    DOMAIN u = TLSFields /\ u.roots = t.roots
    /\ u.minVersion = t.minVersion /\ u.maxVersion = t.maxVersion

LEMMA TLSOptions ==
  ASSUME NEW t, DOMAIN t = TLSFields, NEW v
  PROVE  /\ TLSOptionKeeps(t, t)
         /\ TLSOptionKeeps(t, WithInsecureSkipVerify(t, v))
         /\ TLSOptionKeeps(t, WithServerName(t, v)) /\ TLSOptionKeeps(t, WithNextProtos(t, v))
         /\ TLSOptionKeeps(t, WithCiphers(t, v))    /\ TLSOptionKeeps(t, WithCurves(t, v))
         /\ TLSOptionKeeps(t, WithTimeHelper(t, v)) /\ TLSOptionKeeps(t, WithRand(t, v))
         /\ TLSOptionKeeps(t, WithKeyLogWriter(t, v))
         /\ TLSOptionKeeps(t, AddX509KeyPair(t, v))
  BY DEF TLSOptionKeeps, TLSFields, WithInsecureSkipVerify, WithServerName, WithNextProtos,
         WithCiphers, WithCurves, WithTimeHelper, WithRand, WithKeyLogWriter, AddX509KeyPair

LEMMA TLSVersions ==
  ASSUME NEW t, DOMAIN t = TLSFields, NEW min, NEW max
  PROVE  LET u == SetVersions(t, <<min, max>>)
         IN  /\ DOMAIN u = TLSFields /\ u.roots = t.roots
             /\ u.minVersion = min /\ u.maxVersion = max
  BY DEF TLSFields, SetVersions

LEMMA TLSRoots ==
  ASSUME NEW t, DOMAIN t = TLSFields, NEW roots
  PROVE  LET u == [t EXCEPT !.roots = roots]
         IN  /\ DOMAIN u = TLSFields /\ u.roots = roots
             /\ u.minVersion = t.minVersion /\ u.maxVersion = t.maxVersion
  BY DEF TLSFields

-----------------------------------------------------------------------------
(***************************************************************************)
(* What the flags do                                                       *)
(***************************************************************************)
HeaderFlags == {"user-agent", "header", "json"}
VersionNames == {"tlsv1", "tlsv1.0", "tlsv1.1", "tlsv1.2", "tlsv1.3"}

\* The fields of the header that a flag names.
NamedBy(flag, arg) ==
    {<<"User-Agent">>, <<"Accept">>} \cup IF flag = "header" THEN {ParseHeader(arg).name} ELSE {}

ContentEffect(flag, arg) ==
    IF flag = "body" THEN client'.content = NewRawContent(arg)
    ELSE IF flag \in {"body-content", "json-content"}
    THEN /\ client.content.kind = "raw" => client'.content = client.content \/ phase' = "failed"
         /\ client'.content.kind = "json" =>
               client'.content = client.content \/ DOMAIN client'.content.data = {}
         /\ flag = "json-content" => client'.content.kind = "json" \/ phase' = "failed"
    ELSE client'.content = client.content

RootsEffect(flag, arg) ==
    client'.tls.roots = IF flag = "cacert" THEN AddRootCACertFile(client.tls, arg).roots
                        ELSE IF flag = "capath" THEN AddRootCACertPath(client.tls, arg).roots
                        ELSE client.tls.roots

VersionsEffect(flag, arg) ==
    \/ /\ client'.tls.minVersion = client.tls.minVersion
       /\ client'.tls.maxVersion = client.tls.maxVersion
    \/ client'.tls.minVersion \in Versions /\ client'.tls.maxVersion = client'.tls.minVersion
    \/ /\ flag = "tlsv1" /\ arg = TRUE
       /\ client'.tls.minVersion = 10 /\ client'.tls.maxVersion = 13

\* One flag ran, and changed of the client what the invariant is about.
FlagEffect(flag, arg) ==
    /\ phase = "flags" /\ phase' \in {"flags", "done", "failed"}
    /\ <<flag, arg>> \in pending /\ pending' = pending \ {<<flag, arg>>}
    /\ UNCHANGED <<line, loc, request, sent, typed>>
    /\ Shaped(client')
    /\ flag \notin HeaderFlags => client'.headers = client.headers
    /\ DOMAIN client'.headers \subseteq DOMAIN client.headers \cup NamedBy(flag, arg)
    /\ ContentEffect(flag, arg)
    /\ client'.fill = IF flag = "fill" THEN Append(client.fill, arg) ELSE client.fill
    /\ client'.user = IF flag = "user" THEN ParseUserInfo(arg) ELSE client.user
    /\ client'.requestIDs = IF flag = "request-id"
                            THEN Append(client.requestIDs,
                                        IF arg = Nothing THEN "generated" ELSE arg)
                            ELSE client.requestIDs
    /\ RootsEffect(flag, arg) /\ VersionsEffect(flag, arg)

\* These flags are implied by others; all others are on the command line.
ImpliedFlags == {"method", "body-content", "auth"}

LEMMA ImpliedOccurrences ==
  ASSUME GivenInv, NEW o \in WithImplied(line)
  PROVE  o = <<o[1], o[2]>> /\ (o \in line \/ o[1] \in ImpliedFlags)
  <1>1. ASSUME o \in line PROVE o = <<o[1], o[2]>>
    BY <1>1, OccurrencesAssumption, Zenon DEF GivenInv
  <1>2. ASSUME NEW flag, o \in Implied(flag) PROVE o = <<o[1], o[2]>> /\ o[1] \in ImpliedFlags
    <2>1. \/ o = <<"method", "POST">> \/ o = <<"body-content", "raw">>
          \/ o = <<"auth", AuthMode("basic")>>
      BY <1>2 DEF Implied, Occurrence
    <2> QED BY <2>1 DEF ImpliedFlags
  <1>3. o \in line \/ \E flag : o \in Implied(flag)
    <2>1. ASSUME o \notin line PROVE \E flag : o \in Implied(flag)
      <3>1. o \in UNION {Implied(p[1]) : p \in line}
        BY <2>1 DEF WithImplied
      <3>2. PICK p \in line : o \in Implied(p[1])
        BY <3>1
      <3> QED BY <3>2
    <2> QED BY <2>1
  <1> QED BY <1>1, <1>2, <1>3

LEMMA ArgsArePending ==
  ASSUME NEW flag, NEW arg \in Args(flag), GivenInv, pending \subseteq WithImplied(line)
  PROVE  <<flag, arg>> \in pending /\ (flag \notin ImpliedFlags => <<flag, arg>> \in line)
  <1>1. PICK o \in pending : o[1] = flag /\ o[2] = arg
    BY DEF Args
  <1>2. o = <<o[1], o[2]>> /\ (o \in line \/ o[1] \in ImpliedFlags)
    BY ImpliedOccurrences
  <1> QED BY <1>1, <1>2

LEMMA FlagArguments ==
  ASSUME NEW flag, NEW arg \in Args(flag), GivenInv, pending \subseteq WithImplied(line)
  PROVE  /\ flag = "auth" => arg.mode \in {"none", "basic", "bearer"}
         /\ flag = "body-content" => arg \in ContentTypes
         /\ flag \in VersionNames => arg \in BOOLEAN
  <1>1. PICK o \in pending : o[1] = flag /\ o[2] = arg
    BY DEF Args
  <1>2. ASSUME o \in line
        PROVE  /\ o[1] = "auth" => o[2].mode \in {"none", "basic", "bearer"}
               /\ o[1] = "body-content" => o[2] \in ContentTypes
               /\ o[1] \in VersionNames => o[2] \in BOOLEAN
    BY <1>2, ArgumentsAssumption, Zenon DEF GivenInv, VersionNames
  <1>3. ASSUME NEW f, o \in Implied(f)
        PROVE  /\ o[1] = "auth" => o[2].mode \in {"none", "basic", "bearer"}
               /\ o[1] = "body-content" => o[2] \in ContentTypes
               /\ o[1] \in VersionNames => o[2] \in BOOLEAN
    <2>1. \/ o = <<"method", "POST">> \/ o = <<"body-content", "raw">>
          \/ o = <<"auth", AuthMode("basic")>>
      BY <1>3 DEF Implied, Occurrence
    <2>2. AuthMode("basic").mode = "basic"
      BY DEF AuthMode
    <2> QED BY <2>1, <2>2 DEF VersionNames, ContentTypes
  <1>4. o \in line \/ \E f : o \in Implied(f)
    <2>1. ASSUME o \notin line PROVE \E f : o \in Implied(f)
      <3>1. o \in UNION {Implied(p[1]) : p \in line}
        BY <2>1 DEF WithImplied
      <3>2. PICK p \in line : o \in Implied(p[1])
        BY <3>1
      <3> QED BY <3>2
    <2> QED BY <2>1
  <1> QED BY <1>1, <1>2, <1>3, <1>4

\* A step of Ran leaves what no setter touches.
LEMMA RanEffect ==
  ASSUME NEW flag, NEW arg \in Args(flag), GivenInv, pending \subseteq WithImplied(line),
         Ran(flag, arg)
  PROVE  /\ phase = "flags"
         /\ <<flag, arg>> \in pending /\ pending' = pending \ {<<flag, arg>>}
         /\ UNCHANGED <<line, loc, request, sent, typed>>
  BY ArgsArePending DEF Ran, Occurrence

FieldsOfInterest == {"headers", "content", "fill", "user", "requestIDs", "tls"}

\* A flag whose setter leaves the fields that the invariant is about.
LEMMA DullFlag ==
  ASSUME NEW flag, NEW arg \in Args(flag), GivenInv, pending \subseteq WithImplied(line),
         Ran(flag, arg), phase' \in {"flags", "done", "failed"},
         NEW field, field \notin FieldsOfInterest, Keeps(client, client', field),
         flag \notin {"body", "body-content", "json-content", "fill", "user", "request-id",
                      "cacert", "capath"}
  PROVE  FlagEffect(flag, arg)
  <1>1. /\ phase = "flags"
        /\ <<flag, arg>> \in pending /\ pending' = pending \ {<<flag, arg>>}
        /\ UNCHANGED <<line, loc, request, sent, typed>>
    BY RanEffect
  <1>2. /\ Shaped(client') /\ client'.headers = client.headers /\ client'.content = client.content
        /\ client'.fill = client.fill /\ client'.user = client.user
        /\ client'.requestIDs = client.requestIDs /\ client'.tls = client.tls
    BY DEF Keeps, FieldsOfInterest
  <1>3. ContentEffect(flag, arg)
    BY <1>2 DEF ContentEffect
  <1>4. RootsEffect(flag, arg) /\ VersionsEffect(flag, arg)
    BY <1>2 DEF RootsEffect, VersionsEffect
  <1> QED BY <1>1, <1>2, <1>3, <1>4 DEF FlagEffect

LEMMA HeadersFlag ==
  ASSUME NEW flag \in HeaderFlags, NEW arg \in Args(flag), GivenInv,
         pending \subseteq WithImplied(line), Ran(flag, arg), UNCHANGED phase, Shaped(client),
         NEW name \in NamedBy(flag, arg), NEW e,
         \/ client' = [client EXCEPT !.headers = Put(client.headers, name, <<e>>)]
         \/ client' = [client EXCEPT !.headers = Add(client.headers, name, <<e>>)]
  PROVE  FlagEffect(flag, arg)
  <1>1. /\ phase = "flags"
        /\ <<flag, arg>> \in pending /\ pending' = pending \ {<<flag, arg>>}
        /\ UNCHANGED <<line, loc, request, sent, typed>>
    BY RanEffect
  <1>2. PICK fields : /\ AllSeqs(fields) /\ DOMAIN fields = DOMAIN client.headers \cup {name}
                      /\ client' = [client EXCEPT !.headers = fields]
    <2>1. AllSeqs(client.headers)
      BY DEF Shaped, AllSeqs
    <2>2. /\ AllSeqs(Put(client.headers, name, <<e>>)) /\ AllSeqs(Add(client.headers, name, <<e>>))
      BY <2>1, PutSeqs
    <2>3. DOMAIN Put(client.headers, name, <<e>>) = DOMAIN client.headers \cup {name}
      BY PutDomain
    <2>4. DOMAIN Add(client.headers, name, <<e>>) = DOMAIN client.headers \cup {name}
      BY PutDomain DEF Add
    <2> QED BY <2>2, <2>3, <2>4
  <1>3. Keeps(client, client', "headers") /\ client'.headers = fields
    BY <1>2, HeadersKeep
  <1>4. /\ Shaped(client') /\ client'.content = client.content
        /\ client'.fill = client.fill /\ client'.user = client.user
        /\ client'.requestIDs = client.requestIDs /\ client'.tls = client.tls
    BY <1>3 DEF Keeps
  <1>5. flag \notin {"body", "body-content", "json-content", "fill", "user", "request-id",
                     "cacert", "capath"}
    BY DEF HeaderFlags
  <1>6. ContentEffect(flag, arg)
    BY <1>4, <1>5 DEF ContentEffect
  <1>7. RootsEffect(flag, arg) /\ VersionsEffect(flag, arg)
    BY <1>4, <1>5 DEF RootsEffect, VersionsEffect
  <1>8. DOMAIN client'.headers \subseteq DOMAIN client.headers \cup NamedBy(flag, arg)
    BY <1>2, <1>3
  <1> QED BY <1>1, <1>4, <1>5, <1>6, <1>7, <1>8 DEF FlagEffect

LEMMA TLSFlag ==
  ASSUME NEW flag, NEW arg \in Args(flag), GivenInv, pending \subseteq WithImplied(line),
         Ran(flag, arg), phase' \in {"flags", "failed"}, Shaped(client),
         NEW config, DOMAIN config = TLSFields, client' = [client EXCEPT !.tls = config],
         RootsEffect(flag, arg), VersionsEffect(flag, arg),
         flag \notin {"body", "body-content", "json-content", "fill", "user", "request-id"}
  PROVE  FlagEffect(flag, arg)
  <1>1. /\ phase = "flags"
        /\ <<flag, arg>> \in pending /\ pending' = pending \ {<<flag, arg>>}
        /\ UNCHANGED <<line, loc, request, sent, typed>>
    BY RanEffect
  <1>2. Keeps(client, client', "tls")
    BY TLSKeeps
  <1>3. /\ Shaped(client') /\ client'.headers = client.headers /\ client'.content = client.content
        /\ client'.fill = client.fill /\ client'.user = client.user
        /\ client'.requestIDs = client.requestIDs
    BY <1>2 DEF Keeps
  <1>4. ContentEffect(flag, arg)
    BY <1>3 DEF ContentEffect
  <1> QED BY <1>1, <1>3, <1>4 DEF FlagEffect

\* An option that is neither about the roots nor about versions.
LEMMA DullTLSFlag ==
  ASSUME NEW flag, NEW arg \in Args(flag), GivenInv, pending \subseteq WithImplied(line),
         Ran(flag, arg), phase' \in {"flags", "failed"}, Shaped(client),
         NEW config, TLSOptionKeeps(client.tls, config), client' = [client EXCEPT !.tls = config],
         flag \notin {"body", "body-content", "json-content", "fill", "user", "request-id",
                      "cacert", "capath"}
  PROVE  FlagEffect(flag, arg)
  <1>1. client'.tls = config
    BY TLSKeeps DEF TLSOptionKeeps
  <1>2. RootsEffect(flag, arg) /\ VersionsEffect(flag, arg)
    BY <1>1 DEF RootsEffect, VersionsEffect, TLSOptionKeeps
  <1>3. DOMAIN config = TLSFields
    BY DEF TLSOptionKeeps
  <1> QED BY <1>2, <1>3, TLSFlag

SomeEffect == \E flag, arg : FlagEffect(flag, arg)

\* The flags for the request line and its header.
LEMMA RequestFlagsRun ==
  ASSUME MethodFlag \/ UserAgentFlag \/ HeaderFlag \/ JSONFlag \/ QueryFlag,
         GivenInv, pending \subseteq WithImplied(line), Shaped(client)
  PROVE  SomeEffect
  <1>1. CASE MethodFlag
    <2>1. PICK arg \in Args("method") : /\ Ran("method", arg) /\ UNCHANGED phase
                                         /\ client' = [client EXCEPT !.method = Upper(arg)]
      BY <1>1, Zenon DEF MethodFlag, Runs, SetMethod
    <2>2. Keeps(client, client', "method")
      BY <2>1, KeepsExcept
    <2>3. Ran("method", arg) /\ phase' \in {"flags", "done", "failed"}
      BY <2>1 DEF Ran
    <2>4. FlagEffect("method", arg)
      BY <2>2, <2>3, DullFlag DEF FieldsOfInterest
    <2> QED BY <2>4 DEF SomeEffect
  <1>2. CASE UserAgentFlag
    <2>1. PICK arg \in Args("user-agent") : /\ Ran("user-agent", arg) /\ UNCHANGED phase
                                         /\ client' = [client EXCEPT !.headers = Put(@, <<"User-Agent">>, <<arg>>)]
      BY <1>2, Zenon DEF UserAgentFlag, Runs, SetUserAgent
    <2>2. <<"User-Agent">> \in NamedBy("user-agent", arg)
      BY DEF NamedBy
    <2>3. client' = [client EXCEPT !.headers = Put(client.headers, <<"User-Agent">>, <<arg>>)]
      BY <2>1, Zenon
    <2>4. FlagEffect("user-agent", arg)
      BY <2>1, <2>2, <2>3, HeadersFlag DEF HeaderFlags
    <2> QED BY <2>4 DEF SomeEffect
  <1>3. CASE HeaderFlag
    <2>1. PICK arg \in Args("header") : /\ Ran("header", arg) /\ UNCHANGED phase
                                         /\ client' = [client EXCEPT !.headers = Add(@, ParseHeader(arg).name, <<ParseHeader(arg).value>>)]
      BY <1>3, Zenon DEF HeaderFlag, Runs, SetHeader
    <2>2. ParseHeader(arg).name \in NamedBy("header", arg)
      BY DEF NamedBy
    <2>3. client' = [client EXCEPT !.headers = Add(client.headers, ParseHeader(arg).name, <<ParseHeader(arg).value>>)]
      BY <2>1, Zenon
    <2>4. FlagEffect("header", arg)
      BY <2>1, <2>2, <2>3, HeadersFlag DEF HeaderFlags
    <2> QED BY <2>4 DEF SomeEffect
  <1>4. CASE JSONFlag
    <2>1. PICK arg \in Args("json") : /\ Ran("json", arg) /\ UNCHANGED phase
                                         /\ client' = [client EXCEPT !.headers = Put(@, <<"Accept">>, << <<"application/json">> >>)]
      BY <1>4, Zenon DEF JSONFlag, Runs, SetAccept
    <2>2. <<"Accept">> \in NamedBy("json", arg)
      BY DEF NamedBy
    <2>3. client' = [client EXCEPT !.headers = Put(client.headers, <<"Accept">>, <<<<"application/json">>>>)]
      BY <2>1, Zenon
    <2>4. FlagEffect("json", arg)
      BY <2>1, <2>2, <2>3, HeadersFlag DEF HeaderFlags
    <2> QED BY <2>4 DEF SomeEffect
  <1>5. CASE QueryFlag
    <2>1. PICK arg \in Args("query") : /\ Ran("query", arg) /\ UNCHANGED phase
                                         /\ client' = [client EXCEPT !.query = Add(client.query, arg.name, <<arg.value>>)]
      BY <1>5, Zenon DEF QueryFlag, Runs, SetQueryString
    <2>2. Keeps(client, client', "query")
      BY <2>1, KeepsExcept
    <2>3. Ran("query", arg) /\ phase' \in {"flags", "done", "failed"}
      BY <2>1 DEF Ran
    <2>4. FlagEffect("query", arg)
      BY <2>2, <2>3, DullFlag DEF FieldsOfInterest
    <2> QED BY <2>4 DEF SomeEffect
  <1> QED BY <1>1, <1>2, <1>3, <1>4, <1>5

\* The flags for the response.
LEMMA ResponseFlagsRun ==
  ASSUME FollowRedirectsFlag \/ IncludeFlag \/ FailFlag \/ WriteOutFlag \/ WriteErrFlag \/ OutputFlag
         \/ NoOutputFlag \/ IntegrityFlag \/ StripFlag \/ DownloadFlag,
         GivenInv, pending \subseteq WithImplied(line), Shaped(client)
  PROVE  SomeEffect
  <1>1. CASE FollowRedirectsFlag
    <2>1. PICK arg \in Args("follow-redirects") : /\ Ran("follow-redirects", arg) /\ UNCHANGED phase
                                         /\ client' = [client EXCEPT !.follow = arg]
      BY <1>1, Zenon DEF FollowRedirectsFlag, Runs, SetFollowRedirects
    <2>2. Keeps(client, client', "follow")
      BY <2>1, KeepsExcept
    <2>3. Ran("follow-redirects", arg) /\ phase' \in {"flags", "done", "failed"}
      BY <2>1 DEF Ran
    <2>4. FlagEffect("follow-redirects", arg)
      BY <2>2, <2>3, DullFlag DEF FieldsOfInterest
    <2> QED BY <2>4 DEF SomeEffect
  <1>2. CASE IncludeFlag
    <2>1. PICK arg \in Args("include") : /\ Ran("include", arg) /\ UNCHANGED phase
                                         /\ client' = [client EXCEPT !.include = arg]
      BY <1>2, Zenon DEF IncludeFlag, Runs, SetIncludeResponseHeaders
    <2>2. Keeps(client, client', "include")
      BY <2>1, KeepsExcept
    <2>3. Ran("include", arg) /\ phase' \in {"flags", "done", "failed"}
      BY <2>1 DEF Ran
    <2>4. FlagEffect("include", arg)
      BY <2>2, <2>3, DullFlag DEF FieldsOfInterest
    <2> QED BY <2>4 DEF SomeEffect
  <1>3. CASE FailFlag
    <2>1. PICK arg \in Args("fail") : /\ Ran("fail", arg) /\ UNCHANGED phase
                                         /\ client' = [client EXCEPT !.failFast = arg]
      BY <1>3, Zenon DEF FailFlag, Runs, SetFailFast
    <2>2. Keeps(client, client', "failFast")
      BY <2>1, KeepsExcept
    <2>3. Ran("fail", arg) /\ phase' \in {"flags", "done", "failed"}
      BY <2>1 DEF Ran
    <2>4. FlagEffect("fail", arg)
      BY <2>2, <2>3, DullFlag DEF FieldsOfInterest
    <2> QED BY <2>4 DEF SomeEffect
  <1>4. CASE WriteOutFlag
    <2>1. PICK arg \in Args("write-out") : /\ Ran("write-out", arg) /\ UNCHANGED phase
                                         /\ client' = [client EXCEPT !.writeOut = arg]
      BY <1>4, Zenon DEF WriteOutFlag, Runs, SetWriteOut
    <2>2. Keeps(client, client', "writeOut")
      BY <2>1, KeepsExcept
    <2>3. Ran("write-out", arg) /\ phase' \in {"flags", "done", "failed"}
      BY <2>1 DEF Ran
    <2>4. FlagEffect("write-out", arg)
      BY <2>2, <2>3, DullFlag DEF FieldsOfInterest
    <2> QED BY <2>4 DEF SomeEffect
  <1>5. CASE WriteErrFlag
    <2>1. PICK arg \in Args("write-err") : /\ Ran("write-err", arg) /\ UNCHANGED phase
                                         /\ client' = [client EXCEPT !.writeErr = arg]
      BY <1>5, Zenon DEF WriteErrFlag, Runs, SetWriteErr
    <2>2. Keeps(client, client', "writeErr")
      BY <2>1, KeepsExcept
    <2>3. Ran("write-err", arg) /\ phase' \in {"flags", "done", "failed"}
      BY <2>1 DEF Ran
    <2>4. FlagEffect("write-err", arg)
      BY <2>2, <2>3, DullFlag DEF FieldsOfInterest
    <2> QED BY <2>4 DEF SomeEffect
  <1>6. CASE OutputFlag
    <2>1. PICK arg \in Args("output") : /\ Ran("output", arg) /\ UNCHANGED phase
                                         /\ client' = [client EXCEPT !.downloader = arg]
      BY <1>6, Zenon DEF OutputFlag, Runs, SetOutputFile
    <2>2. Keeps(client, client', "downloader")
      BY <2>1, KeepsExcept
    <2>3. Ran("output", arg) /\ phase' \in {"flags", "done", "failed"}
      BY <2>1 DEF Ran
    <2>4. FlagEffect("output", arg)
      BY <2>2, <2>3, DullFlag DEF FieldsOfInterest
    <2> QED BY <2>4 DEF SomeEffect
  <1>7. CASE NoOutputFlag
    <2>1. PICK arg \in Args("no-output") : /\ Ran("no-output", arg) /\ UNCHANGED phase
                                         /\ client' = [client EXCEPT !.downloader = IF arg THEN "discard" ELSE "stdout"]
      BY <1>7, Zenon DEF NoOutputFlag, Runs, SetNoOutput
    <2>2. Keeps(client, client', "downloader")
      BY <2>1, KeepsExcept
    <2>3. Ran("no-output", arg) /\ phase' \in {"flags", "done", "failed"}
      BY <2>1 DEF Ran
    <2>4. FlagEffect("no-output", arg)
      BY <2>2, <2>3, DullFlag DEF FieldsOfInterest
    <2> QED BY <2>4 DEF SomeEffect
  <1>8. CASE IntegrityFlag
    <2>1. PICK arg \in Args("integrity") : /\ Ran("integrity", arg) /\ UNCHANGED phase
                                         /\ client' = [client EXCEPT !.downloads = Append(client.downloads, "integrity")]
      BY <1>8, Zenon DEF IntegrityFlag, Runs, SetIntegrity
    <2>2. Keeps(client, client', "downloads")
      BY <2>1, KeepsExcept
    <2>3. Ran("integrity", arg) /\ phase' \in {"flags", "done", "failed"}
      BY <2>1 DEF Ran
    <2>4. FlagEffect("integrity", arg)
      BY <2>2, <2>3, DullFlag DEF FieldsOfInterest
    <2> QED BY <2>4 DEF SomeEffect
  <1>9. CASE StripFlag
    <2>1. PICK arg \in Args("strip-components") : /\ Ran("strip-components", arg) /\ UNCHANGED phase
                                         /\ client' = [client EXCEPT !.downloader = "requestPath", !.downloads = Append(client.downloads, "strip")]
      BY <1>9, Zenon DEF StripFlag, Runs, SetStripComponents
    <2>2. Keeps(client, client', "downloads")
      BY <2>1, StripKeeps
    <2>3. Ran("strip-components", arg) /\ phase' \in {"flags", "done", "failed"}
      BY <2>1 DEF Ran
    <2>4. FlagEffect("strip-components", arg)
      BY <2>2, <2>3, DullFlag DEF FieldsOfInterest
    <2> QED BY <2>4 DEF SomeEffect
  <1>10. CASE DownloadFlag
    <2>1. PICK arg \in Args("download") :
              /\ Ran("download", arg) /\ phase' \in {"flags", "failed"}
              /\ \/ client' = [client EXCEPT !.downloader = "requestFile"]
                 \/ client' = [client EXCEPT !.downloader = "requestPath"]
                 \/ client' = client
      BY <1>10 DEF DownloadFlag, Ran
    <2>2. Keeps(client, client', "downloader")
      <3>1. CASE client' = [client EXCEPT !.downloader = "requestFile"]
        BY <3>1, KeepsExcept
      <3>2. CASE client' = [client EXCEPT !.downloader = "requestPath"]
        BY <3>2, KeepsExcept
      <3>3. CASE client' = client
        BY <3>3, KeepsItself, Zenon
      <3> QED BY <2>1, <3>1, <3>2, <3>3
    <2>3. FlagEffect("download", arg)
      BY <2>1, <2>2, DullFlag DEF FieldsOfInterest
    <2> QED BY <2>3 DEF SomeEffect
  <1> QED BY <1>1, <1>2, <1>3, <1>4, <1>5, <1>6, <1>7, <1>8, <1>9, <1>10

\* The flags for dialing, and those that print and exit.
LEMMA NetworkFlagsRun ==
  ASSUME BindAddressFlag \/ InterfaceFlag \/ DNSInterfaceFlag \/ DialTimeoutFlag \/ DialKeepAliveFlag \/ DisableKeepAliveFlag
         \/ PreferGoFlag \/ StrictErrorsFlag \/ ListInterfaces \/ ListCiphers \/ ListCurves,
         GivenInv, pending \subseteq WithImplied(line), Shaped(client)
  PROVE  SomeEffect
  <1>1. CASE BindAddressFlag
    <2>1. PICK arg \in Args("bind-address") :
              /\ Ran("bind-address", arg)
              /\ \/ client' = [client EXCEPT !.dialer.local = arg] /\ UNCHANGED phase
                 \/ phase' = "failed" /\ UNCHANGED client
      BY <1>1, Zenon DEF BindAddressFlag, Resolves, SetLocalAddr
    <2>2. Keeps(client, client', "dialer")
      <3>1. CASE client' = [client EXCEPT !.dialer.local = arg]
        BY <3>1, KeepsExcept
      <3>2. CASE client' = client
        BY <3>2, KeepsItself, Zenon
      <3> QED BY <2>1, <3>1, <3>2
    <2>3. Ran("bind-address", arg) /\ phase' \in {"flags", "done", "failed"}
      BY <2>1 DEF Ran
    <2>4. FlagEffect("bind-address", arg)
      BY <2>2, <2>3, DullFlag DEF FieldsOfInterest
    <2> QED BY <2>4 DEF SomeEffect
  <1>2. CASE InterfaceFlag
    <2>1. PICK arg \in Args("interface") :
              /\ Ran("interface", arg)
              /\ \/ client' = [client EXCEPT !.dialer.local = arg] /\ UNCHANGED phase
                 \/ phase' = "failed" /\ UNCHANGED client
      BY <1>2, Zenon DEF InterfaceFlag, Resolves, SetLocalAddr
    <2>2. Keeps(client, client', "dialer")
      <3>1. CASE client' = [client EXCEPT !.dialer.local = arg]
        BY <3>1, KeepsExcept
      <3>2. CASE client' = client
        BY <3>2, KeepsItself, Zenon
      <3> QED BY <2>1, <3>1, <3>2
    <2>3. Ran("interface", arg) /\ phase' \in {"flags", "done", "failed"}
      BY <2>1 DEF Ran
    <2>4. FlagEffect("interface", arg)
      BY <2>2, <2>3, DullFlag DEF FieldsOfInterest
    <2> QED BY <2>4 DEF SomeEffect
  <1>3. CASE DNSInterfaceFlag
    <2>1. PICK arg \in Args("dns-interface") :
              /\ Ran("dns-interface", arg)
              /\ \/ client' = SetDNSInterface(arg) /\ UNCHANGED phase
                 \/ phase' = "failed" /\ UNCHANGED client
      BY <1>3, Zenon DEF DNSInterfaceFlag, Resolves
    <2>2. Keeps(client, client', "dnsLocal")
      BY <2>1, KeepsExcept, KeepsItself DEF SetDNSInterface
    <2>3. FlagEffect("dns-interface", arg)
      BY <2>1, <2>2, DullFlag DEF Ran, FieldsOfInterest
    <2> QED BY <2>3 DEF SomeEffect
  <1>4. CASE DialTimeoutFlag
    <2>1. PICK arg \in Args("dial-timeout") : /\ Ran("dial-timeout", arg) /\ UNCHANGED phase
                                         /\ client' = [client EXCEPT !.dialer.timeout = arg]
      BY <1>4, Zenon DEF DialTimeoutFlag, Runs, SetDialTimeout
    <2>2. Keeps(client, client', "dialer")
      BY <2>1, KeepsExcept
    <2>3. Ran("dial-timeout", arg) /\ phase' \in {"flags", "done", "failed"}
      BY <2>1 DEF Ran
    <2>4. FlagEffect("dial-timeout", arg)
      BY <2>2, <2>3, DullFlag DEF FieldsOfInterest
    <2> QED BY <2>4 DEF SomeEffect
  <1>5. CASE DialKeepAliveFlag
    <2>1. PICK arg \in Args("dial-keep-alive") : /\ Ran("dial-keep-alive", arg) /\ UNCHANGED phase
                                         /\ client' = [client EXCEPT !.dialer.keepAlive = arg]
      BY <1>5, Zenon DEF DialKeepAliveFlag, Runs, SetDialKeepAlive
    <2>2. Keeps(client, client', "dialer")
      BY <2>1, KeepsExcept
    <2>3. Ran("dial-keep-alive", arg) /\ phase' \in {"flags", "done", "failed"}
      BY <2>1 DEF Ran
    <2>4. FlagEffect("dial-keep-alive", arg)
      BY <2>2, <2>3, DullFlag DEF FieldsOfInterest
    <2> QED BY <2>4 DEF SomeEffect
  <1>6. CASE DisableKeepAliveFlag
    <2>1. PICK arg \in Args("disable-dial-keep-alive") : /\ Ran("disable-dial-keep-alive", arg) /\ UNCHANGED phase
                                         /\ client' = [client EXCEPT !.dialer.keepAlive = "disabled"]
      BY <1>6, Zenon DEF DisableKeepAliveFlag, Runs, SetDisableDialKeepAlive
    <2>2. Keeps(client, client', "dialer")
      BY <2>1, KeepsExcept
    <2>3. Ran("disable-dial-keep-alive", arg) /\ phase' \in {"flags", "done", "failed"}
      BY <2>1 DEF Ran
    <2>4. FlagEffect("disable-dial-keep-alive", arg)
      BY <2>2, <2>3, DullFlag DEF FieldsOfInterest
    <2> QED BY <2>4 DEF SomeEffect
  <1>7. CASE PreferGoFlag
    <2>1. PICK arg \in Args("prefer-go") : /\ Ran("prefer-go", arg) /\ UNCHANGED phase
                                         /\ client' = [client EXCEPT !.dialer.preferGo = TRUE]
      BY <1>7, Zenon DEF PreferGoFlag, Runs, SetPreferGoDialer
    <2>2. Keeps(client, client', "dialer")
      BY <2>1, KeepsExcept
    <2>3. Ran("prefer-go", arg) /\ phase' \in {"flags", "done", "failed"}
      BY <2>1 DEF Ran
    <2>4. FlagEffect("prefer-go", arg)
      BY <2>2, <2>3, DullFlag DEF FieldsOfInterest
    <2> QED BY <2>4 DEF SomeEffect
  <1>8. CASE StrictErrorsFlag
    <2>1. PICK arg \in Args("strict-errors") : /\ Ran("strict-errors", arg) /\ UNCHANGED phase
                                         /\ client' = [client EXCEPT !.dialer.strictErrors = TRUE]
      BY <1>8, Zenon DEF StrictErrorsFlag, Runs, SetStrictErrorsDNS
    <2>2. Keeps(client, client', "dialer")
      BY <2>1, KeepsExcept
    <2>3. Ran("strict-errors", arg) /\ phase' \in {"flags", "done", "failed"}
      BY <2>1 DEF Ran
    <2>4. FlagEffect("strict-errors", arg)
      BY <2>2, <2>3, DullFlag DEF FieldsOfInterest
    <2> QED BY <2>4 DEF SomeEffect
  <1>9. CASE ListInterfaces
    <2>1. PICK arg \in Args("list-interfaces") : Ran("list-interfaces", arg) /\ phase' = "done" /\ client' = client
      BY <1>9, Zenon DEF ListInterfaces, Lists
    <2>2. Keeps(client, client', "dialer")
      BY <2>1, KeepsItself
    <2>3. FlagEffect("list-interfaces", arg)
      BY <2>1, <2>2, DullFlag DEF FieldsOfInterest
    <2> QED BY <2>3 DEF SomeEffect
  <1>10. CASE ListCiphers
    <2>1. PICK arg \in Args("list-ciphers") : Ran("list-ciphers", arg) /\ phase' = "done" /\ client' = client
      BY <1>10, Zenon DEF ListCiphers, Lists
    <2>2. Keeps(client, client', "dialer")
      BY <2>1, KeepsItself
    <2>3. FlagEffect("list-ciphers", arg)
      BY <2>1, <2>2, DullFlag DEF FieldsOfInterest
    <2> QED BY <2>3 DEF SomeEffect
  <1>11. CASE ListCurves
    <2>1. PICK arg \in Args("list-curves") : Ran("list-curves", arg) /\ phase' = "done" /\ client' = client
      BY <1>11, Zenon DEF ListCurves, Lists
    <2>2. Keeps(client, client', "dialer")
      BY <2>1, KeepsItself
    <2>3. FlagEffect("list-curves", arg)
      BY <2>1, <2>2, DullFlag DEF FieldsOfInterest
    <2> QED BY <2>3 DEF SomeEffect
  <1> QED BY <1>1, <1>2, <1>3, <1>4, <1>5, <1>6, <1>7, <1>8, <1>9, <1>10, <1>11

LEMMA ContentFlag ==
  ASSUME NEW flag \in {"body", "body-content", "json-content"}, NEW arg \in Args(flag), GivenInv,
         pending \subseteq WithImplied(line), Ran(flag, arg), phase' \in {"flags", "failed"},
         Shaped(client), NEW content, IsContent(content),
         client' = [client EXCEPT !.content = content],
         flag = "body" => content = NewRawContent(arg),
         (flag # "body" /\ client.content.kind = "raw") =>
             content = client.content \/ phase' = "failed",
         (flag # "body" /\ content.kind = "json") =>
             content = client.content \/ DOMAIN content.data = {},
         flag = "json-content" => content.kind = "json" \/ phase' = "failed"
  PROVE  FlagEffect(flag, arg)
  <1>1. /\ phase = "flags"
        /\ <<flag, arg>> \in pending /\ pending' = pending \ {<<flag, arg>>}
        /\ UNCHANGED <<line, loc, request, sent, typed>>
    BY RanEffect
  <1>2. Keeps(client, client', "content") /\ client'.content = content
    BY ContentKeeps
  <1>3. /\ Shaped(client') /\ client'.headers = client.headers
        /\ client'.fill = client.fill /\ client'.user = client.user
        /\ client'.requestIDs = client.requestIDs /\ client'.tls = client.tls
    BY <1>2 DEF Keeps
  <1>4. ContentEffect(flag, arg)
    BY <1>2 DEF ContentEffect
  <1>5. RootsEffect(flag, arg) /\ VersionsEffect(flag, arg)
    BY <1>3 DEF RootsEffect, VersionsEffect
  <1> QED BY <1>1, <1>3, <1>4, <1>5 DEF FlagEffect

LEMMA Contents ==
  /\ IsContent(NoContent)
  /\ \A text : IsContent(NewRawContent(text)) /\ NewRawContent(text).kind = "raw"
  /\ NoContent.kind = "none"
  /\ \A kind \in ContentTypes : IsContent(NewContent(kind)) /\ NewContent(kind).kind = kind
  /\ DOMAIN NewContent("json").data = {}
  BY DEF IsContent, NoContent, NewRawContent, NewContent, Kinds, ContentTypes, NoFields

LEMMA ConvertedContent ==
  ASSUME NEW content, IsContent(content), NEW kind
  PROVE  /\ IsContent(ConvertContent(content, kind))
         /\ ConvertContent(content, kind).kind = "raw"
         /\ content.kind = "raw" => ConvertContent(content, kind) = content
  <1> HIDE DEF IsContent
  <1> QED BY Contents DEF ConvertContent

LEMMA ContentOfClient == ASSUME NEW c, Shaped(c) PROVE IsContent(c.content)
  BY DEF Shaped, IsContent

LEMMA HelperRuns ==
  ASSUME NEW flag \in {"body-content", "json-content"}, NEW kind \in ContentTypes, GivenInv,
         pending \subseteq WithImplied(line), Shaped(client), SetBodyContentHelper(flag, kind),
         flag = "json-content" => kind = "json"
  PROVE  FlagEffect(flag, kind)
  <1>1. kind \in Args(flag) /\ Ran(flag, kind) /\ phase = "flags"
    BY DEF SetBodyContentHelper, Ran
  <1>2. IsContent(client.content)
    BY ContentOfClient
  <1>3. CASE /\ client.content.kind = "none"
             /\ client' = [client EXCEPT !.content = NewContent(kind)] /\ UNCHANGED phase
    BY <1>1, <1>3, Contents, ContentFlag
  <1>4. CASE /\ client.content.kind # "none" /\ Converts(client.content, kind)
             /\ client' = [client EXCEPT !.content = ConvertContent(client.content, kind)]
             /\ UNCHANGED phase
    <2>1. /\ IsContent(ConvertContent(client.content, kind))
          /\ ConvertContent(client.content, kind).kind = "raw"
          /\ client.content.kind = "raw" => ConvertContent(client.content, kind) = client.content
      BY <1>2, ConvertedContent
    <2>2. flag # "json-content"
      BY <1>4 DEF Converts
    <2> QED BY <1>1, <1>4, <2>1, <2>2, ContentFlag
  <1>5. CASE /\ client' = [client EXCEPT !.content = NoContent] /\ phase' = "failed"
    BY <1>1, <1>5, Contents, ContentFlag
  <1> QED BY <1>3, <1>4, <1>5, Zenon DEF SetBodyContentHelper

\* The flags for the body and the credentials.
LEMMA BodyFlagsRun ==
  ASSUME BodyFlag \/ BodyContentFlag \/ JSONContentFlag \/ FillFlag \/ RequestIDFlag
         \/ AuthFlag \/ BasicAuthFlag \/ UserFlag,
         GivenInv, pending \subseteq WithImplied(line), Shaped(client)
  PROVE  SomeEffect
  <1>1. CASE BodyFlag
    <2>1. PICK arg \in Args("body") : /\ Ran("body", arg) /\ UNCHANGED phase
                                      /\ client' = [client EXCEPT !.content = NewRawContent(arg)]
      BY <1>1, Zenon DEF BodyFlag, Runs, SetBody
    <2>2. phase' \in {"flags", "failed"}
      BY <2>1 DEF Ran
    <2>3. FlagEffect("body", arg)
      BY <2>1, <2>2, Contents, ContentFlag
    <2> QED BY <2>3 DEF SomeEffect
  <1>2. CASE BodyContentFlag
    <2>1. PICK kind \in Args("body-content") : SetBodyContentHelper("body-content", kind)
      BY <1>2 DEF BodyContentFlag
    <2>2. kind \in ContentTypes
      BY FlagArguments
    <2>3. FlagEffect("body-content", kind)
      BY <2>1, <2>2, HelperRuns
    <2> QED BY <2>3 DEF SomeEffect
  <1>3. CASE JSONContentFlag
    <2>1. SetBodyContentHelper("json-content", "json")
      BY <1>3 DEF JSONContentFlag
    <2>2. FlagEffect("json-content", "json")
      BY <2>1, HelperRuns DEF ContentTypes
    <2> QED BY <2>2 DEF SomeEffect
  <1>4. CASE FillFlag
    <2>1. PICK arg \in Args("fill") : /\ Ran("fill", arg) /\ UNCHANGED phase
                                      /\ client' = [client EXCEPT !.fill = Append(@, arg)]
      BY <1>4, Zenon DEF FillFlag, Runs, SetFillValue
    <2>2. Keeps(client, client', "fill")
      BY <2>1, FillKeeps
    <2>3. FlagEffect("fill", arg)
      BY <2>1, <2>2, RanEffect DEF FlagEffect, Keeps, ContentEffect, RootsEffect, VersionsEffect
    <2> QED BY <2>3 DEF SomeEffect
  <1>5. CASE RequestIDFlag
    <2>1. PICK arg \in Args("request-id") :
              /\ Ran("request-id", arg) /\ UNCHANGED phase
              /\ client' = [client EXCEPT !.requestIDs =
                               Append(@, IF arg = Nothing THEN "generated" ELSE arg)]
      BY <1>5, Zenon DEF RequestIDFlag, Runs, SetRequestID
    <2>2. /\ Keeps(client, client', "requestIDs")
          /\ client'.requestIDs = Append(client.requestIDs,
                                         IF arg = Nothing THEN "generated" ELSE arg)
      BY <2>1, KeepsExcept DEF Shaped
    <2>3. FlagEffect("request-id", arg)
      BY <2>1, <2>2, RanEffect DEF FlagEffect, Keeps, ContentEffect, RootsEffect, VersionsEffect
    <2> QED BY <2>3 DEF SomeEffect
  <1>6. CASE AuthFlag
    <2>1. PICK arg \in Args("auth") : /\ Ran("auth", arg) /\ UNCHANGED phase
                                      /\ client' = [client EXCEPT !.auth = arg]
      BY <1>6, Zenon DEF AuthFlag, Runs, SetAuth
    <2>2. Keeps(client, client', "auth")
      BY <2>1, AuthKeeps, FlagArguments
    <2>3. Ran("auth", arg) /\ phase' \in {"flags", "done", "failed"}
      BY <2>1 DEF Ran
    <2>4. FlagEffect("auth", arg)
      BY <2>2, <2>3, DullFlag DEF FieldsOfInterest
    <2> QED BY <2>4 DEF SomeEffect
  <1>7. CASE BasicAuthFlag
    <2>1. PICK arg \in Args("basic") : /\ Ran("basic", arg) /\ UNCHANGED phase
                                       /\ client' = [client EXCEPT !.auth = AuthMode("basic")]
      BY <1>7, Zenon DEF BasicAuthFlag, Runs, SetBasicAuth, SetAuth
    <2>2. AuthMode("basic").mode \in {"none", "basic", "bearer"}
      BY DEF AuthMode
    <2>3. Keeps(client, client', "auth")
      BY <2>1, <2>2, AuthKeeps
    <2>4. Ran("basic", arg) /\ phase' \in {"flags", "done", "failed"}
      BY <2>1 DEF Ran
    <2>5. FlagEffect("basic", arg)
      BY <2>3, <2>4, DullFlag DEF FieldsOfInterest
    <2> QED BY <2>5 DEF SomeEffect
  <1>8. CASE UserFlag
    <2>1. PICK arg \in Args("user") : /\ Ran("user", arg) /\ UNCHANGED phase
                                      /\ client' = [client EXCEPT !.user = ParseUserInfo(arg)]
      BY <1>8, Zenon DEF UserFlag, Runs, SetUser
    <2>2. DOMAIN ParseUserInfo(arg) = {"user", "password", "hasPassword"}
      BY DEF ParseUserInfo
    <2>3. Keeps(client, client', "user") /\ client'.user = ParseUserInfo(arg)
      BY <2>1, <2>2, UserKeeps
    <2>4. FlagEffect("user", arg)
      BY <2>1, <2>3, RanEffect DEF FlagEffect, Keeps, ContentEffect, RootsEffect, VersionsEffect
    <2> QED BY <2>4 DEF SomeEffect
  <1> QED BY <1>1, <1>2, <1>3, <1>4, <1>5, <1>6, <1>7, <1>8

\* A flag for one version, or for 1.0 and later.
LEMMA VersionFlagRuns ==
  ASSUME NEW flag \in VersionNames, NEW min \in Versions, NEW max \in Versions,
         min = max \/ (flag = "tlsv1" /\ min = 10 /\ max = 13),
         VersionFlag(flag, min, max), GivenInv, pending \subseteq WithImplied(line), Shaped(client)
  PROVE  SomeEffect
  <1>1. PICK arg \in Args(flag) :
            /\ Ran(flag, arg) /\ UNCHANGED phase
            /\ client' = [client EXCEPT !.tls = IF arg THEN SetVersions(client.tls, <<min, max>>)
                                                ELSE client.tls]
    BY Zenon DEF VersionFlag, RunsTLS, Runs
  <1>2. Ran(flag, arg) /\ phase' \in {"flags", "failed"}
    BY <1>1 DEF Ran
  <1>3. arg \in BOOLEAN
    BY FlagArguments
  <1>4. DOMAIN client.tls = TLSFields
    BY DEF Shaped, TLSFields
  <1>5. flag \notin {"body", "body-content", "json-content", "fill", "user", "request-id",
                     "cacert", "capath"}
    BY DEF VersionNames
  <1>6. CASE arg = FALSE
    <2>1. client' = [client EXCEPT !.tls = client.tls]
      BY <1>1, <1>6
    <2>2. TLSOptionKeeps(client.tls, client.tls)
      BY <1>4, TLSOptions
    <2>3. FlagEffect(flag, arg)
      BY <1>2, <1>5, <2>1, <2>2, DullTLSFlag
    <2> QED BY <2>3 DEF SomeEffect
  <1>7. CASE arg = TRUE
    <2> DEFINE config == SetVersions(client.tls, <<min, max>>)
    <2>1. /\ DOMAIN config = TLSFields /\ config.roots = client.tls.roots
          /\ config.minVersion = min /\ config.maxVersion = max
      BY <1>4, TLSVersions
    <2> HIDE DEF config
    <2>2. client' = [client EXCEPT !.tls = config]
      BY <1>1, <1>7 DEF config
    <2>3. client'.tls = config
      BY <2>1, <2>2, TLSKeeps
    <2>4. RootsEffect(flag, arg)
      BY <1>5, <2>1, <2>3 DEF RootsEffect
    <2>5. VersionsEffect(flag, arg)
      BY <1>7, <2>1, <2>3 DEF VersionsEffect
    <2>6. FlagEffect(flag, arg)
      BY <1>2, <1>5, <2>1, <2>2, <2>4, <2>5, TLSFlag
    <2> QED BY <2>6 DEF SomeEffect
  <1> QED BY <1>3, <1>6, <1>7

\* The flags for TLS.
LEMMA TLSFlagsRun ==
  ASSUME TLSFlagRuns, GivenInv, pending \subseteq WithImplied(line), Shaped(client)
  PROVE  SomeEffect
  <1>0. DOMAIN client.tls = TLSFields
    BY DEF Shaped, TLSFields
  <1>1. CASE CACertFlag
    <2>1. PICK arg \in Args("cacert") :
              /\ Ran("cacert", arg) /\ UNCHANGED phase
              /\ client' = [client EXCEPT !.tls = AddRootCACertFile(client.tls, arg)]
      BY <1>1, Zenon DEF CACertFlag, RunsTLS, Runs
    <2>2. phase' \in {"flags", "failed"}
      BY <2>1 DEF Ran
    <2> DEFINE config == AddRootCACertFile(client.tls, arg)
    <2>3. /\ DOMAIN config = TLSFields /\ config.minVersion = client.tls.minVersion
          /\ config.maxVersion = client.tls.maxVersion
      BY <1>0, TLSRoots DEF AddRootCACertFile
    <2> HIDE DEF config
    <2>4. client' = [client EXCEPT !.tls = config]
      BY <2>1 DEF config
    <2>5. client'.tls = config
      BY <2>3, <2>4, TLSKeeps
    <2>6. RootsEffect("cacert", arg)
      BY <2>5 DEF RootsEffect, config
    <2>7. VersionsEffect("cacert", arg)
      BY <2>3, <2>5 DEF VersionsEffect
    <2>8. FlagEffect("cacert", arg)
      BY <2>1, <2>2, <2>3, <2>4, <2>6, <2>7, TLSFlag
    <2> QED BY <2>8 DEF SomeEffect
  <1>2. CASE CAPathFlag
    <2>1. PICK arg \in Args("capath") :
              /\ Ran("capath", arg) /\ UNCHANGED phase
              /\ client' = [client EXCEPT !.tls = AddRootCACertPath(client.tls, arg)]
      BY <1>2, Zenon DEF CAPathFlag, RunsTLS, Runs
    <2>2. phase' \in {"flags", "failed"}
      BY <2>1 DEF Ran
    <2> DEFINE config == AddRootCACertPath(client.tls, arg)
    <2>3. /\ DOMAIN config = TLSFields /\ config.minVersion = client.tls.minVersion
          /\ config.maxVersion = client.tls.maxVersion
      BY <1>0, TLSRoots DEF AddRootCACertPath
    <2> HIDE DEF config
    <2>4. client' = [client EXCEPT !.tls = config]
      BY <2>1 DEF config
    <2>5. client'.tls = config
      BY <2>3, <2>4, TLSKeeps
    <2>6. RootsEffect("capath", arg)
      BY <2>5 DEF RootsEffect, config
    <2>7. VersionsEffect("capath", arg)
      BY <2>3, <2>5 DEF VersionsEffect
    <2>8. FlagEffect("capath", arg)
      BY <2>1, <2>2, <2>3, <2>4, <2>6, <2>7, TLSFlag
    <2> QED BY <2>8 DEF SomeEffect
  <1>3. CASE InsecureFlag
    <2>1. PICK arg \in Args("insecure-skip-verify") :
              /\ Ran("insecure-skip-verify", arg) /\ UNCHANGED phase
              /\ client' = [client EXCEPT !.tls = WithInsecureSkipVerify(client.tls, arg)]
      BY <1>3, Zenon DEF InsecureFlag, RunsTLS, Runs
    <2>2. Ran("insecure-skip-verify", arg) /\ phase' \in {"flags", "failed"}
      BY <2>1 DEF Ran
    <2>3. FlagEffect("insecure-skip-verify", arg)
      BY <1>0, <2>1, <2>2, TLSOptions, DullTLSFlag
    <2> QED BY <2>3 DEF SomeEffect
  <1>4. CASE ServerNameFlag
    <2>1. PICK arg \in Args("server-name") :
              /\ Ran("server-name", arg) /\ UNCHANGED phase
              /\ client' = [client EXCEPT !.tls = WithServerName(client.tls, arg)]
      BY <1>4, Zenon DEF ServerNameFlag, RunsTLS, Runs
    <2>2. Ran("server-name", arg) /\ phase' \in {"flags", "failed"}
      BY <2>1 DEF Ran
    <2>3. FlagEffect("server-name", arg)
      BY <1>0, <2>1, <2>2, TLSOptions, DullTLSFlag
    <2> QED BY <2>3 DEF SomeEffect
  <1>5. CASE NextProtosFlag
    <2>1. PICK arg \in Args("next-protos") :
              /\ Ran("next-protos", arg) /\ UNCHANGED phase
              /\ client' = [client EXCEPT !.tls = WithNextProtos(client.tls, arg)]
      BY <1>5, Zenon DEF NextProtosFlag, RunsTLS, Runs
    <2>2. Ran("next-protos", arg) /\ phase' \in {"flags", "failed"}
      BY <2>1 DEF Ran
    <2>3. FlagEffect("next-protos", arg)
      BY <1>0, <2>1, <2>2, TLSOptions, DullTLSFlag
    <2> QED BY <2>3 DEF SomeEffect
  <1>6. CASE RandomFlag
    <2>1. PICK arg \in Args("random") :
              /\ Ran("random", arg)
              /\ \/ client' = [client EXCEPT !.tls = WithRand(client.tls, arg)] /\ UNCHANGED phase
                 \/ phase' = "failed" /\ UNCHANGED client
      BY <1>6, Zenon DEF RandomFlag, ResolvesTLS, Resolves
    <2>2. Ran("random", arg) /\ phase' \in {"flags", "failed"}
      BY <2>1 DEF Ran
    <2>3. FlagEffect("random", arg)
      <3>1. CASE client' = [client EXCEPT !.tls = WithRand(client.tls, arg)]
        BY <1>0, <2>2, <3>1, TLSOptions, DullTLSFlag
      <3>2. CASE client' = client
        <4>1. Keeps(client, client', "dialer")
          BY <3>2, KeepsItself, Zenon
        <4> QED BY <2>2, <4>1, DullFlag DEF FieldsOfInterest
      <3> QED BY <2>1, <3>1, <3>2
    <2> QED BY <2>3 DEF SomeEffect
  <1>7. CASE KeyLogFlag
    <2>1. PICK arg \in Args("insecure-key-log-file") :
              /\ Ran("insecure-key-log-file", arg)
              /\ \/ client' = [client EXCEPT !.tls = WithKeyLogWriter(client.tls, arg)] /\ UNCHANGED phase
                 \/ phase' = "failed" /\ UNCHANGED client
      BY <1>7, Zenon DEF KeyLogFlag, ResolvesTLS, Resolves
    <2>2. Ran("insecure-key-log-file", arg) /\ phase' \in {"flags", "failed"}
      BY <2>1 DEF Ran
    <2>3. FlagEffect("insecure-key-log-file", arg)
      <3>1. CASE client' = [client EXCEPT !.tls = WithKeyLogWriter(client.tls, arg)]
        BY <1>0, <2>2, <3>1, TLSOptions, DullTLSFlag
      <3>2. CASE client' = client
        <4>1. Keeps(client, client', "dialer")
          BY <3>2, KeepsItself, Zenon
        <4> QED BY <2>2, <4>1, DullFlag DEF FieldsOfInterest
      <3> QED BY <2>1, <3>1, <3>2
    <2> QED BY <2>3 DEF SomeEffect
  <1>8. CASE ClientCertFlag
    <2>1. PICK key \in {o[2] : o \in {o \in line : o[1] = "key"}} :
              RunsTLS("cert", LAMBDA c, cert : AddX509KeyPair(c, <<cert, key>>))
      BY <1>8 DEF ClientCertFlag
    <2>2. PICK arg \in Args("cert") :
              /\ Ran("cert", arg) /\ UNCHANGED phase
              /\ client' = [client EXCEPT !.tls = AddX509KeyPair(client.tls, <<arg, key>>)]
      BY <2>1, Zenon DEF RunsTLS, Runs
    <2>3. Ran("cert", arg) /\ phase' \in {"flags", "failed"}
      BY <2>2 DEF Ran
    <2>4. FlagEffect("cert", arg)
      BY <1>0, <2>2, <2>3, TLSOptions, DullTLSFlag
    <2> QED BY <2>4 DEF SomeEffect
  <1>9. CASE KeyFlag
    <2>1. PICK arg \in Args("key") : /\ Ran("key", arg) /\ UNCHANGED phase
                                     /\ client' = [client EXCEPT !.tls = client.tls]
      BY <1>9, Zenon DEF KeyFlag, RunsTLS, Runs
    <2>2. Ran("key", arg) /\ phase' \in {"flags", "failed"}
      BY <2>1 DEF Ran
    <2>3. FlagEffect("key", arg)
      BY <1>0, <2>1, <2>2, TLSOptions, DullTLSFlag
    <2> QED BY <2>3 DEF SomeEffect
  <1>10. CASE TimeFlag
    <2>1. PICK arg \in Args("time") :
              /\ Ran("time", arg) /\ UNCHANGED phase
              /\ \/ client' = [client EXCEPT !.tls = WithTimeHelper(client.tls, arg)]
                 \/ client' = [client EXCEPT !.tls = client.tls]
      BY <1>10, Zenon DEF TimeFlag, RunsTLS, Runs
    <2>2. Ran("time", arg) /\ phase' \in {"flags", "failed"}
      BY <2>1 DEF Ran
    <2>3. FlagEffect("time", arg)
      BY <1>0, <2>1, <2>2, TLSOptions, DullTLSFlag
    <2> QED BY <2>3 DEF SomeEffect
  <1>11. CASE VersionFlags
    BY <1>11, VersionFlagRuns DEF VersionFlags, VersionNames, Versions
  <1>12. CASE CiphersFlag
    <2>1. PICK arg \in Args("ciphers") :
              /\ Ran("ciphers", arg)
              /\ \/ /\ client' = [client EXCEPT !.tls = WithCiphers(client.tls, SuiteSet(<<>>, arg).ids)]
                    /\ UNCHANGED phase
                 \/ phase' = "failed" /\ UNCHANGED client
      BY <1>12, Zenon DEF CiphersFlag, NamesFlag
    <2>2. Ran("ciphers", arg) /\ phase' \in {"flags", "failed"}
      BY <2>1 DEF Ran
    <2>3. FlagEffect("ciphers", arg)
      <3>1. CASE client' = [client EXCEPT !.tls = WithCiphers(client.tls, SuiteSet(<<>>, arg).ids)]
        <4> DEFINE config == WithCiphers(client.tls, SuiteSet(<<>>, arg).ids)
        <4>1. TLSOptionKeeps(client.tls, config)
          BY <1>0, TLSOptions
        <4> HIDE DEF config
        <4>2. client' = [client EXCEPT !.tls = config]
          BY <3>1 DEF config
        <4> QED BY <2>2, <4>1, <4>2, DullTLSFlag
      <3>2. CASE client' = client
        <4>1. Keeps(client, client', "dialer")
          BY <3>2, KeepsItself, Zenon
        <4> QED BY <2>2, <4>1, DullFlag DEF FieldsOfInterest
      <3> QED BY <2>1, <3>1, <3>2
    <2> QED BY <2>3 DEF SomeEffect
  <1>13. CASE CurvesFlag
    <2>1. PICK arg \in Args("curves") :
              /\ Ran("curves", arg)
              /\ \/ /\ client' = [client EXCEPT !.tls = WithCurves(client.tls, CurveSet(<<>>, arg).ids)]
                    /\ UNCHANGED phase
                 \/ phase' = "failed" /\ UNCHANGED client
      BY <1>13, Zenon DEF CurvesFlag, NamesFlag
    <2>2. Ran("curves", arg) /\ phase' \in {"flags", "failed"}
      BY <2>1 DEF Ran
    <2>3. FlagEffect("curves", arg)
      <3>1. CASE client' = [client EXCEPT !.tls = WithCurves(client.tls, CurveSet(<<>>, arg).ids)]
        <4> DEFINE config == WithCurves(client.tls, CurveSet(<<>>, arg).ids)
        <4>1. TLSOptionKeeps(client.tls, config)
          BY <1>0, TLSOptions
        <4> HIDE DEF config
        <4>2. client' = [client EXCEPT !.tls = config]
          BY <3>1 DEF config
        <4> QED BY <2>2, <4>1, <4>2, DullTLSFlag
      <3>2. CASE client' = client
        <4>1. Keeps(client, client', "dialer")
          BY <3>2, KeepsItself, Zenon
        <4> QED BY <2>2, <4>1, DullFlag DEF FieldsOfInterest
      <3> QED BY <2>1, <3>1, <3>2
    <2> QED BY <2>3 DEF SomeEffect
  <1>14. CASE ListCiphers \/ ListCurves
    BY <1>14, NetworkFlagsRun
  <1> QED BY <1>1, <1>2, <1>3, <1>4, <1>5, <1>6, <1>7, <1>8, <1>9, <1>10, <1>11, <1>12, <1>13, <1>14 DEF TLSFlagRuns

LEMMA FlagRunsEffect ==
  ASSUME FlagRuns, GivenInv, pending \subseteq WithImplied(line), Shaped(client)
  PROVE  \E flag, arg : FlagEffect(flag, arg)
  <1>1. SomeEffect
    BY RequestFlagsRun, ResponseFlagsRun, NetworkFlagsRun, BodyFlagsRun, TLSFlagsRun, Zenon
    DEF FlagRuns
  <1> QED BY <1>1 DEF SomeEffect


-----------------------------------------------------------------------------
(***************************************************************************)
(* Filling in values                                                       *)
(***************************************************************************)
LEMMA PutFirst == \A d, name : Put(d, name, name) = With(d, {name})
  BY DEF Put, With

LEMMA WithAgain ==
  ASSUME NEW d, NEW names
  PROVE  With(With(d, names), names) = With(d, names)
  <1> DEFINE e == With(d, names)
  <1>1. DOMAIN e = DOMAIN d \cup names
    BY DEF With
  <1>2. \A n \in DOMAIN d \cup names : e[n] = IF n \in names THEN n ELSE d[n]
    BY DEF With
  <1>3. e = [n \in DOMAIN d \cup names |-> e[n]]
    BY DEF With
  <1> HIDE DEF e
  <1>4. With(e, names) = e
    BY <1>1, <1>2, <1>3 DEF With
  <1> QED BY <1>4 DEF e

LEMMA PutWith ==
  ASSUME NEW d, NEW names, NEW name
  PROVE  Put(With(d, names), name, name) = With(d, names \cup {name})
  <1> DEFINE e == With(d, names)
  <1>1. DOMAIN e = DOMAIN d \cup names
    BY DEF With
  <1>2. \A n \in DOMAIN d \cup names : e[n] = IF n \in names THEN n ELSE d[n]
    BY DEF With
  <1> HIDE DEF e
  <1>3. Put(e, name, name) = With(d, names \cup {name})
    BY <1>1, <1>2 DEF Put, With
  <1> QED BY <1>3 DEF e

Start == IF client.fill # <<>> /\ client.content.kind = "none"
         THEN NewContent("form") ELSE client.content

\* The recursion of Filled has a result.
IsFilled(size, f) ==
    f = [i \in 0..size |-> IF i = 0 THEN [content |-> Start, outcome |-> "ok"]
                           ELSE FillOne(f[i - 1], client.fill[i])]

LEMMA FilledExists ==
  ASSUME NEW size \in Nat
  PROVE  \E f : IsFilled(size, f)
  <1> DEFINE first == [content |-> Start, outcome |-> "ok"]
             T == {k \in Nat : \E f : IsFilled(k, f)}
  <1>1. 0 \in T
    <2>1. IsFilled(0, [i \in 0..0 |-> first])
      BY DEF IsFilled
    <2> QED BY <2>1
  <1>2. ASSUME NEW k \in Nat, k \in T PROVE k + 1 \in T
    <2>1. PICK f : IsFilled(k, f)
      BY <1>2
    <2> DEFINE g == [i \in 0..k + 1 |-> IF i = k + 1 THEN FillOne(f[k], client.fill[k + 1])
                                        ELSE f[i]]
    <2>2. \A i \in 0..k : f[i] = IF i = 0 THEN first ELSE FillOne(f[i - 1], client.fill[i])
      BY <2>1 DEF IsFilled
    <2> HIDE DEF first
    <2>3. \A i \in 0..k + 1 : g[i] = IF i = 0 THEN first ELSE FillOne(g[i - 1], client.fill[i])
      <3> SUFFICES ASSUME NEW i \in 0..k + 1
                   PROVE  g[i] = IF i = 0 THEN first ELSE FillOne(g[i - 1], client.fill[i])
        OBVIOUS
      <3>1. CASE i = k + 1
        <4>1. g[i] = FillOne(f[k], client.fill[k + 1]) /\ i - 1 = k /\ i # 0
          BY <3>1
        <4>2. g[k] = f[k]
          OBVIOUS
        <4> QED BY <3>1, <4>1, <4>2
      <3>2. CASE i # k + 1
        <4>1. i \in 0..k /\ g[i] = f[i] /\ (i # 0 => g[i - 1] = f[i - 1])
          BY <3>2
        <4> QED BY <2>2, <4>1
      <3> QED BY <3>1, <3>2
    <2>4. g = [i \in 0..k + 1 |-> g[i]]
      OBVIOUS
    <2>5. IsFilled(k + 1, g)
      <3> HIDE DEF g
      <3> QED BY <2>3, <2>4 DEF IsFilled, first
    <2> QED BY <2>5
  <1>3. Nat \subseteq T
    <2> HIDE DEF T
    <2> QED BY <1>1, <1>2, Induction
  <1> QED BY <1>3

LEMMA FilledStep ==
  ASSUME Len(client.fill) \in Nat
  PROVE  \E f : /\ f[0] = [content |-> Start, outcome |-> "ok"]
                /\ \A i \in 1..Len(client.fill) : f[i] = FillOne(f[i - 1], client.fill[i])
                /\ Filled = f[Len(client.fill)]
  <1> DEFINE size == Len(client.fill)
             F == CHOOSE f : IsFilled(size, f)
  <1>1. Filled = F[size]
    BY DEF Filled, IsFilled, Start
  <1>2. IsFilled(size, F)
    BY FilledExists, Zenon
  <1> HIDE DEF F
  <1>3. \A i \in 0..size : F[i] = IF i = 0 THEN [content |-> Start, outcome |-> "ok"]
                                  ELSE FillOne(F[i - 1], client.fill[i])
    BY <1>2 DEF IsFilled
  <1>4. F[0] = [content |-> Start, outcome |-> "ok"]
        /\ \A i \in 1..size : F[i] = FillOne(F[i - 1], client.fill[i])
    BY <1>3
  <1> QED BY <1>1, <1>4

NamesTo(k) == {client.fill[i].name : i \in 1..k}

\* What the content is, and how Set went, after k values.
FilledTo(acc, k) ==
    /\ acc = [content |-> acc.content, outcome |-> acc.outcome]
    /\ IsContent(acc.content) /\ acc.content.kind = Start.kind
    /\ acc.outcome \in {"ok", "error", "panic"}
    /\ k = 0 => acc.outcome = "ok" /\ acc.content = Start
    /\ acc.outcome = "error" => Start.kind = "raw"
    /\ Start.kind # "json" => acc.content = Start
    /\ Start.kind = "raw" => acc.outcome # "panic" /\ (k > 0 => acc.outcome = "error")
    /\ Start.kind \notin {"raw", "json"} /\ k > 0 => acc.outcome = "panic"
    /\ Start.kind = "json" =>
          /\ DOMAIN acc.content.data \subseteq DOMAIN Start.data \cup NamesTo(k)
          /\ acc.outcome = "panic" => NamesTo(k) \cap Dotted # {}
          /\ acc.outcome = "ok" => /\ NamesTo(k) \cap Dotted = {}
                                   /\ k > 0 => acc.content.data = With(Start.data, NamesTo(k))

LEMMA FilledOne ==
  ASSUME NEW acc, NEW k \in Nat, FilledTo(acc, k)
  PROVE  FilledTo(FillOne(acc, client.fill[k + 1]), k + 1)
  <1> DEFINE nv == client.fill[k + 1]
             after == FillOne(acc, nv)
  <1>1. NamesTo(k + 1) = NamesTo(k) \cup {nv.name}
    BY DEF NamesTo
  <1>2. k + 1 > 0 /\ k + 1 # 0
    OBVIOUS
  <1> HIDE DEF nv
  <1>3. CASE acc.outcome # "ok"
    <2>1. after = acc
      BY <1>3 DEF FillOne
    <2>2. FilledTo(acc, k + 1)
      BY <1>1, <1>2, <1>3, Zenon DEF FilledTo
    <2> QED BY <2>1, <2>2 DEF nv
  <1>4. CASE acc.outcome = "ok"
    <2>1. after = [content |-> ContentSet(acc.content, nv), outcome |-> SetOutcome(acc.content, nv)]
      BY <1>4 DEF FillOne
    <2>2. /\ after.content = ContentSet(acc.content, nv) /\ after.outcome = SetOutcome(acc.content, nv)
          /\ after = [content |-> after.content, outcome |-> after.outcome]
      BY <2>1
    <2> HIDE DEF after
    <2>3. CASE Start.kind # "json"
      <3>1. acc.content = Start /\ Start.kind # "json" /\ IsContent(Start)
        BY <2>3 DEF FilledTo
      <3>2. /\ after.outcome = IF Start.kind = "raw" THEN "error" ELSE "panic"
            /\ after.content = Start
        BY <2>2, <3>1 DEF ContentSet, SetOutcome
      <3> HIDE DEF IsContent
      <3>3. FilledTo(after, k + 1)
        BY <2>2, <3>1, <3>2 DEF FilledTo
      <3> QED BY <3>3 DEF after, nv
    <2>4. CASE Start.kind = "json"
      <3>1. /\ acc.content.kind = "json" /\ IsContent(acc.content) /\ NamesTo(k) \cap Dotted = {}
            /\ DOMAIN acc.content.data \subseteq DOMAIN Start.data \cup NamesTo(k)
            /\ k > 0 => acc.content.data = With(Start.data, NamesTo(k))
            /\ k = 0 => acc.content = Start
        BY <1>4, <2>4 DEF FilledTo
      <3>2. CASE nv.name \in Dotted
        <4>1. after.outcome = "panic" /\ after.content = acc.content
          BY <2>2, <3>1, <3>2 DEF ContentSet, SetOutcome
        <4>2. NamesTo(k + 1) \cap Dotted # {}
          BY <1>1, <3>2
        <4>3. FilledTo(after, k + 1)
          BY <1>1, <2>2, <2>4, <3>1, <4>1, <4>2 DEF FilledTo
        <4> QED BY <4>3 DEF after, nv
      <3>3. CASE nv.name \notin Dotted
        <4> DEFINE put == Put(acc.content.data, nv.name, nv.name)
        <4>1. after.outcome = "ok"
          BY <2>2, <3>1, <3>3 DEF SetOutcome
        <4>2. after.content = [acc.content EXCEPT !.data = put]
          BY <2>2, <3>1, <3>3 DEF ContentSet, SetOutcome
        <4>3. put = With(Start.data, NamesTo(k + 1))
          <5>1. CASE k = 0
            <6>1. NamesTo(0) = {}
              BY DEF NamesTo
            <6>2. NamesTo(k + 1) = {nv.name}
              BY <1>1, <5>1, <6>1
            <6> QED BY <3>1, <5>1, <6>2, PutFirst
          <5>2. CASE k > 0
            BY <1>1, <3>1, <5>2, PutWith
          <5> QED BY <5>1, <5>2
        <4>7. DOMAIN put = DOMAIN acc.content.data \cup {nv.name}
          BY PutDomain
        <4> HIDE DEF put
        <4>4. IsContent(after.content) /\ after.content.kind = "json" /\ after.content.data = put
          BY <3>1, <4>2 DEF IsContent
        <4>5. NamesTo(k + 1) \cap Dotted = {}
          BY <1>1, <3>1, <3>3
        <4> HIDE DEF IsContent
        <4>6. FilledTo(after, k + 1)
          BY <1>1, <1>2, <2>2, <2>4, <3>1, <4>1, <4>3, <4>4, <4>5, <4>7 DEF FilledTo
        <4> QED BY <4>6 DEF after, nv
      <3> QED BY <3>2, <3>3
    <2> QED BY <2>3, <2>4
  <1> QED BY <1>3, <1>4 DEF nv

LEMMA FilledAll ==
  ASSUME Shaped(client)
  PROVE  FilledTo(Filled, Len(client.fill))
  <1>1. Len(client.fill) \in Nat
    BY DEF Shaped, IsSeq
  <1>2. PICK f : /\ f[0] = [content |-> Start, outcome |-> "ok"]
                 /\ \A i \in 1..Len(client.fill) : f[i] = FillOne(f[i - 1], client.fill[i])
                 /\ Filled = f[Len(client.fill)]
    BY <1>1, FilledStep
  <1> DEFINE T == {k \in Nat : k <= Len(client.fill) => FilledTo(f[k], k)}
  <1>3. 0 \in T
    <2>1. IsContent(Start)
      BY Contents, ContentOfClient DEF Start, ContentTypes
    <2>2. NamesTo(0) = {}
      BY DEF NamesTo
    <2> HIDE DEF IsContent
    <2>3. FilledTo([content |-> Start, outcome |-> "ok"], 0)
      BY <2>1, <2>2 DEF FilledTo
    <2> QED BY <1>2, <2>3
  <1>4. ASSUME NEW k \in Nat, k \in T PROVE k + 1 \in T
    <2>1. SUFFICES ASSUME k + 1 <= Len(client.fill) PROVE FilledTo(f[k + 1], k + 1)
      OBVIOUS
    <2>2. FilledTo(f[k], k)
      BY <1>1, <1>4, <2>1
    <2>3. k + 1 \in 1..Len(client.fill) /\ (k + 1) - 1 = k
      BY <1>1, <2>1
    <2>4. f[k + 1] = FillOne(f[k], client.fill[k + 1])
      BY <1>2, <2>3
    <2> QED BY <2>2, <2>4, FilledOne
  <1>5. Nat \subseteq T
    <2> HIDE DEF T
    <2> QED BY <1>3, <1>4, Induction
  <1> QED BY <1>1, <1>2, <1>5

\* What SetupBodyContent finds in Filled.
FilledEffect ==
    /\ IsContent(Filled.content) /\ Filled.outcome \in {"ok", "error", "panic"}
    /\ client.fill = <<>> => Filled.content = client.content /\ Filled.outcome = "ok"
    /\ client.content.kind = "raw" => Filled.content = client.content
    /\ Filled.outcome = "error" => client.content.kind = "raw"
    /\ Filled.content.kind = "json" <=> client.content.kind = "json"
    /\ Filled.content.kind = "none" => client.content.kind = "none"
    /\ Filled.content.kind = "json" =>
          DOMAIN Filled.content.data \subseteq DOMAIN client.content.data \cup FillNames
    /\ Filled.outcome = "ok" => client.fill = <<>> \/ Filled.content.kind = "json"
    /\ Settled => Filled.content = client.content /\ Filled.outcome # "panic"
    /\ Filled.outcome = "ok" =>
          \/ client.fill = <<>>
          \/ Filled.content.kind = "raw"
          \/ /\ Filled.content.kind = "json" /\ FillNames \cap Dotted = {}
             /\ Filled.content.data = With(Filled.content.data, FillNames)

LEMMA FilledResult ==
  ASSUME Shaped(client)
  PROVE  FilledEffect
  <1> DEFINE size == Len(client.fill)
  <1>1. FilledTo(Filled, size)
    BY FilledAll
  <1>2. size \in Nat /\ (client.fill # <<>> <=> size > 0)
    BY NonemptySeq DEF Shaped, IsSeq
  <1>3. NamesTo(size) = FillNames
    BY DEF NamesTo, FillNames
  <1>4. IsContent(Filled.content) /\ IsContent(client.content)
    BY <1>1, ContentOfClient DEF FilledTo
  <1> HIDE DEF IsContent, size
  <1>5. CASE client.fill = <<>>
    <2>1. size = 0 /\ Start = client.content
      BY <1>2, <1>5 DEF Start
    <2>2. Filled.content = client.content /\ Filled.outcome = "ok"
      BY <1>1, <2>1 DEF FilledTo
    <2> QED BY <1>4, <1>5, <2>2 DEF FilledEffect
  <1>6. CASE client.fill # <<>>
    <2>1. size > 0
      BY <1>2, <1>6
    <2>2. /\ Start.kind = "raw" <=> client.content.kind = "raw"
          /\ Start.kind = "json" <=> client.content.kind = "json"
          /\ Start.kind # "none"
          /\ client.content.kind # "none" => Start = client.content
      BY <1>6, Contents DEF Start, ContentTypes
    <2>3. /\ Filled.outcome \in {"ok", "error", "panic"} /\ Filled.content.kind = Start.kind
          /\ Filled.outcome = "error" => Start.kind = "raw"
          /\ Start.kind = "raw" => Filled.outcome = "error" /\ Filled.content = Start
          /\ Start.kind \notin {"raw", "json"} => Filled.outcome = "panic"
          /\ Start.kind = "json" =>
                /\ DOMAIN Filled.content.data \subseteq DOMAIN Start.data \cup FillNames
                /\ Filled.outcome = "panic" => FillNames \cap Dotted # {}
                /\ Filled.outcome = "ok" => /\ FillNames \cap Dotted = {}
                                            /\ Filled.content.data = With(Start.data, FillNames)
      BY <1>1, <1>3, <2>1 DEF FilledTo
    <2>4. Settled => Filled.content = client.content /\ Filled.outcome # "panic"
      <3>1. CASE client.content.kind = "raw"
        BY <2>2, <2>3, <3>1
      <3>2. CASE /\ client.content.kind = "json" /\ FillNames \cap Dotted = {}
                 /\ client.content.data = With(client.content.data, FillNames)
        <4>1. Filled.outcome = "ok" /\ Start = client.content
          BY <2>2, <2>3, <3>2
        <4>2. Filled.content.data = client.content.data /\ Filled.content.kind = client.content.kind
          BY <2>2, <2>3, <3>2, <4>1
        <4> QED BY <1>4, <4>1, <4>2 DEF IsContent
      <3> QED BY <1>6, <3>1, <3>2 DEF Settled
    <2>5. Filled.outcome = "ok" /\ Filled.content.kind = "json" =>
              /\ FillNames \cap Dotted = {}
              /\ Filled.content.data = With(Filled.content.data, FillNames)
      BY <2>3, WithAgain
    <2>6. Filled.outcome = "ok" => Filled.content.kind = "json"
      BY <2>3
    <2> QED BY <1>4, <1>6, <2>2, <2>3, <2>4, <2>5, <2>6 DEF FilledEffect
  <1> QED BY <1>5, <1>6

-----------------------------------------------------------------------------
(***************************************************************************)
(* The flags keep the invariant                                            *)
(***************************************************************************)
LEMMA RanNext ==
  ASSUME NEW flag, NEW arg, FlagEffect(flag, arg), GivenInv, pending \subseteq WithImplied(line)
  PROVE  /\ \A other : other # flag => RanTexts(other)' = RanTexts(other)
         /\ flag \notin ImpliedFlags =>
               /\ RanTexts(flag)' = RanTexts(flag) \cup {arg}
               /\ flag \notin EachOccurrence => RanTexts(flag) = {}
  <1>1. /\ line' = line /\ <<flag, arg>> \in pending /\ pending' = pending \ {<<flag, arg>>}
    BY DEF FlagEffect
  <1>2. \A o \in line \ pending' : o \in line \ pending \/ o = <<flag, arg>>
    BY <1>1
  <1>3. line \ pending \subseteq line \ pending'
    BY <1>1
  <1>4. ASSUME NEW other, other # flag PROVE RanTexts(other)' = RanTexts(other)
    BY <1>1, <1>2, <1>3, <1>4 DEF RanTexts
  <1>5. ASSUME flag \notin ImpliedFlags PROVE <<flag, arg>> \in line
    BY <1>1, <1>5, ImpliedOccurrences
  <1>6. ASSUME flag \notin ImpliedFlags PROVE RanTexts(flag)' = RanTexts(flag) \cup {arg}
    <2>1. <<flag, arg>> \in line \ pending'
      BY <1>1, <1>5, <1>6
    <2> QED BY <1>1, <1>2, <1>3, <2>1 DEF RanTexts
  <1>7. ASSUME flag \notin ImpliedFlags, flag \notin EachOccurrence PROVE RanTexts(flag) = {}
    <2> SUFFICES ASSUME NEW o \in line \ pending, o[1] = flag PROVE FALSE
      BY DEF RanTexts
    <2>1. o = <<flag, arg>>
      BY <1>5, <1>7, OccurrencesAssumption, Zenon DEF GivenInv
    <2> QED BY <1>1, <2>1
  <1> QED BY <1>4, <1>6, <1>7

\* Roots that are given are never taken for the system's.
LEMMA RootsRead ==
  ASSUME NEW R, R \subseteq DOMAIN CertsIn, R # {}
  PROVE  UNION {CertsIn[file] : file \in R} # System
  <1> SUFFICES ASSUME "system" \in UNION {CertsIn[file] : file \in R} PROVE FALSE
    BY DEF System
  <1>1. PICK file \in R : "system" \in CertsIn[file]
    OBVIOUS
  <1> QED BY <1>1, CertsAssumption DEF System

LEMMA RootsAdded ==
  ASSUME NEW t, DOMAIN t = TLSFields, NEW R, R \subseteq DOMAIN CertsIn,
         t.roots = IF R = {} THEN System ELSE UNION {CertsIn[file] : file \in R},
         NEW S, S \subseteq DOMAIN CertsIn, S # {}
  PROVE  [t EXCEPT !.roots = Pool(t) \cup UNION {CertsIn[file] : file \in S}].roots
             = UNION {CertsIn[file] : file \in R \cup S}
  <1>1. Pool(t) = UNION {CertsIn[file] : file \in R}
    <2>1. CASE R = {}
      <3>1. Pool(t) = {} /\ UNION {CertsIn[file] : file \in R} = {}
        BY <2>1 DEF Pool
      <3> QED BY <3>1
    <2>2. CASE R # {}
      BY <2>2, RootsRead DEF Pool
    <2> QED BY <2>1, <2>2
  <1>2. Pool(t) \cup UNION {CertsIn[file] : file \in S} = UNION {CertsIn[file] : file \in R \cup S}
    BY <1>1
  <1> QED BY <1>2 DEF TLSFields

LEMMA FlagTLSInv ==
  ASSUME NEW flag, NEW arg, IInv, FlagEffect(flag, arg)
  PROVE  TLSInv'
  <1>0. TLSInv /\ GivenInv /\ pending \subseteq WithImplied(line) /\ Shaped(client)
    BY DEF IInv, TypeOK, ShapeInv
  <1>1. /\ \A other : other # flag => RanTexts(other)' = RanTexts(other)
        /\ flag \notin ImpliedFlags => RanTexts(flag)' = RanTexts(flag) \cup {arg}
    BY <1>0, RanNext
  <1>2. RootsEffect(flag, arg) /\ VersionsEffect(flag, arg)
    BY DEF FlagEffect
  <1>3. /\ client'.tls.minVersion \in Versions /\ client'.tls.maxVersion \in Versions
        /\ client'.tls.minVersion <= client'.tls.maxVersion
    BY <1>0, <1>2 DEF TLSInv, VersionsEffect, Versions
  <1>4. client'.tls.minVersion # client'.tls.maxVersion => TRUE \in RanTexts("tlsv1")'
    <2>1. RanTexts("tlsv1") \subseteq RanTexts("tlsv1")'
      BY <1>1 DEF ImpliedFlags
    <2>2. flag = "tlsv1" => arg \in RanTexts("tlsv1")'
      BY <1>1 DEF ImpliedFlags
    <2> QED BY <1>0, <1>2, <2>1, <2>2 DEF TLSInv, VersionsEffect
  <1> DEFINE R == Readable(RanTexts("cacert"), RanTexts("capath"))
             RNext == Readable(RanTexts("cacert")', RanTexts("capath")')
             RootsOf(files) == IF files = {} THEN System ELSE UNION {CertsIn[file] : file \in files}
  <1>5. /\ client.tls.roots = RootsOf(R) /\ DOMAIN client.tls = TLSFields
        /\ R \subseteq DOMAIN CertsIn
    BY <1>0 DEF TLSInv, Shaped, TLSFields, Readable
  <1>6. client'.tls.roots = RootsOf(RNext)
    <2>1. CASE flag = "cacert"
      <3>1. RanTexts("cacert")' = RanTexts("cacert") \cup {arg} /\ RanTexts("capath")' = RanTexts("capath")
        BY <1>1, <2>1 DEF ImpliedFlags
      <3>2. RNext = R \cup ({arg} \cap DOMAIN CertsIn)
        BY <3>1 DEF Readable
      <3>3. client'.tls.roots = AddRootCACertFile(client.tls, arg).roots
        BY <1>2, <2>1 DEF RootsEffect
      <3> HIDE DEF R, RNext
      <3>4. CASE arg \notin DOMAIN CertsIn
        BY <1>5, <3>2, <3>3, <3>4 DEF AddRootCACertFile
      <3>5. CASE arg \in DOMAIN CertsIn
        <4> DEFINE S == {arg}
        <4>1. S \subseteq DOMAIN CertsIn /\ S # {} /\ RNext = R \cup S
          BY <3>2, <3>5
        <4>2. CertsIn[arg] = UNION {CertsIn[file] : file \in S}
          OBVIOUS
        <4> HIDE DEF S
        <4>3. client'.tls.roots = [client.tls EXCEPT !.roots =
                                      Pool(client.tls) \cup UNION {CertsIn[file] : file \in S}].roots
          BY <3>3, <3>5, <4>2 DEF AddRootCACertFile
        <4>4. client.tls.roots = IF R = {} THEN System ELSE UNION {CertsIn[file] : file \in R}
          BY <1>5
        <4>5. client'.tls.roots = UNION {CertsIn[file] : file \in R \cup S}
          <5> HIDE DEF RootsOf
          <5> QED BY <1>5, <4>1, <4>3, <4>4, RootsAdded
        <4> QED BY <4>1, <4>5
      <3> QED BY <3>4, <3>5
    <2>2. CASE flag = "capath"
      <3>1. RanTexts("capath")' = RanTexts("capath") \cup {arg} /\ RanTexts("cacert")' = RanTexts("cacert")
        BY <1>1, <2>2 DEF ImpliedFlags
      <3> DEFINE S == PemHere \cap DOMAIN CertsIn
      <3>2. RNext = R \cup S
        BY <3>1 DEF Readable
      <3>3. client'.tls.roots = AddRootCACertPath(client.tls, arg).roots
        BY <1>2, <2>2 DEF RootsEffect
      <3>4. CASE S = {}
        <4>1. RNext = R
          BY <3>2, <3>4
        <4> HIDE DEF R, RNext
        <4>2. client'.tls.roots = client.tls.roots
          BY <3>3, <3>4 DEF AddRootCACertPath
        <4> QED BY <1>5, <4>1, <4>2
      <3>5. CASE S # {}
        <4> HIDE DEF R, RNext
        <4>1. client'.tls.roots = [client.tls EXCEPT !.roots =
                                      Pool(client.tls) \cup UNION {CertsIn[file] : file \in S}].roots
          BY <3>3, <3>5 DEF AddRootCACertPath
        <4>2. S \subseteq DOMAIN CertsIn
          OBVIOUS
        <4> HIDE DEF S
        <4>3. client'.tls.roots = UNION {CertsIn[file] : file \in R \cup S}
          BY <1>5, <3>5, <4>1, <4>2, RootsAdded
        <4> QED BY <3>2, <3>5, <4>3
      <3> QED BY <3>4, <3>5
    <2>3. CASE flag \notin {"cacert", "capath"}
      <3>1. RanTexts("cacert")' = RanTexts("cacert") /\ RanTexts("capath")' = RanTexts("capath")
        BY <1>1, <2>3
      <3> QED BY <1>2, <1>5, <2>3, <3>1 DEF RootsEffect
    <2> QED BY <2>1, <2>2, <2>3
  <1> QED BY <1>3, <1>4, <1>6 DEF TLSInv

LEMMA FlagUserInv ==
  ASSUME NEW flag, NEW arg, IInv, FlagEffect(flag, arg)
  PROVE  UserInv' /\ RequestIDsInv'
  <1>0. UserInv /\ RequestIDsInv /\ PhaseInv /\ GivenInv /\ pending \subseteq WithImplied(line)
    BY DEF IInv, TypeOK
  <1>1. /\ \A other : other # flag => RanTexts(other)' = RanTexts(other)
        /\ flag \notin ImpliedFlags /\ flag \notin EachOccurrence => RanTexts(flag)' = {arg}
        /\ flag = "request-id" => RanTexts(flag) = {}
    <2>1. flag \notin ImpliedFlags =>
              /\ RanTexts(flag)' = RanTexts(flag) \cup {arg}
              /\ flag \notin EachOccurrence => RanTexts(flag) = {}
      BY <1>0, RanNext
    <2> QED BY <1>0, <2>1, RanNext DEF ImpliedFlags, EachOccurrence
  <1>2. /\ client'.user = IF flag = "user" THEN ParseUserInfo(arg) ELSE client.user
        /\ client'.requestIDs = IF flag = "request-id"
                                THEN Append(client.requestIDs,
                                            IF arg = Nothing THEN "generated" ELSE arg)
                                ELSE client.requestIDs
        /\ phase = "flags" /\ typed' = typed
    BY DEF FlagEffect
  <1>3. typed.users = <<>> /\ typed.passwords = <<>>
    BY <1>0, <1>2 DEF PhaseInv
  <1>4. UserInv'
    <2>1. CASE flag = "user"
      <3>1. RanTexts("user")' = {arg}
        BY <1>1, <2>1 DEF ImpliedFlags, EachOccurrence
      <3>2. UserOf(RanTexts("user")') = ParseUserInfo(arg)
        BY <3>1 DEF UserOf
      <3>3. client'.user = UserOf(RanTexts("user")')
        BY <1>2, <2>1, <3>2
      <3> QED BY <1>2, <1>3, <3>3 DEF UserInv
    <2>2. CASE flag # "user"
      <3>1. RanTexts("user")' = RanTexts("user") /\ client'.user = client.user
        BY <1>1, <1>2, <2>2
      <3> QED BY <1>0, <1>2, <3>1 DEF UserInv
    <2> QED BY <2>1, <2>2
  <1>5. RequestIDsInv'
    <2>1. CASE flag = "request-id"
      <3>1. RanTexts("request-id")' = {arg} /\ client.requestIDs = <<>>
        BY <1>0, <1>1, <2>1 DEF ImpliedFlags, EachOccurrence, RequestIDsInv, RequestIDsOf
      <3> DEFINE id == IF arg = Nothing THEN "generated" ELSE arg
      <3>2. client'.requestIDs = Append(<<>>, id)
        BY <1>2, <2>1, <3>1
      <3>3. client'.requestIDs = <<id>>
        <4> HIDE DEF id
        <4>1. Append(<<>>, id) = <<id>>
          OBVIOUS
        <4> QED BY <3>2, <4>1
      <3>4. (CHOOSE s \in RanTexts("request-id")' : TRUE) = arg /\ RanTexts("request-id")' # {}
        BY <3>1
      <3> QED BY <3>3, <3>4 DEF RequestIDsInv, RequestIDsOf
    <2>2. CASE flag # "request-id"
      <3>1. RanTexts("request-id")' = RanTexts("request-id") /\ client'.requestIDs = client.requestIDs
        BY <1>1, <1>2, <2>2
      <3> QED BY <1>0, <3>1 DEF RequestIDsInv
    <2> QED BY <2>1, <2>2
  <1> QED BY <1>4, <1>5

LEMMA FlagRawInv ==
  ASSUME NEW flag, NEW arg, IInv, FlagEffect(flag, arg)
  PROVE  RawInv'
  <1>0. RawInv /\ PhaseInv /\ GivenInv /\ pending \subseteq WithImplied(line)
    BY DEF IInv, TypeOK
  <1>1. /\ \A other : other # flag => RanTexts(other)' = RanTexts(other)
        /\ flag \in {"body", "fill"} => RanTexts(flag)' = RanTexts(flag) \cup {arg}
        /\ flag = "body" => RanTexts(flag) = {}
    BY <1>0, RanNext DEF ImpliedFlags, EachOccurrence
  <1>2. /\ phase = "flags" /\ phase' \in {"flags", "done", "failed"} /\ ContentEffect(flag, arg)
        /\ line' = line /\ loc' = loc /\ request' = request /\ sent' = sent
        /\ flag # "fill" => client'.fill = client.fill
    BY DEF FlagEffect
  <1>3. loc = 0 /\ sent = <<>>
    BY <1>0, <1>2 DEF PhaseInv
  <1>4. RanTexts("fill")' = {} => client'.fill = <<>>
    BY <1>0, <1>1, <1>2 DEF RawInv
  <1>5. ASSUME phase' # "failed", NEW text \in RanTexts("body")'
        PROVE  client'.content = NewRawContent(text)
    <2>1. CASE flag = "body"
      BY <1>1, <1>2, <2>1 DEF ContentEffect
    <2>2. CASE flag # "body"
      <3>1. client.content = NewRawContent(text) /\ client.content.kind = "raw"
        BY <1>0, <1>1, <1>2, <1>5, <2>2, Contents DEF RawInv
      <3> QED BY <1>2, <1>5, <2>2, <3>1 DEF ContentEffect
    <2> QED BY <2>1, <2>2
  <1>6. \A i \in DOMAIN sent' : FALSE
    BY <1>2, <1>3
  <1> QED BY <1>2, <1>3, <1>4, <1>5, <1>6 DEF RawInv, Chain

\* Only --body implies --body-content.
LEMMA ContentImplied ==
  ASSUME NEW arg, <<"body-content", arg>> \in WithImplied(line)
  PROVE  Texts("body") \cup Texts("body-content") # {}
  <1>1. CASE <<"body-content", arg>> \in line
    BY <1>1 DEF Texts
  <1>2. CASE <<"body-content", arg>> \notin line
    <2>1. <<"body-content", arg>> \in UNION {Implied(p[1]) : p \in line}
      BY <1>2 DEF WithImplied
    <2>2. PICK p \in line : <<"body-content", arg>> \in Implied(p[1])
      BY <2>1
    <2>3. p[1] = "body"
      BY <2>2 DEF Implied, Occurrence
    <2> QED BY <2>3 DEF Texts
  <1> QED BY <1>1, <1>2

LEMMA FlagFillsInv ==
  ASSUME NEW flag, NEW arg, IInv, FlagEffect(flag, arg)
  PROVE  FillsInv'
  <1>0. FillsInv /\ PhaseInv /\ GivenInv /\ pending \subseteq WithImplied(line) /\ IsSeq(client.fill)
    BY DEF IInv, TypeOK, ShapeInv, Shaped
  <1>1. /\ \A other : other # flag => RanTexts(other)' = RanTexts(other)
        /\ flag \in {"fill", "body"} => RanTexts(flag)' = RanTexts(flag) \cup {arg}
    BY <1>0, RanNext DEF ImpliedFlags
  <1>2. /\ phase = "flags" /\ ContentEffect(flag, arg) /\ line' = line /\ loc' = loc
        /\ <<flag, arg>> \in pending
        /\ client'.fill = IF flag = "fill" THEN Append(client.fill, arg) ELSE client.fill
    BY DEF FlagEffect
  <1>3. loc = 0
    BY <1>0, <1>2 DEF PhaseInv
  <1>4. FillNames' = {nv.name : nv \in RanTexts("fill")'} /\ FillNames \subseteq FillNames'
    <2>1. CASE flag = "fill"
      <3> DEFINE after == Append(client.fill, arg)
      <3>1. /\ Len(after) = Len(client.fill) + 1 /\ after[Len(client.fill) + 1] = arg
            /\ \A i \in 1..Len(client.fill) : after[i] = client.fill[i]
        BY <1>0, AppendSeq
      <3>2. Len(client.fill) \in Nat /\ client'.fill = after
        BY <1>0, <1>2, <2>1 DEF IsSeq
      <3> HIDE DEF after
      <3>3. FillNames' = FillNames \cup {arg.name}
        <4>1. FillNames' = {after[i].name : i \in 1..Len(after)}
          BY <3>2 DEF FillNames
        <4>2. \A i \in 1..Len(after) : i \in 1..Len(client.fill) \/ i = Len(client.fill) + 1
          BY <3>1, <3>2
        <4>3. \A i \in 1..Len(client.fill) : i \in 1..Len(after)
          BY <3>1, <3>2
        <4>4. Len(client.fill) + 1 \in 1..Len(after)
          BY <3>1, <3>2
        <4> QED BY <3>1, <4>1, <4>2, <4>3, <4>4 DEF FillNames
      <3>4. RanTexts("fill")' = RanTexts("fill") \cup {arg}
        BY <1>1, <2>1
      <3> QED BY <1>0, <3>3, <3>4 DEF FillsInv
    <2>2. CASE flag # "fill"
      <3>1. FillNames' = FillNames /\ RanTexts("fill")' = RanTexts("fill")
        BY <1>1, <1>2, <2>2 DEF FillNames
      <3> QED BY <1>0, <3>1 DEF FillsInv
    <2> QED BY <2>1, <2>2
  <1>5. client'.content.kind = "json" => DOMAIN client'.content.data \subseteq FillNames'
    <2>1. CASE flag = "body"
      BY <1>2, <2>1, Contents DEF ContentEffect
    <2>2. CASE flag # "body"
      BY <1>0, <1>2, <1>4, <2>2 DEF ContentEffect, FillsInv
    <2> QED BY <2>1, <2>2
  <1>6. ASSUME phase' # "failed", RanTexts("json-content")' # {},
               Texts("body") \cup Texts("body-content") = {}
        PROVE  client'.content.kind = "json"
    <2>1. flag # "body-content"
      BY <1>0, <1>2, <1>6, ContentImplied
    <2>2. flag # "body"
      <3>1. flag = "body" => <<flag, arg>> \in line
        BY <1>0, <1>2, ImpliedOccurrences DEF ImpliedFlags
      <3> QED BY <1>6, <3>1 DEF Texts
    <2>3. CASE flag = "json-content"
      BY <1>2, <1>6, <2>3 DEF ContentEffect
    <2>4. CASE flag # "json-content"
      <3>1. RanTexts("json-content") # {} /\ phase # "failed"
        BY <1>1, <1>2, <1>6, <2>4
      <3>2. client.content.kind = "json"
        BY <1>0, <1>6, <3>1 DEF FillsInv
      <3> QED BY <1>2, <2>1, <2>2, <2>4, <3>2 DEF ContentEffect
    <2> QED BY <2>3, <2>4
  <1>7. \A other : Texts(other)' = Texts(other)
    BY <1>2 DEF Texts
  <1> QED BY <1>2, <1>3, <1>4, <1>5, <1>6, <1>7 DEF FillsInv

LEMMA FlagHeadersInv ==
  ASSUME NEW flag, NEW arg, IInv, FlagEffect(flag, arg)
  PROVE  HeadersInv'
  <1>0. HeadersInv /\ PhaseInv /\ GivenInv /\ pending \subseteq WithImplied(line)
    BY DEF IInv, TypeOK
  <1>1. /\ phase = "flags" /\ line' = line /\ loc' = loc
        /\ DOMAIN client'.headers \subseteq DOMAIN client.headers \cup NamedBy(flag, arg)
        /\ flag \notin HeaderFlags => client'.headers = client.headers
        /\ <<flag, arg>> \in pending
    BY DEF FlagEffect
  <1>2. loc = 0
    BY <1>0, <1>1 DEF PhaseInv
  <1>3. flag = "header" => arg \in Texts("header")
    <2> SUFFICES ASSUME flag = "header" PROVE arg \in Texts("header")
      OBVIOUS
    <2>1. <<flag, arg>> \in line
      BY <1>0, <1>1, ImpliedOccurrences DEF ImpliedFlags
    <2> QED BY <2>1 DEF Texts
  <1>4. Texts("header")' = Texts("header")
    BY <1>1 DEF Texts
  <1>5. ASSUME NEW name \in DOMAIN client'.headers
        PROVE  \/ name \in {<<"User-Agent">>, <<"Accept">>}
               \/ \E args \in Texts("header") : ParseHeader(args).name = name
    <2>1. CASE name \in DOMAIN client.headers
      BY <1>0, <1>2, <2>1, Zenon DEF HeadersInv
    <2>2. CASE name \in NamedBy(flag, arg)
      BY <1>3, <2>2 DEF NamedBy
    <2> QED BY <1>1, <1>5, <2>1, <2>2
  <1>6. <<"Content-Type">> \notin {<<"User-Agent">>, <<"Accept">>}
        /\ <<"X-Request-ID">> \notin {<<"User-Agent">>, <<"Accept">>}
    OBVIOUS
  <1>7. ASSUME NEW name, name \notin {<<"User-Agent">>, <<"Accept">>}, ~Named(name)'
        PROVE  name \notin DOMAIN client'.headers
    <2>1. ~\E args \in Texts("header") : ParseHeader(args).name = name
      BY <1>4, <1>7, Zenon DEF Named
    <2> QED BY <1>5, <1>7, <2>1
  <1>8. ~Named(<<"Content-Type">>)' => Get(client'.headers, <<"Content-Type">>) = <<>>
    BY <1>6, <1>7 DEF Get
  <1>9. ~Named(<<"X-Request-ID">>)' => <<"X-Request-ID">> \notin DOMAIN client'.headers
    BY <1>6, <1>7
  <1>10. ~Begun'
    BY <1>1, <1>2 DEF Begun
  <1>11. ~Named(<<"Content-Type">>)' =>
             Get(client'.headers, <<"Content-Type">>) =
                 IF Begun' /\ client'.content.kind = "json" THEN JSONType ELSE <<>>
    BY <1>8, <1>10
  <1> QED BY <1>4, <1>5, <1>9, <1>10, <1>11, Zenon DEF HeadersInv

LEMMA FlagInv ==
  ASSUME IInv, FlagRuns
  PROVE  IInv'
  <1>0. /\ TypeOK /\ GivenInv /\ ShapeInv /\ PhaseInv /\ FilledInv /\ SentInv
        /\ pending \subseteq WithImplied(line) /\ Shaped(client)
    BY DEF IInv, TypeOK, ShapeInv
  <1>1. PICK flag, arg : FlagEffect(flag, arg)
    BY <1>0, FlagRunsEffect
  <1>2. /\ phase = "flags" /\ phase' \in {"flags", "done", "failed"}
        /\ line' = line /\ loc' = loc /\ request' = request /\ sent' = sent /\ typed' = typed
        /\ pending' \subseteq pending /\ Shaped(client')
    BY <1>1 DEF FlagEffect
  <1>3. /\ loc = 0 /\ sent = <<>> /\ typed.users = <<>> /\ typed.passwords = <<>>
        /\ request = [query |-> NoFields, body |-> Nothing, whole |-> FALSE]
    BY <1>0, <1>2 DEF PhaseInv
  <1>4. TypeOK'
    <2>1. DOMAIN client' = DOMAIN NewClient
      BY <1>2 DEF Shaped, NewClient
    <2>2. client'.content.kind \in {"none", "raw", "json", "form", "urlencoded", "multipart"}
      BY <1>2 DEF Shaped, Kinds, ContentTypes
    <2>3. client'.auth.mode \in {"none", "basic", "bearer"}
      BY <1>2 DEF Shaped
    <2>4. pending' \subseteq WithImplied(line')
      BY <1>0, <1>2
    <2> QED BY <1>0, <1>2, <2>1, <2>2, <2>3, <2>4 DEF TypeOK, Typing
  <1>5. GivenInv' /\ ShapeInv'
    BY <1>0, <1>2 DEF GivenInv, ShapeInv
  <1>6. PhaseInv'
    BY <1>2, <1>3 DEF PhaseInv, Chain
  <1>7. TLSInv' /\ UserInv' /\ RequestIDsInv' /\ RawInv' /\ FillsInv' /\ HeadersInv'
    BY <1>1, FlagTLSInv, FlagUserInv, FlagRawInv, FlagFillsInv, FlagHeadersInv
  <1>8. PromptedInv'
    BY <1>2 DEF PromptedInv, WholeSend
  <1>9. FilledInv'
    BY <1>2, <1>3 DEF FilledInv, Begun, WholeSend, Chain
  <1>10. QueryInv'
    BY <1>2 DEF QueryInv, WholeSend
  <1>11. SentInv'
    BY <1>2, <1>3, EmptyIsSeq DEF SentInv, Chain
  <1> QED BY <1>4, <1>5, <1>6, <1>7, <1>8, <1>9, <1>10, <1>11 DEF IInv

-----------------------------------------------------------------------------
(***************************************************************************)
(* The links of the chain keep the invariant                               *)
(***************************************************************************)
\* What every step but those of flags does to what flags have set.
ChainEffect ==
    /\ UNCHANGED <<line, pending>> /\ (loc > 0 \/ pending = {}) /\ Shaped(client')
    /\ client'.method = client.method /\ client'.fill = client.fill
    /\ client'.query = client.query /\ client'.auth = client.auth
    /\ client'.requestIDs = client.requestIDs /\ client'.tls = client.tls

LEMMA KeptByChain ==
  ASSUME UNCHANGED <<line, pending>>, Keeps(client, client', "headers"), loc > 0
  PROVE  ChainEffect
  BY DEF Keeps, ChainEffect

LEMMA SameNames ==
  ASSUME ChainEffect
  PROVE  /\ \A flag : RanTexts(flag)' = RanTexts(flag) /\ Texts(flag)' = Texts(flag)
         /\ \A name : Named(name)' = Named(name)
         /\ \A location : IdOf(location)' = IdOf(location)
         /\ FillNames' = FillNames
  <1>1. ASSUME NEW flag PROVE RanTexts(flag)' = RanTexts(flag) /\ Texts(flag)' = Texts(flag)
    BY DEF ChainEffect, RanTexts, Texts
  <1>2. ASSUME NEW name PROVE Named(name)' = Named(name)
    BY <1>1 DEF Named, ChainEffect
  <1>3. ASSUME NEW location PROVE IdOf(location)' = IdOf(location)
    BY DEF IdOf, ChainEffect
  <1>4. FillNames' = FillNames
    BY DEF FillNames, ChainEffect
  <1> QED BY <1>1, <1>2, <1>3, <1>4

LEMMA SameMerged ==
  ASSUME ChainEffect, NEW query
  PROVE  Merged(query)' = Merged(query)
  BY DEF Merged, ChainEffect

LEMMA AllRan ==
  ASSUME pending = {}, NEW flag
  PROVE  RanTexts(flag) = Texts(flag)
  BY DEF RanTexts, Texts

LEMMA ChainFlagsInv ==
  ASSUME IInv, ChainEffect
  PROVE  GivenInv' /\ TLSInv' /\ RequestIDsInv' /\ pending' \subseteq WithImplied(line')
  <1>1. \A flag : RanTexts(flag)' = RanTexts(flag)
    BY SameNames
  <1>2. GivenInv /\ TLSInv /\ RequestIDsInv /\ pending \subseteq WithImplied(line)
    BY DEF IInv, TypeOK
  <1>3. TLSInv'
    BY <1>1, <1>2, Zenon DEF TLSInv, ChainEffect
  <1>4. RequestIDsInv'
    BY <1>1, <1>2, Zenon DEF RequestIDsInv, ChainEffect
  <1> QED BY <1>2, <1>3, <1>4 DEF GivenInv, ChainEffect

LEMMA ChainFillsInv ==
  ASSUME IInv, ChainEffect, phase # "failed",
         client'.content.kind = "json" <=> client.content.kind = "json",
         client'.content.kind = "json" =>
             DOMAIN client'.content.data \subseteq DOMAIN client.content.data \cup FillNames
  PROVE  FillsInv'
  <1>1. /\ \A flag : RanTexts(flag)' = RanTexts(flag) /\ Texts(flag)' = Texts(flag)
        /\ FillNames' = FillNames
    BY SameNames
  <1>2. /\ FillNames = {nv.name : nv \in RanTexts("fill")}
        /\ client.content.kind = "json" => DOMAIN client.content.data \subseteq FillNames
        /\ RanTexts("json-content") # {} /\ Texts("body") \cup Texts("body-content") = {} =>
              client.content.kind = "json"
    BY DEF IInv, FillsInv
  <1>3. client'.content.kind = "json" => DOMAIN client'.content.data \subseteq FillNames
    BY <1>2
  <1> QED BY <1>1, <1>2, <1>3 DEF FillsInv

\* The type invariant of the next state, where the rest of it is not at stake.
LEMMA TypeNext ==
  ASSUME ShapeInv', SentInv', pending' \subseteq WithImplied(line'),
         phase' \in Chain \cup {"next", "done", "failed", "panicked"},
         loc' \in 0..Len(Queries), request.whole' \in BOOLEAN,
         Typing(typed.users)', Typing(typed.passwords)'
  PROVE  TypeOK'
  <1>1. Shaped(client')
    BY DEF ShapeInv
  <1>2. DOMAIN client' = DOMAIN NewClient
    BY <1>1 DEF Shaped, NewClient
  <1>3. /\ client'.content.kind \in {"none", "raw", "json", "form", "urlencoded", "multipart"}
        /\ client'.auth.mode \in {"none", "basic", "bearer"}
    BY <1>1 DEF Shaped, Kinds, ContentTypes
  <1>4. phase' \in {"flags", "next", "body", "query", "username", "password", "auth",
                    "requestID", "send", "done", "failed", "panicked"}
    BY DEF Chain
  <1>5. Len(sent') <= loc'
    BY DEF SentInv
  <1> QED BY <1>2, <1>3, <1>4, <1>5 DEF TypeOK

LEMMA NextLocationInv ==
  ASSUME IInv, NextLocation
  PROVE  IInv'
  <1>0. /\ TypeOK /\ ShapeInv /\ PhaseInv /\ UserInv /\ RawInv /\ FilledInv /\ HeadersInv
        /\ SentInv /\ Shaped(client) /\ loc \in 0..Len(Queries) /\ Len(Queries) \in Nat
    <2>1. Len(Queries) \in Nat
      BY QueriesAssumption
    <2> QED BY <2>1 DEF IInv, TypeOK, ShapeInv
  <1>1. /\ (phase = "flags" /\ pending = {}) \/ phase = "next"
        /\ UNCHANGED <<line, pending, client, sent, typed>>
    BY DEF NextLocation
  <1>2. loc > 0 \/ (phase = "flags" /\ pending = {} /\ loc = 0)
    BY <1>0, <1>1 DEF PhaseInv
  <1>3. ChainEffect
    BY <1>0, <1>1, <1>2 DEF ChainEffect
  <1>4. /\ \A flag : RanTexts(flag)' = RanTexts(flag) /\ Texts(flag)' = Texts(flag)
        /\ \A name : Named(name)' = Named(name)
        /\ \A location : IdOf(location)' = IdOf(location)
        /\ FillNames' = FillNames
    BY <1>3, SameNames
  <1>5. \/ /\ loc < Len(Queries) /\ phase' = "body" /\ loc' = loc + 1
           /\ request' = [request EXCEPT !.query = Queries[loc + 1], !.whole = FALSE]
        \/ phase' = "done" /\ loc' = loc /\ request' = request
    BY DEF NextLocation, Goto
  <1>6. /\ request' = [query |-> request'.query, body |-> request.body, whole |-> request'.whole]
        /\ request'.body = request.body
        /\ phase' = "body" => request'.query = Queries[loc'] /\ ~request'.whole
        /\ request.whole \in BOOLEAN /\ request'.whole \in BOOLEAN
    BY <1>0, <1>5 DEF ShapeInv, TypeOK
  <1>7. ~WholeSend'
    BY <1>5 DEF WholeSend
  <1>8. ShapeInv'
    BY <1>0, <1>1, <1>6 DEF ShapeInv
  <1>9. PhaseInv'
    BY <1>0, <1>1, <1>2, <1>5, <1>6 DEF PhaseInv, Chain
  <1>10. UserInv'
    BY <1>0, <1>1, <1>4, Zenon DEF UserInv
  <1>11. PromptedInv'
    BY <1>5 DEF PromptedInv, WholeSend
  <1>12. RawInv'
    <2>1. loc' > 0 \/ phase' # "failed" => loc > 0 \/ phase # "failed"
      BY <1>1
    <2>2. phase' \notin Chain \ {"body"}
      BY <1>5 DEF Chain
    <2> QED BY <1>0, <1>1, <1>4, <2>1, <2>2, Zenon DEF RawInv
  <1>13. Begun' <=> Begun
    BY <1>0, <1>1, <1>2, <1>5 DEF Begun
  <1>20. FillsInv'
    BY <1>1, <1>3, ChainFillsInv
  <1>14. FilledInv'
    <2>1. Settled' = Settled
      BY <1>1, <1>4 DEF Settled
    <2>2. phase' \notin Chain \ {"body", "send"}
      BY <1>5 DEF Chain
    <2> QED BY <1>0, <1>1, <1>6, <1>7, <1>13, <2>1, <2>2, Zenon DEF FilledInv
  <1>15. HeadersInv'
    <2>1. loc' = 0 => loc = 0
      BY <1>0, <1>5
    <2> QED BY <1>0, <1>1, <1>4, <1>13, <2>1, Zenon DEF HeadersInv
  <1>16. QueryInv'
    BY <1>5, <1>6 DEF QueryInv, WholeSend
  <1>17. SentInv'
    <2>1. ASSUME NEW r, AsNow(r) PROVE AsNow(r)'
      <3>1. Merged(Queries[r.loc])' = Merged(Queries[r.loc])
        BY <1>3, SameMerged
      <3>2. Visible(r.headers)' = Visible(r.headers) /\ Visible(client.headers)' = Visible(client.headers)
        BY <1>1 DEF Visible
      <3> QED BY <1>1, <1>4, <2>1, <3>1, <3>2, Zenon DEF AsNow
    <2>2. \A i \in 1..Len(sent') : sent'[i].whole => AsNow(sent[i])'
      BY <1>0, <1>1, <2>1 DEF SentInv
    <2>3. /\ Len(sent) <= loc' /\ (phase' \in Chain \cup {"panicked"} => Len(sent) < loc')
          /\ \A i \in 1..Len(sent) : sent[i].loc \in 1..loc'
                /\ (phase' \in Chain \cup {"panicked"} => sent[i].loc < loc')
      <3>1. Len(sent) \in Nat /\ Len(sent) <= loc /\ \A i \in 1..Len(sent) : sent[i].loc \in 1..loc
        BY <1>0 DEF SentInv, IsSeq
      <3> QED BY <1>0, <1>5, <3>1 DEF Chain
    <2> QED BY <1>0, <1>1, <2>2, <2>3 DEF SentInv
  <1>18. GivenInv' /\ TLSInv' /\ RequestIDsInv' /\ pending' \subseteq WithImplied(line')
    BY <1>3, ChainFlagsInv
  <1>19. TypeOK'
    <2>1. loc' \in 0..Len(Queries)
      BY <1>0, <1>5
    <2>2. Typing(typed.users)' /\ Typing(typed.passwords)'
      BY <1>0, <1>1 DEF TypeOK, Typing
    <2> QED BY <1>5, <1>6, <1>8, <1>17, <1>18, <2>1, <2>2, TypeNext DEF Chain
  <1> QED BY <1>8, <1>9, <1>10, <1>11, <1>12, <1>14, <1>15, <1>16, <1>17, <1>18, <1>19, <1>20 DEF IInv

\* What a link of the chain does, but for the last one.
LinkEffect ==
    /\ ChainEffect /\ ShapeInv'
    /\ phase \in Chain \ {"send"} /\ phase' \in (Chain \ {"body"}) \cup {"panicked"}
    /\ loc' = loc /\ sent' = sent
    /\ request'.whole \in BOOLEAN /\ (phase' # "send" => ~request'.whole)
    /\ Typing(typed.users)' /\ Typing(typed.passwords)'

LEMMA Links ==
  ASSUME IInv, phase \in Chain
  PROVE  /\ loc > 0 /\ loc \in 0..Len(Queries) /\ Len(Queries) \in Nat /\ pending = {}
         /\ \A flag : RanTexts(flag) = Texts(flag)
         /\ phase # "send" => ~request.whole /\ request.whole = FALSE
         /\ phase # "body" => Begun
  <1>1. PhaseInv /\ loc \in 0..Len(Queries) /\ request.whole \in BOOLEAN
    BY DEF IInv, TypeOK
  <1>2. Len(Queries) \in Nat
    BY QueriesAssumption
  <1>3. loc > 0 /\ pending = {} /\ (phase # "send" => ~request.whole /\ request.whole = FALSE)
    BY <1>1, <1>2 DEF PhaseInv, Chain
  <1>4. phase # "body" => Begun
    BY <1>1, <1>2, <1>3 DEF Begun, Chain
  <1> QED BY <1>1, <1>2, <1>3, <1>4, AllRan

LEMMA LinkBegun ==
  ASSUME IInv, LinkEffect
  PROVE  phase' # "panicked" => Begun'
  <1>1. loc > 0 /\ loc \in Nat
    BY Links DEF LinkEffect
  <1> QED BY <1>1 DEF Begun, LinkEffect, Chain

\* A link changes nothing that requests before this one had.
LEMMA LinkSentInv ==
  ASSUME IInv, LinkEffect,
         loc > 1 => /\ client'.content = client.content
                    /\ Visible(client'.headers) = Visible(client.headers)
  PROVE  SentInv' /\ TypeOK' /\ PhaseInv'
  <1>0. /\ SentInv /\ loc > 0 /\ loc \in 0..Len(Queries) /\ Len(Queries) \in Nat /\ pending = {}
        /\ phase \in Chain
    BY Links DEF IInv, LinkEffect
  <1>1. /\ \A name : Named(name)' = Named(name)
        /\ \A location : IdOf(location)' = IdOf(location)
    BY SameNames DEF LinkEffect
  <1>2. ASSUME loc > 1, NEW r, AsNow(r) PROVE AsNow(r)'
    <2>1. Merged(Queries[r.loc])' = Merged(Queries[r.loc])
      BY SameMerged DEF LinkEffect
    <2>2. /\ Visible(r.headers)' = Visible(r.headers)
          /\ Visible(client.headers)' = Visible(client.headers)
      BY <1>2 DEF Visible, LinkEffect, ChainEffect
    <2>3. /\ client'.method = client.method /\ client'.content = client.content
          /\ client'.requestIDs = client.requestIDs /\ client'.fill = client.fill
      BY <1>2 DEF LinkEffect, ChainEffect
    <2> QED BY <1>1, <1>2, <2>1, <2>2, <2>3, Zenon DEF AsNow
  <1>3. sent' = sent /\ loc' = loc
    BY DEF LinkEffect
  <1>4. \A i \in 1..Len(sent) : /\ sent[i].loc \in 1..loc /\ sent[i].loc < loc
                                /\ sent[i].whole => AsNow(sent[i])
    BY <1>0 DEF SentInv
  <1>5. Len(sent) < loc /\ Len(sent) \in Nat
    BY <1>0 DEF SentInv, IsSeq
  <1>6. \A i \in 1..Len(sent') : sent'[i].whole => AsNow(sent[i])'
    <2> SUFFICES ASSUME NEW i \in 1..Len(sent), sent[i].whole PROVE AsNow(sent[i])'
      BY <1>3
    <2>1. loc > 1
      BY <1>0, <1>4
    <2>2. AsNow(sent[i])
      BY <1>4
    <2> QED BY <1>2, <1>3, <2>1, <2>2
  <1>7. SentInv'
    BY <1>0, <1>3, <1>4, <1>5, <1>6 DEF SentInv
  <1>8. pending' \subseteq WithImplied(line')
    BY ChainFlagsInv DEF LinkEffect
  <1>9. TypeOK'
    BY <1>0, <1>3, <1>7, <1>8, TypeNext DEF LinkEffect
  <1>10. PhaseInv'
    BY <1>0, <1>3 DEF PhaseInv, LinkEffect, ChainEffect, Chain
  <1> QED BY <1>7, <1>9, <1>10

\* The links after the content keep it.
LEMMA LinkContentInv ==
  ASSUME IInv, LinkEffect, phase # "body", phase' # "panicked",
         client'.content = client.content, request'.body = request.body
  PROVE  RawInv' /\ FillsInv' /\ FilledInv'
  <1>0. RawInv /\ FilledInv /\ loc > 0 /\ phase \in Chain \ {"body", "send"} /\ Begun
    BY Links DEF IInv, LinkEffect
  <1>1. /\ \A flag : RanTexts(flag)' = RanTexts(flag) /\ Texts(flag)' = Texts(flag)
        /\ FillNames' = FillNames
    BY SameNames DEF LinkEffect
  <1>2. client'.fill = client.fill /\ sent' = sent
    BY DEF LinkEffect, ChainEffect
  <1>3. RawInv'
    <2>1. phase \in Chain \ {"body"} /\ (loc > 0 \/ phase # "failed")
      BY <1>0
    <2> QED BY <1>0, <1>1, <1>2, <2>1, Zenon DEF RawInv
  <1>4. FilledInv'
    <2>1. Settled' = Settled
      BY <1>1, <1>2 DEF Settled
    <2> QED BY <1>0, <1>2, <2>1, Zenon DEF FilledInv
  <1>5. FillsInv'
    BY ChainFillsInv DEF LinkEffect, Chain
  <1> QED BY <1>3, <1>4, <1>5

LEMMA LinkUserInv ==
  ASSUME IInv, LinkEffect, client'.user = client.user, typed' = typed
  PROVE  UserInv'
  <1>1. UserInv /\ \A flag : RanTexts(flag)' = RanTexts(flag)
    BY SameNames DEF IInv, LinkEffect
  <1> QED BY <1>1, Zenon DEF UserInv

LEMMA LinkHeadersInv ==
  ASSUME IInv, LinkEffect, phase # "body", phase' # "panicked",
         client'.content = client.content, client'.headers = client.headers
  PROVE  HeadersInv'
  <1>1. HeadersInv /\ loc > 0 /\ Begun
    BY Links DEF IInv, LinkEffect
  <1>2. \A name : Named(name)' = Named(name)
    BY SameNames DEF LinkEffect
  <1>3. loc' # 0 /\ client'.requestIDs = client.requestIDs /\ (Begun' <=> Begun)
    BY <1>1, LinkBegun DEF LinkEffect, ChainEffect
  <1> QED BY <1>1, <1>2, <1>3, Zenon DEF HeadersInv

\* What is in the request after its query.
LEMMA LinkQueryInv ==
  ASSUME IInv, LinkEffect, phase \in {"username", "password", "auth", "requestID"},
         phase' \in {"username", "password", "auth", "requestID", "send"},
         request'.query = request.query,
         WholeSend' /\ client.requestIDs # <<>> => Get(client'.headers, <<"X-Request-ID">>) = IdOf(loc)
  PROVE  QueryInv'
  <1>1. QueryInv
    BY DEF IInv
  <1>2. request.query = Merged(Queries[loc])
    BY <1>1 DEF QueryInv
  <1>3. Merged(Queries[loc])' = Merged(Queries[loc]) /\ IdOf(loc)' = IdOf(loc)
    <2>1. loc' = loc
      BY DEF LinkEffect
    <2> QED BY <2>1 DEF Merged, IdOf, LinkEffect, ChainEffect
  <1>4. client'.requestIDs = client.requestIDs
    BY DEF LinkEffect, ChainEffect
  <1>5. phase' \notin {"body", "query"}
    OBVIOUS
  <1> QED BY <1>2, <1>3, <1>4, <1>5, Zenon DEF QueryInv

\* The parts that no link changes.
LEMMA LinkInv ==
  ASSUME LinkEffect, IInv, TypeOK', PhaseInv', UserInv', PromptedInv', RawInv', FillsInv', FilledInv',
         HeadersInv', QueryInv', SentInv'
  PROVE  IInv'
  <1>1. GivenInv' /\ TLSInv' /\ RequestIDsInv' /\ ShapeInv'
    BY ChainFlagsInv DEF LinkEffect
  <1> QED BY <1>1 DEF IInv

LEMMA SetupQueryStringInv ==
  ASSUME IInv, SetupQueryString
  PROVE  IInv'
  <1>0. /\ phase = "query" /\ phase' = "username"
        /\ UNCHANGED <<line, pending, client, loc, sent, typed>>
        /\ request' = [request EXCEPT !.query =
                          [name \in DOMAIN request.query \cup DOMAIN client.query |->
                              Get(request.query, name) \o Get(client.query, name)]]
    BY DEF SetupQueryString, Goto
  <1>1. /\ phase \in Chain \ {"send"} /\ TypeOK /\ ShapeInv /\ QueryInv /\ loc > 0
        /\ ~request.whole /\ request.whole = FALSE
    BY <1>0, Links DEF IInv, Chain
  <1>2. /\ request' = [query |-> request'.query, body |-> request.body, whole |-> FALSE]
        /\ request'.body = request.body /\ request'.whole = FALSE
        /\ request'.query = Merged(request.query)
    BY <1>0, <1>1 DEF ShapeInv, Merged
  <1>3. LinkEffect
    <2>1. ShapeInv'
      BY <1>0, <1>1, <1>2 DEF ShapeInv
    <2>2. ChainEffect
      BY <1>0, <1>1 DEF ChainEffect, ShapeInv
    <2> QED BY <1>0, <1>1, <1>2, <2>1, <2>2 DEF LinkEffect, Chain, TypeOK, Typing
  <1>4. TypeOK' /\ PhaseInv' /\ SentInv'
    BY <1>0, <1>3, LinkSentInv
  <1>5. RawInv' /\ FillsInv' /\ FilledInv' /\ UserInv' /\ HeadersInv'
    BY <1>0, <1>2, <1>3, LinkContentInv, LinkUserInv, LinkHeadersInv
  <1>6. PromptedInv'
    BY <1>0 DEF PromptedInv, WholeSend
  <1>7. QueryInv'
    <2>1. request'.query = Merged(Queries[loc])
      BY <1>0, <1>1, <1>2 DEF QueryInv
    <2>2. Merged(Queries[loc])' = Merged(Queries[loc])
      BY <1>0 DEF Merged
    <2> QED BY <1>0, <2>1, <2>2 DEF QueryInv, WholeSend
  <1> QED BY <1>3, <1>4, <1>5, <1>6, <1>7, LinkInv

LEMMA TypingAppend ==
  ASSUME NEW s, IsSeq(s), Typing(s), NEW e \in Typed
  PROVE  Typing(Append(s, e))
  <1> DEFINE t == Append(s, e)
  <1>1. /\ IsSeq(t) /\ Len(t) = Len(s) + 1 /\ \A i \in 1..Len(s) : t[i] = s[i]
        /\ t[Len(s) + 1] = e
    BY AppendSeq
  <1> HIDE DEF t
  <1>2. DOMAIN t = 1..Len(t) /\ DOMAIN s = 1..Len(s) /\ Len(s) \in Nat
    BY <1>1 DEF IsSeq
  <1>3. Typing(t)
    BY <1>1, <1>2 DEF Typing
  <1> QED BY <1>3 DEF t

LEMMA PromptUsernameInv ==
  ASSUME IInv, PromptUsername
  PROVE  IInv'
  <1>0. /\ phase = "username" /\ phase' \in {"password", "send"}
        /\ UNCHANGED <<line, pending, loc, request, sent>>
    BY DEF PromptUsername, Goto
  <1>1. /\ phase \in Chain \ {"send"} /\ TypeOK /\ ShapeInv /\ QueryInv /\ UserInv /\ loc > 0
        /\ ~request.whole /\ request.whole = FALSE /\ Shaped(client)
        /\ IsSeq(typed.users) /\ typed = [users |-> typed.users, passwords |-> typed.passwords]
    BY <1>0, Links DEF IInv, Chain, ShapeInv
  <1> DEFINE given == UserOf(RanTexts("user"))
  <1>2. ASSUME NEW name \in Typed, client.auth.mode = "basic", client.user.user = Nothing,
               client' = [client EXCEPT !.user.user = name],
               typed' = [typed EXCEPT !.users = Append(@, name)], phase' = "password"
        PROVE  IInv'
    <2>1. /\ typed' = [users |-> Append(typed.users, name), passwords |-> typed.passwords]
          /\ typed'.users = Append(typed.users, name) /\ typed'.passwords = typed.passwords
      BY <1>1, <1>2
    <2>2. /\ IsSeq(Append(typed.users, name)) /\ Append(typed.users, name) # <<>>
          /\ Len(Append(typed.users, name)) = Len(typed.users) + 1
          /\ \A i \in 1..Len(typed.users) : Append(typed.users, name)[i] = typed.users[i]
          /\ Last(Append(typed.users, name)) = name
      BY <1>1, AppendSeq
    <2> DEFINE user == [client.user EXCEPT !.user = name]
    <2>3. /\ DOMAIN user = {"user", "password", "hasPassword"} /\ user.user = name
          /\ user.password = client.user.password /\ user.hasPassword = client.user.hasPassword
      BY <1>1 DEF Shaped
    <2>4. client' = [client EXCEPT !.user = user]
      BY <1>2
    <2> HIDE DEF user
    <2>5. Keeps(client, client', "user") /\ client'.user = user
      BY <1>1, <2>3, <2>4, UserKeeps
    <2>6. Typing(typed.users)' /\ Typing(typed.passwords)'
      <3>1. Typing(typed.users) /\ Typing(typed.passwords)
        BY <1>1 DEF TypeOK
      <3>2. Typing(Append(typed.users, name))
        BY <1>1, <3>1, TypingAppend
      <3> QED BY <2>1, <3>1, <3>2 DEF Typing
    <2>7. LinkEffect
      <3>1. ShapeInv'
        BY <1>0, <1>1, <2>1, <2>2, <2>5, Zenon DEF ShapeInv, Keeps
      <3>2. ChainEffect
        BY <1>0, <1>1, <2>5 DEF ChainEffect, Keeps
      <3> QED BY <1>0, <1>1, <1>2, <2>6, <3>1, <3>2 DEF LinkEffect, Chain
    <2>8. client'.content = client.content /\ client'.headers = client.headers
      BY <2>5 DEF Keeps
    <2>9. TypeOK' /\ PhaseInv' /\ SentInv'
      BY <2>7, <2>8, LinkSentInv
    <2>10. RawInv' /\ FillsInv' /\ FilledInv' /\ HeadersInv'
      BY <1>0, <1>2, <2>7, <2>8, LinkContentInv, LinkHeadersInv
    <2>11. RanTexts("user")' = RanTexts("user")
      BY <2>7, SameNames DEF LinkEffect
    <2>12. given.user = Nothing
      <3>1. client.user.user = IF given.user # Nothing \/ typed.users = <<>> THEN given.user
                               ELSE Last(typed.users)
        BY <1>1 DEF UserInv
      <3>2. given.user # Nothing => typed.users = <<>>
        BY <1>1 DEF UserInv
      <3> QED BY <1>2, <3>1, <3>2
    <2>13. UserInv'
      <3>1. UserOf(RanTexts("user")') = given
        BY <2>11
      <3>2. client'.user.user = IF given.user # Nothing \/ typed'.users = <<>> THEN given.user
                                ELSE Last(typed'.users)
        BY <2>1, <2>2, <2>3, <2>5, <2>12
      <3>3. /\ client'.user.password = IF given.hasPassword \/ typed'.passwords = <<>>
                                       THEN given.password ELSE Last(typed'.passwords)
            /\ client'.user.hasPassword = given.hasPassword
            /\ given.hasPassword => typed'.passwords = <<>>
        BY <1>1, <2>1, <2>3, <2>5 DEF UserInv
      <3>4. \A i \in DOMAIN typed'.users : typed'.users[i] # Nothing => i = Len(typed'.users)
        <4>1. /\ DOMAIN typed.users = 1..Len(typed.users) /\ Len(typed.users) \in Nat
              /\ DOMAIN typed'.users = 1..Len(typed.users) + 1
              /\ Len(typed'.users) = Len(typed.users) + 1
          BY <1>1, <2>1, <2>2 DEF IsSeq
        <4>2. \A i \in 1..Len(typed.users) : typed.users[i] = Nothing
          <5> SUFFICES ASSUME NEW i \in 1..Len(typed.users), typed.users[i] # Nothing PROVE FALSE
            OBVIOUS
          <5>1. i = Len(typed.users) /\ typed.users # <<>>
            BY <1>1, <4>1, NonemptySeq DEF UserInv
          <5>2. client.user.user = Last(typed.users)
            BY <1>1, <2>12, <5>1 DEF UserInv
          <5> QED BY <1>2, <5>1, <5>2 DEF Last
        <4> QED BY <2>1, <2>2, <4>1, <4>2
      <3> QED BY <2>12, <3>1, <3>2, <3>3, <3>4 DEF UserInv
    <2>14. PromptedInv'
      BY <1>2, <2>1, <2>2 DEF PromptedInv, WholeSend
    <2>15. QueryInv'
      BY <1>0, <1>2, <2>7, LinkQueryInv DEF WholeSend
    <2> QED BY <2>7, <2>9, <2>10, <2>13, <2>14, <2>15, LinkInv
  <1>3. ASSUME client' = client, typed' = typed,
               phase' = "password" => ~(client.auth.mode = "basic" /\ client.user.user = Nothing)
        PROVE  IInv'
    <2>1. LinkEffect
      <3>1. ShapeInv'
        BY <1>0, <1>1, <1>3 DEF ShapeInv
      <3>2. ChainEffect
        BY <1>0, <1>1, <1>3 DEF ChainEffect
      <3> QED BY <1>0, <1>1, <1>3, <3>1, <3>2 DEF LinkEffect, Chain, TypeOK, Typing
    <2>2. TypeOK' /\ PhaseInv' /\ SentInv'
      BY <1>3, <2>1, LinkSentInv
    <2>3. RawInv' /\ FillsInv' /\ FilledInv' /\ HeadersInv' /\ UserInv'
      BY <1>0, <1>3, <2>1, LinkContentInv, LinkHeadersInv, LinkUserInv
    <2>4. PromptedInv'
      <3>1. RanTexts("user")' = RanTexts("user")
        BY <2>1, SameNames DEF LinkEffect
      <3>2. client.user.user = IF given.user # Nothing \/ typed.users = <<>> THEN given.user
                               ELSE Last(typed.users)
        BY <1>1 DEF UserInv
      <3>3. UserOf(RanTexts("user")') = given
        BY <3>1
      <3> QED BY <1>0, <1>1, <1>3, <3>2, <3>3 DEF PromptedInv, WholeSend
    <2>5. QueryInv'
      BY <1>0, <1>1, <1>3, <2>1, LinkQueryInv DEF WholeSend
    <2> QED BY <2>1, <2>2, <2>3, <2>4, <2>5, LinkInv
  <1>4. \/ \E name \in Typed :
              /\ client.auth.mode = "basic" /\ client.user.user = Nothing
              /\ client' = [client EXCEPT !.user.user = name]
              /\ typed' = [typed EXCEPT !.users = Append(@, name)] /\ phase' = "password"
        \/ /\ client' = client /\ typed' = typed
           /\ phase' = "password" => ~(client.auth.mode = "basic" /\ client.user.user = Nothing)
    <2>1. \/ /\ client.auth.mode = "basic" /\ client.user.user = Nothing
             /\ \/ \E name \in Typed :
                      /\ client' = [client EXCEPT !.user.user = name]
                      /\ typed' = [typed EXCEPT !.users = Append(@, name)]
                      /\ phase' = "password"
                \/ phase' = "send" /\ client' = client /\ typed' = typed
          \/ /\ ~(client.auth.mode = "basic" /\ client.user.user = Nothing)
             /\ phase' = "password" /\ client' = client /\ typed' = typed
      BY Zenon DEF PromptUsername, Goto
    <2>2. "send" # "password"
      OBVIOUS
    <2> QED BY <2>1, <2>2, Zenon
  <1> QED BY <1>2, <1>3, <1>4, Zenon

LEMMA PromptPasswordInv ==
  ASSUME IInv, PromptPassword
  PROVE  IInv'
  <1>0. /\ phase = "password" /\ phase' \in {"auth", "send"}
        /\ UNCHANGED <<line, pending, loc, request, sent>>
    BY DEF PromptPassword, Goto
  <1>1. /\ phase \in Chain \ {"send"} /\ TypeOK /\ ShapeInv /\ QueryInv /\ UserInv /\ PromptedInv
        /\ loc > 0 /\ ~request.whole /\ request.whole = FALSE /\ Shaped(client)
        /\ IsSeq(typed.passwords)
        /\ typed = [users |-> typed.users, passwords |-> typed.passwords]
    BY <1>0, Links DEF IInv, Chain, ShapeInv
  <1> DEFINE given == UserOf(RanTexts("user"))
  <1>2. ASSUME NEW word \in Typed, AsksPassword(client),
               client' = [client EXCEPT !.user.password = word],
               typed' = [typed EXCEPT !.passwords = Append(@, word)], phase' = "auth"
        PROVE  IInv'
    <2>1. /\ typed' = [users |-> typed.users, passwords |-> Append(typed.passwords, word)]
          /\ typed'.passwords = Append(typed.passwords, word) /\ typed'.users = typed.users
      BY <1>1, <1>2
    <2>2. /\ IsSeq(Append(typed.passwords, word)) /\ Append(typed.passwords, word) # <<>>
          /\ Last(Append(typed.passwords, word)) = word
      BY <1>1, AppendSeq
    <2> DEFINE user == [client.user EXCEPT !.password = word]
    <2>3. /\ DOMAIN user = {"user", "password", "hasPassword"} /\ user.password = word
          /\ user.user = client.user.user /\ user.hasPassword = client.user.hasPassword
      BY <1>1 DEF Shaped
    <2>4. client' = [client EXCEPT !.user = user]
      BY <1>2
    <2> HIDE DEF user
    <2>5. Keeps(client, client', "user") /\ client'.user = user
      BY <1>1, <2>3, <2>4, UserKeeps
    <2>6. Typing(typed.users)' /\ Typing(typed.passwords)'
      <3>1. Typing(typed.users) /\ Typing(typed.passwords)
        BY <1>1 DEF TypeOK
      <3>2. Typing(Append(typed.passwords, word))
        BY <1>1, <3>1, TypingAppend
      <3> QED BY <2>1, <3>1, <3>2 DEF Typing
    <2>7. LinkEffect
      <3>1. ShapeInv'
        BY <1>0, <1>1, <2>1, <2>2, <2>5, Zenon DEF ShapeInv, Keeps
      <3>2. ChainEffect
        BY <1>0, <1>1, <2>5 DEF ChainEffect, Keeps
      <3> QED BY <1>0, <1>1, <1>2, <2>6, <3>1, <3>2 DEF LinkEffect, Chain
    <2>8. client'.content = client.content /\ client'.headers = client.headers
          /\ client'.auth = client.auth
      BY <2>5 DEF Keeps
    <2>9. TypeOK' /\ PhaseInv' /\ SentInv'
      BY <2>7, <2>8, LinkSentInv
    <2>10. RawInv' /\ FillsInv' /\ FilledInv' /\ HeadersInv'
      BY <1>0, <1>2, <2>7, <2>8, LinkContentInv, LinkHeadersInv
    <2>11. RanTexts("user")' = RanTexts("user")
      BY <2>7, SameNames DEF LinkEffect
    <2>12. ~given.hasPassword
      BY <1>1, <1>2 DEF UserInv, AsksPassword
    <2>13. UserOf(RanTexts("user")') = given
      BY <2>11
    <2>14. UserInv'
      <3>1. /\ client'.user.user = IF given.user # Nothing \/ typed'.users = <<>> THEN given.user
                                   ELSE Last(typed'.users)
            /\ given.user # Nothing => typed'.users = <<>>
            /\ \A i \in DOMAIN typed'.users : typed'.users[i] # Nothing => i = Len(typed'.users)
        BY <1>1, <2>1, <2>3, <2>5 DEF UserInv
      <3>2. /\ client'.user.password = IF given.hasPassword \/ typed'.passwords = <<>>
                                       THEN given.password ELSE Last(typed'.passwords)
            /\ client'.user.hasPassword = given.hasPassword
        BY <1>1, <2>1, <2>2, <2>3, <2>5, <2>12 DEF UserInv
      <3> QED BY <2>12, <2>13, <3>1, <3>2 DEF UserInv
    <2>15. PromptedInv'
      <3>1. client.auth.mode = "basic" => given.user # Nothing \/ typed'.users # <<>>
        BY <1>0, <1>1, <2>1 DEF PromptedInv
      <3>2. typed'.passwords # <<>>
        BY <2>1, <2>2
      <3> QED BY <1>2, <2>8, <2>13, <3>1, <3>2 DEF PromptedInv, WholeSend
    <2>16. QueryInv'
      BY <1>0, <1>2, <2>7, LinkQueryInv DEF WholeSend
    <2> QED BY <2>7, <2>9, <2>10, <2>14, <2>15, <2>16, LinkInv
  <1>3. ASSUME client' = client, typed' = typed, phase' = "auth" => ~AsksPassword(client)
        PROVE  IInv'
    <2>1. LinkEffect
      <3>1. ShapeInv'
        BY <1>0, <1>1, <1>3 DEF ShapeInv
      <3>2. ChainEffect
        BY <1>0, <1>1, <1>3 DEF ChainEffect
      <3> QED BY <1>0, <1>1, <1>3, <3>1, <3>2 DEF LinkEffect, Chain, TypeOK, Typing
    <2>2. TypeOK' /\ PhaseInv' /\ SentInv'
      BY <1>3, <2>1, LinkSentInv
    <2>3. RawInv' /\ FillsInv' /\ FilledInv' /\ HeadersInv' /\ UserInv'
      BY <1>0, <1>3, <2>1, LinkContentInv, LinkHeadersInv, LinkUserInv
    <2>4. PromptedInv'
      <3>1. RanTexts("user")' = RanTexts("user")
        BY <2>1, SameNames DEF LinkEffect
      <3>2. client.user.hasPassword = given.hasPassword
        BY <1>1 DEF UserInv
      <3>3. UserOf(RanTexts("user")') = given
        BY <3>1
      <3>4. client.auth.mode = "basic" => given.user # Nothing \/ typed.users # <<>>
        BY <1>0, <1>1 DEF PromptedInv
      <3> QED BY <1>0, <1>1, <1>3, <3>2, <3>3, <3>4 DEF PromptedInv, WholeSend, AsksPassword
    <2>5. QueryInv'
      BY <1>0, <1>1, <1>3, <2>1, LinkQueryInv DEF WholeSend
    <2> QED BY <2>1, <2>2, <2>3, <2>4, <2>5, LinkInv
  <1>4. \/ \E word \in Typed :
              /\ AsksPassword(client) /\ client' = [client EXCEPT !.user.password = word]
              /\ typed' = [typed EXCEPT !.passwords = Append(@, word)] /\ phase' = "auth"
        \/ client' = client /\ typed' = typed /\ (phase' = "auth" => ~AsksPassword(client))
    <2>1. \/ /\ AsksPassword(client)
             /\ \/ \E word \in Typed :
                      /\ client' = [client EXCEPT !.user.password = word]
                      /\ typed' = [typed EXCEPT !.passwords = Append(@, word)]
                      /\ phase' = "auth"
                \/ phase' = "send" /\ client' = client /\ typed' = typed
          \/ ~AsksPassword(client) /\ phase' = "auth" /\ client' = client /\ typed' = typed
      BY Zenon DEF PromptPassword, Goto
    <2>2. "send" # "auth"
      OBVIOUS
    <2> QED BY <2>1, <2>2, Zenon
  <1> QED BY <1>2, <1>3, <1>4, Zenon

\* The fields that Put and Add leave, and the one that they do not.
LEMMA PutOthers ==
  ASSUME NEW fields, NEW name, NEW values, NEW other, other # name
  PROVE  /\ Get(Put(fields, name, values), other) = Get(fields, other)
         /\ other \in DOMAIN Put(fields, name, values) <=> other \in DOMAIN fields
  <1>1. DOMAIN Put(fields, name, values) = DOMAIN fields \cup {name}
    BY PutDomain
  <1>2. \A n \in DOMAIN fields \cup {name} :
            Put(fields, name, values)[n] = IF n = name THEN values ELSE fields[n]
    BY PutValue
  <1> DEFINE g == Put(fields, name, values)
  <1> HIDE DEF g
  <1>3. Get(g, other) = Get(fields, other)
    BY <1>1, <1>2 DEF g, Get
  <1> QED BY <1>1, <1>3 DEF g

LEMMA PutItself ==
  ASSUME NEW fields, NEW name, NEW values
  PROVE  /\ name \in DOMAIN Put(fields, name, values) /\ Put(fields, name, values)[name] = values
         /\ Get(Put(fields, name, values), name) = values
  <1>1. DOMAIN Put(fields, name, values) = DOMAIN fields \cup {name}
    BY PutDomain
  <1>2. Put(fields, name, values)[name] = values
    BY PutValue
  <1> DEFINE g == Put(fields, name, values)
  <1> HIDE DEF g
  <1>3. Get(g, name) = values
    BY <1>1, <1>2 DEF g, Get
  <1> QED BY <1>1, <1>2, <1>3 DEF g

\* A field that does not show in Visible.
LEMMA PutVisible ==
  ASSUME NEW fields, NEW values,
         NEW name \in {<<"Authorization">>, <<"X-Request-ID">>, client.auth.field}
  PROVE  Visible(Put(fields, name, values)) = Visible(fields)
  <1> DEFINE g == Put(fields, name, values)
             S == {<<"Authorization">>, <<"X-Request-ID">>, client.auth.field}
  <1>1. DOMAIN g = DOMAIN fields \cup {name} /\ \A n \in DOMAIN fields \ S : g[n] = fields[n]
    <2>1. DOMAIN g = DOMAIN fields \cup {name}
      BY PutDomain
    <2>2. \A n \in DOMAIN fields \cup {name} : g[n] = IF n = name THEN values ELSE fields[n]
      BY PutValue
    <2> HIDE DEF g
    <2> QED BY <2>1, <2>2
  <1> HIDE DEF g
  <1>2. DOMAIN g \ S = DOMAIN fields \ S
    BY <1>1
  <1> HIDE DEF S
  <1>3. [n \in DOMAIN g \ S |-> g[n]] = [n \in DOMAIN fields \ S |-> fields[n]]
    BY <1>1, <1>2
  <1> QED BY <1>3 DEF Visible, S, g

\* What credentials do to the header.
LEMMA Authenticated ==
  ASSUME Shaped(client)
  PROVE  LET after == Authenticate(client)
         IN  /\ AllSeqs(after) /\ Visible(after) = Visible(client.headers)
             /\ \A name : name \notin {<<"Authorization">>, client.auth.field} =>
                   /\ Get(after, name) = Get(client.headers, name)
                   /\ name \in DOMAIN after <=> name \in DOMAIN client.headers
             /\ \A name : name # <<"Authorization">> /\ Get(client.headers, name) # <<>> =>
                             Get(after, name) # <<>>
             /\ client.auth.mode = "basic" =>
                   /\ <<"Authorization">> \in DOMAIN after
                   /\ after[<<"Authorization">>] = << <<client.user.user, client.user.password>> >>
  <1> DEFINE after == Authenticate(client)
             word == <<client.user.user, client.user.password>>
  <1>0. AllSeqs(client.headers) /\ client.auth.mode \in {"none", "basic", "bearer"}
    BY DEF Shaped, AllSeqs
  <1>1. CASE client.auth.mode = "none"
    <2>1. after = client.headers
      BY <1>1 DEF Authenticate
    <2> QED BY <1>0, <1>1, <2>1
  <1>2. CASE client.auth.mode = "basic"
    <2>1. after = Put(client.headers, <<"Authorization">>, <<word>>)
      BY <1>2 DEF Authenticate
    <2> HIDE DEF after, word
    <2>2. AllSeqs(after)
      BY <1>0, <2>1, PutSeqs
    <2>3. Visible(after) = Visible(client.headers)
      BY <2>1, PutVisible
    <2>4. \A name : name # <<"Authorization">> =>
              /\ Get(after, name) = Get(client.headers, name)
              /\ name \in DOMAIN after <=> name \in DOMAIN client.headers
      BY <2>1, PutOthers
    <2>5. <<"Authorization">> \in DOMAIN after /\ after[<<"Authorization">>] = <<word>>
      BY <2>1, PutItself
    <2> QED BY <2>2, <2>3, <2>4, <2>5, Zenon DEF after, word
  <1>3. CASE client.auth.mode = "bearer"
    <2> DEFINE old == Get(client.headers, client.auth.field)
    <2>1. after = Add(client.headers, client.auth.field, <<client.auth.value>>)
      BY <1>3 DEF Authenticate
    <2>2. after = Put(client.headers, client.auth.field, old \o <<client.auth.value>>)
      BY <2>1 DEF Add
    <2>3. IsSeq(old)
      BY <1>0, EmptyIsSeq, Zenon DEF Get, AllSeqs
    <2>4. old \o <<client.auth.value>> # <<>>
      BY <2>3, ConcatSeq
    <2> HIDE DEF after, word, old
    <2>5. AllSeqs(after)
      BY <1>0, <2>1, PutSeqs
    <2>6. Visible(after) = Visible(client.headers)
      BY <2>2, PutVisible
    <2>7. \A name : name # client.auth.field =>
              /\ Get(after, name) = Get(client.headers, name)
              /\ name \in DOMAIN after <=> name \in DOMAIN client.headers
      BY <2>2, PutOthers
    <2>8. Get(after, client.auth.field) # <<>>
      <3> DEFINE values == old \o <<client.auth.value>>
      <3> HIDE DEF values
      <3>1. Get(Put(client.headers, client.auth.field, values), client.auth.field) = values
        BY PutItself
      <3>2. Get(after, client.auth.field) = values
        BY <2>2, <3>1 DEF values
      <3> QED BY <2>4, <3>2 DEF values
    <2>9. client.auth.mode # "basic"
      BY <1>3
    <2>10. \A name : name # <<"Authorization">> /\ Get(client.headers, name) # <<>> =>
                        Get(after, name) # <<>>
      BY <2>7, <2>8
    <2> QED BY <2>5, <2>6, <2>7, <2>9, <2>10, Zenon DEF after, word
  <1> QED BY <1>0, <1>1, <1>2, <1>3

LEMMA ApplyAuthInv ==
  ASSUME IInv, ApplyAuth
  PROVE  IInv'
  <1> DEFINE after == Authenticate(client)
  <1>0. /\ phase = "auth" /\ phase' = "requestID"
        /\ UNCHANGED <<line, pending, loc, request, sent, typed>>
        /\ client' = [client EXCEPT !.headers = after]
    BY DEF ApplyAuth, Goto
  <1>1. /\ phase \in Chain \ {"send"} /\ TypeOK /\ ShapeInv /\ UserInv /\ PromptedInv
        /\ HeadersInv /\ Begun /\ loc > 0 /\ ~request.whole /\ request.whole = FALSE
        /\ Shaped(client)
    BY <1>0, Links DEF IInv, Chain, ShapeInv
  <1>2. /\ AllSeqs(after) /\ Visible(after) = Visible(client.headers)
        /\ \A name : name \notin {<<"Authorization">>, client.auth.field} =>
              /\ Get(after, name) = Get(client.headers, name)
              /\ name \in DOMAIN after <=> name \in DOMAIN client.headers
        /\ \A name : name # <<"Authorization">> /\ Get(client.headers, name) # <<>> =>
                        Get(after, name) # <<>>
        /\ client.auth.mode = "basic" =>
              /\ <<"Authorization">> \in DOMAIN after
              /\ after[<<"Authorization">>] = << <<client.user.user, client.user.password>> >>
    BY <1>1, Authenticated
  <1> HIDE DEF after
  <1>3. Keeps(client, client', "headers") /\ client'.headers = after
    BY <1>0, <1>1, <1>2, HeadersKeep
  <1>4. /\ client'.content = client.content /\ client'.user = client.user
        /\ client'.auth = client.auth /\ client'.requestIDs = client.requestIDs /\ Shaped(client')
    BY <1>3 DEF Keeps
  <1>5. LinkEffect
    <2>1. ShapeInv'
      BY <1>0, <1>1, <1>4, Zenon DEF ShapeInv
    <2>2. ChainEffect
      BY <1>0, <1>1, <1>3, KeptByChain
    <2> QED BY <1>0, <1>1, <2>1, <2>2 DEF LinkEffect, Chain, TypeOK, Typing
  <1>6. TypeOK' /\ PhaseInv' /\ SentInv'
    BY <1>2, <1>3, <1>4, <1>5, LinkSentInv
  <1>7. RawInv' /\ FillsInv' /\ FilledInv' /\ UserInv'
    BY <1>0, <1>4, <1>5, LinkContentInv, LinkUserInv
  <1>8. PromptedInv'
    <2>1. RanTexts("user")' = RanTexts("user")
      BY <1>5, SameNames DEF LinkEffect
    <2>2. client.auth.mode = "basic" =>
              LET given == UserOf(RanTexts("user"))
              IN  /\ given.user # Nothing \/ typed.users # <<>>
                  /\ given.hasPassword \/ typed.passwords # <<>>
      BY <1>0, <1>1 DEF PromptedInv
    <2> QED BY <1>0, <1>2, <1>3, <1>4, <2>1, <2>2, Zenon DEF PromptedInv
  <1>9. HeadersInv'
    <2>8. Begun'
      BY <1>0, <1>5, LinkBegun
    <2>1. \A name : Named(name)' = Named(name)
      BY <1>5, SameNames DEF LinkEffect
    <2>2. \A name : ~Named(name) => client.auth.field # name
      BY DEF Named
    <2>3. <<"Content-Type">> # <<"Authorization">> /\ <<"X-Request-ID">> # <<"Authorization">>
      OBVIOUS
    <2>4. ~Named(<<"Content-Type">>) =>
              Get(after, <<"Content-Type">>) = Get(client.headers, <<"Content-Type">>)
      BY <1>2, <2>2, <2>3
    <2>5. ~Named(<<"X-Request-ID">>) =>
              (<<"X-Request-ID">> \in DOMAIN after <=> <<"X-Request-ID">> \in DOMAIN client.headers)
      BY <1>2, <2>2, <2>3
    <2>6. Get(client.headers, <<"Content-Type">>) # <<>> => Get(after, <<"Content-Type">>) # <<>>
      BY <1>2, <2>3
    <2>7. loc' # 0
      BY <1>0, <1>1
    <2> QED BY <1>1, <1>3, <1>4, <2>1, <2>4, <2>5, <2>6, <2>7, <2>8, Zenon DEF HeadersInv
  <1>10. QueryInv'
    BY <1>0, <1>5, LinkQueryInv DEF WholeSend
  <1> QED BY <1>5, <1>6, <1>7, <1>8, <1>9, <1>10, LinkInv

LEMMA RequestIDMiddlewareInv ==
  ASSUME IInv, RequestIDMiddleware
  PROVE  IInv'
  <1> DEFINE ids == IdOf(loc)
             after == IF client.requestIDs = <<>> THEN client.headers
                      ELSE Put(client.headers, <<"X-Request-ID">>, ids)
  <1>0. /\ phase = "requestID" /\ phase' = "send"
        /\ UNCHANGED <<line, pending, loc, sent, typed>>
        /\ request' = [request EXCEPT !.whole = TRUE]
    BY DEF RequestIDMiddleware, Goto
  <1>1. /\ phase \in Chain \ {"send"} /\ TypeOK /\ ShapeInv /\ UserInv /\ PromptedInv
        /\ HeadersInv /\ Begun /\ loc > 0 /\ Shaped(client)
    BY <1>0, Links DEF IInv, Chain, ShapeInv
  <1>2. /\ request' = [query |-> request.query, body |-> request.body, whole |-> TRUE]
        /\ request'.query = request.query /\ request'.body = request.body /\ request'.whole = TRUE
    BY <1>0, <1>1 DEF ShapeInv
  <1>3. Keeps(client, client', "headers") /\ client'.headers = after
    <2>1. CASE client.requestIDs = <<>>
      <3>1. client' = client
        BY <2>1 DEF RequestIDMiddleware
      <3>2. Keeps(client, client', "headers")
        BY <1>1, <3>1, KeepsItself, Zenon
      <3> QED BY <2>1, <3>1, <3>2
    <2>2. CASE client.requestIDs # <<>>
      <3>1. client' = [client EXCEPT !.headers = Put(client.headers, <<"X-Request-ID">>, ids)]
        BY <2>2, Zenon DEF RequestIDMiddleware, IdOf
      <3>2. AllSeqs(client.headers)
        BY <1>1 DEF Shaped, AllSeqs
      <3>3. AllSeqs(Put(client.headers, <<"X-Request-ID">>, ids))
        BY <3>2, PutSeqs DEF IdOf
      <3> QED BY <1>1, <2>2, <3>1, <3>3, HeadersKeep
    <2> QED BY <2>1, <2>2
  <1>4. /\ Visible(after) = Visible(client.headers)
        /\ \A name : name # <<"X-Request-ID">> =>
              /\ Get(after, name) = Get(client.headers, name)
              /\ name \in DOMAIN after <=> name \in DOMAIN client.headers
        /\ client.requestIDs # <<>> => Get(after, <<"X-Request-ID">>) = ids
    BY PutVisible, PutOthers, PutItself
  <1>5. /\ client.auth.mode = "basic" =>
              /\ <<"Authorization">> \in DOMAIN after
              /\ after[<<"Authorization">>] = << <<client.user.user, client.user.password>> >>
    <2> SUFFICES ASSUME client.auth.mode = "basic"
                 PROVE  /\ <<"Authorization">> \in DOMAIN after
                        /\ after[<<"Authorization">>] = client.headers[<<"Authorization">>]
      BY <1>0, <1>1 DEF PromptedInv
    <2>1. <<"Authorization">> \in DOMAIN client.headers
      BY <1>0, <1>1 DEF PromptedInv
    <2>2. <<"Authorization">> # <<"X-Request-ID">>
      OBVIOUS
    <2>3. <<"Authorization">> \in DOMAIN after
      BY <1>4, <2>1, <2>2
    <2>4. Get(after, <<"Authorization">>) = Get(client.headers, <<"Authorization">>)
      BY <1>4, <2>2
    <2> HIDE DEF after
    <2> QED BY <2>1, <2>3, <2>4 DEF Get
  <1> HIDE DEF after, ids
  <1>6. /\ client'.content = client.content /\ client'.user = client.user
        /\ client'.auth = client.auth /\ client'.requestIDs = client.requestIDs /\ Shaped(client')
    BY <1>3 DEF Keeps
  <1>7. LinkEffect
    <2>1. ShapeInv'
      BY <1>0, <1>1, <1>2, <1>6, Zenon DEF ShapeInv
    <2>2. ChainEffect
      BY <1>0, <1>1, <1>3, KeptByChain
    <2> QED BY <1>0, <1>1, <1>2, <2>1, <2>2 DEF LinkEffect, Chain, TypeOK, Typing
  <1>8. TypeOK' /\ PhaseInv' /\ SentInv'
    BY <1>3, <1>4, <1>6, <1>7, LinkSentInv
  <1>9. RawInv' /\ FillsInv' /\ FilledInv' /\ UserInv'
    BY <1>0, <1>2, <1>6, <1>7, LinkContentInv, LinkUserInv
  <1>10. PromptedInv'
    <2>1. RanTexts("user")' = RanTexts("user")
      BY <1>7, SameNames DEF LinkEffect
    <2>2. client.auth.mode = "basic" =>
              LET given == UserOf(RanTexts("user"))
              IN  /\ given.user # Nothing \/ typed.users # <<>>
                  /\ given.hasPassword \/ typed.passwords # <<>>
      BY <1>0, <1>1 DEF PromptedInv
    <2> QED BY <1>0, <1>3, <1>5, <1>6, <2>1, <2>2, Zenon DEF PromptedInv
  <1>11. HeadersInv'
    <2>5. Begun'
      BY <1>0, <1>7, LinkBegun
    <2>1. \A name : Named(name)' = Named(name)
      BY <1>7, SameNames DEF LinkEffect
    <2>2. Get(after, <<"Content-Type">>) = Get(client.headers, <<"Content-Type">>)
      BY <1>4
    <2>3. client.requestIDs = <<>> => after = client.headers
      BY DEF after
    <2>4. loc' # 0
      BY <1>0, <1>1
    <2> QED BY <1>1, <1>3, <1>6, <2>1, <2>2, <2>3, <2>4, <2>5, Zenon DEF HeadersInv
  <1>12. QueryInv'
    BY <1>0, <1>2, <1>3, <1>4, <1>7, LinkQueryInv DEF ids
  <1> QED BY <1>7, <1>8, <1>9, <1>10, <1>11, <1>12, LinkInv

\* What SetupBodyContent does, in terms of Filled.
BodyEffect ==
    /\ Shaped(client') /\ client'.content = Filled.content
    /\ client'.method = client.method /\ client'.fill = client.fill
    /\ client'.query = client.query /\ client'.auth = client.auth /\ client'.user = client.user
    /\ client'.requestIDs = client.requestIDs /\ client'.tls = client.tls
    /\ \/ client'.headers = client.headers
       \/ /\ Filled.content.kind = "json" /\ Get(client.headers, <<"Content-Type">>) = <<>>
          /\ client'.headers = Put(client.headers, <<"Content-Type">>, << <<"application/json">> >>)
    /\ Filled.outcome = "ok" /\ Filled.content.kind = "json" =>
           /\ Get(client'.headers, <<"Content-Type">>) # <<>>
           /\ Get(client.headers, <<"Content-Type">>) = <<>> =>
                  Get(client'.headers, <<"Content-Type">>) = JSONType
    /\ Filled.outcome # "ok" => client'.headers = client.headers
    /\ request' = [query |-> request.query, body |-> request'.body, whole |-> request.whole]
    /\ request'.query = request.query /\ request'.whole = request.whole
    /\ request'.body = IF Filled.outcome = "ok" /\ Filled.content.kind # "none"
                       THEN Read(Filled.content) ELSE request.body
    /\ \/ Filled.outcome = "ok" /\ phase' = "query"
       \/ Filled.outcome = "error" /\ phase' = "send"
       \/ Filled.outcome = "panic" /\ phase' = "panicked"

LEMMA SetupBodyContentEffect ==
  ASSUME SetupBodyContent, ShapeInv, IsContent(Filled.content)
  PROVE  BodyEffect
  <1> DEFINE content == Filled.content
             type    == ContentType(content)
             filled  == [client EXCEPT !.content = content]
  <1>0. Shaped(client) /\ AllSeqs(client.headers)
    BY DEF ShapeInv, Shaped, AllSeqs
  <1>1. Keeps(client, filled, "content") /\ filled.content = content
    BY <1>0, ContentKeeps
  <1>2. /\ Shaped(filled) /\ filled.method = client.method /\ filled.fill = client.fill
        /\ filled.query = client.query /\ filled.auth = client.auth /\ filled.user = client.user
        /\ filled.requestIDs = client.requestIDs /\ filled.tls = client.tls
        /\ filled.headers = client.headers
    BY <1>1 DEF Keeps
  <1>3. /\ content.kind = "json" => type = <<"application/json">> /\ type # <<>>
        /\ content.kind # "json" => type = <<>>
    BY OneSeq DEF ContentType
  <1>4. \/ /\ Filled.outcome = "ok" /\ phase' = "query"
           /\ client' = IF type # <<>> /\ Get(client.headers, <<"Content-Type">>) = <<>>
                        THEN [filled EXCEPT !.headers = Put(@, <<"Content-Type">>, <<type>>)]
                        ELSE filled
           /\ request' = IF content.kind = "none" THEN request
                         ELSE [request EXCEPT !.body = Read(content)]
        \/ Filled.outcome = "error" /\ phase' = "send" /\ client' = filled /\ request' = request
        \/ Filled.outcome = "panic" /\ phase' = "panicked" /\ client' = filled /\ request' = request
    BY Zenon DEF SetupBodyContent, Goto
  <1> HIDE DEF filled, type
  <1>5. \/ client' = filled /\ ~(Filled.outcome = "ok" /\ content.kind = "json"
                                 /\ Get(client.headers, <<"Content-Type">>) = <<>>)
        \/ /\ Filled.outcome = "ok" /\ content.kind = "json"
           /\ Get(client.headers, <<"Content-Type">>) = <<>>
           /\ client' = [filled EXCEPT !.headers = Put(filled.headers, <<"Content-Type">>, <<type>>)]
    BY <1>3, <1>4
  <1>6. /\ request' = [query |-> request.query, body |-> request'.body, whole |-> request.whole]
        /\ request'.query = request.query /\ request'.whole = request.whole
        /\ request'.body = IF Filled.outcome = "ok" /\ content.kind # "none"
                           THEN Read(content) ELSE request.body
    <2>1. request = [query |-> request.query, body |-> request.body, whole |-> request.whole]
      BY DEF ShapeInv
    <2> HIDE DEF content
    <2>2. CASE request' = request /\ ~(Filled.outcome = "ok" /\ content.kind # "none")
      BY <2>1, <2>2
    <2>3. CASE request' = [request EXCEPT !.body = Read(content)]
               /\ Filled.outcome = "ok" /\ content.kind # "none"
      BY <2>1, <2>3
    <2> QED BY <1>4, <2>2, <2>3
  <1>7. CASE client' = filled /\ ~(Filled.outcome = "ok" /\ content.kind = "json"
                                   /\ Get(client.headers, <<"Content-Type">>) = <<>>)
    <2>1. /\ Shaped(client') /\ client'.content = content
          /\ client'.method = client.method /\ client'.fill = client.fill
          /\ client'.query = client.query /\ client'.auth = client.auth /\ client'.user = client.user
          /\ client'.requestIDs = client.requestIDs /\ client'.tls = client.tls
          /\ client'.headers = client.headers
      BY <1>1, <1>2, <1>7, Zenon
    <2> QED BY <1>4, <1>6, <1>7, <2>1, Zenon DEF BodyEffect
  <1>8. CASE /\ Filled.outcome = "ok"
             /\ content.kind = "json" /\ Get(client.headers, <<"Content-Type">>) = <<>>
             /\ client' = [filled EXCEPT !.headers = Put(filled.headers, <<"Content-Type">>, <<type>>)]
    <2> DEFINE after == Put(client.headers, <<"Content-Type">>, <<type>>)
    <2>1. AllSeqs(after)
      BY <1>0, PutSeqs
    <2>2. Get(after, <<"Content-Type">>) = <<type>>
      BY PutItself
    <2>3. <<type>> # <<>>
      BY OneSeq
    <2> HIDE DEF after
    <2>4. client' = [filled EXCEPT !.headers = after]
      BY <1>2, <1>8 DEF after
    <2>5. Keeps(filled, client', "headers") /\ client'.headers = after
      BY <1>2, <2>1, <2>4, HeadersKeep
    <2>6. /\ Shaped(client') /\ client'.content = content
          /\ client'.method = client.method /\ client'.fill = client.fill
          /\ client'.query = client.query /\ client'.auth = client.auth /\ client'.user = client.user
          /\ client'.requestIDs = client.requestIDs /\ client'.tls = client.tls
      BY <1>1, <1>2, <2>5 DEF Keeps
    <2>7. after = Put(client.headers, <<"Content-Type">>, << <<"application/json">> >>)
      BY <1>3, <1>8 DEF after
    <2>8. Get(client'.headers, <<"Content-Type">>) # <<>>
      BY <2>2, <2>3, <2>5
    <2>9. Get(client'.headers, <<"Content-Type">>) = JSONType
      BY <1>3, <1>8, <2>2, <2>5 DEF JSONType
    <2> QED BY <1>4, <1>6, <1>8, <2>5, <2>6, <2>7, <2>8, <2>9, Zenon DEF BodyEffect
  <1> QED BY <1>5, <1>7, <1>8

LEMMA SetupBodyContentInv ==
  ASSUME IInv, SetupBodyContent
  PROVE  IInv'
  <1>0. /\ phase = "body" /\ UNCHANGED <<line, pending, loc, sent, typed>>
    BY DEF SetupBodyContent
  <1>1. /\ phase \in Chain \ {"send"} /\ TypeOK /\ ShapeInv /\ RawInv /\ FilledInv /\ HeadersInv
        /\ QueryInv /\ loc > 0 /\ loc \in Nat /\ ~request.whole /\ request.whole = FALSE
        /\ Shaped(client) /\ pending = {} /\ \A flag : RanTexts(flag) = Texts(flag)
    BY <1>0, Links DEF IInv, Chain, ShapeInv
  <1>2. FilledEffect
    BY <1>1, FilledResult
  <1>3. BodyEffect
    BY <1>1, <1>2, SetupBodyContentEffect DEF FilledEffect
  <1>4. phase' \in {"query", "send", "panicked"} /\ request'.whole = FALSE
    BY <1>1, <1>3 DEF BodyEffect
  <1>5. LinkEffect
    <2>1. ShapeInv'
      BY <1>0, <1>1, <1>3, Zenon DEF ShapeInv, BodyEffect
    <2>2. ChainEffect
      BY <1>0, <1>1, <1>3 DEF ChainEffect, BodyEffect
    <2> QED BY <1>0, <1>1, <1>4, <2>1, <2>2 DEF LinkEffect, Chain, TypeOK, Typing
  <1>6. loc > 1 => Begun
    BY DEF Begun
  <1>7. Begun => /\ Filled.content = client.content /\ Filled.outcome # "panic"
                 /\ client'.content = client.content /\ client'.headers = client.headers
    <2> SUFFICES ASSUME Begun
                 PROVE  /\ Filled.content = client.content /\ Filled.outcome # "panic"
                        /\ client'.headers = client.headers
      BY <1>3 DEF BodyEffect
    <2>1. Filled.content = client.content /\ Filled.outcome # "panic"
      BY <1>1, <1>2 DEF FilledInv, FilledEffect
    <2>2. client.content.kind = "json" => Get(client.headers, <<"Content-Type">>) # <<>>
      BY <1>1 DEF HeadersInv
    <2> QED BY <1>3, <2>1, <2>2 DEF BodyEffect
  <1>8. TypeOK' /\ PhaseInv' /\ SentInv'
    BY <1>5, <1>6, <1>7, LinkSentInv
  <1>9. UserInv'
    BY <1>0, <1>3, <1>5, LinkUserInv DEF BodyEffect
  <1>10. PromptedInv'
    BY <1>4 DEF PromptedInv, WholeSend
  <1>11. /\ \A flag : RanTexts(flag)' = RanTexts(flag) /\ Texts(flag)' = Texts(flag)
         /\ \A name : Named(name)' = Named(name)
         /\ FillNames' = FillNames
    BY <1>5, SameNames DEF LinkEffect
  <1>12. Begun' => Begun \/ Filled.outcome # "panic"
    BY <1>0, <1>1, <1>3 DEF Begun, BodyEffect
  <1>13. QueryInv'
    <2>1. request'.query = Queries[loc]
      BY <1>0, <1>1, <1>3 DEF QueryInv, BodyEffect
    <2> QED BY <1>0, <1>4, <2>1 DEF QueryInv, WholeSend
  <1>14. RawInv'
    <2>1. RanTexts("fill") = {} => client'.fill = <<>>
      BY <1>1, <1>3 DEF RawInv, BodyEffect
    <2>2. ASSUME NEW text \in RanTexts("body") PROVE client'.content = NewRawContent(text)
      <3>1. client.content = NewRawContent(text)
        BY <1>1, <2>2 DEF RawInv
      <3> QED BY <1>2, <1>3, <3>1, Contents DEF FilledEffect, BodyEffect
    <2>3. ASSUME Texts("fill") = {}, NEW text \in Texts("body")
          PROVE  request'.body = text /\ \A i \in DOMAIN sent : sent[i].body = text
      <3>1. client.fill = <<>> /\ client'.content = NewRawContent(text)
        BY <1>1, <2>2, <2>3 DEF RawInv
      <3>2. Filled.outcome = "ok" /\ Filled.content = NewRawContent(text)
        BY <1>2, <1>3, <3>1 DEF FilledEffect, BodyEffect
      <3>3. Filled.content.kind # "none" /\ Read(Filled.content) = text
        BY <3>2 DEF NewRawContent, Read
      <3>4. request'.body = text
        BY <1>3, <3>2, <3>3 DEF BodyEffect
      <3> QED BY <1>1, <2>3, <3>4, Zenon DEF RawInv
    <2> QED BY <1>0, <1>11, <2>1, <2>2, <2>3, Zenon DEF RawInv
  <1>17. FillsInv'
    <2>1. /\ client'.content.kind = "json" <=> client.content.kind = "json"
          /\ client'.content.kind = "json" =>
                DOMAIN client'.content.data \subseteq DOMAIN client.content.data \cup FillNames
      BY <1>2, <1>3 DEF FilledEffect, BodyEffect
    <2> QED BY <1>0, <1>5, <2>1, ChainFillsInv DEF LinkEffect
  <1>15. FilledInv'
    <2>5. phase' = "query" => client'.fill = <<>> \/ client'.content.kind = "json"
      BY <1>2, <1>3 DEF FilledEffect, BodyEffect
    <2>1. ASSUME Begun' PROVE Settled'
      <3>1. Filled.outcome \in {"ok", "error"}
        BY <1>2, <1>7, <1>12, <2>1 DEF FilledEffect
      <3>2. CASE Filled.outcome = "ok"
        BY <1>2, <1>3, <1>11, <3>2 DEF FilledEffect, BodyEffect, Settled
      <3>3. CASE Filled.outcome = "error"
        <4>1. client'.content.kind = "raw"
          BY <1>2, <1>3, <3>3 DEF FilledEffect, BodyEffect
        <4> QED BY <4>1 DEF Settled
      <3> QED BY <3>1, <3>2, <3>3
    <2>2. client'.content.kind = "none" => request'.body = Nothing
      <3> SUFFICES ASSUME client'.content.kind = "none" PROVE request'.body = Nothing
        OBVIOUS
      <3>1. Filled.content.kind = "none" /\ client.content.kind = "none"
        BY <1>2, <1>3 DEF FilledEffect, BodyEffect
      <3> QED BY <1>1, <1>3, <3>1 DEF FilledInv, BodyEffect
    <2>3. phase' = "query" => request'.body = BodyOf(client.content)'
      BY <1>3, <2>2 DEF BodyEffect, BodyOf
    <2>4. phase' \in Chain \ {"body", "send"} => phase' = "query"
      BY <1>4 DEF Chain
    <2> QED BY <1>4, <2>1, <2>2, <2>3, <2>4, <2>5 DEF FilledInv, WholeSend
  <1>16. HeadersInv'
    <2>1. loc' # 0 /\ client'.requestIDs = client.requestIDs
      BY <1>0, <1>1, <1>3 DEF BodyEffect
    <2>2. ~Named(<<"Content-Type">>) =>
              Get(client'.headers, <<"Content-Type">>) =
                  IF Begun' /\ client'.content.kind = "json" THEN JSONType ELSE <<>>
      <3> SUFFICES ASSUME ~Named(<<"Content-Type">>)
                   PROVE  Get(client'.headers, <<"Content-Type">>) =
                              IF Begun' /\ client'.content.kind = "json" THEN JSONType ELSE <<>>
        OBVIOUS
      <3>1. Get(client.headers, <<"Content-Type">>) =
                IF Begun /\ client.content.kind = "json" THEN JSONType ELSE <<>>
        BY <1>1 DEF HeadersInv
      <3>2. phase' # "panicked" => Begun'
        BY <1>5, LinkBegun
      <3>3. CASE Begun
        <4>1. phase' # "panicked"
          BY <1>3, <1>7, <3>3 DEF BodyEffect
        <4> QED BY <1>7, <3>1, <3>2, <3>3, <4>1
      <3>4. CASE ~Begun
        <4>1. Get(client.headers, <<"Content-Type">>) = <<>>
          BY <3>1, <3>4
        <4>2. CASE Filled.outcome = "panic"
          <5>1. ~Begun'
            BY <1>12, <3>4, <4>2
          <5> QED BY <1>3, <4>1, <4>2, <5>1 DEF BodyEffect
        <4>3. CASE Filled.outcome # "panic"
          <5>1. Begun'
            BY <1>3, <3>2, <4>3 DEF BodyEffect
          <5>2. CASE Filled.content.kind = "json"
            <6>1. Filled.outcome = "ok"
              BY <1>2, <4>3, <5>2 DEF FilledEffect
            <6> QED BY <1>3, <4>1, <5>1, <5>2, <6>1 DEF BodyEffect
          <5>3. CASE Filled.content.kind # "json"
            BY <1>3, <4>1, <5>3 DEF BodyEffect
          <5> QED BY <5>2, <5>3
        <4> QED BY <4>2, <4>3
      <3> QED BY <3>3, <3>4
    <2>3. Begun' /\ client'.content.kind = "json" =>
              Get(client'.headers, <<"Content-Type">>) # <<>>
      <3> SUFFICES ASSUME Begun', client'.content.kind = "json"
                   PROVE  Get(client'.headers, <<"Content-Type">>) # <<>>
        OBVIOUS
      <3>1. Filled.content.kind = "json" /\ client.content.kind = "json"
        BY <1>2, <1>3 DEF FilledEffect, BodyEffect
      <3>2. Filled.outcome = "ok"
        BY <1>2, <1>7, <1>12, <3>1 DEF FilledEffect
      <3> QED BY <1>3, <3>1, <3>2 DEF BodyEffect
    <2>4. ~Named(<<"X-Request-ID">>) /\ client.requestIDs = <<>> =>
              <<"X-Request-ID">> \notin DOMAIN client'.headers
      <3>1. <<"X-Request-ID">> # <<"Content-Type">>
        OBVIOUS
      <3>2. <<"X-Request-ID">> \in DOMAIN client'.headers => <<"X-Request-ID">> \in DOMAIN client.headers
        BY <1>3, <3>1, PutOthers DEF BodyEffect
      <3> QED BY <1>1, <3>2 DEF HeadersInv
    <2> QED BY <1>11, <2>1, <2>2, <2>3, <2>4, Zenon DEF HeadersInv
  <1> QED BY <1>5, <1>8, <1>9, <1>10, <1>13, <1>14, <1>15, <1>16, <1>17, LinkInv

LEMMA SendInv ==
  ASSUME IInv, Send
  PROVE  IInv'
  <1> DEFINE r == [loc     |-> loc,            whole |-> request.whole,
                   method  |-> client.method,  query |-> request.query,
                   headers |-> client.headers, body  |-> request.body,
                   kind    |-> client.content.kind]
  <1>0. /\ phase = "send" /\ phase' \in {"next", "failed"}
        /\ UNCHANGED <<line, pending, client, loc, request, typed>>
        /\ sent' = sent \/ sent' = Append(sent, r)
    BY DEF Send, Goto
  <1>1. /\ phase \in Chain /\ TypeOK /\ ShapeInv /\ PhaseInv /\ UserInv /\ RawInv /\ FilledInv
        /\ HeadersInv /\ QueryInv /\ SentInv /\ Begun
        /\ loc > 0 /\ loc \in 0..Len(Queries) /\ Len(Queries) \in Nat /\ Shaped(client)
        /\ pending = {}
    BY <1>0, Links DEF IInv, Chain, ShapeInv
  <1>2. ChainEffect
    BY <1>0, <1>1 DEF ChainEffect
  <1>3. /\ \A flag : RanTexts(flag)' = RanTexts(flag) /\ Texts(flag)' = Texts(flag)
        /\ \A name : Named(name)' = Named(name)
        /\ \A location : IdOf(location)' = IdOf(location)
        /\ FillNames' = FillNames
    BY <1>2, SameNames
  <1>4. phase' \notin Chain \cup {"flags", "panicked"}
    BY <1>0 DEF Chain
  <1>5. ShapeInv'
    BY <1>0, <1>1 DEF ShapeInv
  <1>6. PhaseInv'
    BY <1>0, <1>1, <1>4 DEF PhaseInv
  <1>7. UserInv'
    BY <1>0, <1>1, <1>3, Zenon DEF UserInv
  <1>8. PromptedInv'
    BY <1>0 DEF PromptedInv, WholeSend
  <1>9. FilledInv'
    <2>1. Settled' = Settled
      BY <1>0, <1>3 DEF Settled
    <2> QED BY <1>0, <1>1, <1>4, <2>1 DEF FilledInv, WholeSend, Chain
  <1>19. FillsInv'
    BY <1>0, <1>2, ChainFillsInv
  <1>10. HeadersInv'
    <2>1. loc' # 0 /\ Begun'
      BY <1>0, <1>1 DEF Begun
    <2> QED BY <1>0, <1>1, <1>3, <2>1, Zenon DEF HeadersInv
  <1>11. QueryInv'
    BY <1>0 DEF QueryInv, WholeSend
  <1>12. /\ Len(sent) \in Nat /\ Len(sent) < loc /\ IsSeq(sent)
         /\ \A i \in 1..Len(sent) :
               /\ sent[i].loc \in 1..loc /\ sent[i].loc < loc
               /\ \A j \in 1..Len(sent) : j < i => sent[j].loc < sent[i].loc
               /\ sent[i].whole => AsNow(sent[i])
    BY <1>1 DEF SentInv, IsSeq
  <1>13. \/ sent' = sent
         \/ /\ IsSeq(sent') /\ Len(sent') = Len(sent) + 1 /\ sent'[Len(sent) + 1] = r
            /\ \A i \in 1..Len(sent) : sent'[i] = sent[i]
    <2> HIDE DEF r
    <2>1. CASE sent' = sent
      BY <2>1
    <2>2. CASE sent' = Append(sent, r)
      <3>1. /\ IsSeq(Append(sent, r)) /\ Len(Append(sent, r)) = Len(sent) + 1
            /\ Append(sent, r)[Len(sent) + 1] = r
            /\ \A i \in 1..Len(sent) : Append(sent, r)[i] = sent[i]
        BY <1>12, AppendSeq
      <3> QED BY <2>2, <3>1, Zenon
    <2> QED BY <1>0, <2>1, <2>2
  <1>14. r.loc = loc /\ r.body = request.body
    OBVIOUS
  <1>15. RawInv'
    <2>1. ASSUME Texts("fill") = {}, NEW text \in Texts("body"), NEW i \in DOMAIN sent'
          PROVE  sent'[i].body = text
      <3>1. request.body = text /\ \A k \in DOMAIN sent : sent[k].body = text
        BY <1>0, <1>1, <2>1 DEF RawInv, Chain
      <3>2. CASE sent' = sent
        BY <2>1, <3>1, <3>2
      <3>3. CASE /\ IsSeq(sent') /\ Len(sent') = Len(sent) + 1 /\ sent'[Len(sent) + 1] = r
                 /\ \A k \in 1..Len(sent) : sent'[k] = sent[k]
        <4>1. DOMAIN sent' = 1..Len(sent) + 1 /\ DOMAIN sent = 1..Len(sent)
          BY <1>12, <3>3 DEF IsSeq
        <4>2. i \in 1..Len(sent) \/ i = Len(sent) + 1
          BY <1>12, <4>1
        <4> HIDE DEF r
        <4> QED BY <1>14, <3>1, <3>3, <4>1, <4>2
      <3> QED BY <1>13, <3>2, <3>3
    <2>2. loc' > 0 \/ phase' # "failed" => loc > 0 \/ phase # "failed"
      BY <1>1
    <2> QED BY <1>0, <1>1, <1>3, <1>4, <2>1, <2>2, Zenon DEF RawInv
  <1>16. SentInv'
    <2>1. ASSUME NEW q, AsNow(q) PROVE AsNow(q)'
      <3>1. Merged(Queries[q.loc])' = Merged(Queries[q.loc])
        BY <1>2, SameMerged
      <3>2. Visible(q.headers)' = Visible(q.headers) /\ Visible(client.headers)' = Visible(client.headers)
        BY <1>0 DEF Visible
      <3> QED BY <1>0, <1>3, <2>1, <3>1, <3>2, Zenon DEF AsNow
    <2>2. request.whole => AsNow(r)
      <3> SUFFICES ASSUME request.whole PROVE AsNow(r)
        OBVIOUS
      <3>1. /\ r.method = client.method /\ r.kind = client.content.kind
            /\ r.headers = client.headers /\ r.query = request.query
        OBVIOUS
      <3> HIDE DEF r
      <3>2. WholeSend
        BY <1>0 DEF WholeSend
      <3>3. request.body = BodyOf(client.content) /\ request.query = Merged(Queries[loc])
        BY <1>1, <3>2 DEF FilledInv, QueryInv
      <3>4. client.requestIDs # <<>> => Get(client.headers, <<"X-Request-ID">>) = IdOf(loc)
        BY <1>1, <3>2 DEF QueryInv
      <3>5. ~Named(<<"X-Request-ID">>) /\ client.requestIDs = <<>> =>
                Get(client.headers, <<"X-Request-ID">>) = <<>>
        BY <1>1 DEF HeadersInv, Get
      <3>6. ~Named(<<"Content-Type">>) =>
                Get(client.headers, <<"Content-Type">>) =
                    IF client.content.kind = "json" THEN JSONType ELSE <<>>
        BY <1>1 DEF HeadersInv
      <3>7. client.fill # <<>> => client.content.kind = "json"
        BY <1>1, <3>2 DEF FilledInv
      <3> QED BY <1>14, <3>1, <3>3, <3>4, <3>5, <3>6, <3>7 DEF AsNow
    <2>3. r.whole = request.whole
      OBVIOUS
    <2> HIDE DEF r
    <2>4. CASE sent' = sent
      <3>1. \A i \in 1..Len(sent') : sent'[i].whole => AsNow(sent[i])'
        BY <1>12, <2>1, <2>4
      <3>2. Len(sent') <= loc /\ IsSeq(sent')
        BY <1>1, <1>12, <2>4
      <3>3. \A i \in 1..Len(sent') :
                /\ sent'[i].loc \in 1..loc
                /\ \A j \in 1..Len(sent') : j < i => sent'[j].loc < sent'[i].loc
        BY <1>12, <2>4
      <3> QED BY <1>0, <1>4, <3>1, <3>2, <3>3 DEF SentInv
    <2>5. CASE /\ IsSeq(sent') /\ Len(sent') = Len(sent) + 1 /\ sent'[Len(sent) + 1] = r
               /\ \A i \in 1..Len(sent) : sent'[i] = sent[i]
      <3>1. \A i \in 1..Len(sent') : i \in 1..Len(sent) \/ i = Len(sent) + 1
        BY <1>12, <2>5
      <3>2. \A i \in 1..Len(sent') : sent'[i].whole => AsNow(sent[i])'
        <4> SUFFICES ASSUME NEW i \in 1..Len(sent'), sent'[i].whole PROVE AsNow(sent[i])'
          OBVIOUS
        <4>1. AsNow(sent'[i])
          BY <1>12, <2>2, <2>3, <2>5, <3>1
        <4> QED BY <2>1, <4>1
      <3>3. \A i \in 1..Len(sent') : sent'[i].loc \in 1..loc
        BY <1>1, <1>12, <1>14, <2>5, <3>1
      <3>4. \A i, j \in 1..Len(sent') : j < i => sent'[j].loc < sent'[i].loc
        <4> SUFFICES ASSUME NEW i \in 1..Len(sent'), NEW j \in 1..Len(sent'), j < i
                     PROVE  sent'[j].loc < sent'[i].loc
          OBVIOUS
        <4>1. j \in 1..Len(sent)
          BY <1>12, <2>5
        <4> QED BY <1>12, <1>14, <2>5, <3>1, <4>1
      <3>5. Len(sent') <= loc
        BY <1>1, <1>12, <2>5
      <3> QED BY <1>0, <1>4, <2>5, <3>2, <3>3, <3>4, <3>5 DEF SentInv
    <2> QED BY <1>13, <2>4, <2>5
  <1>17. GivenInv' /\ TLSInv' /\ RequestIDsInv' /\ pending' \subseteq WithImplied(line')
    BY <1>2, ChainFlagsInv
  <1>18. TypeOK'
    <2>1. Typing(typed.users)' /\ Typing(typed.passwords)'
      BY <1>0, <1>1 DEF TypeOK, Typing
    <2>2. request.whole' \in BOOLEAN /\ loc' \in 0..Len(Queries)
      BY <1>0, <1>1 DEF TypeOK
    <2> QED BY <1>0, <1>5, <1>16, <1>17, <2>1, <2>2, TypeNext
  <1> QED BY <1>5, <1>6, <1>7, <1>8, <1>9, <1>10, <1>11, <1>15, <1>16, <1>17, <1>18, <1>19 DEF IInv

-----------------------------------------------------------------------------
(***************************************************************************)
(* The invariant holds, and what it implies                                *)
(***************************************************************************)
LEMMA InitInv ==
  ASSUME Init
  PROVE  IInv
  <1>0. /\ line \in CommandLines /\ phase = "flags" /\ pending = WithImplied(line)
        /\ client = NewClient /\ loc = 0 /\ sent = <<>>
        /\ request = [query |-> NoFields, body |-> Nothing, whole |-> FALSE]
        /\ typed = [users |-> <<>>, passwords |-> <<>>]
    BY DEF Init
  <1>1. /\ typed.users = <<>> /\ typed.passwords = <<>>
        /\ request.whole = FALSE /\ request.body = Nothing
    BY <1>0
  <1>2. \A flag : RanTexts(flag) = {}
    BY <1>0 DEF RanTexts, WithImplied
  <1> DEFINE agent == Put(NoFields, <<"User-Agent">>, << <<"default">> >>)
  <1>3. AllSeqs(agent)
    <2>1. AllSeqs(NoFields)
      BY DEF AllSeqs, NoFields
    <2> QED BY <2>1, PutSeqs
  <1>4. DOMAIN agent = {<<"User-Agent">>}
    <2>1. DOMAIN NoFields = {}
      BY DEF NoFields
    <2>2. DOMAIN Put(NoFields, <<"User-Agent">>, << <<"default">> >>)
              = DOMAIN NoFields \cup {<<"User-Agent">>}
      BY PutDomain
    <2> QED BY <2>1, <2>2
  <1> HIDE DEF agent
  <1>5. /\ DOMAIN client = DOMAIN NewClient
        /\ client.headers = agent /\ client.content = NoContent /\ client.fill = <<>>
        /\ client.user = NewClient.user /\ client.auth.mode = "none" /\ client.requestIDs = <<>>
        /\ client.tls = NewConfig
        /\ DOMAIN client.user = {"user", "password", "hasPassword"}
    BY <1>0 DEF NewClient, AuthMode, agent
  <1>6. NewClient.content.kind = "none"
    BY DEF NewClient, NoContent
  <1>7. Shaped(client)
    <2>1. DOMAIN client = {"method", "headers", "content", "fill", "query", "user", "auth",
                           "requestIDs", "follow", "include", "failFast", "downloader",
                           "downloads", "dialer", "dnsLocal", "tls", "writeOut", "writeErr"}
      BY <1>0 DEF NewClient
    <2>2. IsContent(client.content)
      BY <1>5, Contents
    <2>3. DOMAIN client.tls = {"roots", "certificates", "minVersion", "maxVersion", "insecure",
                               "serverName", "nextProtos", "suites", "curves", "time", "random",
                               "keyLog"}
      BY <1>5 DEF NewConfig
    <2>4. IsSeq(client.fill) /\ \A name \in DOMAIN client.headers : IsSeq(client.headers[name])
      BY <1>3, <1>5, EmptyIsSeq DEF AllSeqs
    <2> QED BY <1>5, <2>1, <2>2, <2>3, <2>4 DEF Shaped, IsContent
  <1>8. TypeOK
    <2>1. Len(Queries) \in Nat
      BY QueriesAssumption
    <2>2. Typing(<<>>)
      BY DEF Typing
    <2>3. client.content.kind = "none"
      BY <1>0, <1>6
    <2> QED BY <1>0, <1>1, <1>5, <2>1, <2>2, <2>3, EmptyIsSeq DEF TypeOK
  <1>9. GivenInv /\ ShapeInv /\ PhaseInv
    <2>1. ShapeInv
      BY <1>0, <1>1, <1>7, EmptyIsSeq DEF ShapeInv
    <2> QED BY <1>0, <1>1, <2>1 DEF GivenInv, PhaseInv, Chain
  <1>10. TLSInv
    <2>1. /\ client.tls.minVersion = 0 /\ client.tls.maxVersion = 0 /\ client.tls.roots = System
      <3>1. NewConfig.minVersion = 0 /\ NewConfig.maxVersion = 0 /\ NewConfig.roots = System
        BY DEF NewConfig
      <3> QED BY <1>5, <3>1
    <2>2. Readable({}, {}) = {}
      BY DEF Readable
    <2> QED BY <1>2, <2>1, <2>2 DEF TLSInv, Versions
  <1>11. UserInv
    BY <1>1, <1>2, <1>5 DEF UserInv, UserOf
  <1>12. PromptedInv /\ QueryInv
    BY <1>0, <1>5 DEF PromptedInv, QueryInv, WholeSend
  <1>13. RawInv
    BY <1>0, <1>2, <1>5 DEF RawInv, Chain
  <1>18. FillsInv
    <2>1. Len(client.fill) = 0
      BY <1>5, EmptyIsSeq
    <2>2. client.content.kind = "none"
      BY <1>0, <1>6
    <2> QED BY <1>2, <2>1, <2>2 DEF FillsInv, FillNames
  <1>14. FilledInv
    BY <1>0, <1>1 DEF FilledInv, Begun, WholeSend, Chain
  <1>15. HeadersInv
    <2>1. \A name \in DOMAIN client.headers : name = <<"User-Agent">>
      BY <1>4, <1>5
    <2>2. <<"User-Agent">> # <<"Content-Type">> /\ <<"User-Agent">> # <<"X-Request-ID">>
      OBVIOUS
    <2>3. Get(client.headers, <<"Content-Type">>) = <<>>
      BY <2>1, <2>2 DEF Get
    <2>4. ~Begun
      BY <1>0 DEF Begun
    <2> QED BY <2>1, <2>2, <2>3, <2>4 DEF HeadersInv
  <1>16. RequestIDsInv
    BY <1>2, <1>5 DEF RequestIDsInv, RequestIDsOf
  <1>17. SentInv
    BY <1>0, EmptyIsSeq DEF SentInv, Chain
  <1> QED BY <1>8, <1>9, <1>10, <1>11, <1>12, <1>13, <1>14, <1>15, <1>16, <1>17, <1>18
        DEF IInv

LEMMA StutterInv ==
  ASSUME IInv, UNCHANGED vars
  PROVE  IInv'
  <1>1. /\ line' = line /\ phase' = phase /\ pending' = pending /\ client' = client
        /\ loc' = loc /\ request' = request /\ sent' = sent /\ typed' = typed
    BY DEF vars
  <1>2. TypeOK' /\ GivenInv' /\ ShapeInv' /\ PhaseInv'
    BY <1>1 DEF IInv, TypeOK, Typing, GivenInv, ShapeInv, PhaseInv
  <1>3. \A flag : RanTexts(flag)' = RanTexts(flag) /\ Texts(flag)' = Texts(flag)
    BY <1>1 DEF RanTexts, Texts
  <1>4. \A name : Named(name)' = Named(name)
    BY <1>1, <1>3 DEF Named
  <1>5. TLSInv' /\ UserInv' /\ RequestIDsInv'
    BY <1>1, <1>3, Zenon DEF IInv, TLSInv, UserInv, RequestIDsInv
  <1>6. PromptedInv' /\ RawInv'
    BY <1>1, <1>3, Zenon DEF IInv, PromptedInv, RawInv, WholeSend
  <1>7. FilledInv' /\ FillsInv'
    <2>1. Settled' = Settled /\ Begun' = Begun /\ FillNames' = FillNames
      BY <1>1 DEF Settled, Begun, FillNames
    <2>2. FillsInv'
      BY <1>1, <1>3, <2>1, Zenon DEF IInv, FillsInv
    <2> QED BY <1>1, <2>1, <2>2, Zenon DEF IInv, FilledInv, WholeSend
  <1>8. HeadersInv'
    <2>1. Begun' = Begun
      BY <1>1 DEF Begun
    <2> QED BY <1>1, <1>3, <1>4, <2>1, Zenon DEF IInv, HeadersInv
  <1>9. \A query : Merged(query)' = Merged(query)
    BY <1>1 DEF Merged
  <1>10. \A location : IdOf(location)' = IdOf(location)
    BY <1>1 DEF IdOf
  <1>11. QueryInv'
    BY <1>1, <1>9, <1>10 DEF IInv, QueryInv, WholeSend
  <1>12. SentInv'
    <2>1. ASSUME NEW r, AsNow(r) PROVE AsNow(r)'
      <3>1. Visible(r.headers)' = Visible(r.headers) /\ Visible(client.headers)' = Visible(client.headers)
        BY <1>1 DEF Visible
      <3> QED BY <1>1, <1>4, <1>9, <1>10, <2>1, <3>1, Zenon DEF AsNow
    <2>2. SentInv
      BY DEF IInv
    <2>3. \A i \in 1..Len(sent') : sent'[i].whole => AsNow(sent[i])'
      BY <1>1, <2>1, <2>2 DEF SentInv
    <2> QED BY <1>1, <2>2, <2>3 DEF SentInv
  <1> QED BY <1>2, <1>5, <1>6, <1>7, <1>8, <1>11, <1>12 DEF IInv

LEMMA Inductive ==
  ASSUME IInv, [Next]_vars
  PROVE  IInv'
  <1>1. CASE FlagRuns
    BY <1>1, FlagInv
  <1>2. CASE NextLocation
    BY <1>2, NextLocationInv
  <1>3. CASE SetupBodyContent
    BY <1>3, SetupBodyContentInv
  <1>4. CASE SetupQueryString
    BY <1>4, SetupQueryStringInv
  <1>5. CASE PromptUsername
    BY <1>5, PromptUsernameInv
  <1>6. CASE PromptPassword
    BY <1>6, PromptPasswordInv
  <1>7. CASE ApplyAuth
    BY <1>7, ApplyAuthInv
  <1>8. CASE RequestIDMiddleware
    BY <1>8, RequestIDMiddlewareInv
  <1>9. CASE Send
    BY <1>9, SendInv
  <1>10. CASE UNCHANGED vars
    BY <1>10, StutterInv
  <1> QED BY <1>1, <1>2, <1>3, <1>4, <1>5, <1>6, <1>7, <1>8, <1>9, <1>10 DEF Next

\* Flags in any order and locations one after the other keep the invariant.
THEOREM Invariance == Spec => []IInv
  <1>1. Init => IInv
    BY InitInv
  <1>2. IInv /\ [Next]_vars => IInv'
    BY Inductive
  <1> QED BY <1>1, <1>2, PTL DEF Spec

\* Every variable holds a value of its type.
THEOREM TypeCorrect == Spec => []TypeOK
  <1>1. IInv => TypeOK
    BY DEF IInv
  <1> QED BY <1>1, Invariance, PTL

LEMMA SingleText ==
  ASSUME GivenInv, NEW flag, flag \notin EachOccurrence,
         NEW s \in Texts(flag), NEW t \in Texts(flag)
  PROVE  s = t
  <1>1. PICK o \in line : o[1] = flag /\ o[2] = s
    BY DEF Texts
  <1>2. PICK p \in line : p[1] = flag /\ p[2] = t
    BY DEF Texts
  <1>3. p = o
    BY <1>1, <1>2, OccurrencesAssumption, Zenon DEF GivenInv
  <1> QED BY <1>1, <1>2, <1>3

LEMMA RanOnce ==
  ASSUME IInv, loc > 0
  PROVE  \A flag : RanTexts(flag) = Texts(flag)
  BY AllRan DEF IInv, PhaseInv

\* What was sent had its content.
LEMMA SentBegun ==
  ASSUME IInv, NEW i \in 1..Len(sent)
  PROVE  Begun
  <1>1. SentInv /\ PhaseInv /\ loc \in 0..Len(Queries) /\ Len(Queries) \in Nat
    <2>1. Len(Queries) \in Nat
      BY QueriesAssumption
    <2> QED BY <2>1 DEF IInv, TypeOK
  <1>2. loc \in Nat /\ sent[i].loc \in 1..loc /\ (phase \in Chain \cup {"panicked"} => sent[i].loc < loc)
    BY <1>1 DEF SentInv
  <1> QED BY <1>2 DEF Begun, Chain

\* Whatever the order in which the flags for the body run, what --body gave is
\* what is sent if no values are filled in, and with --fill an object with the
\* names that were given (setBodyContentHelper, setupBodyContent).  JSON is sent
\* with its type and nothing else with one, unless another flag names the
\* field; --json-content has the type sent if no other flag gives content.
THEOREM BodySafety == Spec => []BodyAsGiven
  <1>1. ASSUME IInv, NEW i \in DOMAIN sent
        PROVE  /\ i \in 1..Len(sent) /\ loc > 0
               /\ \A flag : RanTexts(flag) = Texts(flag)
               /\ sent[i].whole => AsNow(sent[i])
    <2>1. SentInv /\ IsSeq(sent)
      BY <1>1 DEF IInv, SentInv
    <2>2. i \in 1..Len(sent)
      BY <1>1, <2>1 DEF IsSeq
    <2>3. loc > 0
      <3>1. Len(Queries) \in Nat
        BY QueriesAssumption
      <3>2. loc \in Nat /\ sent[i].loc \in 1..loc
        BY <1>1, <2>1, <2>2, <3>1 DEF SentInv, IInv, TypeOK
      <3> QED BY <3>2
    <2> QED BY <1>1, <2>1, <2>2, <2>3, RanOnce DEF SentInv
  <1>2. ASSUME IInv PROVE BodyDelivered
    <2> SUFFICES ASSUME NEW i \in DOMAIN sent
                 PROVE  /\ Texts("fill") = {} => \A text \in Texts("body") : sent[i].body = text
                        /\ sent[i].whole /\ Texts("fill") # {} =>
                              /\ sent[i].kind = "json"
                              /\ DOMAIN sent[i].body = {nv.name : nv \in Texts("fill")}
      BY Zenon DEF BodyDelivered
    <2>1. RawInv /\ FillsInv /\ FilledInv /\ IsSeq(client.fill)
      BY <1>2 DEF IInv, ShapeInv, Shaped
    <2>2. Texts("fill") = {} => \A text \in Texts("body") : sent[i].body = text
      BY <2>1, Zenon DEF RawInv
    <2>3. ASSUME sent[i].whole, Texts("fill") # {}
          PROVE  sent[i].kind = "json" /\ DOMAIN sent[i].body = {nv.name : nv \in Texts("fill")}
      <3>1. AsNow(sent[i]) /\ RanTexts("fill") = Texts("fill")
        BY <1>1, <1>2, <2>3
      <3>2. FillNames = {nv.name : nv \in Texts("fill")} /\ FillNames # {}
        BY <2>1, <2>3, <3>1 DEF FillsInv
      <3>3. client.fill # <<>>
        BY <2>1, <3>2, NonemptySeq DEF FillNames, IsSeq
      <3>4. client.content.kind = "json" /\ sent[i].kind = "json" /\ sent[i].body = BodyOf(client.content)
        BY <3>1, <3>3 DEF AsNow
      <3>5. Begun
        BY <1>2, <1>1, <3>4, SentBegun
      <3>6. client.content.data = With(client.content.data, FillNames)
        BY <2>1, <3>3, <3>4, <3>5 DEF FilledInv, Settled
      <3>7. DOMAIN client.content.data = DOMAIN client.content.data \cup FillNames
        BY <3>6 DEF With
      <3>8. DOMAIN client.content.data = FillNames
        BY <2>1, <3>4, <3>7 DEF FillsInv
      <3>9. client.content.data # NoFields
        BY <3>2, <3>8 DEF NoFields
      <3>10. sent[i].body = client.content.data
        BY <3>4, <3>9 DEF BodyOf, Read
      <3> QED BY <3>2, <3>4, <3>8, <3>10
    <2> QED BY <2>2, <2>3
  <1>3. ASSUME IInv PROVE TypeDelivered
    <2> SUFFICES ASSUME NEW i \in DOMAIN sent, sent[i].whole, ~Named(<<"Content-Type">>)
                 PROVE  /\ Texts("json-content") = {} =>
                              Type(sent[i]) = IF sent[i].kind = "json" THEN JSONType ELSE <<>>
                        /\ Texts("json-content") # {}
                              /\ Texts("body") \cup Texts("body-content") = {} =>
                              Type(sent[i]) = JSONType
      BY Zenon DEF TypeDelivered
    <2>1. AsNow(sent[i]) /\ loc > 0 /\ RanTexts("json-content") = Texts("json-content")
      BY <1>1, <1>3
    <2>2. /\ Type(sent[i]) = IF sent[i].kind = "json" THEN JSONType ELSE <<>>
          /\ sent[i].kind = client.content.kind
      BY <2>1 DEF AsNow, Type
    <2>3. Texts("json-content") # {} /\ Texts("body") \cup Texts("body-content") = {} =>
              client.content.kind = "json"
      BY <1>3, <2>1 DEF IInv, FillsInv
    <2> QED BY <2>2, <2>3
  <1>4. IInv => BodyAsGiven
    BY <1>2, <1>3 DEF BodyAsGiven
  <1> QED BY <1>4, Invariance, PTL

\* What basic authentication sends is what --user gave and what was typed for
\* the rest, in the one UserInfo that promptForCredentials writes into.
THEOREM CredentialsSafety == Spec => []CredentialsAsGiven
  <1>1. ASSUME IInv PROVE CredentialsAsGiven
    <2>1. UserInv /\ PromptedInv /\ PhaseInv /\ ShapeInv /\ loc \in Nat
      <3>1. Len(Queries) \in Nat
        BY QueriesAssumption
      <3> QED BY <1>1, <3>1 DEF IInv, TypeOK
    <2> DEFINE given == UserOf(Texts("user"))
    <2>2. CASE loc = 0
      <3>1. typed.users = <<>> /\ typed.passwords = <<>> /\ phase # "send"
        BY <2>1, <2>2 DEF PhaseInv
      <3> QED BY <3>1 DEF CredentialsAsGiven
    <2>3. CASE loc > 0
      <3>1. RanTexts("user") = Texts("user")
        BY <1>1, <2>3, RanOnce
      <3>2. /\ client.user.user = IF given.user # Nothing \/ typed.users = <<>> THEN given.user
                                  ELSE Last(typed.users)
            /\ client.user.password = IF given.hasPassword \/ typed.passwords = <<>>
                                      THEN given.password ELSE Last(typed.passwords)
            /\ given.user # Nothing => typed.users = <<>>
            /\ given.hasPassword => typed.passwords = <<>>
            /\ \A i \in DOMAIN typed.users : typed.users[i] # Nothing => i = Len(typed.users)
        BY <2>1, <3>1 DEF UserInv
      <3>3. ASSUME phase = "send", request.whole, client.auth.mode = "basic"
            PROVE  client.headers[<<"Authorization">>] =
                      << <<IF given.user # Nothing THEN given.user ELSE Last(typed.users),
                           IF given.hasPassword THEN given.password ELSE Last(typed.passwords)>> >>
        <4>1. /\ given.user # Nothing \/ typed.users # <<>>
              /\ given.hasPassword \/ typed.passwords # <<>>
              /\ client.headers[<<"Authorization">>] =
                    << <<client.user.user, client.user.password>> >>
          BY <2>1, <3>1, <3>3 DEF PromptedInv, WholeSend
        <4> HIDE DEF given
        <4>2. /\ client.user.user = IF given.user # Nothing THEN given.user ELSE Last(typed.users)
              /\ client.user.password = IF given.hasPassword THEN given.password
                                        ELSE Last(typed.passwords)
          BY <3>2, <4>1
        <4> QED BY <4>1, <4>2
      <3> QED BY <3>2, <3>3, Zenon DEF CredentialsAsGiven, UserOf
    <2> QED BY <2>1, <2>2, <2>3
  <1> QED BY <1>1, Invariance, PTL

\* Options of tls change what they are for and nothing else: no range of
\* versions of two flags, all readable files of --cacert among the roots, and
\* only those if --capath does not occur, whatever directories it names.
THEOREM TLSSafety == Spec => []TLSAsGiven
  <1>1. ASSUME IInv PROVE TLSAsGiven
    <2>1. TLSInv /\ GivenInv
      BY <1>1 DEF IInv
    <2>2. RanTexts("tlsv1") \subseteq Texts("tlsv1")
      BY DEF RanTexts, Texts
    <2>3. client.tls.minVersion # client.tls.maxVersion => Texts("tlsv1") = {TRUE}
      <3> SUFFICES ASSUME client.tls.minVersion # client.tls.maxVersion
                   PROVE  Texts("tlsv1") = {TRUE}
        OBVIOUS
      <3>1. TRUE \in Texts("tlsv1")
        BY <2>1, <2>2 DEF TLSInv
      <3>2. \A t \in Texts("tlsv1") : t = TRUE
        BY <2>1, <3>1, SingleText DEF EachOccurrence
      <3> QED BY <3>1, <3>2
    <2>4. loc > 0 => client.tls.roots =
              LET readable == Readable(Texts("cacert"), Texts("capath"))
              IN  IF readable = {} THEN System ELSE UNION {CertsIn[file] : file \in readable}
      <3> SUFFICES ASSUME loc > 0
                   PROVE  client.tls.roots =
                             LET readable == Readable(Texts("cacert"), Texts("capath"))
                             IN  IF readable = {} THEN System
                                 ELSE UNION {CertsIn[file] : file \in readable}
        OBVIOUS
      <3>1. RanTexts("cacert") = Texts("cacert") /\ RanTexts("capath") = Texts("capath")
        BY <1>1, RanOnce
      <3>2. client.tls.roots =
                LET readable == Readable(RanTexts("cacert"), RanTexts("capath"))
                IN  IF readable = {} THEN System ELSE UNION {CertsIn[file] : file \in readable}
        BY <2>1 DEF TLSInv
      <3> QED BY <3>1, <3>2, Zenon
    <2> DEFINE readable == Texts("cacert") \cap DOMAIN CertsIn
               given == UNION {CertsIn[file] : file \in readable}
    <2>5. ASSUME loc > 0, Texts("capath") = {}
          PROVE  client.tls.roots = IF readable = {} THEN System ELSE given
      <3>1. Readable(Texts("cacert"), Texts("capath")) = readable
        BY <2>5 DEF Readable
      <3> QED BY <2>4, <2>5, <3>1
    <2>6. ASSUME loc > 0, readable # {}
          PROVE  given \subseteq client.tls.roots /\ client.tls.roots \cap System = {}
      <3> DEFINE all == Readable(Texts("cacert"), Texts("capath"))
      <3>1. readable \subseteq all /\ all \subseteq DOMAIN CertsIn
        BY DEF Readable
      <3> HIDE DEF all
      <3>2. client.tls.roots = UNION {CertsIn[file] : file \in all}
        BY <2>4, <2>6, <3>1 DEF all
      <3>3. given \subseteq client.tls.roots
        BY <3>1, <3>2
      <3>4. client.tls.roots \cap System = {}
        BY <3>1, <3>2, CertsAssumption
      <3> QED BY <3>3, <3>4
    <2>7. client.tls.minVersion <= client.tls.maxVersion
      BY <2>1 DEF TLSInv
    <2> QED BY <2>3, <2>5, <2>6, <2>7, Zenon DEF TLSAsGiven
  <1> QED BY <1>1, Invariance, PTL

\* The method, the body, the query and the fields of the header are those of
\* the flags and of the location, though doOne reuses one http.Request.  The
\* fields of credentials are left out, to which locations add.
THEOREM LocationsSafety == Spec => []LocationsIndependent
  <1>1. ASSUME IInv PROVE LocationsIndependent
    <2>1. SentInv /\ RequestIDsInv /\ GivenInv
      BY <1>1 DEF IInv
    <2>2. DOMAIN sent = 1..Len(sent) /\ Len(sent) \in Nat
      BY <2>1 DEF SentInv, IsSeq
    <2> DEFINE Id(r) == Get(r.headers, <<"X-Request-ID">>)
    <2> SUFFICES ASSUME NEW i \in DOMAIN sent, NEW j \in DOMAIN sent, sent[i].whole, sent[j].whole
                 PROVE  /\ sent[i].method = sent[j].method /\ sent[i].body = sent[j].body
                        /\ Visible(sent[i].headers) = Visible(sent[j].headers)
                        /\ Queries[sent[i].loc] = Queries[sent[j].loc] =>
                              sent[i].query = sent[j].query
                        /\ Texts("request-id") # {} \/ ~Named(<<"X-Request-ID">>) =>
                              Len(Id(sent[i])) = Cardinality(Texts("request-id"))
                        /\ Texts("request-id") = {Nothing} /\ i # j => Id(sent[i]) # Id(sent[j])
      BY Zenon DEF LocationsIndependent, Visible
    <2>3. AsNow(sent[i]) /\ AsNow(sent[j])
      BY <2>1, <2>2 DEF SentInv
    <2>4. /\ loc > 0 /\ (i # j => sent[i].loc # sent[j].loc)
      <3>1. /\ i \in 1..Len(sent) /\ j \in 1..Len(sent)
            /\ sent[i].loc \in 1..loc /\ sent[j].loc \in 1..loc
        BY <2>1, <2>2 DEF SentInv
      <3>2. i < j => sent[i].loc < sent[j].loc
        BY <2>1, <3>1 DEF SentInv
      <3>3. j < i => sent[j].loc < sent[i].loc
        BY <2>1, <3>1 DEF SentInv
      <3>4. loc \in Nat
        <4>1. Len(Queries) \in Nat
          BY QueriesAssumption
        <4> QED BY <1>1, <4>1 DEF IInv, TypeOK
      <3> QED BY <3>1, <3>2, <3>3, <3>4
    <2>5. RanTexts("request-id") = Texts("request-id")
      BY <1>1, <2>4, RanOnce
    <2>6. client.requestIDs = RequestIDsOf(Texts("request-id"))
      BY <2>1, <2>5 DEF RequestIDsInv
    <2>7. /\ sent[i].method = sent[j].method /\ sent[i].body = sent[j].body
          /\ Visible(sent[i].headers) = Visible(sent[j].headers)
          /\ Queries[sent[i].loc] = Queries[sent[j].loc] => sent[i].query = sent[j].query
      BY <2>3 DEF AsNow
    <2>8. ASSUME Texts("request-id") # {} \/ ~Named(<<"X-Request-ID">>)
          PROVE  Len(Id(sent[i])) = Cardinality(Texts("request-id"))
      <3>1. CASE Texts("request-id") = {}
        <4>1. client.requestIDs = <<>>
          BY <2>6, <3>1 DEF RequestIDsOf
        <4>2. Id(sent[i]) = <<>>
          BY <2>3, <2>8, <3>1, <4>1 DEF AsNow
        <4> QED BY <3>1, <4>2, EmptyIsSeq, FS_EmptySet
      <3>2. CASE Texts("request-id") # {}
        <4>1. client.requestIDs # <<>>
          BY <2>6, <3>2, OneSeq DEF RequestIDsOf
        <4>2. Len(Id(sent[i])) = 1
          BY <2>3, <4>1, OneSeq DEF AsNow, IdOf
        <4>3. PICK s \in Texts("request-id") : TRUE
          BY <3>2
        <4>4. Texts("request-id") = {s}
          BY <2>1, <4>3, SingleText DEF EachOccurrence
        <4> QED BY <4>2, <4>4, FS_Singleton
      <3> QED BY <3>1, <3>2
    <2>9. ASSUME Texts("request-id") = {Nothing}, i # j PROVE Id(sent[i]) # Id(sent[j])
      <3>1. client.requestIDs = <<"generated">>
        BY <2>6, <2>9 DEF RequestIDsOf
      <3>2. client.requestIDs # <<>> /\ Last(client.requestIDs) = "generated"
        BY <3>1, OneSeq
      <3>3. \A location : IdOf(location) = << <<"generated", location>> >>
        BY <3>2 DEF IdOf
      <3>4. /\ Id(sent[i]) = << <<"generated", sent[i].loc>> >>
            /\ Id(sent[j]) = << <<"generated", sent[j].loc>> >>
        BY <2>3, <3>2, <3>3 DEF AsNow
      <3>5. Id(sent[i])[1][2] = sent[i].loc /\ Id(sent[j])[1][2] = sent[j].loc
        BY <3>4
      <3> HIDE DEF Id
      <3> QED BY <2>4, <2>9, <3>5
    <2> QED BY <2>7, <2>8, <2>9, Zenon
  <1> QED BY <1>1, Invariance, PTL
=============================================================================
