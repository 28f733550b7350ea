------------------------------- MODULE Client -------------------------------
(***************************************************************************)
(* A client that fetches locations one after another                       *)
(* (httpclient/client.go, middleware.go, transport.go, http_adapter.go).   *)
(*                                                                         *)
(* Client.Do resolves the locations and hands each to doOne, which         *)
(*   - obtains the transport, built once and cached, its error dropped;    *)
(*   - asks the location for its URL;                                      *)
(*   - runs the middleware on the one http.Request that all locations      *)
(*     share, dropping the error that stops the chain;                     *)
(*   - sends the request, following redirects;                             *)
(*   - copies the response to an output that the downloader opens.         *)
(* Do returns the responses so far with the first error.                   *)
(*                                                                         *)
(* What is outside the client answers in every way it can: the resolver,   *)
(* the transport factory, the location, middleware, credentials, the       *)
(* server, the file system.                                                *)
(***************************************************************************)
EXTENDS Naturals, Sequences

CONSTANTS
    Options,       \* how the client may be configured: a set of option records
    MaxLocations,  \* bound: locations of one Do
    MaxCalls,      \* bound: calls of Do
    MaxVia         \* defaultCheckRedirect: requests that a redirect may follow (10)

\* transport: WithTransport or WithTransportFactory; content: BodyContent, or
\* the reader of WithBody; fill: values set with SetFillValue; follow:
\* SetFollowRedirects; headers: IncludeResponseHeaders.
AllOptions ==
    [transport : {"discrete", "factory"},
     auth      : {"none", "basic", "bearer"},
     content   : {"none", "raw", "json", "reader"},
     fill      : BOOLEAN,
     follow    : BOOLEAN,
     failFast  : BOOLEAN,
     headers   : BOOLEAN]

ASSUME OptionsAssumption == Options \subseteq AllOptions
ASSUME BoundsAssumption  == MaxLocations \in Nat /\ MaxCalls \in Nat
ASSUME ViaAssumption     == MaxVia \in Nat \ {0}

Links     == {"location", "body", "query", "auth", "user"}
Resources == {"body", "output"} \X (1..MaxLocations)

VARIABLES
    opts,       \* the configuration
    pc,         \* where Do and doOne stand
    calls,      \* how often Do was called
    count,      \* the number of locations that Resolve returned
    loc,        \* the location that doOne is at
    transport,  \* cacheable: "unset", "cached", or "error" (cachedErr)
    built,      \* history: calls of the transport factory
    logger,     \* c.logger is set
    header,     \* values of the credentials' field in c.Request.Header
    body,       \* c.Request.Body: "none", "fresh" or "consumed"
    ran,        \* history: the middleware that was called for this location
    via,        \* requests sent for this location
    sent,       \* history: the latest request as it was sent
    success,    \* the status of the response is below 400
    open,       \* response bodies and outputs of this Do that are still open
    responses,  \* the locations whose responses Do returns
    err         \* the error of Do: none, or where it came from

vars == <<opts, pc, calls, count, loc, transport, built, logger, header, body,
          ran, via, sent, success, open, responses, err>>

clientVars  == <<transport, built, logger>>
requestVars == <<header, body>>
replyVars   == <<sent, success>>
resultVars  == <<responses, err>>

NotSent == [loc |-> 0, ran |-> {}, header |-> 0, body |-> "none"]

Init ==
    /\ opts      \in Options
    /\ pc        = "idle"
    /\ calls     = 0
    /\ count     = 0
    /\ loc       = 0
    /\ transport = "unset"
    /\ built     = 0
    /\ logger    = FALSE
    /\ header    = 0
    /\ body      = IF opts.content = "reader" THEN "fresh" ELSE "none"
    /\ ran       = {}
    /\ via       = 0
    /\ sent      = NotSent
    /\ success   = TRUE
    /\ open      = {}
    /\ responses = <<>>
    /\ err       = "none"

Goto(label) == pc' = label

\* Fault: Do goes on with the next location after an error.
SkipLocation(e) ==
    /\ Goto("next") /\ loc' = loc + 1 /\ err' = e
    /\ UNCHANGED responses

\* return nil, err from doOne, and return rsp, err from Do.
Return(e) ==
    /\ Goto("idle") /\ loc' = loc /\ err' = e
    /\ UNCHANGED responses

(***************************************************************************)
(* Do                                                                      *)
(***************************************************************************)
Do ==
    /\ pc = "idle" /\ calls < MaxCalls
    /\ calls' = calls + 1
    /\ open' = {} /\ responses' = <<>> /\ ran' = {} /\ via' = 0
    /\ loc' = 1
    /\ \/ Goto("idle") /\ count' = 0 /\ err' = "resolve"
       \/ Goto("next") /\ count' \in 0..MaxLocations /\ err' = "none"
    /\ UNCHANGED <<opts>> /\ UNCHANGED clientVars /\ UNCHANGED requestVars
    /\ UNCHANGED replyVars

AllDone ==
    /\ pc = "next" /\ loc > count
    /\ Goto("idle")
    /\ UNCHANGED <<opts, calls, count, loc, ran, via, open>> /\ UNCHANGED clientVars
    /\ UNCHANGED requestVars /\ UNCHANGED replyVars /\ UNCHANGED resultVars

(***************************************************************************)
(* doOne: the transport (cacheable.New) and the URL                        *)
(***************************************************************************)
\* The cached transport or error if there is one; else the discrete transport
\* or what the factory returns, with the middleware that sets c.logger.
NewTransport ==
    \/ /\ transport = "unset" /\ opts.transport = "discrete"
       /\ transport' = "cached" /\ logger' = TRUE
       /\ UNCHANGED built
    \/ /\ transport = "unset" /\ opts.transport = "factory"
       /\ built' = built + 1
       /\ \/ transport' = "cached" /\ logger' = TRUE
          \/ transport' = "error" /\ UNCHANGED logger
    \/ transport # "unset" /\ UNCHANGED clientVars

\* Fault: the loop of Do runs once too often.
EnsureClientOffByOne ==
    /\ pc = "next" /\ loc <= count + 1
    /\ NewTransport
    /\ Goto("url")
    /\ ran' = {} /\ via' = 0
    /\ UNCHANGED <<opts, calls, count, loc, open>> /\ UNCHANGED requestVars
    /\ UNCHANGED replyVars /\ UNCHANGED resultVars

\* actualTransport drops the error: the http.Client then uses its default.
EnsureClient ==
    /\ pc = "next" /\ loc <= count
    /\ NewTransport
    /\ Goto("url")
    /\ ran' = {} /\ via' = 0
    /\ UNCHANGED <<opts, calls, count, loc, open>> /\ UNCHANGED requestVars
    /\ UNCHANGED replyVars /\ UNCHANGED resultVars

URL ==
    /\ pc = "url"
    /\ \/ Return("url")
       \/ Goto("location") /\ UNCHANGED loc /\ UNCHANGED resultVars
    /\ UNCHANGED <<opts, calls, count, ran, via, open>> /\ UNCHANGED clientVars
    /\ UNCHANGED requestVars /\ UNCHANGED replyVars

(***************************************************************************)
(* doOne: the middleware.  A link either calls the next one, or stops the  *)
(* chain with an error or without: doOne sends the request all the same.   *)
(***************************************************************************)
CallNext(link, following) == Goto(following) /\ ran' = ran \cup {link}
Stop(link) == CallNext(link, "send")

chainUnchanged ==
    /\ UNCHANGED <<opts, calls, count, loc, via, open>> /\ UNCHANGED clientVars
    /\ UNCHANGED replyVars /\ UNCHANGED resultVars

\* The location itself, if it is Middleware.
LocationMiddleware ==
    /\ pc = "location"
    /\ CallNext("location", "body") \/ Stop("location")
    /\ UNCHANGED requestVars /\ chainUnchanged

\* Fault: the content is read once and its reader kept.
BodyReadOnce ==
    body' = IF opts.content \in {"raw", "json"} /\ body = "none" THEN "fresh" ELSE body

\* c.Request.Body = wrapReader(c.BodyContent.Read()), a new reader each time.
ReadBody ==
    body' = IF opts.content \in {"raw", "json"} THEN "fresh" ELSE body

\* Raw content refuses values; FormDataContent, the default, panics on them,
\* as JSONContent does on dotted names.
SetupBodyContent ==
    /\ pc = "body"
    /\ \/ /\ opts.fill /\ opts.content # "raw"
          /\ Goto("panicked") /\ UNCHANGED <<body, ran>>
       \/ /\ opts.fill /\ opts.content = "raw"
          /\ Stop("body") /\ UNCHANGED body
       \/ /\ opts.fill => opts.content = "json"
          /\ ReadBody
          /\ CallNext("body", "query")
    /\ UNCHANGED header /\ chainUnchanged

SetupQueryString ==
    /\ pc = "query"
    /\ CallNext("query", "auth")
    /\ UNCHANGED requestVars /\ chainUnchanged

\* SetBasicAuth replaces the field; bearer authentication adds a value to it.
Authenticate ==
    header' = CASE opts.auth = "none"   -> header
                [] opts.auth = "basic"  -> 1
                [] opts.auth = "bearer" -> header + 1

\* processAuth fails when credentials cannot be had.  With no UserInfo basic
\* authentication panics, and the prompt does, whatever it prompts for, outside
\* of a command with a user flag.
ProcessAuth ==
    /\ pc = "auth"
    /\ \/ Authenticate /\ CallNext("auth", "user")
       \/ Stop("auth") /\ UNCHANGED header
       \/ Goto("panicked") /\ UNCHANGED <<header, ran>>
    /\ UNCHANGED body /\ chainUnchanged

\* c.middleware: whether it fails makes no difference.
UserMiddleware ==
    /\ pc = "user"
    /\ CallNext("user", "send")
    /\ UNCHANGED requestVars /\ chainUnchanged

(***************************************************************************)
(* doOne: client.Do(c.Request), by net/http                                *)
(***************************************************************************)
Send ==
    /\ pc = "send"
    /\ sent' = [loc |-> loc, ran |-> ran, header |-> header, body |-> body]
    /\ body' = IF body = "fresh" THEN "consumed" ELSE body
    /\ via' = 1
    /\ Goto("reply")
    /\ UNCHANGED <<opts, calls, count, loc, ran, open, header, success>>
    /\ UNCHANGED clientVars /\ UNCHANGED resultVars

SendFails ==
    /\ pc = "reply"
    /\ Return("send")
    /\ UNCHANGED <<opts, calls, count, ran, via, open>> /\ UNCHANGED clientVars
    /\ UNCHANGED requestVars /\ UNCHANGED replyVars

replyUnchanged ==
    /\ UNCHANGED <<opts, calls, count, ran>> /\ UNCHANGED clientVars
    /\ UNCHANGED requestVars

\* The server redirects, and c.logger.Redirected is called on nil.
RedirectPanics ==
    /\ pc = "reply" /\ ~logger
    /\ Goto("panicked")
    /\ UNCHANGED <<loc, via, open>> /\ UNCHANGED replyVars /\ UNCHANGED resultVars
    /\ replyUnchanged

\* Fault: the limit starts the count anew.
RedirectForever ==
    /\ pc = "reply" /\ logger /\ opts.follow
    /\ Goto("reply")
    /\ via' = IF via < MaxVia THEN via + 1 ELSE 1
    /\ UNCHANGED <<loc, open>> /\ UNCHANGED replyVars /\ UNCHANGED resultVars
    /\ replyUnchanged

\* The default policy of redirection.
Redirect ==
    /\ pc = "reply" /\ logger /\ opts.follow
    /\ \/ via < MaxVia /\ Goto("reply") /\ via' = via + 1 /\ UNCHANGED loc /\ UNCHANGED resultVars
       \/ via >= MaxVia /\ Return("redirect") /\ UNCHANGED via
    /\ UNCHANGED open /\ UNCHANGED replyVars /\ replyUnchanged

\* SetFollowRedirects(false): the redirect is the response.
UseLastResponse ==
    /\ pc = "reply" /\ logger /\ ~opts.follow
    /\ success' = TRUE
    /\ open' = open \cup {<<"body", loc>>}
    /\ Goto("download")
    /\ UNCHANGED <<loc, via, sent>> /\ UNCHANGED resultVars /\ replyUnchanged

Respond ==
    /\ pc = "reply"
    /\ success' \in BOOLEAN
    /\ open' = open \cup {<<"body", loc>>}
    /\ Goto("download")
    /\ UNCHANGED <<loc, via, sent>> /\ UNCHANGED resultVars /\ replyUnchanged

(***************************************************************************)
(* doOne: handleDownload                                                   *)
(***************************************************************************)
downloadUnchanged ==
    /\ UNCHANGED <<opts, calls, count, ran, via>> /\ UNCHANGED clientVars
    /\ UNCHANGED requestVars /\ UNCHANGED replyVars

\* FailFast returns with the body of the response open.
FailFast ==
    /\ pc = "download" /\ opts.failFast /\ ~success
    /\ Return("status")
    /\ UNCHANGED open /\ downloadUnchanged

\* OpenDownload may fail, and then leave an output open.
OpenDownload ==
    /\ pc = "download" /\ (opts.failFast => success)
    /\ \/ /\ open' = open \cup {<<"output", loc>>}
          /\ Goto("headers") /\ UNCHANGED loc /\ UNCHANGED resultVars
       \/ /\ open' \in {open, open \cup {<<"output", loc>>}}
          /\ Return("open")
    /\ downloadUnchanged

CopyHeaders ==
    /\ pc = "headers"
    /\ \/ Goto("copy") /\ UNCHANGED loc /\ UNCHANGED resultVars
       \/ opts.headers /\ Return("headers")
    /\ UNCHANGED open /\ downloadUnchanged

\* Response.CopyTo closes the body in any case.
CopyTo ==
    /\ pc = "copy"
    /\ open' = open \ {<<"body", loc>>}
    /\ \/ Goto("close") /\ UNCHANGED loc /\ UNCHANGED resultVars
       \/ Return("copy")
    /\ downloadUnchanged

\* doOne returns the response, and Do appends it.
AppendResponse ==
    /\ responses' = Append(responses, loc) /\ loc' = loc + 1
    /\ Goto("next") /\ UNCHANGED err

\* output.Close may fail, with the output closed or not.
Close ==
    /\ pc = "close"
    /\ \/ open' = open \ {<<"output", loc>>} /\ AppendResponse
       \/ open' \in {open, open \ {<<"output", loc>>}} /\ Return("close")
    /\ downloadUnchanged

Finished == pc = "panicked" \/ (pc = "idle" /\ calls = MaxCalls)

DoOne ==
    \/ EnsureClient \/ URL \/ LocationMiddleware \/ SetupBodyContent
    \/ SetupQueryString \/ ProcessAuth \/ UserMiddleware
    \/ Send \/ SendFails \/ RedirectPanics \/ Redirect \/ UseLastResponse \/ Respond
    \/ FailFast \/ OpenDownload \/ CopyHeaders \/ CopyTo \/ Close

Next == Do \/ AllDone \/ DoOne \/ (Finished /\ UNCHANGED vars)

Spec == Init /\ [][Next]_vars

\* A call of Do goes on until it returns: what it waits for answers in time.
Fairness == WF_vars(AllDone \/ DoOne)

FairSpec == Spec /\ Fairness

-----------------------------------------------------------------------------
(***************************************************************************)
(* Properties                                                              *)
(***************************************************************************)
\* Every variable holds a value of its type.
TypeOK ==
    /\ opts \in Options
    /\ pc \in {"idle", "next", "url", "location", "body", "query", "auth", "user", "send",
               "reply", "download", "headers", "copy", "close", "panicked"}
    /\ calls \in 0..MaxCalls /\ count \in 0..MaxLocations /\ loc \in 0..MaxLocations + 1
    /\ transport \in {"unset", "cached", "error"} /\ built \in Nat /\ logger \in BOOLEAN
    /\ header \in Nat /\ body \in {"none", "fresh", "consumed"}
    /\ ran \subseteq Links /\ via \in 0..MaxVia
    /\ sent \in [loc : 0..MaxLocations, ran : SUBSET Links, header : Nat,
                 body : {"none", "fresh", "consumed"}]
    /\ success \in BOOLEAN
    /\ open \subseteq Resources
    /\ responses \in Seq(1..MaxLocations)
    /\ err \in {"none", "resolve", "url", "send", "redirect", "status", "open", "headers",
                "copy", "close"}

\* Do returns the responses of the locations before the first that failed, in
\* their order, and requests nothing after it.
ResponsesArePrefix ==
    /\ \A i \in 1..Len(responses) : responses[i] = i
    /\ pc = "idle" /\ calls > 0 =>
          /\ err = "none" => Len(responses) = count
          /\ err # "none" => loc = Len(responses) + 1 /\ loc <= count + 1

\* The documentation of FailFast: "no response output in the case of a
\* failure".  Nothing is written for a response whose status is a failure.
FailFastIsSilent ==
    opts.failFast /\ ~success => pc \notin {"headers", "copy", "close"}

\* Do leaves a body or an output open for a location that failed at most.
OnlyFailureLeaks ==
    pc \in {"next", "idle"} => \A r \in open : err # "none" /\ r[2] = loc

\* The transport factory is called once for all locations and calls of Do,
\* after an error too.
FactoryCalledOnce == built <= 1

\* Content is read anew for every location: a request whose chain reached it
\* never carries a reader that an earlier request consumed.
ContentIsResent ==
    opts.content \in {"raw", "json"} /\ "query" \in sent.ran => sent.body = "fresh"

\* Basic authentication sends one value however many locations there are.
BasicSentOnce == opts.auth = "basic" => sent.header <= 1

\* Do returns (or panics), however often servers redirect.
DoReturns == pc = "next" ~> pc \in {"idle", "panicked"}

\* A failure reaches no further than its location: the responses before it are
\* returned, nothing after it is requested, nothing is written for it under
\* FailFast, and only its body or output may be left open.
FailureContained == ResponsesArePrefix /\ FailFastIsSilent /\ OnlyFailureLeaks

\* Of the locations before it a request has neither a reader that they consumed,
\* if the content is raw or JSON, nor a second basic authentication, and all have
\* the one transport.  Bearer authentication adds a value for every location.
RequestsAlike == ContentIsResent /\ BasicSentOnce /\ FactoryCalledOnce
=============================================================================
