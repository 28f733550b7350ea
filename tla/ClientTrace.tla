----------------------------- MODULE ClientTrace -----------------------------
(***************************************************************************)
(* The trace of a client's round trips (httpclient/http_trace.go, and      *)
(* setupTraceLevelTransport in transport.go).                              *)
(*                                                                         *)
(* The first Do builds the transport and with it the logger, which keeps   *)
(* the level it was built with.  traceableTransport puts a ClientTrace     *)
(* into the context of a copy of each request; net/http then calls the     *)
(* logger from several goroutines: the one of RoundTrip, and one for each  *)
(* dial, which goes on when RoundTrip got another connection meanwhile.    *)
(* Within one RoundTrip net/http asks for a connection again when one that *)
(* it reused turns out to be closed.                                       *)
(*                                                                         *)
(* A level is the set of its bits.                                         *)
(***************************************************************************)
EXTENDS Naturals, Sequences, SequencesExt, TLC

CONSTANTS
    Levels,    \* levels that are set
    Headers,   \* names of header fields that a request has
    Pseudo,    \* those that begin with ":" (HTTP/2)
    Addresses, \* round trips whose host is an IP address, not a name
    MaxTrips,  \* bound: round trips
    MaxRetries \* bound: how often a request is tried again on another connection

\* What a line says: an event of the round trip, or one field of its header.
\* "Reused" is a GotConn line with "reused" in it.
Events == {"StartRequest", "GetConn", "GotConn", "Reused", "Got1xxResponse", "StatusCode",
           "responseHeaders", "GenericError", "Redirected", "RedirectError"}

ASSUME PseudoAssumption == Pseudo \subseteq Headers
ASSUME HeadersAssumption == Headers \cap Events = {}
ASSUME TripsAssumption == MaxTrips \in Nat /\ MaxRetries \in Nat

(***************************************************************************)
(* Levels                                                                  *)
(***************************************************************************)
Components == {"connections", "requestHeaders", "dns", "tls", "http1xx", "requestBody",
               "responseStatus", "responseHeaders", "redirects"}

TraceOff     == {}
TraceOn      == {"requestHeaders", "responseStatus", "responseHeaders"}
TraceVerbose == TraceOn \cup {"connections", "dns", "tls", "http1xx", "redirects"}
\* Fault: the mask has a bit beyond the last component.
TraceDebugShifted == TraceVerbose \cup {"bit9"}

TraceDebug == TraceVerbose \cup {"requestBody"}

ASSUME LevelsAssumption == Levels \subseteq SUBSET Components

\* traceString and traceEnum.
TraceNames ==
    << <<"debug", TraceDebug>>, <<"verbose", TraceVerbose>>, <<"on", TraceOn>>,
       <<"connections", {"connections"}>>, <<"requestHeaders", {"requestHeaders"}>>,
       <<"dns", {"dns"}>>, <<"tls", {"tls"}>>, <<"http1xx", {"http1xx"}>>,
       <<"requestBody", {"requestBody"}>>, <<"responseStatus", {"responseStatus"}>>,
       <<"responseHeaders", {"responseHeaders"}>>, <<"redirects", {"redirects"}>>,
       <<"off", TraceOff>> >>

\* indexTraceString, and TraceLevel.Set of names that are known.
IndexOf(name) == CHOOSE i \in DOMAIN TraceNames : TraceNames[i][1] = name
LevelSet(names) == UNION {TraceNames[IndexOf(names[i])][2] : i \in DOMAIN names}

\* Fault: a name is taken when the level has some of its components.
LevelStringSome(level) ==
    LET Take(acc, entry) ==
            IF entry[2] \cap acc.rest # {}
            THEN [rest |-> acc.rest \ entry[2], names |-> Append(acc.names, entry[1])]
            ELSE acc
    IN  IF level = TraceOff THEN <<"off">>
        ELSE FoldLeft(Take, [rest |-> level, names |-> <<>>], TraceNames).names

\* TraceLevel.String takes every name whose components are all left.
LevelString(level) ==
    LET Take(acc, entry) ==
            IF entry[2] # {} /\ entry[2] \subseteq acc.rest
            THEN [rest |-> acc.rest \ entry[2], names |-> Append(acc.names, entry[1])]
            ELSE acc
    IN  IF level = TraceOff THEN <<"off">>
        ELSE FoldLeft(Take, [rest |-> level, names |-> <<>>], TraceNames).names

\* bind.Occurrences of --verbose.
Verbose == <<TraceOn, TraceVerbose, TraceVerbose, TraceDebug>>

VARIABLES
    level,    \* c.traceLevel
    logger,   \* "none", "nop", or the logger of a level
    flags,    \* defaultTraceLogger.flags
    pc,       \* where the goroutine of RoundTrip stands
    trip,     \* the number of round trips so far
    attempt,  \* the number of times that these needed a connection
    reused,   \* whether the last connection had been used before
    traces,   \* ClientTraces in the context of c.Request
    dials,    \* dials that run: the attempt and what comes next
    unsent,   \* header fields of the request that were not written
    out,      \* history: the lines of the goroutine of RoundTrip
    dialed    \* history: how often each line of each dial was printed, at any time

vars == <<level, logger, flags, pc, trip, attempt, reused, traces, dials, unsent, out, dialed>>

\* The handshake with the server through an HTTPS proxy reads like the one with
\* the proxy before it; here it has a name of its own.
DialLines == {"DNSStart", "DNSDone", "TLSHandshakeStart", "TLSHandshakeDone",
              "TunnelHandshakeStart", "TunnelHandshakeDone"}

Init ==
    /\ level  = TraceOff
    /\ logger = "none"
    /\ flags  = TraceOff
    /\ pc     = "idle"
    /\ trip    = 0
    /\ attempt = 0
    /\ reused  = FALSE
    /\ traces = 0
    /\ dials  = {}
    /\ unsent = {}
    /\ out    = <<>>
    /\ dialed = [n \in 1..MaxTrips + MaxRetries |-> [kind \in DialLines |-> 0]]

Line(kind) == [trip |-> trip, attempt |-> attempt, kind |-> kind]

\* The logger is called by RoundTrip and by CheckRedirect.
Logs(kinds) ==
    out' = IF logger = "nop" THEN out
           ELSE out \o [i \in DOMAIN kinds |-> Line(kinds[i])]

\* The logger is called by the ClientTraces of a request: the one that RoundTrip
\* added, and those that c.Request had.
Enabled(component) == logger # "nop" /\ component \in flags
Traced(component, kind) ==
    out' = IF Enabled(component) THEN out \o [i \in 1..traces + 1 |-> Line(kind)] ELSE out

Goto(label) == pc' = label

(***************************************************************************)
(* The level, and the logger                                               *)
(***************************************************************************)
\* SetTraceLevel, by --trace or by a program that uses the client.
SetTraceLevel ==
    /\ pc = "idle" /\ trip < MaxTrips
    /\ level' \in Levels
    /\ UNCHANGED <<logger, flags, pc, trip, attempt, reused, traces, dials, unsent, out, dialed>>

\* --verbose, before the first Do.
SetVerbose ==
    /\ pc = "idle" /\ trip = 0
    /\ \E n \in DOMAIN Verbose : level' = Verbose[n]
    /\ UNCHANGED <<logger, flags, pc, trip, attempt, reused, traces, dials, unsent, out, dialed>>

\* Called when the transport is built, by the first Do.
SetupTraceLevelTransport ==
    IF logger # "none" THEN UNCHANGED <<logger, flags>>
    ELSE /\ logger' = IF level = TraceOff THEN "nop" ELSE "level"
         /\ flags' = level

Do ==
    /\ pc = "idle" /\ trip < MaxTrips
    /\ SetupTraceLevelTransport
    /\ Goto("start") /\ trip' = trip + 1 /\ attempt' = attempt + 1
    /\ UNCHANGED <<level, reused, traces, dials, unsent, out, dialed>>

(***************************************************************************)
(* RoundTrip                                                               *)
(***************************************************************************)
\* Fault: the trace is put into the context of c.Request.
StartRequestShared ==
    /\ pc = "start"
    /\ Logs(<<"StartRequest">>)
    /\ Goto("getConn") /\ unsent' = Headers
    /\ traces' = traces + 1
    /\ UNCHANGED <<level, logger, flags, trip, attempt, reused, dials, dialed>>

\* The ClientTrace goes into the context of a copy of the request: that of
\* c.Request, which all locations and redirects share, stays as it is.
StartRequest ==
    /\ pc = "start"
    /\ Logs(<<"StartRequest">>)
    /\ Goto("getConn") /\ unsent' = Headers
    /\ UNCHANGED <<level, logger, flags, trip, attempt, reused, traces, dials, dialed>>

\* Unless a connection is idle, a dial starts; an address needs no DNS.
GetConn ==
    /\ pc = "getConn"
    /\ Traced("connections", "GetConn")
    /\ Goto("gotConn")
    /\ \/ LET first == IF trip \in Addresses THEN "Connect" ELSE "DNSStart"
          IN  dials' = dials \cup {[attempt |-> attempt, next |-> first]}
       \/ trip > 1 /\ UNCHANGED dials
    /\ UNCHANGED <<level, logger, flags, trip, attempt, reused, traces, unsent, dialed>>

\* A connection is dialled or becomes idle; one that another attempt dialled
\* counts as reused.
GotConn ==
    /\ pc = "gotConn"
    /\ \/ \E d \in dials : /\ d.next = "ready" /\ dials' = dials \ {d}
                           /\ reused' = (d.attempt # attempt)
       \/ trip > 1 /\ reused' = TRUE /\ UNCHANGED dials
    /\ Traced("connections", IF reused' THEN "Reused" ELSE "GotConn")
    /\ Goto("write")
    /\ UNCHANGED <<level, logger, flags, trip, attempt, traces, unsent, dialed>>

\* Pseudo-headers are filtered out.
WroteHeaderField ==
    /\ pc = "write"
    /\ \E key \in unsent :
          /\ unsent' = unsent \ {key}
          /\ IF key \in Pseudo THEN UNCHANGED out ELSE Traced("requestHeaders", key)
    /\ UNCHANGED <<level, logger, flags, pc, trip, attempt, reused, traces, dials, dialed>>

\* Wait100Continue and WroteRequest print nothing.
WroteRequest ==
    /\ pc = "write" /\ unsent = {}
    /\ Goto("read")
    /\ UNCHANGED <<level, logger, flags, trip, attempt, reused, traces, dials, unsent, out, dialed>>

\* Fault: what was sent on a new connection may be sent again, too.
RetryAlways ==
    /\ pc \in {"write", "read"} /\ attempt < trip + MaxRetries
    /\ Goto("getConn") /\ attempt' = attempt + 1 /\ unsent' = Headers
    /\ UNCHANGED <<level, logger, flags, trip, reused, traces, dials, out, dialed>>

\* The server has closed the connection that was reused, and net/http begins
\* anew with another one.  The logger is not told.
Retry ==
    /\ pc \in {"write", "read"} /\ reused /\ attempt < trip + MaxRetries
    /\ Goto("getConn") /\ attempt' = attempt + 1 /\ unsent' = Headers
    /\ UNCHANGED <<level, logger, flags, trip, reused, traces, dials, out, dialed>>

Got1xxResponse ==
    /\ pc = "read"
    /\ Traced("http1xx", "Got1xxResponse")
    /\ Goto("final")
    /\ UNCHANGED <<level, logger, flags, trip, attempt, reused, traces, dials, unsent, dialed>>

\* ResponseDone logs the status whatever the level, or the error.
ResponseDone ==
    /\ \/ pc \in {"read", "final"} /\ Goto("responded")
          /\ Logs(IF "responseHeaders" \in flags THEN <<"StatusCode", "responseHeaders">>
                  ELSE <<"StatusCode">>)
       \/ pc \in {"getConn", "gotConn", "write", "read", "final"} /\ Goto("idle")
          /\ Logs(<<"GenericError">>)
    /\ UNCHANGED <<level, logger, flags, trip, attempt, reused, traces, dials, unsent, dialed>>

\* Redirected, by CheckRedirect with what the policy says: an error, that it
\* wants the last response for one, is followed by the redirect all the same.
Redirected ==
    /\ pc = "responded"
    /\ \E refused \in BOOLEAN :
          /\ refused \/ trip < MaxTrips
          /\ IF "redirects" \in flags
             THEN Logs(IF refused THEN <<"RedirectError", "Redirected">> ELSE <<"Redirected">>)
             ELSE UNCHANGED out
          /\ IF refused THEN Goto("idle") /\ UNCHANGED <<trip, attempt>>
             ELSE Goto("start") /\ trip' = trip + 1 /\ attempt' = attempt + 1
    /\ UNCHANGED <<level, logger, flags, reused, traces, dials, unsent, dialed>>

NotRedirected ==
    /\ pc = "responded"
    /\ Goto("idle")
    /\ UNCHANGED <<level, logger, flags, trip, attempt, reused, traces, dials, unsent, out, dialed>>

(***************************************************************************)
(* Dials                                                                   *)
(***************************************************************************)
dialUnchanged == UNCHANGED <<level, logger, flags, pc, trip, attempt, reused, traces, unsent, out>>

\* Plain HTTP needs no TLS, and HTTPS through an HTTPS proxy needs it twice.
Following ==
    [DNSStart |-> {"DNSDone"}, DNSDone |-> {"Connect"},
     Connect  |-> {"TLSHandshakeStart", "ready"},
     TLSHandshakeStart    |-> {"TLSHandshakeDone"},
     TLSHandshakeDone     |-> {"TunnelHandshakeStart", "ready"},
     TunnelHandshakeStart |-> {"TunnelHandshakeDone"},
     TunnelHandshakeDone  |-> {"ready"}]

ComponentOf == [DNSStart |-> "dns", DNSDone |-> "dns",
                TLSHandshakeStart    |-> "tls", TLSHandshakeDone    |-> "tls",
                TunnelHandshakeStart |-> "tls", TunnelHandshakeDone |-> "tls"]

\* ConnectStart and ConnectDone print nothing.
TracedDial(d) ==
    dialed' = IF d.next \in DialLines /\ Enabled(ComponentOf[d.next])
              THEN [dialed EXCEPT ![d.attempt][d.next] = @ + traces + 1] ELSE dialed

DialStep ==
    /\ \E d \in dials :
          /\ d.next # "ready"
          /\ \E n \in Following[d.next] : dials' = (dials \ {d}) \cup {[d EXCEPT !.next = n]}
          /\ TracedDial(d)
    /\ dialUnchanged

\* An error of DNS goes to the standard output, others are not logged; a failed
\* handshake is logged as if it were done.
DialFails ==
    /\ \E d \in dials :
          /\ dials' = dials \ {d}
          /\ IF d.next \in {"TLSHandshakeDone", "TunnelHandshakeDone"}
             THEN TracedDial(d) ELSE UNCHANGED dialed
    /\ dialUnchanged

RoundTrip ==
    \/ StartRequest \/ GetConn \/ GotConn \/ WroteHeaderField \/ WroteRequest \/ Retry
    \/ Got1xxResponse \/ ResponseDone \/ Redirected \/ NotRedirected

Next == SetTraceLevel \/ SetVerbose \/ Do \/ RoundTrip \/ DialStep \/ DialFails

Spec == Init /\ [][Next]_vars

-----------------------------------------------------------------------------
(***************************************************************************)
(* Properties                                                              *)
(***************************************************************************)
Attempts == 1..MaxTrips + MaxRetries
Lines == [trip : 1..MaxTrips, attempt : Attempts, kind : Events \cup Headers]
Dials == [attempt : Attempts, next : DOMAIN Following \cup {"ready"}]

\* Every variable holds a value of its type.
TypeOK ==
    /\ level \subseteq Components /\ flags \subseteq Components
    /\ logger \in {"none", "nop", "level"}
    /\ pc \in {"idle", "start", "getConn", "gotConn", "write", "read", "final", "responded"}
    /\ trip \in 0..MaxTrips /\ attempt \in trip..trip + MaxRetries /\ reused \in BOOLEAN
    /\ traces \in Nat /\ unsent \subseteq Headers
    /\ dials \subseteq Dials /\ out \in Seq(Lines)
    /\ dialed \in [Attempts -> [DialLines -> Nat]]

\* What TraceLevel.String writes, Set reads back: for every level the same
\* components, none of them named twice.
LevelsReadBack ==
    trip = 0 /\ pc = "idle" => \A l \in SUBSET Components :
        LET names == LevelString(l)
        IN  /\ LevelSet(names) = l
            /\ \A i, j \in DOMAIN names : i # j =>
                  TraceNames[IndexOf(names[i])][2] \cap TraceNames[IndexOf(names[j])][2] = {}

\* What an attempt logs; the rest is logged for the round trip.
OfAttempt == {"GetConn", "GotConn", "Reused"} \cup Headers
Twins(a, b) ==
    /\ a.kind = b.kind
    /\ IF a.kind \in OfAttempt THEN a.attempt = b.attempt ELSE a.trip = b.trip

\* However many requests and redirects share the context of c.Request, nothing
\* is logged twice: the request and the response once for a round trip,
\* connection and header once for each time that it needed a connection, and
\* what a dial does once for the dial, though this may shake hands with a proxy
\* and with the server.
EventsOnce ==
    /\ \A i, j \in DOMAIN out :
          Twins(out[i], out[j]) /\ out[i].kind # "Got1xxResponse" => i = j
    /\ \A n \in Attempts : \A kind \in DialLines : dialed[n][kind] <= 1

\* The trace can be read: a round trip begins with its StartRequest, and when
\* the next one begins, its status or its error is there.  (Lines of a dial may
\* come at any time after the StartRequest.)  When it asks for a connection
\* again, the line of the last one said that it was reused.
Logged(lines, last, t, kinds) ==
    \E i \in 1..last : lines[i].trip = t /\ lines[i].kind \in kinds

Reuse(lines, last, n) == \E i \in 1..last : lines[i].attempt = n /\ lines[i].kind = "Reused"

TripsInOrder ==
    \A j \in DOMAIN out :
        /\ Logged(out, j, out[j].trip, {"StartRequest"})
        /\ out[j].kind = "StartRequest" /\ out[j].trip > 1 =>
              Logged(out, j, out[j].trip - 1, {"StatusCode", "GenericError"})
        /\ out[j].kind \in {"Redirected", "RedirectError"} =>
              Logged(out, j, out[j].trip, {"StatusCode"})
        /\ out[j].kind = "GetConn" /\ Logged(out, j - 1, out[j].trip, {"GetConn"}) =>
              Reuse(out, j, out[j].attempt - 1)

Needs == [GetConn |-> "connections", GotConn |-> "connections", Reused |-> "connections",
          Got1xxResponse |-> "http1xx", responseHeaders |-> "responseHeaders",
          Redirected |-> "redirects", RedirectError |-> "redirects"]

\* "TraceOff causes all tracing to be switched off": the level at the first Do
\* decides for all later ones what is logged, whatever is set afterwards.  Every
\* level but TraceOff has the request line, the status and errors.
FirstLevelHolds ==
    /\ logger # "level" => out = <<>>
    /\ \A i \in DOMAIN out :
          LET kind == out[i].kind
          IN  /\ kind \in DOMAIN Needs => Needs[kind] \in flags
              /\ kind \in Headers => "requestHeaders" \in flags /\ kind \notin Pseudo
    /\ \A n \in Attempts : \A kind \in DialLines :
          dialed[n][kind] > 0 => ComponentOf[kind] \in flags

\* What is logged can be read as the course of the requests, at the level that
\* was chosen: no event twice, none out of place, and none of a component that
\* the level does not have, but for the status.
TraceReadable == EventsOnce /\ TripsInOrder /\ FirstLevelHolds

\* "Trace level components, which enumerates the various parts of the roundtrip
\* to trace": the status of a response is logged if the level has it.  The code
\* logs it at every level.
StatusAsked == \A i \in DOMAIN out : out[i].kind = "StatusCode" => "responseStatus" \in flags
=============================================================================
