-------------------------- MODULE ClientTraceProofs --------------------------
(***************************************************************************)
(* The safety of ClientTrace, for every set of levels and of header fields *)
(* and every number of round trips and of retries.                         *)
(***************************************************************************)
EXTENDS ClientTrace, SequenceTheorems, TLAPS

\* Until the first Do nothing is logged, and a nop logger never logs.
LoggerInv ==
    /\ traces = 0
    /\ pc # "idle" => logger # "none" /\ trip > 0
    /\ logger = "none" => trip = 0 /\ attempt = 0
    /\ logger = "nop" => flags = {}

\* What the current round trip, and attempt, may have logged when RoundTrip
\* stands at pc.
Sent == Headers \ unsent
SoFar ==
    CASE pc = "start"     -> {}
      [] pc = "getConn"   -> {"StartRequest"}
      [] pc = "gotConn"   -> {"StartRequest", "GetConn"}
      [] pc \in {"write", "read"} -> {"StartRequest", "GetConn", "GotConn", "Reused"} \cup Sent
      [] pc = "final"     -> {"StartRequest", "GetConn", "GotConn", "Reused",
                              "Got1xxResponse"} \cup Sent
      [] pc = "responded" -> {"StartRequest", "GetConn", "GotConn", "Reused", "Got1xxResponse",
                              "StatusCode", "responseHeaders"} \cup Sent
      [] pc = "idle"      -> Events \cup Headers

Current(line) == IF line.kind \in OfAttempt THEN line.attempt = attempt ELSE line.trip = trip

LinesInv ==
    \A i \in DOMAIN out :
        /\ out[i].trip <= trip /\ out[i].attempt <= attempt
        /\ Current(out[i]) => out[i].kind \in SoFar
        /\ pc = "start" => out[i].trip < trip

\* A connection is asked for again only when the last one was logged as reused.
RetryInv ==
    Enabled("connections") =>
        /\ pc = "getConn" => \/ ~Logged(out, Len(out), trip, {"GetConn"})
                             \/ Reuse(out, Len(out), attempt - 1)
        /\ pc \in {"write", "read"} /\ reused => Reuse(out, Len(out), attempt)

\* What it must have logged, and the one before it.
MarksInv ==
    logger = "level" =>
        /\ pc \notin {"idle", "start"} => Logged(out, Len(out), trip, {"StartRequest"})
        /\ pc = "responded" => Logged(out, Len(out), trip, {"StatusCode"})
        /\ pc = "idle" => Logged(out, Len(out), trip, {"StatusCode", "GenericError"})
        /\ pc = "start" /\ trip > 1 => Logged(out, Len(out), trip - 1, {"StatusCode", "GenericError"})

\* The lines that a dial has still before it.
Ahead(next) ==
    CASE next = "DNSStart"          -> DialLines
      [] next = "DNSDone"           -> DialLines \ {"DNSStart"}
      [] next \in {"Connect", "TLSHandshakeStart"} -> DialLines \ {"DNSStart", "DNSDone"}
      [] next = "TLSHandshakeDone"  -> {"TLSHandshakeDone", "TunnelHandshakeStart", "TunnelHandshakeDone"}
      [] next = "TunnelHandshakeStart" -> {"TunnelHandshakeStart", "TunnelHandshakeDone"}
      [] next = "TunnelHandshakeDone"  -> {"TunnelHandshakeDone"}
      [] next = "ready"             -> {}

\* An attempt starts one dial at most, which prints every line at most once.
DialsInv ==
    /\ \A d \in dials : d.attempt <= attempt /\ (pc \in {"start", "getConn"} => d.attempt # attempt)
    /\ \A d, e \in dials : d.attempt = e.attempt => d = e
    /\ \A d \in dials : \A kind \in Ahead(d.next) : dialed[d.attempt][kind] = 0
    /\ \A t \in Attempts : \A kind \in DialLines :
          t > attempt \/ (t = attempt /\ pc \in {"start", "getConn"}) => dialed[t][kind] = 0

IInv ==
    /\ TypeOK
    /\ LoggerInv /\ LinesInv /\ MarksInv /\ RetryInv /\ DialsInv
    /\ EventsOnce /\ TripsInOrder /\ FirstLevelHolds

-----------------------------------------------------------------------------
Kinds == Events \cup Headers

\* The logger printed a line of the current round trip for each of kinds.
Appended(kinds) ==
    /\ out' \in Seq(Lines)
    /\ Len(out') = Len(out) + Len(kinds)
    /\ \A i \in 1..Len(out) : out'[i] = out[i]
    /\ \A i \in 1..Len(kinds) : out'[Len(out) + i] = Line(kinds[i])

LEMMA AppendedByConcat ==
  ASSUME TypeOK, NEW kinds \in Seq(Kinds), NEW new \in Seq(Lines),
         out' = out \o new, Len(new) = Len(kinds),
         \A i \in 1..Len(kinds) : new[i] = Line(kinds[i])
  PROVE  Appended(kinds)
  <1>1. out \in Seq(Lines)
    BY DEF TypeOK
  <1>2. /\ out \o new \in Seq(Lines)
        /\ Len(out \o new) = Len(out) + Len(new)
        /\ \A i \in 1..Len(out) + Len(new) :
              (out \o new)[i] = IF i <= Len(out) THEN out[i] ELSE new[i - Len(out)]
    BY <1>1, ConcatProperties, Zenon
  <1>3. Len(out) \in Nat /\ Len(kinds) \in Nat
    BY <1>1, LenProperties
  <1> QED BY <1>2, <1>3 DEF Appended

LEMMA AppendedNothing ==
  ASSUME TypeOK, UNCHANGED out
  PROVE  Appended(<<>>)
  BY DEF Appended, TypeOK

LEMMA LogsAppends ==
  ASSUME TypeOK, trip > 0, NEW kinds \in Seq(Kinds), logger # "nop", Logs(kinds)
  PROVE  Appended(kinds)
  <1> DEFINE new == [i \in DOMAIN kinds |-> Line(kinds[i])]
  <1>1. /\ Len(kinds) \in Nat /\ DOMAIN kinds = 1..Len(kinds)
        /\ \A i \in 1..Len(kinds) : kinds[i] \in Kinds
    BY LenProperties, ElementOfSeq
  <1>2. \A i \in 1..Len(kinds) : Line(kinds[i]) \in Lines
    BY <1>1, TripsAssumption DEF TypeOK, Line, Lines, Kinds, Attempts
  <1>3. new \in [1..Len(kinds) -> Lines]
    BY <1>1, <1>2
  <1>4. new \in Seq(Lines)
    BY <1>1, <1>3, SeqDef
  <1>5. Len(new) = Len(kinds)
    BY <1>1, <1>3, <1>4, LenProperties
  <1>6. out' = out \o new
    BY DEF Logs
  <1>7. \A i \in 1..Len(kinds) : new[i] = Line(kinds[i])
    BY <1>1
  <1> HIDE DEF new
  <1> QED BY <1>4, <1>5, <1>6, <1>7, AppendedByConcat

LEMMA TracedAppends ==
  ASSUME TypeOK, traces = 0, trip > 0, NEW component, NEW kind \in Kinds,
         Traced(component, kind)
  PROVE  Appended(IF Enabled(component) THEN <<kind>> ELSE <<>>)
  <1>1. CASE ~Enabled(component)
    BY <1>1, AppendedNothing DEF Traced
  <1>2. CASE Enabled(component)
    <2> DEFINE new == [i \in 1..traces + 1 |-> Line(kind)]
    <2>1. Line(kind) \in Lines
      BY TripsAssumption DEF TypeOK, Line, Lines, Kinds, Attempts
    <2>2. new \in [1..1 -> Lines] /\ new[1] = Line(kind)
      BY <2>1
    <2>3. new \in Seq(Lines)
      BY <2>2, SeqDef
    <2>4. Len(new) = 1
      BY <2>2, <2>3, LenProperties
    <2>5. out' = out \o new
      BY <1>2 DEF Traced
    <2> HIDE DEF new
    <2>6. /\ <<kind>> \in Seq(Kinds) /\ Len(<<kind>>) = 1
          /\ \A i \in 1..1 : new[i] = Line(<<kind>>[i])
      BY <2>2
    <2>7. Appended(<<kind>>)
      BY <2>3, <2>4, <2>5, <2>6, AppendedByConcat
    <2> QED BY <1>2, <2>7
  <1> QED BY <1>1, <1>2

\* What was logged stays logged.
LEMMA LoggedStays ==
  ASSUME TypeOK, NEW kinds \in Seq(Kinds), Appended(kinds), NEW t, NEW S,
         NEW last \in 0..Len(out), Logged(out, last, t, S),
         NEW more \in last..Len(out')
  PROVE  Logged(out', more, t, S)
  <1>1. Len(out) \in Nat /\ Len(out') \in Nat
    BY LenProperties DEF TypeOK, Appended
  <1>2. PICK i \in 1..last : out[i].trip = t /\ out[i].kind \in S
    BY DEF Logged
  <1>3. i \in 1..more /\ i \in 1..Len(out)
    BY <1>1, <1>2
  <1>4. out'[i] = out[i]
    BY <1>3 DEF Appended
  <1> QED BY <1>2, <1>3, <1>4 DEF Logged

\* A new line is logged.
LEMMA LoggedNew ==
  ASSUME TypeOK, NEW kinds \in Seq(Kinds), Appended(kinds), NEW S,
         NEW i \in 1..Len(kinds), kinds[i] \in S,
         NEW last \in Len(out) + i..Len(out')
  PROVE  Logged(out', last, trip, S)
  <1>1. Len(out) \in Nat /\ Len(kinds) \in Nat
    BY LenProperties DEF TypeOK
  <1>2. out'[Len(out) + i] = Line(kinds[i])
    BY DEF Appended
  <1>3. Len(out) + i \in 1..last
    BY <1>1
  <1> QED BY <1>2, <1>3 DEF Logged, Line

\* The line of a connection that was used before stays, or is logged.
LEMMA ReuseStays ==
  ASSUME TypeOK, NEW kinds \in Seq(Kinds), Appended(kinds), NEW n,
         NEW last \in 0..Len(out), Reuse(out, last, n),
         NEW more \in last..Len(out')
  PROVE  Reuse(out', more, n)
  <1>1. Len(out) \in Nat /\ Len(out') \in Nat
    BY LenProperties DEF TypeOK, Appended
  <1>2. PICK i \in 1..last : out[i].attempt = n /\ out[i].kind = "Reused"
    BY DEF Reuse
  <1>3. i \in 1..more /\ i \in 1..Len(out)
    BY <1>1, <1>2
  <1>4. out'[i] = out[i]
    BY <1>3 DEF Appended
  <1> QED BY <1>2, <1>3, <1>4 DEF Reuse

LEMMA ReuseNew ==
  ASSUME TypeOK, NEW kinds \in Seq(Kinds), Appended(kinds),
         NEW i \in 1..Len(kinds), kinds[i] = "Reused"
  PROVE  Reuse(out', Len(out'), attempt)
  <1>1. Len(out) \in Nat /\ Len(kinds) \in Nat /\ Len(out') = Len(out) + Len(kinds)
    BY LenProperties DEF TypeOK, Appended
  <1>2. out'[Len(out) + i] = Line(kinds[i])
    BY DEF Appended
  <1>3. Len(out) + i \in 1..Len(out')
    BY <1>1
  <1> QED BY <1>2, <1>3 DEF Reuse, Line

\* The lines that a step adds must be new, in their place and asked for.
Fresh(kinds) ==
    /\ \A i \in 1..Len(kinds) : kinds[i] \notin SoFar \/ kinds[i] = "Got1xxResponse"
    /\ \A i, j \in 1..Len(kinds) : kinds[i] = kinds[j] => i = j

Placed(kinds) ==
    \A i \in 1..Len(kinds) :
        /\ kinds[i] # "StartRequest" => Logged(out, Len(out), trip, {"StartRequest"})
        /\ kinds[i] = "StartRequest" /\ trip > 1 =>
              Logged(out, Len(out), trip - 1, {"StatusCode", "GenericError"})
        /\ kinds[i] \in {"Redirected", "RedirectError"} =>
              Logged(out, Len(out), trip, {"StatusCode"})
        /\ kinds[i] = "GetConn" =>
              /\ i = 1
              /\ Logged(out, Len(out), trip, {"GetConn"}) => Reuse(out, Len(out), attempt - 1)

Asked(kinds) ==
    \A i \in 1..Len(kinds) :
        /\ logger = "level"
        /\ kinds[i] \in DOMAIN Needs => Needs[kinds[i]] \in flags
        /\ kinds[i] \in Headers => "requestHeaders" \in flags /\ kinds[i] \notin Pseudo

Splits(kinds) ==
    \A j \in DOMAIN out' :
        \/ j \in DOMAIN out /\ out'[j] = out[j]
        \/ \E i \in 1..Len(kinds) : j = Len(out) + i /\ out'[j] = Line(kinds[i])

LEMMA AppendedSplits ==
  ASSUME TypeOK, NEW kinds \in Seq(Kinds), Appended(kinds)
  PROVE  /\ Splits(kinds)
         /\ DOMAIN out = 1..Len(out) /\ DOMAIN out' = 1..Len(out')
         /\ Len(out) \in Nat /\ Len(kinds) \in Nat /\ Len(out') = Len(out) + Len(kinds)
  <1>1. /\ DOMAIN out = 1..Len(out) /\ DOMAIN out' = 1..Len(out')
        /\ Len(out) \in Nat /\ Len(kinds) \in Nat /\ Len(out') = Len(out) + Len(kinds)
    BY LenProperties DEF TypeOK, Appended
  <1>2. ASSUME NEW j \in DOMAIN out', j \notin DOMAIN out
        PROVE  \E i \in 1..Len(kinds) : j = Len(out) + i /\ out'[j] = Line(kinds[i])
    <2>1. j - Len(out) \in 1..Len(kinds) /\ j = Len(out) + (j - Len(out))
      BY <1>1, <1>2
    <2> QED BY <2>1 DEF Appended
  <1>3. \A j \in DOMAIN out : out'[j] = out[j]
    BY <1>1 DEF Appended
  <1> QED BY <1>1, <1>2, <1>3 DEF Splits

\* Nothing is logged twice by a step that logs what is fresh.
LEMMA EventsKept ==
  ASSUME TypeOK, LinesInv, NEW kinds \in Seq(Kinds), Appended(kinds), Fresh(kinds),
         \A i, j \in DOMAIN out : Twins(out[i], out[j]) /\ out[i].kind # "Got1xxResponse" => i = j
  PROVE  \A i, j \in DOMAIN out' :
            Twins(out'[i], out'[j]) /\ out'[i].kind # "Got1xxResponse" => i = j
  <1> SUFFICES ASSUME NEW i \in DOMAIN out', NEW j \in DOMAIN out',
                      Twins(out'[i], out'[j]), out'[i].kind # "Got1xxResponse"
               PROVE  i = j
    OBVIOUS
  <1>1. Splits(kinds)
    BY AppendedSplits
  <1>2. ASSUME NEW a \in DOMAIN out, NEW b \in 1..Len(kinds),
               Twins(out[a], Line(kinds[b])), out[a].kind # "Got1xxResponse"
        PROVE  FALSE
    <2>1. out[a].kind = kinds[b] /\ Current(out[a])
      BY <1>2 DEF Twins, Line, Current
    <2> QED BY <1>2, <2>1 DEF LinesInv, Fresh
  <1>3. CASE i \in DOMAIN out /\ j \in DOMAIN out
    <2>1. out'[i] = out[i] /\ out'[j] = out[j]
      BY <1>3, AppendedSplits DEF Appended
    <2> QED BY <1>3, <2>1
  <1>4. CASE i \in DOMAIN out /\ j \notin DOMAIN out
    <2>1. out'[i] = out[i]
      BY <1>4, AppendedSplits DEF Appended
    <2>2. PICK b \in 1..Len(kinds) : out'[j] = Line(kinds[b])
      BY <1>1, <1>4 DEF Splits
    <2> QED BY <1>2, <1>4, <2>1, <2>2
  <1>5. CASE i \notin DOMAIN out /\ j \in DOMAIN out
    <2>1. out'[j] = out[j]
      BY <1>5, AppendedSplits DEF Appended
    <2>2. PICK b \in 1..Len(kinds) : out'[i] = Line(kinds[b])
      BY <1>1, <1>5 DEF Splits
    <2>3. Twins(out[j], Line(kinds[b])) /\ out[j].kind # "Got1xxResponse"
      BY <2>1, <2>2 DEF Twins
    <2> QED BY <1>2, <1>5, <2>3
  <1>6. CASE i \notin DOMAIN out /\ j \notin DOMAIN out
    <2>1. PICK a \in 1..Len(kinds) : i = Len(out) + a /\ out'[i] = Line(kinds[a])
      BY <1>1, <1>6 DEF Splits
    <2>2. PICK b \in 1..Len(kinds) : j = Len(out) + b /\ out'[j] = Line(kinds[b])
      BY <1>1, <1>6 DEF Splits
    <2>3. kinds[a] = kinds[b]
      BY <2>1, <2>2 DEF Line, Twins
    <2> QED BY <2>1, <2>2, <2>3 DEF Fresh
  <1> QED BY <1>3, <1>4, <1>5, <1>6

\* The trace stays in order when a step puts its lines in their place.
LEMMA OrderKept ==
  ASSUME TypeOK, NEW kinds \in Seq(Kinds), Appended(kinds), Placed(kinds), TripsInOrder
  PROVE  TripsInOrder'
  <1> SUFFICES ASSUME NEW j \in DOMAIN out'
               PROVE  /\ Logged(out', j, out'[j].trip, {"StartRequest"})
                      /\ out'[j].kind = "StartRequest" /\ out'[j].trip > 1 =>
                            Logged(out', j, out'[j].trip - 1, {"StatusCode", "GenericError"})
                      /\ out'[j].kind \in {"Redirected", "RedirectError"} =>
                            Logged(out', j, out'[j].trip, {"StatusCode"})
                      /\ out'[j].kind = "GetConn" /\ Logged(out', j - 1, out'[j].trip, {"GetConn"}) =>
                            Reuse(out', j, out'[j].attempt - 1)
    BY DEF TripsInOrder
  <1>1. /\ Splits(kinds) /\ DOMAIN out = 1..Len(out) /\ DOMAIN out' = 1..Len(out')
        /\ Len(out) \in Nat /\ Len(kinds) \in Nat /\ Len(out') = Len(out) + Len(kinds)
    BY AppendedSplits
  <1>2. ASSUME NEW last \in 0..Len(out), NEW t, NEW S, Logged(out', last, t, S)
        PROVE  Logged(out, last, t, S)
    <2>1. PICK i \in 1..last : out'[i].trip = t /\ out'[i].kind \in S
      BY <1>2 DEF Logged
    <2>2. i \in 1..Len(out)
      BY <1>1, <2>1
    <2>3. out'[i] = out[i]
      BY <2>2 DEF Appended
    <2> QED BY <2>1, <2>3 DEF Logged
  <1>3. CASE j \in DOMAIN out
    <2>1. /\ out'[j] = out[j] /\ j \in 0..Len(out) /\ j \in j..Len(out')
          /\ j - 1 \in 0..Len(out)
      BY <1>1, <1>3 DEF Appended
    <2>2. /\ Logged(out', j, out[j].trip, {"StartRequest"})
          /\ out[j].kind = "StartRequest" /\ out[j].trip > 1 =>
                Logged(out', j, out[j].trip - 1, {"StatusCode", "GenericError"})
          /\ out[j].kind \in {"Redirected", "RedirectError"} =>
                Logged(out', j, out[j].trip, {"StatusCode"})
      BY <1>3, <2>1, LoggedStays DEF TripsInOrder
    <2>3. ASSUME out[j].kind = "GetConn", Logged(out', j - 1, out[j].trip, {"GetConn"})
          PROVE  Reuse(out', j, out[j].attempt - 1)
      <3>1. Logged(out, j - 1, out[j].trip, {"GetConn"})
        BY <1>2, <2>1, <2>3
      <3>2. Reuse(out, j, out[j].attempt - 1)
        BY <1>3, <2>3, <3>1 DEF TripsInOrder
      <3> QED BY <2>1, <3>2, ReuseStays
    <2> QED BY <2>1, <2>2, <2>3
  <1>4. CASE j \notin DOMAIN out
    <2>1. PICK i \in 1..Len(kinds) : j = Len(out) + i /\ out'[j] = Line(kinds[i])
      BY <1>1, <1>4 DEF Splits
    <2>2. /\ out'[j].trip = trip /\ out'[j].kind = kinds[i]
          /\ Len(out) \in 0..Len(out) /\ j \in Len(out)..Len(out') /\ j \in Len(out) + i..Len(out')
      BY <1>1, <2>1 DEF Line
    <2>3. Logged(out', j, trip, {"StartRequest"})
      BY <2>2, LoggedStays, LoggedNew DEF Placed
    <2>4. kinds[i] = "StartRequest" /\ trip > 1 =>
             Logged(out', j, trip - 1, {"StatusCode", "GenericError"})
      BY <2>2, LoggedStays DEF Placed
    <2>5. kinds[i] \in {"Redirected", "RedirectError"} => Logged(out', j, trip, {"StatusCode"})
      BY <2>2, LoggedStays DEF Placed
    <2>6. ASSUME kinds[i] = "GetConn", Logged(out', j - 1, trip, {"GetConn"})
          PROVE  Reuse(out', j, attempt - 1)
      <3>1. j - 1 = Len(out) /\ Len(out) \in 0..Len(out)
        BY <1>1, <2>1, <2>6 DEF Placed
      <3>2. Reuse(out, Len(out), attempt - 1)
        BY <1>2, <2>6, <3>1 DEF Placed
      <3> QED BY <2>2, <3>2, ReuseStays
    <2>7. out'[j].attempt = attempt
      BY <2>1 DEF Line
    <2> QED BY <2>2, <2>3, <2>4, <2>5, <2>6, <2>7
  <1> QED BY <1>3, <1>4

\* Lines that were asked for are of the logger's level.
LEMMA LevelKept ==
  ASSUME TypeOK, NEW kinds \in Seq(Kinds), Appended(kinds), Asked(kinds), FirstLevelHolds,
         UNCHANGED <<logger, flags, dialed>>
  PROVE  FirstLevelHolds'
  <1>1. /\ Splits(kinds) /\ DOMAIN out = 1..Len(out) /\ DOMAIN out' = 1..Len(out')
        /\ Len(out) \in Nat /\ Len(kinds) \in Nat /\ Len(out') = Len(out) + Len(kinds)
    BY AppendedSplits
  <1>2. logger' # "level" => out' = <<>>
    <2>1. SUFFICES ASSUME logger # "level" PROVE out' = <<>>
      OBVIOUS
    <2>2. out = <<>> /\ Len(out) = 0
      BY <2>1 DEF FirstLevelHolds
    <2>3. Len(kinds) = 0
      BY <1>1, <2>1 DEF Asked
    <2>4. out' \in Seq(Lines) /\ Len(out') = 0
      BY <1>1, <2>2, <2>3 DEF Appended
    <2> QED BY <2>4, EmptySeq
  <1>3. ASSUME NEW j \in DOMAIN out'
        PROVE  /\ out'[j].kind \in DOMAIN Needs => Needs[out'[j].kind] \in flags
               /\ out'[j].kind \in Headers => "requestHeaders" \in flags /\ out'[j].kind \notin Pseudo
    <2>1. CASE j \in DOMAIN out /\ out'[j] = out[j]
      BY <2>1 DEF FirstLevelHolds
    <2>2. ASSUME NEW i \in 1..Len(kinds), out'[j] = Line(kinds[i])
          PROVE  /\ out'[j].kind \in DOMAIN Needs => Needs[out'[j].kind] \in flags
                 /\ out'[j].kind \in Headers => "requestHeaders" \in flags /\ out'[j].kind \notin Pseudo
      <3>1. out'[j].kind = kinds[i]
        BY <2>2 DEF Line
      <3> QED BY <3>1 DEF Asked
    <2> QED BY <1>1, <1>3, <2>1, <2>2 DEF Splits
  <1>4. \A t \in Attempts : \A kind \in DialLines : dialed'[t][kind] > 0 => ComponentOf[kind] \in flags
    BY DEF FirstLevelHolds
  <1> QED BY <1>2, <1>3, <1>4 DEF FirstLevelHolds

-----------------------------------------------------------------------------
(***************************************************************************)
(* The invariant holds in the initial state, and every step keeps it.      *)
(***************************************************************************)
LEMMA InitInv == Init => IInv
  <1> SUFFICES ASSUME Init PROVE IInv
    OBVIOUS
  <1> USE TripsAssumption DEF Init
  <1>1. TypeOK
    <2>1. dialed \in [Attempts -> [DialLines -> Nat]]
      BY DEF Attempts
    <2>2. attempt \in trip..trip + MaxRetries /\ trip \in 0..MaxTrips
      OBVIOUS
    <2>3. /\ level \subseteq Components /\ flags \subseteq Components
          /\ dials \subseteq Dials /\ out \in Seq(Lines)
      BY DEF TraceOff
    <2>4. /\ logger = "none" /\ pc = "idle" /\ reused = FALSE /\ traces \in Nat
          /\ unsent \subseteq Headers
      OBVIOUS
    <2> HIDE DEF Init
    <2> QED BY <2>1, <2>2, <2>3, <2>4 DEF TypeOK
  <1>2. LoggerInv /\ LinesInv /\ MarksInv /\ RetryInv
    BY DEF LoggerInv, LinesInv, MarksInv, RetryInv, TraceOff
  <1>3. DialsInv
    BY DEF DialsInv, Attempts
  <1>4. EventsOnce /\ TripsInOrder /\ FirstLevelHolds
    BY DEF EventsOnce, TripsInOrder, FirstLevelHolds, Attempts
  <1> QED BY <1>1, <1>2, <1>3, <1>4 DEF IInv

\* A step that logs nothing and leaves the logger and what is dialled alone.
LEMMA SilentKeeps ==
  ASSUME IInv, UNCHANGED <<logger, flags, out, dialed>>
  PROVE  EventsOnce' /\ TripsInOrder' /\ FirstLevelHolds'
  BY DEF IInv, EventsOnce, TripsInOrder, FirstLevelHolds

\* A line is of a round trip, of an attempt, and of a kind.
LEMMA LinesTyped ==
  ASSUME TypeOK
  PROVE  \A i \in DOMAIN out :
            out[i].trip \in Nat /\ out[i].attempt \in Nat /\ out[i].kind \in Kinds
  <1>1. \A i \in DOMAIN out : out[i] \in Lines
    BY LenProperties, ElementOfSeq DEF TypeOK
  <1> QED BY <1>1, TripsAssumption DEF Lines, Kinds, Attempts

\* A setter changes nothing but the level.
LEMMA SettersKeep ==
  ASSUME IInv, SetTraceLevel \/ SetVerbose
  PROVE  IInv'
  <1> USE DEF IInv
  <1>1. /\ level' \subseteq Components
        /\ UNCHANGED <<logger, flags, pc, trip, attempt, reused, traces, dials, unsent, out, dialed>>
    <2>1. CASE SetTraceLevel
      BY <2>1, LevelsAssumption DEF SetTraceLevel
    <2>2. CASE SetVerbose
      <3>1. \A i \in DOMAIN Verbose : Verbose[i] \subseteq Components
        BY DEF Verbose, TraceOn, TraceVerbose, TraceDebug, Components
      <3> QED BY <2>2, <3>1 DEF SetVerbose
    <2> QED BY <2>1, <2>2
  <1>2. TypeOK'
    BY <1>1 DEF TypeOK
  <1>3. LoggerInv' /\ LinesInv' /\ MarksInv' /\ RetryInv' /\ DialsInv'
    BY <1>1 DEF LoggerInv, LinesInv, MarksInv, RetryInv, Enabled, DialsInv, SoFar, Sent, Current
  <1> QED BY <1>1, <1>2, <1>3, SilentKeeps

\* The first Do fixes the level of the logger, before anything is logged.
LEMMA DoKeeps ==
  ASSUME IInv, Do
  PROVE  IInv'
  <1> USE DEF IInv
  <1>1. /\ pc = "idle" /\ pc' = "start" /\ trip' = trip + 1 /\ trip \in 0..MaxTrips /\ trip < MaxTrips
        /\ attempt' = attempt + 1 /\ attempt \in Nat
        /\ UNCHANGED <<level, reused, traces, dials, unsent, out, dialed>>
        /\ IF logger # "none" THEN UNCHANGED <<logger, flags>>
           ELSE logger' = (IF level = TraceOff THEN "nop" ELSE "level") /\ flags' = level
    BY TripsAssumption DEF Do, SetupTraceLevelTransport, Goto, TypeOK
  <1>2. TypeOK'
    BY <1>1, TripsAssumption DEF TypeOK
  <1>3. LoggerInv'
    BY <1>1, <1>2 DEF LoggerInv, TraceOff
  <1>4. LinesInv'
    <2>1. \A i \in DOMAIN out : /\ out[i].trip <= trip /\ out[i].trip \in Nat
                                /\ out[i].attempt <= attempt /\ out[i].attempt \in Nat
      BY LinesTyped DEF LinesInv
    <2>2. \A i \in DOMAIN out : out[i].trip < trip' /\ out[i].attempt < attempt'
      BY <1>1, <2>1
    <2>3. \A i \in DOMAIN out : /\ out[i].trip <= trip' /\ out[i].attempt <= attempt'
                                /\ out[i].trip # trip' /\ out[i].attempt # attempt'
      BY <1>1, <2>1, <2>2
    <2> QED BY <1>1, <2>2, <2>3 DEF LinesInv, Current
  <1>5. MarksInv'
    <2>1. logger = "level" => Logged(out, Len(out), trip, {"StatusCode", "GenericError"})
      BY <1>1 DEF MarksInv
    <2>2. logger' = "level" /\ logger # "level" => trip = 0
      BY <1>1 DEF LoggerInv, TypeOK
    <2> QED BY <1>1, <2>1, <2>2 DEF MarksInv
  <1>6. DialsInv' /\ RetryInv'
    BY <1>1, TripsAssumption DEF DialsInv, RetryInv, TypeOK, Dials, Attempts
  <1>7. EventsOnce' /\ TripsInOrder'
    BY <1>1 DEF EventsOnce, TripsInOrder
  <1>8. FirstLevelHolds'
    <2>1. CASE logger = "none"
      <3>1. out = <<>> /\ attempt = 0
        BY <2>1 DEF FirstLevelHolds, LoggerInv
      <3>2. \A t \in Attempts : \A kind \in DialLines : dialed[t][kind] = 0
        BY <3>1, TripsAssumption DEF DialsInv, Attempts
      <3> QED BY <1>1, <3>1, <3>2 DEF FirstLevelHolds
    <2>2. CASE logger # "none"
      BY <1>1, <2>2 DEF FirstLevelHolds
    <2> QED BY <2>1, <2>2
  <1> QED BY <1>2, <1>3, <1>4, <1>5, <1>6, <1>7, <1>8

\* A step that logs lines which are fresh, in their place and asked for.
LEMMA LinesKeep ==
  ASSUME IInv, NEW kinds \in Seq(Kinds), Appended(kinds),
         Fresh(kinds), Placed(kinds), Asked(kinds),
         UNCHANGED <<logger, flags, dialed>>,
         \/ trip' = trip + 1 /\ attempt' = attempt + 1
         \/ /\ trip' = trip /\ attempt' = attempt /\ pc' # "start" /\ SoFar \subseteq SoFar'
            /\ \A i \in 1..Len(kinds) : kinds[i] \in SoFar'
  PROVE  LinesInv' /\ EventsOnce' /\ TripsInOrder' /\ FirstLevelHolds'
  <1> USE DEF IInv
  <1>1. LinesInv'
    <2> DEFINE Settled(line) ==
                  /\ line.trip <= trip' /\ line.attempt <= attempt'
                  /\ (IF line.kind \in OfAttempt THEN line.attempt = attempt' ELSE line.trip = trip')
                        => line.kind \in SoFar'
                  /\ pc' = "start" => line.trip < trip'
    <2>1. Splits(kinds) /\ trip \in Nat /\ attempt \in Nat
      BY AppendedSplits, TripsAssumption DEF TypeOK
    <2>2. ASSUME NEW line, line.trip \in Nat, line.attempt \in Nat,
                 line.trip <= trip, line.attempt <= attempt,
                 \/ Current(line) => line.kind \in SoFar
                 \/ \E i \in 1..Len(kinds) : line.kind = kinds[i]
          PROVE  Settled(line)
      <3>1. CASE trip' = trip + 1 /\ attempt' = attempt + 1
        <4>1. line.trip < trip' /\ line.attempt < attempt'
          BY <2>1, <2>2, <3>1
        <4>2. line.trip # trip' /\ line.attempt # attempt'
          BY <2>1, <2>2, <3>1
        <4> QED BY <2>1, <2>2, <3>1, <4>1, <4>2 DEF Current
      <3>2. CASE /\ trip' = trip /\ attempt' = attempt /\ pc' # "start" /\ SoFar \subseteq SoFar'
                 /\ \A i \in 1..Len(kinds) : kinds[i] \in SoFar'
        BY <2>2, <3>2 DEF Current
      <3> QED BY <3>1, <3>2
    <2> HIDE DEF Settled
    <2>3. ASSUME NEW j \in DOMAIN out' PROVE Settled(out'[j])
      <3>1. CASE j \in DOMAIN out /\ out'[j] = out[j]
        <4>1. /\ out[j].trip \in Nat /\ out[j].trip <= trip
              /\ out[j].attempt \in Nat /\ out[j].attempt <= attempt
              /\ Current(out[j]) => out[j].kind \in SoFar
          BY <3>1, LinesTyped DEF LinesInv
        <4> QED BY <2>2, <3>1, <4>1
      <3>2. ASSUME NEW i \in 1..Len(kinds), out'[j] = Line(kinds[i])
            PROVE  Settled(out'[j])
        <4>1. out'[j].trip = trip /\ out'[j].attempt = attempt /\ out'[j].kind = kinds[i]
          BY <3>2 DEF Line
        <4> QED BY <2>1, <2>2, <4>1
      <3> QED BY <2>1, <2>3, <3>1, <3>2 DEF Splits
    <2> QED BY <2>3 DEF LinesInv, Settled, Current
  <1>2. EventsOnce'
    BY EventsKept DEF EventsOnce
  <1> QED BY <1>1, <1>2, OrderKept, LevelKept

\* Such a step keeps the marks of a round trip that goes on.
LEMMA MarksKeep ==
  ASSUME IInv, NEW kinds \in Seq(Kinds), Appended(kinds), UNCHANGED <<logger, trip>>,
         pc \notin {"idle", "start"} \/ pc' = "idle",
         pc' \notin {"start", "responded"},
         pc' = "idle" => \/ logger # "level"
                        \/ Logged(out', Len(out'), trip, {"StatusCode", "GenericError"})
  PROVE  MarksInv'
  <1> SUFFICES ASSUME logger = "level", pc' # "idle"
               PROVE  Logged(out', Len(out'), trip, {"StartRequest"})
    BY DEF MarksInv
  <1>1. Len(out) \in 0..Len(out) /\ Len(out') \in Len(out)..Len(out')
    BY AppendedSplits DEF IInv
  <1>2. Logged(out, Len(out), trip, {"StartRequest"})
    BY DEF IInv, MarksInv
  <1> QED BY <1>1, <1>2, LoggedStays DEF IInv

\* An event of a ClientTrace, in the middle of a round trip.
LEMMA TracedKeeps ==
  ASSUME IInv, NEW component, NEW kind \in Kinds, Traced(component, kind),
         UNCHANGED <<logger, flags, trip, attempt, dialed>>,
         pc \notin {"idle", "start"}, pc' \notin {"idle", "start", "responded"},
         SoFar \subseteq SoFar', kind \in SoFar',
         kind \notin SoFar \/ kind = "Got1xxResponse",
         kind \notin {"StartRequest", "Redirected", "RedirectError"},
         kind = "GetConn" /\ Enabled(component) =>
            ~Logged(out, Len(out), trip, {"GetConn"}) \/ Reuse(out, Len(out), attempt - 1),
         kind \in DOMAIN Needs => Needs[kind] = component,
         kind \in Headers => component = "requestHeaders" /\ kind \notin Pseudo
  PROVE  /\ out' \in Seq(Lines)
         /\ LinesInv' /\ MarksInv' /\ EventsOnce' /\ TripsInOrder' /\ FirstLevelHolds'
  <1> USE DEF IInv
  <1> DEFINE kinds == IF Enabled(component) THEN <<kind>> ELSE <<>>
  <1>1. kinds \in Seq(Kinds) /\ Len(kinds) \in {0, 1} /\ \A i \in 1..Len(kinds) : kinds[i] = kind
    OBVIOUS
  <1>2. Len(kinds) = 1 => component \in flags /\ logger = "level" /\ Enabled(component)
    BY DEF Enabled, LoggerInv, TypeOK
  <1>3. traces = 0 /\ trip > 0
    BY TripsAssumption DEF LoggerInv, TypeOK
  <1>4. Appended(kinds)
    BY <1>3, TracedAppends
  <1> HIDE DEF kinds
  <1>5. \A i \in 1..Len(kinds) : kinds[i] = kind /\ i = 1 /\ Len(kinds) = 1
    BY <1>1
  <1>6. Fresh(kinds)
    BY <1>5 DEF Fresh
  <1>7. Placed(kinds)
    BY <1>2, <1>5 DEF Placed, MarksInv
  <1>8. Asked(kinds)
    BY <1>2, <1>5 DEF Asked
  <1>9. out' \in Seq(Lines)
    BY <1>4 DEF Appended
  <1> QED BY <1>1, <1>4, <1>5, <1>6, <1>7, <1>8, <1>9, LinesKeep, MarksKeep

\* The dials, when a step leaves them alone and the round trip does not go back.
LEMMA DialsKeep ==
  ASSUME IInv, UNCHANGED <<dials, dialed>>,
         \/ attempt' = attempt /\ (pc' \in {"start", "getConn"} => pc \in {"start", "getConn"})
         \/ attempt' = attempt + 1
  PROVE  DialsInv'
  <1> USE DEF IInv
  <1>1. \A d \in dials : d.attempt \in Nat /\ d.attempt <= attempt
    BY TripsAssumption DEF TypeOK, Dials, DialsInv, Attempts
  <1>2. attempt \in Nat
    BY TripsAssumption DEF TypeOK
  <1>3. \A t \in Attempts : t >= attempt + 1 => t > attempt
    BY <1>2, TripsAssumption DEF Attempts
  <1> QED BY <1>1, <1>2, <1>3, TripsAssumption DEF DialsInv, Attempts

\* The line of the request is the first of its round trip.
LEMMA StartRequestKeeps ==
  ASSUME IInv, StartRequest
  PROVE  IInv'
  <1> USE DEF IInv
  <1>1. /\ pc = "start" /\ pc' = "getConn" /\ unsent' = Headers
        /\ UNCHANGED <<level, logger, flags, trip, attempt, reused, traces, dials, dialed>>
    BY DEF StartRequest, Goto
  <1>2. trip > 0 /\ logger # "none" /\ trip \in Nat
    BY <1>1, TripsAssumption DEF LoggerInv, TypeOK
  <1>3. LoggerInv' /\ DialsInv'
    BY <1>1, DialsKeep DEF LoggerInv
  <1>4. CASE logger = "nop"
    <2>1. out' = out
      BY <1>4 DEF StartRequest, Logs
    <2>2. TypeOK' /\ MarksInv' /\ RetryInv'
      BY <1>1, <1>4, <2>1 DEF TypeOK, MarksInv, RetryInv, Enabled
    <2>3. LinesInv'
      BY <1>1, <2>1 DEF LinesInv, SoFar, Current
    <2> QED BY <1>1, <1>3, <2>1, <2>2, <2>3, SilentKeeps
  <1>5. CASE logger = "level"
    <2> DEFINE kinds == <<"StartRequest">>
    <2>1. kinds \in Seq(Kinds) /\ Len(kinds) = 1 /\ kinds[1] = "StartRequest"
      BY DEF Kinds, Events
    <2>2. Appended(kinds)
      BY <1>2, <1>5, <2>1, LogsAppends DEF StartRequest
    <2> HIDE DEF kinds
    <2>3. \A i \in 1..Len(kinds) : i = 1 /\ kinds[i] = "StartRequest"
      BY <2>1
    <2>4. Fresh(kinds) /\ Placed(kinds)
      BY <1>1, <1>5, <2>3 DEF Fresh, Placed, SoFar, MarksInv
    <2>5. Asked(kinds)
      BY <1>5, <2>3, HeadersAssumption DEF Asked, Needs, Events
    <2>6. SoFar \subseteq SoFar' /\ \A i \in 1..Len(kinds) : kinds[i] \in SoFar'
      BY <1>1, <2>3 DEF SoFar
    <2>7. LinesInv' /\ EventsOnce' /\ TripsInOrder' /\ FirstLevelHolds'
      BY <1>1, <2>1, <2>2, <2>4, <2>5, <2>6, LinesKeep
    <2>8. TypeOK'
      BY <1>1, <2>2 DEF TypeOK, Appended
    <2>9. MarksInv'
      <3>1. Len(out) \in Nat /\ Len(out') = Len(out) + Len(kinds)
        BY <2>1, <2>2, AppendedSplits
      <3> HIDE DEF IInv
      <3>3. Len(out') \in Len(out) + 1..Len(out') /\ 1 \in 1..Len(kinds)
        BY <2>1, <3>1
      <3>2. Logged(out', Len(out'), trip, {"StartRequest"})
        BY <2>1, <2>2, <3>3, LoggedNew DEF IInv
      <3> QED BY <1>1, <3>2 DEF MarksInv
    <2>10. RetryInv'
      <3>1. \A j \in 1..Len(out') : out'[j].trip = trip => out'[j].kind # "GetConn"
        <4>1. ASSUME NEW j \in DOMAIN out', out'[j].trip = trip PROVE out'[j].kind # "GetConn"
          <5>1. ASSUME j \in DOMAIN out, out'[j] = out[j] PROVE FALSE
            <6>1. out[j].trip < trip /\ out[j].trip \in Nat
              BY <1>1, <5>1, LinesTyped DEF LinesInv
            <6> QED BY <1>2, <4>1, <5>1, <6>1
          <5>2. Splits(kinds)
            BY <2>1, <2>2, AppendedSplits
          <5>3. \E i \in 1..Len(kinds) : out'[j] = Line(kinds[i])
            BY <4>1, <5>1, <5>2 DEF Splits
          <5> QED BY <2>3, <5>3 DEF Line
        <4>2. DOMAIN out' = 1..Len(out')
          BY <2>1, <2>2, AppendedSplits
        <4> QED BY <4>1, <4>2
      <3> QED BY <1>1, <3>1 DEF RetryInv, Logged
    <2> QED BY <1>3, <2>7, <2>8, <2>9, <2>10
  <1> QED BY <1>2, <1>4, <1>5 DEF TypeOK

\* A connection is asked for, and a dial perhaps started: the first one of
\* this attempt.
LEMMA GetConnKeeps ==
  ASSUME IInv, GetConn
  PROVE  IInv'
  <1> USE DEF IInv
  <1>1. /\ pc = "getConn" /\ pc' = "gotConn" /\ Traced("connections", "GetConn")
        /\ UNCHANGED <<level, logger, flags, trip, attempt, reused, traces, unsent, dialed>>
    BY DEF GetConn, Goto
  <1>2. attempt \in Attempts /\ trip \in 1..MaxTrips /\ attempt \in Nat
    BY <1>1, TripsAssumption DEF LoggerInv, TypeOK, Attempts
  <1>3. /\ SoFar \subseteq SoFar' /\ "GetConn" \in SoFar' /\ "GetConn" \notin SoFar
        /\ "GetConn" \in Kinds /\ "GetConn" \notin Headers
        /\ "GetConn" \in DOMAIN Needs => Needs["GetConn"] = "connections"
    BY <1>1, HeadersAssumption DEF SoFar, Kinds, Events, Needs
  <1>4. Enabled("connections") =>
           ~Logged(out, Len(out), trip, {"GetConn"}) \/ Reuse(out, Len(out), attempt - 1)
    BY <1>1 DEF RetryInv
  <1>5. /\ out' \in Seq(Lines)
        /\ LinesInv' /\ MarksInv' /\ EventsOnce' /\ TripsInOrder' /\ FirstLevelHolds'
    BY <1>1, <1>3, <1>4, TracedKeeps
  <1>6. RetryInv'
    BY <1>1 DEF RetryInv
  <1>7. CASE UNCHANGED dials
    BY <1>1, <1>5, <1>7, <1>6, DialsKeep DEF TypeOK, LoggerInv
  <1>8. ASSUME NEW first \in {"DNSStart", "Connect"},
               dials' = dials \cup {[attempt |-> attempt, next |-> first]}
        PROVE  IInv'
    <2> DEFINE dial == [attempt |-> attempt, next |-> first]
    <2>1. dial \in Dials /\ dial.attempt = attempt /\ dial.next = first
      BY <1>2 DEF Dials, Following
    <2>2. dials' = dials \cup {dial}
      BY <1>8
    <2> HIDE DEF dial
    <2>3. TypeOK' /\ LoggerInv'
      BY <1>1, <1>5, <2>1, <2>2 DEF TypeOK, LoggerInv
    <2>4. \A d \in dials : d.attempt # attempt /\ d.attempt <= attempt
      BY <1>1 DEF DialsInv
    <2>5. \A kind \in DialLines : dialed[attempt][kind] = 0
      BY <1>1, <1>2 DEF DialsInv
    <2>6. Ahead(first) \subseteq DialLines
      BY DEF Ahead, DialLines
    <2>7. DialsInv'
      <3>1. (\A d \in dials : d.attempt <= attempt /\ (pc \in {"start", "getConn"} => d.attempt # attempt))'
        BY <1>1, <1>2, <2>1, <2>2, <2>4
      <3>2. (\A d, e \in dials : d.attempt = e.attempt => d = e)'
        BY <2>1, <2>2, <2>4 DEF DialsInv
      <3>3. (\A d \in dials : \A kind \in Ahead(d.next) : dialed[d.attempt][kind] = 0)'
        BY <1>1, <2>1, <2>2, <2>5, <2>6 DEF DialsInv
      <3>4. (\A t \in Attempts : \A kind \in DialLines :
               t > attempt \/ (t = attempt /\ pc \in {"start", "getConn"}) => dialed[t][kind] = 0)'
        BY <1>1 DEF DialsInv
      <3> QED BY <3>1, <3>2, <3>3, <3>4 DEF DialsInv
    <2> QED BY <1>5, <1>6, <2>3, <2>7
  <1> QED BY <1>7, <1>8 DEF GetConn

\* A connection is got, and with it a dial ends, if one is used.
LEMMA GotConnKeeps ==
  ASSUME IInv, GotConn
  PROVE  IInv'
  <1> USE DEF IInv
  <1> DEFINE kind == IF reused' THEN "Reused" ELSE "GotConn"
  <1>1. /\ pc = "gotConn" /\ pc' = "write" /\ Traced("connections", kind)
        /\ UNCHANGED <<level, logger, flags, trip, attempt, traces, unsent, dialed>>
        /\ dials' \subseteq dials /\ reused' \in BOOLEAN
    BY DEF GotConn, Goto
  <1>2. kind \in {"GotConn", "Reused"} /\ (reused' => kind = "Reused")
    OBVIOUS
  <1> HIDE DEF kind
  <1>3. /\ SoFar \subseteq SoFar' /\ kind \in SoFar' /\ kind \notin SoFar
        /\ kind \in Kinds /\ kind \notin Headers
        /\ kind \notin {"StartRequest", "Redirected", "RedirectError", "GetConn"}
        /\ kind \in DOMAIN Needs => Needs[kind] = "connections"
    BY <1>1, <1>2, HeadersAssumption DEF SoFar, Kinds, Events, Needs
  <1>4. /\ out' \in Seq(Lines)
        /\ LinesInv' /\ MarksInv' /\ EventsOnce' /\ TripsInOrder' /\ FirstLevelHolds'
    BY <1>1, <1>3, TracedKeeps
  <1>5. TypeOK' /\ LoggerInv' /\ DialsInv'
    BY <1>1, <1>4 DEF TypeOK, LoggerInv, DialsInv
  <1>6. RetryInv'
    <2> SUFFICES ASSUME reused', Enabled("connections")
                 PROVE  Reuse(out', Len(out'), attempt)
      BY <1>1 DEF RetryInv, Enabled
    <2>1. traces = 0 /\ trip > 0
      BY <1>1 DEF LoggerInv
    <2> DEFINE kinds == <<kind>>
    <2>2. kinds \in Seq(Kinds) /\ 1 \in 1..Len(kinds) /\ kinds[1] = "Reused"
      BY <1>2, <1>3
    <2>3. Appended(kinds)
      BY <1>1, <1>3, <2>1, TracedAppends
    <2> HIDE DEF kinds
    <2> QED BY <2>2, <2>3, ReuseNew
  <1> QED BY <1>4, <1>5, <1>6

\* A field of the header that is written leaves those that are not.
LEMMA WroteHeaderFieldKeeps ==
  ASSUME IInv, WroteHeaderField
  PROVE  IInv'
  <1> USE DEF IInv
  <1>1. PICK key \in unsent :
           /\ unsent' = unsent \ {key}
           /\ IF key \in Pseudo THEN UNCHANGED out ELSE Traced("requestHeaders", key)
    BY DEF WroteHeaderField
  <1>2. /\ pc = "write" /\ key \in Headers
        /\ UNCHANGED <<level, logger, flags, pc, trip, attempt, reused, traces, dials, dialed>>
    BY <1>1 DEF WroteHeaderField, TypeOK
  <1>3. /\ SoFar \subseteq SoFar' /\ key \in SoFar' /\ key \notin SoFar /\ key \in Kinds
        /\ key \notin Events
    BY <1>1, <1>2, HeadersAssumption DEF SoFar, Sent, Kinds, Events
  <1>4. LoggerInv' /\ DialsInv'
    BY <1>2, DialsKeep DEF LoggerInv
  <1>5. CASE key \in Pseudo
    <2>1. UNCHANGED out
      BY <1>1, <1>5
    <2>2. TypeOK' /\ LinesInv' /\ MarksInv' /\ RetryInv'
      BY <1>1, <1>2, <1>3, <2>1 DEF TypeOK, LinesInv, MarksInv, RetryInv, Enabled, Current
    <2> QED BY <1>2, <1>4, <2>1, <2>2, SilentKeeps
  <1>6. CASE key \notin Pseudo
    <2>1. Traced("requestHeaders", key)
      BY <1>1, <1>6
    <2>2. /\ key \notin {"StartRequest", "Redirected", "RedirectError", "GetConn"}
          /\ key \notin DOMAIN Needs
      BY <1>3 DEF Events, Needs
    <2>3. /\ out' \in Seq(Lines)
          /\ LinesInv' /\ MarksInv' /\ EventsOnce' /\ TripsInOrder' /\ FirstLevelHolds'
      BY <1>2, <1>3, <1>6, <2>1, <2>2, TracedKeeps
    <2>4. TypeOK'
      BY <1>1, <1>2, <2>3 DEF TypeOK
    <2>5. RetryInv'
      <3> SUFFICES ASSUME reused, Enabled("connections")
                   PROVE  Reuse(out', Len(out'), attempt)
        BY <1>2 DEF RetryInv, Enabled
      <3>1. Reuse(out, Len(out), attempt) /\ traces = 0 /\ trip > 0
        BY <1>2 DEF RetryInv, LoggerInv
      <3> DEFINE kinds == IF Enabled("requestHeaders") THEN <<key>> ELSE <<>>
      <3>2. kinds \in Seq(Kinds)
        BY <1>3
      <3>3. Appended(kinds)
        BY <1>3, <2>1, <3>1, TracedAppends
      <3> HIDE DEF kinds
      <3>4. Len(out) \in 0..Len(out) /\ Len(out') \in Len(out)..Len(out')
        BY <3>2, <3>3, AppendedSplits
      <3> QED BY <3>1, <3>2, <3>3, <3>4, ReuseStays
    <2> QED BY <1>4, <2>3, <2>4, <2>5
  <1> QED BY <1>5, <1>6

\* Steps that log nothing.
LEMMA QuietStepsKeep ==
  ASSUME IInv, WroteRequest \/ NotRedirected
  PROVE  IInv'
  <1> USE DEF IInv
  <1>1. /\ \/ pc = "write" /\ pc' = "read"
           \/ pc = "responded" /\ pc' = "idle"
        /\ UNCHANGED <<level, logger, flags, trip, attempt, reused, traces, dials, unsent, out, dialed>>
    BY DEF WroteRequest, NotRedirected, Goto
  <1>2. TypeOK' /\ LoggerInv' /\ DialsInv' /\ RetryInv'
    BY <1>1, DialsKeep DEF TypeOK, LoggerInv, RetryInv, Enabled
  <1>3. LinesInv'
    <2>1. \A i \in DOMAIN out : out[i].kind \in Kinds
      BY LinesTyped
    <2> QED BY <1>1, <2>1 DEF LinesInv, SoFar, Sent, Kinds, Current
  <1>4. MarksInv'
    BY <1>1 DEF MarksInv, Logged
  <1> QED BY <1>1, <1>2, <1>3, <1>4, SilentKeeps

\* Another attempt begins: the line of the last one's connection says why.
LEMMA RetryKeeps ==
  ASSUME IInv, Retry
  PROVE  IInv'
  <1> USE DEF IInv
  <1>1. /\ pc \in {"write", "read"} /\ reused /\ attempt < trip + MaxRetries
        /\ pc' = "getConn" /\ attempt' = attempt + 1 /\ unsent' = Headers
        /\ UNCHANGED <<level, logger, flags, trip, reused, traces, dials, out, dialed>>
    BY DEF Retry, Goto
  <1>2. trip \in Nat /\ attempt \in Nat /\ attempt \in trip..trip + MaxRetries
    BY TripsAssumption DEF TypeOK
  <1>3. attempt' \in trip..trip + MaxRetries /\ attempt' - 1 = attempt
    BY <1>1, <1>2, TripsAssumption
  <1>4. TypeOK' /\ LoggerInv' /\ DialsInv'
    BY <1>1, <1>3, DialsKeep DEF TypeOK, LoggerInv
  <1>5. LinesInv'
    <2>1. ASSUME NEW i \in DOMAIN out
          PROVE  /\ out[i].trip <= trip /\ out[i].attempt <= attempt'
                 /\ Current(out[i])' => out[i].kind \in SoFar'
      <3>1. /\ out[i].trip <= trip /\ out[i].attempt <= attempt /\ out[i].attempt \in Nat
            /\ Current(out[i]) => out[i].kind \in SoFar
        BY LinesTyped DEF LinesInv
      <3>2. out[i].attempt <= attempt' /\ out[i].attempt # attempt'
        BY <1>1, <1>2, <3>1
      <3>3. out[i].kind \notin OfAttempt /\ out[i].kind \in SoFar => out[i].kind = "StartRequest"
        BY <1>1 DEF SoFar, Sent, OfAttempt
      <3>4. SoFar' = {"StartRequest"}
        BY <1>1 DEF SoFar
      <3> QED BY <1>1, <3>1, <3>2, <3>3, <3>4 DEF Current
    <2> QED BY <1>1, <2>1 DEF LinesInv
  <1>6. MarksInv' /\ RetryInv'
    BY <1>1, <1>3 DEF MarksInv, RetryInv, Enabled
  <1> QED BY <1>1, <1>4, <1>5, <1>6, SilentKeeps

LEMMA Got1xxResponseKeeps ==
  ASSUME IInv, Got1xxResponse
  PROVE  IInv'
  <1> USE DEF IInv
  <1>1. /\ pc = "read" /\ pc' = "final" /\ Traced("http1xx", "Got1xxResponse")
        /\ UNCHANGED <<level, logger, flags, trip, attempt, reused, traces, dials, unsent, dialed>>
    BY DEF Got1xxResponse, Goto
  <1>2. /\ SoFar \subseteq SoFar' /\ "Got1xxResponse" \in SoFar'
        /\ "Got1xxResponse" \in Kinds /\ "Got1xxResponse" \notin Headers
        /\ "Got1xxResponse" \in DOMAIN Needs => Needs["Got1xxResponse"] = "http1xx"
    BY <1>1, HeadersAssumption DEF SoFar, Sent, Kinds, Events, Needs
  <1>3. /\ out' \in Seq(Lines)
        /\ LinesInv' /\ MarksInv' /\ EventsOnce' /\ TripsInOrder' /\ FirstLevelHolds'
    BY <1>1, <1>2, TracedKeeps
  <1>4. TypeOK' /\ LoggerInv' /\ DialsInv' /\ RetryInv'
    BY <1>1, <1>3, DialsKeep DEF TypeOK, LoggerInv, RetryInv
  <1> QED BY <1>3, <1>4

\* The logger is called whatever the level: the nop logger logs nothing.
LEMMA LogsKeeps ==
  ASSUME IInv, NEW kinds \in Seq(Kinds), Logs(kinds), pc # "idle", Fresh(kinds),
         logger = "level" => Placed(kinds) /\ Asked(kinds),
         UNCHANGED <<logger, flags, dialed>>,
         \/ trip' = trip + 1 /\ attempt' = attempt + 1
         \/ /\ trip' = trip /\ attempt' = attempt /\ pc' # "start" /\ SoFar \subseteq SoFar'
            /\ \A i \in 1..Len(kinds) : kinds[i] \in SoFar'
  PROVE  /\ out' \in Seq(Lines) /\ (logger = "level" => Appended(kinds))
         /\ LinesInv' /\ EventsOnce' /\ TripsInOrder' /\ FirstLevelHolds'
  <1> USE DEF IInv
  <1>1. trip > 0 /\ logger \in {"nop", "level"}
    BY DEF LoggerInv, TypeOK
  <1>2. CASE logger = "level"
    <2>1. Appended(kinds)
      BY <1>1, <1>2, LogsAppends
    <2>2. out' \in Seq(Lines)
      BY <2>1 DEF Appended
    <2> QED BY <1>2, <2>1, <2>2, LinesKeep
  <1>3. CASE logger = "nop"
    <2> DEFINE none == <<>>
    <2>1. out' = out
      BY <1>3 DEF Logs
    <2>2. none \in Seq(Kinds) /\ Len(none) = 0 /\ Appended(none)
      BY <2>1, AppendedNothing
    <2> HIDE DEF none
    <2>3. \A i \in 1..Len(none) : FALSE
      BY <2>2
    <2>4. Fresh(none) /\ Placed(none) /\ Asked(none)
      BY <2>3 DEF Fresh, Placed, Asked
    <2>5. LinesInv' /\ EventsOnce' /\ TripsInOrder' /\ FirstLevelHolds'
      BY <2>2, <2>3, <2>4, LinesKeep
    <2>6. out' \in Seq(Lines)
      BY <2>1 DEF TypeOK
    <2> QED BY <1>3, <2>5, <2>6
  <1> QED BY <1>1, <1>2, <1>3

\* A mark that is there stays, and one that is logged is there.
LEMMA MarkStays ==
  ASSUME IInv, NEW kinds \in Seq(Kinds), Appended(kinds), NEW S,
         \/ Logged(out, Len(out), trip, S)
         \/ \E i \in 1..Len(kinds) : kinds[i] \in S
  PROVE  Logged(out', Len(out'), trip, S)
  <1>1. Len(out) \in Nat /\ Len(kinds) \in Nat /\ Len(out') = Len(out) + Len(kinds)
    BY AppendedSplits DEF IInv
  <1>2. CASE Logged(out, Len(out), trip, S)
    <2>1. Len(out) \in 0..Len(out) /\ Len(out') \in Len(out)..Len(out')
      BY <1>1
    <2> QED BY <1>2, <2>1, LoggedStays DEF IInv
  <1>3. ASSUME NEW i \in 1..Len(kinds), kinds[i] \in S
        PROVE  Logged(out', Len(out'), trip, S)
    <2>1. Len(out') \in Len(out) + i..Len(out')
      BY <1>1
    <2> QED BY <1>3, <2>1, LoggedNew DEF IInv
  <1> QED BY <1>2, <1>3

\* A response, or an error, ends the round trip.
LEMMA ResponseDoneKeeps ==
  ASSUME IInv, ResponseDone
  PROVE  IInv'
  <1> USE DEF IInv
  <1>1. UNCHANGED <<level, logger, flags, trip, attempt, reused, traces, dials, unsent, dialed>>
    BY DEF ResponseDone
  <1>2. CASE pc \in {"read", "final"} /\ pc' = "responded" /\
             Logs(IF "responseHeaders" \in flags THEN <<"StatusCode", "responseHeaders">>
                  ELSE <<"StatusCode">>)
    <2>1. PICK kinds \in Seq(Kinds) :
             /\ Logs(kinds) /\ 1 \in 1..Len(kinds) /\ kinds[1] = "StatusCode"
             /\ \A i \in 1..Len(kinds) : \/ i = 1 /\ kinds[i] = "StatusCode"
                                         \/ /\ i = 2 /\ kinds[i] = "responseHeaders"
                                            /\ "responseHeaders" \in flags
      <3>1. CASE "responseHeaders" \in flags
        <4> DEFINE both == <<"StatusCode", "responseHeaders">>
        <4>1. /\ both \in Seq(Kinds) /\ Len(both) = 2
              /\ both[1] = "StatusCode" /\ both[2] = "responseHeaders"
          BY DEF Kinds, Events
        <4>2. Logs(both)
          BY <1>2, <3>1
        <4> HIDE DEF both
        <4>3. \A i \in 1..Len(both) : \/ i = 1 /\ both[i] = "StatusCode"
                                      \/ i = 2 /\ both[i] = "responseHeaders"
          BY <4>1
        <4> QED BY <3>1, <4>1, <4>2, <4>3
      <3>2. CASE "responseHeaders" \notin flags
        <4> DEFINE one == <<"StatusCode">>
        <4>1. one \in Seq(Kinds) /\ Len(one) = 1 /\ one[1] = "StatusCode"
          BY DEF Kinds, Events
        <4>2. Logs(one)
          BY <1>2, <3>2
        <4> HIDE DEF one
        <4>3. \A i \in 1..Len(one) : i = 1 /\ one[i] = "StatusCode"
          BY <4>1
        <4>4. 1 \in 1..Len(one)
          BY <4>1
        <4> USE <4>1
        <4> WITNESS one \in Seq(Kinds)
        <4> QED BY <4>2, <4>3, <4>4
      <3> QED BY <3>1, <3>2
    <2>5. {"StatusCode", "responseHeaders"} \cap (SoFar \cup Headers) = {}
      BY <1>2, HeadersAssumption DEF SoFar, Sent, Events
    <2>6. Fresh(kinds)
      BY <2>1, <2>5 DEF Fresh
    <2>7. logger = "level" => Placed(kinds) /\ Asked(kinds)
      <3>1. logger = "level" => Logged(out, Len(out), trip, {"StartRequest"})
        BY <1>2 DEF MarksInv
      <3>2. /\ "StatusCode" \notin DOMAIN Needs /\ Needs["responseHeaders"] = "responseHeaders"
            /\ "StatusCode" \notin Headers /\ "responseHeaders" \notin Headers
        BY <2>5 DEF Needs
      <3>3. ASSUME logger = "level" PROVE Placed(kinds)
        BY <2>1, <3>1, <3>3 DEF Placed
      <3>4. ASSUME logger = "level" PROVE Asked(kinds)
        BY <2>1, <3>2, <3>4 DEF Asked
      <3> QED BY <3>3, <3>4
    <2>8. SoFar \subseteq SoFar' /\ {"StatusCode", "responseHeaders"} \subseteq SoFar'
      BY <1>1, <1>2 DEF SoFar, Sent
    <2>9. /\ out' \in Seq(Lines) /\ (logger = "level" => Appended(kinds))
          /\ LinesInv' /\ EventsOnce' /\ TripsInOrder' /\ FirstLevelHolds'
      BY <1>1, <1>2, <2>1, <2>6, <2>7, <2>8, LogsKeeps
    <2>10. MarksInv'
      <3> SUFFICES ASSUME logger = "level"
                   PROVE  /\ Logged(out', Len(out'), trip, {"StartRequest"})
                          /\ Logged(out', Len(out'), trip, {"StatusCode"})
        BY <1>1, <1>2 DEF MarksInv
      <3>1. Logged(out, Len(out), trip, {"StartRequest"})
        BY <1>2 DEF MarksInv
      <3>2. 1 \in 1..Len(kinds) /\ kinds[1] \in {"StatusCode"}
        BY <2>1
      <3> QED BY <2>1, <2>9, <3>1, <3>2, MarkStays
    <2>11. TypeOK' /\ LoggerInv' /\ DialsInv' /\ RetryInv'
      BY <1>1, <1>2, <2>9, DialsKeep DEF TypeOK, LoggerInv, RetryInv
    <2> QED BY <2>9, <2>10, <2>11
  <1>3. CASE /\ pc \in {"getConn", "gotConn", "write", "read", "final"} /\ pc' = "idle"
             /\ Logs(<<"GenericError">>)
    <2> DEFINE kinds == <<"GenericError">>
    <2>1. kinds \in Seq(Kinds) /\ Len(kinds) = 1 /\ kinds[1] = "GenericError"
      BY DEF Kinds, Events
    <2>2. Logs(kinds)
      BY <1>3
    <2> HIDE DEF kinds
    <2>3. \A i \in 1..Len(kinds) : i = 1 /\ kinds[i] = "GenericError"
      BY <2>1
    <2>4. "GenericError" \notin SoFar /\ "GenericError" \notin Headers
      BY <1>3, HeadersAssumption DEF SoFar, Sent, Events
    <2>5. Fresh(kinds)
      BY <2>3, <2>4 DEF Fresh
    <2>6. logger = "level" => Placed(kinds) /\ Asked(kinds)
      <3>1. logger = "level" => Logged(out, Len(out), trip, {"StartRequest"})
        BY <1>3 DEF MarksInv
      <3>2. "GenericError" \notin DOMAIN Needs
        BY DEF Needs
      <3> QED BY <2>3, <2>4, <3>1, <3>2 DEF Placed, Asked
    <2>7. SoFar \subseteq SoFar' /\ "GenericError" \in SoFar'
      BY <1>1, <1>3 DEF SoFar, Sent, Events
    <2>8. /\ out' \in Seq(Lines) /\ (logger = "level" => Appended(kinds))
          /\ LinesInv' /\ EventsOnce' /\ TripsInOrder' /\ FirstLevelHolds'
      BY <1>1, <1>3, <2>1, <2>2, <2>3, <2>5, <2>6, <2>7, LogsKeeps
    <2>9. MarksInv'
      <3> SUFFICES ASSUME logger = "level"
                   PROVE  Logged(out', Len(out'), trip, {"StatusCode", "GenericError"})
        BY <1>1, <1>3 DEF MarksInv
      <3>1. 1 \in 1..Len(kinds) /\ kinds[1] \in {"StatusCode", "GenericError"}
        BY <2>1
      <3> QED BY <2>1, <2>8, <3>1, MarkStays
    <2>10. TypeOK' /\ LoggerInv' /\ DialsInv' /\ RetryInv'
      BY <1>1, <1>3, <2>8, DialsKeep DEF TypeOK, LoggerInv, RetryInv
    <2> QED BY <2>8, <2>9, <2>10
  <1> QED BY <1>2, <1>3 DEF ResponseDone, Goto

\* A redirect is told, followed or not, and a status is there before it.
LEMMA RedirectedKeeps ==
  ASSUME IInv, Redirected
  PROVE  IInv'
  <1> USE DEF IInv
  <1>1. pc = "responded" /\ UNCHANGED <<level, logger, flags, reused, traces, dials, unsent, dialed>>
    BY DEF Redirected
  <1>2. /\ trip \in 1..MaxTrips
        /\ \/ pc' = "idle" /\ trip' = trip /\ attempt' = attempt
           \/ pc' = "start" /\ trip' = trip + 1 /\ attempt' = attempt + 1 /\ trip < MaxTrips
        /\ attempt \in Nat /\ attempt \in trip..trip + MaxRetries
    BY <1>1, TripsAssumption DEF Redirected, Goto, TypeOK, LoggerInv
  <1>3. PICK kinds \in Seq(Kinds) :
           /\ Logs(kinds)
           /\ \A i \in 1..Len(kinds) :
                 /\ kinds[i] \in {"RedirectError", "Redirected"} /\ "redirects" \in flags
                 /\ \A j \in 1..Len(kinds) : kinds[i] = kinds[j] => i = j
    <2>1. PICK refused \in BOOLEAN :
             IF "redirects" \in flags
             THEN Logs(IF refused THEN <<"RedirectError", "Redirected">> ELSE <<"Redirected">>)
             ELSE UNCHANGED out
      BY DEF Redirected
    <2>2. CASE "redirects" \notin flags
      <3> DEFINE none == <<>>
      <3>1. none \in Seq(Kinds) /\ Len(none) = 0 /\ DOMAIN none = {}
        OBVIOUS
      <3> HIDE DEF none
      <3>2. [i \in DOMAIN none |-> Line(none[i])] = <<>>
        BY <3>1
      <3>3. out \in Seq(Lines)
        BY DEF TypeOK
      <3>4. Logs(none)
        BY <2>1, <2>2, <3>2, <3>3, ConcatEmptySeq DEF Logs
      <3>5. \A i \in 1..Len(none) : FALSE
        BY <3>1
      <3> QED BY <3>1, <3>4, <3>5
    <2>3. CASE "redirects" \in flags /\ refused
      <3> DEFINE both == <<"RedirectError", "Redirected">>
      <3>1. both \in Seq(Kinds) /\ Len(both) = 2 /\ both[1] = "RedirectError" /\ both[2] = "Redirected"
        BY DEF Kinds, Events
      <3>2. Logs(both)
        BY <2>1, <2>3
      <3> HIDE DEF both
      <3>3. \A i \in 1..Len(both) : \/ i = 1 /\ both[i] = "RedirectError"
                                    \/ i = 2 /\ both[i] = "Redirected"
        BY <3>1
      <3> QED BY <2>3, <3>1, <3>2, <3>3
    <2>4. CASE "redirects" \in flags /\ ~refused
      <3> DEFINE one == <<"Redirected">>
      <3>1. one \in Seq(Kinds) /\ Len(one) = 1 /\ one[1] = "Redirected"
        BY DEF Kinds, Events
      <3>2. Logs(one)
        BY <2>1, <2>4
      <3> HIDE DEF one
      <3>3. \A i \in 1..Len(one) : i = 1 /\ one[i] = "Redirected"
        BY <3>1
      <3> QED BY <2>4, <3>1, <3>2, <3>3
    <2> QED BY <2>2, <2>3, <2>4
  <1>4. {"RedirectError", "Redirected"} \cap (SoFar \cup Headers) = {}
    BY <1>1, HeadersAssumption DEF SoFar, Sent, Events
  <1>5. Fresh(kinds)
    BY <1>3, <1>4 DEF Fresh
  <1>6. logger = "level" => Placed(kinds) /\ Asked(kinds)
    <2>1. logger = "level" => /\ Logged(out, Len(out), trip, {"StartRequest"})
                              /\ Logged(out, Len(out), trip, {"StatusCode"})
      BY <1>1 DEF MarksInv
    <2>2. Needs["RedirectError"] = "redirects" /\ Needs["Redirected"] = "redirects"
      BY DEF Needs
    <2>3. logger = "level" => Placed(kinds)
      BY <1>3, <2>1 DEF Placed
    <2>4. logger = "level" => Asked(kinds)
      BY <1>3, <1>4, <2>2 DEF Asked
    <2> QED BY <2>3, <2>4
  <1>7. trip' = trip => SoFar \subseteq SoFar' /\ {"RedirectError", "Redirected"} \subseteq SoFar'
    BY <1>1, <1>2 DEF SoFar, Sent, Events
  <1>8. /\ out' \in Seq(Lines) /\ (logger = "level" => Appended(kinds))
        /\ LinesInv' /\ EventsOnce' /\ TripsInOrder' /\ FirstLevelHolds'
    BY <1>1, <1>2, <1>3, <1>5, <1>6, <1>7, LogsKeeps
  <1>9. MarksInv'
    <2> SUFFICES ASSUME logger = "level"
                 PROVE  Logged(out', Len(out'), trip, {"StatusCode", "GenericError"})
      BY <1>1, <1>2 DEF MarksInv
    <2>1. Logged(out, Len(out), trip, {"StatusCode", "GenericError"})
      BY <1>1 DEF MarksInv, Logged
    <2> QED BY <1>3, <1>8, <2>1, MarkStays
  <1>10. TypeOK' /\ LoggerInv' /\ DialsInv' /\ RetryInv'
    <2>1. DialsInv' /\ RetryInv'
      BY <1>1, <1>2, DialsKeep DEF RetryInv
    <2>2. trip' \in 1..MaxTrips /\ attempt' \in trip'..trip' + MaxRetries
      BY <1>2, TripsAssumption
    <2> QED BY <1>1, <1>2, <1>8, <2>1, <2>2 DEF TypeOK, LoggerInv
  <1> QED BY <1>8, <1>9, <1>10

\* A line of a dial is printed the first time, or not.
LEMMA TracedDialOnce ==
  ASSUME IInv, NEW d \in dials, TracedDial(d)
  PROVE  /\ dialed' \in [Attempts -> [DialLines -> Nat]]
         /\ \A t \in Attempts : \A kind \in DialLines :
               \/ dialed'[t][kind] = dialed[t][kind]
               \/ /\ t = d.attempt /\ kind = d.next
                  /\ dialed'[t][kind] = 1 /\ ComponentOf[kind] \in flags
  <1>1. d.attempt \in Attempts /\ dialed \in [Attempts -> [DialLines -> Nat]] /\ traces = 0
    BY DEF IInv, TypeOK, Dials, LoggerInv
  <1>2. CASE d.next \in DialLines /\ Enabled(ComponentOf[d.next])
    <2>1. dialed' = [dialed EXCEPT ![d.attempt][d.next] = @ + traces + 1]
      BY <1>2 DEF TracedDial
    <2>2. d.next \in Ahead(d.next)
      BY <1>2 DEF DialLines, Ahead
    <2>3. dialed[d.attempt][d.next] = 0
      BY <2>2 DEF IInv, DialsInv
    <2>4. ComponentOf[d.next] \in flags
      BY <1>2 DEF Enabled
    <2> QED BY <1>1, <1>2, <2>1, <2>3, <2>4
  <1>3. CASE ~(d.next \in DialLines /\ Enabled(ComponentOf[d.next]))
    BY <1>1, <1>3 DEF TracedDial
  <1> QED BY <1>2, <1>3

\* The parts of the invariant that a dial does not disturb.
LEMMA DialLeaves ==
  ASSUME IInv, dialUnchanged, dials' \subseteq Dials, NEW d \in dials,
         TracedDial(d) \/ UNCHANGED dialed
  PROVE  /\ TypeOK' /\ LoggerInv' /\ LinesInv' /\ MarksInv'
         /\ RetryInv' /\ EventsOnce' /\ TripsInOrder' /\ FirstLevelHolds'
  <1> USE DEF IInv, dialUnchanged
  <1>1. /\ dialed' \in [Attempts -> [DialLines -> Nat]]
        /\ \A t \in Attempts : \A kind \in DialLines :
              \/ dialed'[t][kind] = dialed[t][kind]
              \/ dialed'[t][kind] = 1 /\ ComponentOf[kind] \in flags
    <2>1. CASE TracedDial(d)
      BY <2>1, TracedDialOnce
    <2>2. CASE UNCHANGED dialed
      BY <2>2 DEF TypeOK
    <2> QED BY <2>1, <2>2
  <1>2. TypeOK' /\ LoggerInv' /\ LinesInv' /\ MarksInv' /\ RetryInv' /\ TripsInOrder'
    BY <1>1 DEF TypeOK, LoggerInv, LinesInv, MarksInv, RetryInv, Enabled, TripsInOrder,
       SoFar, Sent, Current
  <1>3. EventsOnce'
    BY <1>1 DEF EventsOnce
  <1>4. FirstLevelHolds'
    BY <1>1 DEF FirstLevelHolds
  <1> QED BY <1>2, <1>3, <1>4

\* A dial goes on: the lines before it get fewer.
LEMMA DialStepKeeps ==
  ASSUME IInv, DialStep
  PROVE  IInv'
  <1>1. PICK d \in dials :
           /\ d.next # "ready" /\ TracedDial(d)
           /\ \E n \in Following[d.next] : dials' = (dials \ {d}) \cup {[d EXCEPT !.next = n]}
    BY DEF DialStep
  <1>2. PICK n \in Following[d.next] : dials' = (dials \ {d}) \cup {[d EXCEPT !.next = n]}
    BY <1>1
  <1>3. d \in Dials /\ dials \subseteq Dials /\ dialUnchanged
    BY DEF IInv, TypeOK, DialStep
  <1> DEFINE e == [d EXCEPT !.next = n]
  <1>4. n \in DOMAIN Following \cup {"ready"} /\ Ahead(n) \subseteq Ahead(d.next) \ {d.next}
    BY <1>1, <1>3 DEF Dials, Following, Ahead, DialLines
  <1>5. e \in Dials /\ e.attempt = d.attempt /\ e.next = n
    BY <1>3, <1>4 DEF Dials
  <1>6. dials' = (dials \ {d}) \cup {e}
    BY <1>2
  <1> HIDE DEF e
  <1>7. \A t \in Attempts : \A kind \in DialLines :
           dialed'[t][kind] = dialed[t][kind] \/ (t = d.attempt /\ kind = d.next)
    BY <1>1, TracedDialOnce
  <1>8. DialsInv'
    <2> USE DEF IInv, dialUnchanged
    <2>1. (\A f \in dials : f.attempt <= attempt /\ (pc \in {"start", "getConn"} => f.attempt # attempt))'
      BY <1>3, <1>5, <1>6 DEF DialsInv
    <2>2. (\A f, g \in dials : f.attempt = g.attempt => f = g)'
      BY <1>5, <1>6 DEF DialsInv
    <2>3. ASSUME NEW f \in dials', NEW kind \in Ahead(f.next)
          PROVE  dialed'[f.attempt][kind] = 0
      <3>1. \A g \in Dials : g.attempt \in Attempts /\ Ahead(g.next) \subseteq DialLines
        BY DEF Dials, Following, Ahead, DialLines
      <3>2. CASE f = e
        BY <1>3, <1>4, <1>5, <1>7, <2>3, <3>1, <3>2 DEF DialsInv
      <3>3. CASE f \in dials /\ f # d
        <4>1. f.attempt # d.attempt
          BY <3>3 DEF DialsInv
        <4> QED BY <1>3, <1>7, <2>3, <3>1, <3>3, <4>1 DEF DialsInv
      <3> QED BY <1>6, <3>2, <3>3
    <2>4. (\A t \in Attempts : \A kind \in DialLines :
             t > attempt \/ (t = attempt /\ pc \in {"start", "getConn"}) => dialed[t][kind] = 0)'
      <3>1. /\ d.attempt <= attempt /\ (pc \in {"start", "getConn"} => d.attempt # attempt)
            /\ d.attempt \in Nat /\ attempt \in Nat
        BY <1>3, TripsAssumption DEF DialsInv, Dials, TypeOK, Attempts
      <3> QED BY <1>3, <1>7, <3>1, TripsAssumption DEF DialsInv
    <2> QED BY <2>1, <2>2, <2>3, <2>4 DEF DialsInv
  <1>9. dials' \subseteq Dials
    BY <1>3, <1>5, <1>6
  <1> QED BY <1>1, <1>3, <1>8, <1>9, DialLeaves DEF IInv

\* A dial that fails is gone, and its handshake may be logged.
LEMMA DialFailsKeeps ==
  ASSUME IInv, DialFails
  PROVE  IInv'
  <1>1. PICK d \in dials : /\ dials' = dials \ {d}
                           /\ TracedDial(d) \/ UNCHANGED dialed
    BY DEF DialFails
  <1>2. dials \subseteq Dials /\ dialUnchanged
    BY DEF IInv, TypeOK, DialFails
  <1>3. \A t \in Attempts : \A kind \in DialLines :
           dialed'[t][kind] = dialed[t][kind] \/ (t = d.attempt /\ kind = d.next)
    BY <1>1, TracedDialOnce
  <1>4. DialsInv'
    <2> USE DEF IInv, dialUnchanged
    <2>1. (/\ \A f \in dials : f.attempt <= attempt /\ (pc \in {"start", "getConn"} => f.attempt # attempt)
           /\ \A f, g \in dials : f.attempt = g.attempt => f = g)'
      BY <1>1, <1>2 DEF DialsInv
    <2>2. ASSUME NEW f \in dials', NEW kind \in Ahead(f.next)
          PROVE  dialed'[f.attempt][kind] = 0
      <3>1. \A g \in Dials : g.attempt \in Attempts /\ Ahead(g.next) \subseteq DialLines
        BY DEF Dials, Following, Ahead, DialLines
      <3>2. f \in dials /\ f.attempt # d.attempt
        BY <1>1 DEF DialsInv
      <3> QED BY <1>2, <1>3, <2>2, <3>1, <3>2 DEF DialsInv
    <2>3. (\A t \in Attempts : \A kind \in DialLines :
             t > attempt \/ (t = attempt /\ pc \in {"start", "getConn"}) => dialed[t][kind] = 0)'
      <3>1. /\ d.attempt <= attempt /\ (pc \in {"start", "getConn"} => d.attempt # attempt)
            /\ d.attempt \in Nat /\ attempt \in Nat
        BY <1>2, TripsAssumption DEF DialsInv, Dials, TypeOK, Attempts
      <3> QED BY <1>2, <1>3, <3>1, TripsAssumption DEF DialsInv
    <2> QED BY <2>1, <2>2, <2>3 DEF DialsInv
  <1> QED BY <1>1, <1>2, <1>4, DialLeaves DEF IInv

-----------------------------------------------------------------------------
\* The invariant is inductive, whatever the levels, the header fields and the
\* numbers of round trips and of retries, and however dials run on: what the
\* present round trip, attempt or dial has still to log is not in the log.
THEOREM Inductive == Spec => []IInv
  <1>1. IInv /\ [Next]_vars => IInv'
    <2> SUFFICES ASSUME IInv, [Next]_vars PROVE IInv'
      OBVIOUS
    <2>1. CASE SetTraceLevel \/ SetVerbose
      BY <2>1, SettersKeep
    <2>2. CASE Do
      BY <2>2, DoKeeps
    <2>3. CASE RoundTrip
      BY <2>3, StartRequestKeeps, GetConnKeeps, GotConnKeeps, WroteHeaderFieldKeeps,
         QuietStepsKeep, RetryKeeps, Got1xxResponseKeeps, ResponseDoneKeeps, RedirectedKeeps
         DEF RoundTrip
    <2>4. CASE DialStep \/ DialFails
      BY <2>4, DialStepKeeps, DialFailsKeeps
    <2>5. CASE UNCHANGED vars
      BY <2>5 DEF vars, IInv, TypeOK, LoggerInv, LinesInv, MarksInv, RetryInv, Enabled,
         DialsInv, SoFar, Sent, Current, EventsOnce, TripsInOrder, FirstLevelHolds
    <2> QED BY <2>1, <2>2, <2>3, <2>4, <2>5 DEF Next
  <1> QED BY <1>1, InitInv, PTL DEF Spec

\* Every variable keeps its type.
THEOREM TypeCorrect == Spec => []TypeOK
  <1>1. IInv => TypeOK
    BY DEF IInv
  <1> QED BY <1>1, Inductive, PTL

\* However many requests and redirects share the context of c.Request, however
\* often net/http tries again and however long a dial outlives its round trip, no
\* event is logged twice for the round trip, the attempt or the dial that it is
\* of, none is out of place, and none is of a component that the level of the
\* first Do does not have, but for the status.
THEOREM TraceIsReadable == Spec => []TraceReadable
  <1>1. IInv => TraceReadable
    BY DEF IInv, TraceReadable
  <1> QED BY <1>1, Inductive, PTL
=============================================================================
