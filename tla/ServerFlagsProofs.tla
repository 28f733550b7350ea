--------------------------- MODULE ServerFlagsProofs ---------------------------
(***************************************************************************)
(* The safety of ServerFlags, for every command line, every Options value  *)
(* and every request.                                                      *)
(***************************************************************************)
EXTENDS ServerFlags, SequenceTheorems, WellFoundedInduction, TLAPS

(***************************************************************************)
(* Induction over the natural numbers, as a fact about sets: a set that    *)
(* lacks a number lacks a least one.                                       *)
(***************************************************************************)
Less == OpToRel(<, Nat)

LEMMA LeastNumber ==
  ASSUME NEW T, T \subseteq Nat, T # {}
  PROVE  \E x \in T : \A y \in T : x <= y
  <1>1. IsWellFoundedOn(Less, Nat)
    BY NatLessThanWellFounded, Zenon DEF Less
  <1>2. \A i, j \in Nat : <<i, j>> \in Less <=> i < j
    BY Zenon DEF Less, OpToRel
  <1>3. PICK x \in T : \A y \in T : <<y, x>> \notin Less
    BY <1>1, WFMin
  <1>4. \A y \in T : x \in Nat /\ y \in Nat /\ ~(y < x)
    BY <1>2, <1>3
  <1>5. \A y \in T : x <= y
    BY <1>4
  <1> QED BY <1>5

LEMMA Induction ==
  ASSUME NEW T, 0 \in T, \A k \in Nat : k \in T => k + 1 \in T
  PROVE  Nat \subseteq T
  <1> SUFFICES ASSUME Nat \ T # {} PROVE FALSE
    OBVIOUS
  <1>1. PICK x \in Nat \ T : \A y \in Nat \ T : x <= y
    BY LeastNumber
  <1>2. x - 1 \in Nat
    BY <1>1
  <1> QED BY <1>1, <1>2

-----------------------------------------------------------------------------
(***************************************************************************)
(* Options                                                                 *)
(***************************************************************************)
Fields == {"hostname", "port", "addr", "certFile", "keyFile", "serverHeader", "accessLog",
           "staticDir", "hideDirListings", "shutdown", "read", "readHeader", "write",
           "idle", "maxHeaderBytes"}

\* A server has all its fields.
Shaped(s) ==
    /\ DOMAIN s = {"addr", "timeouts", "maxHeaderBytes", "staticDir", "hideDirListings",
                   "accessLog", "certFile", "keyFile", "middleware", "ready"}
    /\ DOMAIN s.timeouts = {"shutdown", "read", "readHeader", "write", "idle"}

LEMMA ShapedIsShape ==
  /\ Shaped(NewServer)
  /\ \A s : Shaped(s) => /\ DOMAIN s = DOMAIN NewServer
                         /\ DOMAIN s.timeouts = DOMAIN NewServer.timeouts
  BY DEF Shaped, NewServer

\* A setter of the address sets it to what there was and the part it has.
LEMMA UpdateAddrSets ==
  ASSUME NEW s, Shaped(s), NEW hostname, NEW port
  PROVE  UpdateAddr(s, hostname, port) =
            [s EXCEPT !.addr = JoinHostPort(
                IF hostname = Nothing /\ s.addr.splits THEN s.addr.host ELSE hostname,
                IF port = Nothing /\ s.addr.splits THEN s.addr.port ELSE port)]
  BY Zenon DEF UpdateAddr

\* What no setter but those of a field touches.
Keeps(s, t, field) ==
    /\ Shaped(t)
    /\ field \notin {"hostname", "port", "addr"} => t.addr = s.addr
    /\ field # "serverHeader" => t.middleware = s.middleware
    /\ field # "accessLog" => t.accessLog = s.accessLog

LEMMA KeepsExcept ==
  ASSUME NEW s, Shaped(s), NEW v
  PROVE  /\ Keeps(s, [s EXCEPT !.addr = v], "addr")
         /\ Keeps(s, [s EXCEPT !.middleware = v], "serverHeader")
         /\ Keeps(s, [s EXCEPT !.accessLog = v], "accessLog")
         /\ Keeps(s, [s EXCEPT !.certFile = v], "certFile")
         /\ Keeps(s, [s EXCEPT !.keyFile = v], "keyFile")
         /\ Keeps(s, [s EXCEPT !.staticDir = v], "staticDir")
         /\ Keeps(s, [s EXCEPT !.hideDirListings = v], "hideDirListings")
         /\ Keeps(s, [s EXCEPT !.maxHeaderBytes = v], "maxHeaderBytes")
         /\ Keeps(s, [s EXCEPT !.ready = v], "ready")
         /\ Keeps(s, [s EXCEPT !.timeouts.shutdown = v], "shutdown")
         /\ Keeps(s, [s EXCEPT !.timeouts.read = v], "read")
         /\ Keeps(s, [s EXCEPT !.timeouts.readHeader = v], "readHeader")
         /\ Keeps(s, [s EXCEPT !.timeouts.write = v], "write")
         /\ Keeps(s, [s EXCEPT !.timeouts.idle = v], "idle")
  BY DEF Keeps, Shaped

LEMMA KeepsAddr ==
  ASSUME NEW s, Shaped(s), NEW v, NEW field \in {"hostname", "port", "addr"}
  PROVE  Keeps(s, [s EXCEPT !.addr = v], field)
  BY DEF Keeps, Shaped

LEMMA SettingKeeps ==
  ASSUME NEW s, Shaped(s), NEW field \in Fields, NEW v
  PROVE  Keeps(s, Setting(s, field, v), field)
  <1>1. CASE field \in {"hostname", "port"}
    <2>1. \A hostname, port : \E a : UpdateAddr(s, hostname, port) = [s EXCEPT !.addr = a]
      <3> SUFFICES ASSUME NEW hostname, NEW port
                   PROVE  \E a : UpdateAddr(s, hostname, port) = [s EXCEPT !.addr = a]
        OBVIOUS
      <3> DEFINE a == JoinHostPort(
                IF hostname = Nothing /\ s.addr.splits THEN s.addr.host ELSE hostname,
                IF port = Nothing /\ s.addr.splits THEN s.addr.port ELSE port)
      <3>1. UpdateAddr(s, hostname, port) = [s EXCEPT !.addr = a]
        BY Zenon DEF UpdateAddr
      <3> HIDE DEF a
      <3> QED BY <3>1
    <2>2. \E hostname, port : Setting(s, field, v) = UpdateAddr(s, hostname, port)
      BY <1>1, Zenon DEF Setting, SetHostname, SetPort
    <2>3. PICK a : Setting(s, field, v) = [s EXCEPT !.addr = a]
      BY <2>1, <2>2, Zenon
    <2>4. Keeps(s, [s EXCEPT !.addr = a], field)
      BY <1>1, KeepsAddr
    <2> QED BY <2>3, <2>4
  <1>2. CASE field = "addr"
    BY <1>2, KeepsExcept DEF Setting, SetAddr
  <1>3. CASE field = "serverHeader"
    BY <1>3, KeepsExcept DEF Setting, SetServerHeader, AddMiddleware
  <1>4. CASE field = "accessLog"
    BY <1>4, KeepsExcept DEF Setting, SetAccessLog
  <1>5. CASE field \in {"certFile", "keyFile"}
    BY <1>5, KeepsExcept DEF Setting, SetTLSCertFile, SetTLSKeyFile
  <1>6. CASE field \in {"staticDir", "hideDirListings", "maxHeaderBytes"}
    BY <1>6, KeepsExcept DEF Setting, SetStaticDirectory, SetHideDirectoryListings,
                             SetMaxHeaderBytes
  <1>7. CASE field \in {"shutdown", "read", "readHeader"}
    BY <1>7, KeepsExcept DEF Setting, SetShutdownTimeout, SetReadTimeout, SetReadHeaderTimeout
  <1>8. CASE field \in {"write", "idle"}
    BY <1>8, KeepsExcept DEF Setting, SetWriteTimeout, SetIdleTimeout
  <1> QED BY <1>1, <1>2, <1>3, <1>4, <1>5, <1>6, <1>7, <1>8 DEF Fields

LEMMA PartKeeps ==
  ASSUME NEW s, Shaped(s), NEW field \in Fields, NEW options
  PROVE  Keeps(s, Part(s, field, options), field)
  <1>1. Keeps(s, s, field)
    BY DEF Keeps
  <1> QED BY <1>1, SettingKeeps DEF Part

\* The recursion of Applied has a result.
IsApplied(s, options, size, f) ==
    f = [i \in 0..size |-> IF i = 0 THEN s ELSE Part(f[i - 1], Parts[i], options)]

LEMMA AppliedExists ==
  ASSUME NEW s, NEW options, NEW size \in Nat
  PROVE  \E f : IsApplied(s, options, size, f)
  <1> DEFINE T == {k \in Nat : \E f : IsApplied(s, options, k, f)}
  <1>1. 0 \in T
    <2>1. IsApplied(s, options, 0, [i \in 0..0 |-> s])
      BY DEF IsApplied
    <2> QED BY <2>1
  <1>2. ASSUME NEW k \in Nat, k \in T PROVE k + 1 \in T
    <2>1. PICK f : IsApplied(s, options, k, f)
      BY <1>2
    <2> DEFINE g == [i \in 0..k + 1 |-> IF i = k + 1 THEN Part(f[k], Parts[k + 1], options) ELSE f[i]]
    <2>2. \A i \in 0..k : f[i] = IF i = 0 THEN s ELSE Part(f[i - 1], Parts[i], options)
      BY <2>1 DEF IsApplied
    <2>3. \A i \in 0..k + 1 : g[i] = IF i = 0 THEN s ELSE Part(g[i - 1], Parts[i], options)
      <3> SUFFICES ASSUME NEW i \in 0..k + 1
                   PROVE  g[i] = IF i = 0 THEN s ELSE Part(g[i - 1], Parts[i], options)
        OBVIOUS
      <3>1. CASE i = k + 1
        <4>1. g[i] = Part(f[k], Parts[k + 1], options) /\ i - 1 = k /\ i # 0
          BY <3>1
        <4>2. g[k] = f[k]
          OBVIOUS
        <4> QED BY <3>1, <4>1, <4>2
      <3>2. CASE i # k + 1
        <4>1. i \in 0..k /\ g[i] = f[i] /\ (i # 0 => g[i - 1] = f[i - 1])
          BY <3>2
        <4> QED BY <2>2, <4>1
      <3> QED BY <3>1, <3>2
    <2>4. g = [i \in 0..k + 1 |-> g[i]]
      OBVIOUS
    <2>5. IsApplied(s, options, k + 1, g)
      <3> HIDE DEF g
      <3> QED BY <2>3, <2>4 DEF IsApplied
    <2> QED BY <2>5
  <1>3. Nat \subseteq T
    <2> HIDE DEF T
    <2> QED BY <1>1, <1>2, Induction
  <1> QED BY <1>3

LEMMA AppliedStep ==
  ASSUME NEW s, NEW options
  PROVE  /\ Applied(s, options)[0] = s
         /\ \A i \in 1..15 : Applied(s, options)[i]
                                = Part(Applied(s, options)[i - 1], Parts[i], options)
         /\ Apply(s, options) = Applied(s, options)[15]
  <1>1. Len(Parts) = 15
    BY DEF Parts
  <1> DEFINE A == Applied(s, options)
  <1>2. A = CHOOSE f : IsApplied(s, options, Len(Parts), f)
    BY DEF Applied, IsApplied
  <1>3. IsApplied(s, options, 15, A)
    BY <1>1, <1>2, AppliedExists, Zenon
  <1> HIDE DEF A
  <1>4. \A i \in 0..15 : A[i] = IF i = 0 THEN s ELSE Part(A[i - 1], Parts[i], options)
    BY <1>3 DEF IsApplied
  <1>5. A[0] = s /\ \A i \in 1..15 : A[i] = Part(A[i - 1], Parts[i], options)
    BY <1>4
  <1> QED BY <1>1, <1>5, Zenon DEF A, Apply

LEMMA AppendToOne ==
  ASSUME NEW a, NEW b
  PROVE  Append(<<a>>, b) = <<a, b>>
  <1> DEFINE S == {a, b}
  <1>1. <<a>> \in Seq(S) /\ <<a, b>> \in Seq(S) /\ b \in S
    OBVIOUS
  <1>2. Len(<<a>>) = 1 /\ <<a>>[1] = a /\ Len(<<a, b>>) = 2 /\ <<a, b>>[1] = a /\ <<a, b>>[2] = b
    OBVIOUS
  <1> HIDE DEF S
  <1>3. /\ Append(<<a>>, b) \in Seq(S) /\ Len(Append(<<a>>, b)) = 2
        /\ Append(<<a>>, b)[1] = a /\ Append(<<a>>, b)[2] = b
    BY <1>1, <1>2, AppendProperties
  <1>4. \A i \in 1..2 : Append(<<a>>, b)[i] = <<a, b>>[i]
    BY <1>2, <1>3
  <1> QED BY <1>1, <1>2, <1>3, <1>4, SeqEqual

LEMMA AppendToTwo ==
  ASSUME NEW a, NEW b, NEW c
  PROVE  Append(<<a, b>>, c) = <<a, b, c>>
  <1> DEFINE S == {a, b, c}
  <1>1. <<a, b>> \in Seq(S) /\ <<a, b, c>> \in Seq(S) /\ c \in S
    OBVIOUS
  <1>2. /\ Len(<<a, b>>) = 2 /\ <<a, b>>[1] = a /\ <<a, b>>[2] = b
        /\ Len(<<a, b, c>>) = 3 /\ <<a, b, c>>[1] = a /\ <<a, b, c>>[2] = b /\ <<a, b, c>>[3] = c
    OBVIOUS
  <1> HIDE DEF S
  <1>3. /\ Append(<<a, b>>, c) \in Seq(S) /\ Len(Append(<<a, b>>, c)) = 3
        /\ Append(<<a, b>>, c)[1] = a /\ Append(<<a, b>>, c)[2] = b /\ Append(<<a, b>>, c)[3] = c
    BY <1>1, <1>2, AppendProperties
  <1>4. \A i \in 1..3 : Append(<<a, b>>, c)[i] = <<a, b, c>>[i]
    BY <1>2, <1>3
  <1> QED BY <1>1, <1>2, <1>3, <1>4, SeqEqual

\* Where Options say that a server without flags listens.
Base ==
    Configured("addr", JoinHostPort(
        IF Configured("hostname", Nothing) = Nothing THEN "localhost" ELSE config.hostname,
        Configured("port", "8000")))

ConfigHeaders ==
    IF "serverHeader" \in DOMAIN config
    THEN <<AccessLogMiddleware, NewHeaderMiddleware(config.serverHeader)>>
    ELSE <<AccessLogMiddleware>>

LEMMA PartsAre ==
  /\ Parts[1] = "hostname" /\ Parts[2] = "port" /\ Parts[3] = "addr"
  /\ Parts[6] = "serverHeader" /\ Parts[7] = "accessLog"
  /\ \A i \in 1..15 : /\ Parts[i] \in Fields
                      /\ i > 3 => Parts[i] \notin {"hostname", "port", "addr"}
                      /\ i # 6 => Parts[i] # "serverHeader"
                      /\ i # 7 => Parts[i] # "accessLog"
  BY DEF Parts, Fields

\* What Options make of the server of New.
LEMMA ApplyNewServer ==
  ASSUME config \in Configs
  PROVE  LET s == Apply(NewServer, config)
         IN  /\ Shaped(s)
             /\ s.addr = Base
             /\ s.middleware = ConfigHeaders
             /\ s.accessLog = Configured("accessLog", "default")
  <1> DEFINE A == Applied(NewServer, config)
  <1> DEFINE P(i) == Part(A[i - 1], Parts[i], config)
  <1>1. A[0] = NewServer /\ Apply(NewServer, config) = A[15] /\ \A i \in 1..15 : A[i] = P(i)
    BY AppliedStep
  <1> HIDE DEF A
  <1>2. \A i \in 1..15 : Shaped(A[i - 1]) => Keeps(A[i - 1], A[i], Parts[i])
    BY <1>1, PartsAre, PartKeeps
  <1> DEFINE Good(k) ==
               /\ Shaped(A[k])
               /\ k >= 3 => A[k].addr = A[3].addr
               /\ k <= 5 => A[k].middleware = NewServer.middleware
               /\ k >= 6 => A[k].middleware = A[6].middleware
               /\ k <= 6 => A[k].accessLog = NewServer.accessLog
               /\ k >= 7 => A[k].accessLog = A[7].accessLog
             T == {k \in Nat : k <= 15 => Good(k)}
  <1>3. 0 \in T
    BY <1>1, ShapedIsShape
  <1>4. ASSUME NEW k \in Nat, k \in T PROVE k + 1 \in T
    <2> SUFFICES ASSUME k + 1 <= 15 PROVE Good(k + 1)
      OBVIOUS
    <2>1. k + 1 \in 1..15 /\ (k + 1) - 1 = k /\ k \in 0..14
      OBVIOUS
    <2>2. Good(k)
      BY <1>4, <2>1
    <2>3. Keeps(A[k], A[k + 1], Parts[k + 1])
      BY <1>2, <2>1, <2>2
    <2>4. /\ k + 1 > 3 => Parts[k + 1] \notin {"hostname", "port", "addr"}
          /\ k + 1 # 6 => Parts[k + 1] # "serverHeader"
          /\ k + 1 # 7 => Parts[k + 1] # "accessLog"
      BY <2>1, PartsAre
    <2>5. Shaped(A[k + 1])
      BY <2>3 DEF Keeps
    <2>6. k + 1 >= 3 => A[k + 1].addr = A[3].addr
      BY <2>1, <2>2, <2>3, <2>4 DEF Keeps
    <2>7. /\ k + 1 <= 5 => A[k + 1].middleware = NewServer.middleware
          /\ k + 1 >= 6 => A[k + 1].middleware = A[6].middleware
      BY <2>1, <2>2, <2>3, <2>4 DEF Keeps
    <2>8. /\ k + 1 <= 6 => A[k + 1].accessLog = NewServer.accessLog
          /\ k + 1 >= 7 => A[k + 1].accessLog = A[7].accessLog
      BY <2>1, <2>2, <2>3, <2>4 DEF Keeps
    <2> QED BY <2>5, <2>6, <2>7, <2>8
  <1>5. \A k \in 0..15 : Good(k)
    <2>1. Nat \subseteq T
      <3> HIDE DEF T
      <3> QED BY <1>3, <1>4, Induction
    <2> QED BY <2>1
  <1> HIDE DEF Good
  <1>6. Shaped(A[0]) /\ Shaped(A[1]) /\ Shaped(A[2]) /\ Shaped(A[5]) /\ Shaped(A[6]) /\ Shaped(A[15])
    BY <1>5 DEF Good
  <1>7. A[15].addr = Base
    <2>1. A[1] = Part(A[0], "hostname", config) /\ A[2] = Part(A[1], "port", config)
          /\ A[3] = Part(A[2], "addr", config)
      BY <1>1, PartsAre
    <2>2. A[0].addr = JoinHostPort("localhost", "8000")
      BY <1>1 DEF NewServer
    <2>3. A[1].addr = JoinHostPort(IF Configured("hostname", Nothing) = Nothing THEN "localhost"
                                   ELSE config.hostname, "8000")
      <3>1. CASE "hostname" \notin DOMAIN config
        BY <2>1, <2>2, <3>1 DEF Part, Configured
      <3>2. CASE "hostname" \in DOMAIN config
        <4>1. A[1] = UpdateAddr(A[0], config["hostname"], Nothing)
          BY <2>1, <3>2, Zenon DEF Part, Setting, SetHostname
        <4>2. A[0].addr.splits = TRUE /\ A[0].addr.host = "localhost" /\ A[0].addr.port = "8000"
          BY <2>2 DEF JoinHostPort
        <4>3. A[1] = [A[0] EXCEPT !.addr = JoinHostPort(
                         IF config["hostname"] = Nothing THEN "localhost" ELSE config["hostname"],
                         "8000")]
          BY <1>6, <4>1, <4>2, UpdateAddrSets
        <4>4. A[1].addr = JoinHostPort(
                         IF config["hostname"] = Nothing THEN "localhost" ELSE config["hostname"],
                         "8000")
          BY <1>6, <4>3 DEF Shaped
        <4> QED BY <3>2, <4>4 DEF Configured
      <3> QED BY <3>1, <3>2
    <2> DEFINE host == IF Configured("hostname", Nothing) = Nothing THEN "localhost"
                       ELSE config.hostname
    <2> HIDE DEF host
    <2>4. A[2].addr = JoinHostPort(host, Configured("port", "8000"))
      <3>1. CASE "port" \notin DOMAIN config
        BY <2>1, <2>3, <3>1 DEF Part, Configured, host
      <3>2. CASE "port" \in DOMAIN config
        <4>1. A[2] = UpdateAddr(A[1], Nothing, config["port"]) /\ config["port"] # Nothing
          BY <2>1, <3>2, ConfigsAssumption, Zenon DEF Part, Setting, SetPort
        <4>2. A[1].addr.splits = TRUE /\ A[1].addr.host = host
          BY <2>3 DEF JoinHostPort, host
        <4>3. A[2] = [A[1] EXCEPT !.addr = JoinHostPort(host, config["port"])]
          BY <1>6, <4>1, <4>2, UpdateAddrSets
        <4>4. A[2].addr = JoinHostPort(host, config["port"])
          BY <1>6, <4>3 DEF Shaped
        <4> QED BY <3>2, <4>4 DEF Configured
      <3> QED BY <3>1, <3>2
    <2>5. A[3].addr = Configured("addr", A[2].addr)
      <3>1. CASE "addr" \notin DOMAIN config
        BY <2>1, <3>1 DEF Part, Configured
      <3>2. CASE "addr" \in DOMAIN config
        <4>1. A[3] = [A[2] EXCEPT !.addr = config["addr"]]
          BY <2>1, <3>2, Zenon DEF Part, Setting, SetAddr
        <4> QED BY <1>6, <3>2, <4>1 DEF Shaped, Configured
      <3> QED BY <3>1, <3>2
    <2>6. A[15].addr = A[3].addr
      BY <1>5 DEF Good
    <2> QED BY <2>4, <2>5, <2>6 DEF Base, host
  <1>8. A[15].middleware = ConfigHeaders
    <2>1. A[6] = Part(A[5], "serverHeader", config) /\ A[5].middleware = <<AccessLogMiddleware>>
      BY <1>1, <1>5, PartsAre DEF Good, NewServer
    <2>2. A[15].middleware = A[6].middleware
      BY <1>5 DEF Good
    <2>3. CASE "serverHeader" \notin DOMAIN config
      BY <2>1, <2>2, <2>3 DEF Part, ConfigHeaders
    <2>4. CASE "serverHeader" \in DOMAIN config
      <3>1. A[6] = [A[5] EXCEPT !.middleware = Append(A[5].middleware,
                                                      NewHeaderMiddleware(config["serverHeader"]))]
        BY <2>1, <2>4, Zenon DEF Part, Setting, SetServerHeader, AddMiddleware
      <3>2. A[6].middleware = Append(<<AccessLogMiddleware>>,
                                     NewHeaderMiddleware(config["serverHeader"]))
        BY <1>6, <2>1, <3>1 DEF Shaped
      <3> QED BY <2>2, <2>4, <3>2, AppendToOne DEF ConfigHeaders
    <2> QED BY <2>3, <2>4
  <1>9. A[15].accessLog = Configured("accessLog", "default")
    <2>1. A[7] = Part(A[6], "accessLog", config) /\ A[6].accessLog = "default"
      BY <1>1, <1>5, PartsAre DEF Good, NewServer
    <2>2. A[15].accessLog = A[7].accessLog
      BY <1>5 DEF Good
    <2>3. CASE "accessLog" \notin DOMAIN config
      BY <2>1, <2>2, <2>3 DEF Part, Configured
    <2>4. CASE "accessLog" \in DOMAIN config
      <3>1. A[7] = [A[6] EXCEPT !.accessLog = config["accessLog"]]
        BY <2>1, <2>4, Zenon DEF Part, Setting, SetAccessLog
      <3> QED BY <1>6, <2>2, <2>4, <3>1 DEF Shaped, Configured
    <2> QED BY <2>3, <2>4
  <1> QED BY <1>1, <1>6, <1>7, <1>8, <1>9

-----------------------------------------------------------------------------
(***************************************************************************)
(* The echo handler                                                        *)
(***************************************************************************)
EchoMessages == {"open", "read", "form", "JSON"}

IsNoted(failsafe, errors, size, f) ==
    f = [i \in 0..size |-> IF i = 0 THEN [status |-> 0, errors |-> <<>>]
                           ELSE HandleError(f[i - 1], failsafe, errors[i])]

LEMMA NotedExists ==
  ASSUME NEW failsafe, NEW errors, NEW size \in Nat
  PROVE  \E f : IsNoted(failsafe, errors, size, f)
  <1> DEFINE base == [status |-> 0, errors |-> <<>>]
             T == {k \in Nat : \E f : IsNoted(failsafe, errors, k, f)}
  <1>1. 0 \in T
    <2>1. IsNoted(failsafe, errors, 0, [i \in 0..0 |-> base])
      <3> HIDE DEF base
      <3>1. \A i \in 0..0 : i = 0
        OBVIOUS
      <3>2. [i \in 0..0 |-> base] = [i \in 0..0 |-> IF i = 0 THEN base
                 ELSE HandleError([j \in 0..0 |-> base][i - 1], failsafe, errors[i])]
        BY <3>1
      <3> QED BY <3>2, Zenon DEF IsNoted, base
    <2> QED BY <2>1
  <1>2. ASSUME NEW k \in Nat, k \in T PROVE k + 1 \in T
    <2>1. PICK f : IsNoted(failsafe, errors, k, f)
      BY <1>2
    <2> DEFINE g == [i \in 0..k + 1 |-> IF i = k + 1 THEN HandleError(f[k], failsafe, errors[k + 1])
                                        ELSE f[i]]
    <2> HIDE DEF base
    <2>2. \A i \in 0..k : f[i] = IF i = 0 THEN base ELSE HandleError(f[i - 1], failsafe, errors[i])
      BY <2>1 DEF IsNoted, base
    <2>3. \A i \in 0..k + 1 : g[i] = IF i = 0 THEN base ELSE HandleError(g[i - 1], failsafe, errors[i])
      <3> SUFFICES ASSUME NEW i \in 0..k + 1
                   PROVE  g[i] = IF i = 0 THEN base ELSE HandleError(g[i - 1], failsafe, errors[i])
        OBVIOUS
      <3>1. CASE i = k + 1
        <4>1. g[i] = HandleError(f[k], failsafe, errors[k + 1]) /\ i - 1 = k /\ i # 0
          BY <3>1
        <4>2. g[k] = f[k]
          OBVIOUS
        <4> QED BY <3>1, <4>1, <4>2
      <3>2. CASE i # k + 1
        <4>1. i \in 0..k /\ g[i] = f[i] /\ (i # 0 => g[i - 1] = f[i - 1])
          BY <3>2
        <4> QED BY <2>2, <4>1
      <3> QED BY <3>1, <3>2
    <2>4. g = [i \in 0..k + 1 |-> g[i]]
      OBVIOUS
    <2>5. IsNoted(failsafe, errors, k + 1, g)
      <3> HIDE DEF g
      <3> QED BY <2>3, <2>4 DEF IsNoted, base
    <2> QED BY <2>5
  <1>3. Nat \subseteq T
    <2> HIDE DEF T
    <2> QED BY <1>1, <1>2, Induction
  <1> QED BY <1>3

\* Without failsafe the first error makes the status, and with it none does.
LEMMA NotedErrors ==
  ASSUME NEW failsafe \in BOOLEAN, NEW errors \in Seq(EchoMessages)
  PROVE  LET resp == Noted(failsafe, errors)[Len(errors)]
         IN  /\ DOMAIN resp = {"status", "errors"}
             /\ resp.status = IF failsafe \/ errors = <<>> THEN 0 ELSE 400
             /\ resp.errors = <<>> <=> errors = <<>>
  <1> DEFINE len == Len(errors)
             N   == Noted(failsafe, errors)
  <1>1. len \in Nat /\ (len = 0 <=> errors = <<>>)
    BY EmptySeq, LenProperties
  <1>2. IsNoted(failsafe, errors, len, N)
    <2>1. N = CHOOSE f : IsNoted(failsafe, errors, len, f)
      BY DEF Noted, IsNoted
    <2> QED BY <1>1, <2>1, NotedExists, Zenon
  <1> HIDE DEF N
  <1>3. N[0] = [status |-> 0, errors |-> <<>>]
    BY <1>1, <1>2 DEF IsNoted
  <1>4. \A i \in 1..len : N[i] = HandleError(N[i - 1], failsafe, errors[i])
    <2>1. \A i \in 1..len : i \in 0..len /\ i # 0
      BY <1>1
    <2> DEFINE base == [status |-> 0, errors |-> <<>>]
    <2> HIDE DEF base
    <2>2. N = [i \in 0..len |-> IF i = 0 THEN base ELSE HandleError(N[i - 1], failsafe, errors[i])]
      BY <1>2, Zenon DEF IsNoted, base
    <2> QED BY <2>1, <2>2
  <1> DEFINE Good(k) ==
               /\ DOMAIN N[k] = {"status", "errors"}
               /\ N[k].status = IF failsafe \/ k = 0 THEN 0 ELSE 400
               /\ N[k].errors \in Seq(EchoMessages)
               /\ N[k].errors = <<>> <=> k = 0
             T == {k \in Nat : k <= len => Good(k)}
  <1>5. 0 \in T
    <2>1. DOMAIN N[0] = {"status", "errors"} /\ N[0].status = 0 /\ N[0].errors = <<>>
      BY <1>3
    <2>2. <<>> \in Seq(EchoMessages)
      BY EmptySeq
    <2> QED BY <2>1, <2>2
  <1>6. ASSUME NEW k \in Nat, k \in T PROVE k + 1 \in T
    <2> SUFFICES ASSUME k + 1 <= len PROVE Good(k + 1)
      OBVIOUS
    <2>1. k + 1 \in 1..len /\ (k + 1) - 1 = k /\ k <= len /\ k + 1 # 0
      BY <1>1
    <2>2. Good(k)
      BY <1>6, <2>1
    <2> DEFINE e == errors[k + 1]
               noted == [N[k] EXCEPT !.errors = Append(@, e)]
    <2>3. e \in EchoMessages
      BY <2>1, ElementOfSeq
    <2>4. Append(N[k].errors, e) \in Seq(EchoMessages) /\ Append(N[k].errors, e) # <<>>
      BY <2>2, <2>3, AppendProperties
    <2>5. /\ DOMAIN noted = {"status", "errors"} /\ noted.status = N[k].status
          /\ noted.errors = Append(N[k].errors, e)
      BY <2>2
    <2> HIDE DEF noted
    <2>6. N[k + 1] = IF failsafe THEN noted ELSE WriteHeader(noted, 400)
      <3>1. N[k + 1] = HandleError(N[k], failsafe, e)
        BY <1>4, <2>1
      <3> QED BY <3>1, Zenon DEF HandleError, noted
    <2>7. /\ DOMAIN WriteHeader(noted, 400) = {"status", "errors"}
          /\ WriteHeader(noted, 400).status = IF noted.status = 0 THEN 400 ELSE noted.status
          /\ WriteHeader(noted, 400).errors = noted.errors
      BY <2>5 DEF WriteHeader
    <2>8. N[k + 1].status = IF failsafe THEN 0 ELSE 400
      BY <2>2, <2>5, <2>6, <2>7
    <2>9. DOMAIN N[k + 1] = {"status", "errors"} /\ N[k + 1].errors = Append(N[k].errors, e)
      BY <2>5, <2>6, <2>7
    <2> QED BY <2>1, <2>4, <2>8, <2>9
  <1>7. Good(len)
    <2>1. Nat \subseteq T
      <3> HIDE DEF T
      <3> QED BY <1>5, <1>6, Induction
    <2> QED BY <1>1, <2>1
  <1> QED BY <1>1, <1>7 DEF N

LEMMA EchoErrorsType == \A req : EchoErrors(req) \in Seq(EchoMessages)
  <1>1. /\ <<>> \in Seq(EchoMessages) /\ <<"open", "read">> \in Seq(EchoMessages)
        /\ <<"form">> \in Seq(EchoMessages) /\ <<"read">> \in Seq(EchoMessages)
        /\ <<"JSON">> \in Seq(EchoMessages)
    BY DEF EchoMessages
  <1> QED BY <1>1, Zenon DEF EchoErrors

LEMMA EchoAnswer ==
  ASSUME NEW h, h.failsafe \in BOOLEAN, NEW req
  PROVE  LET answer == ServeEcho(h, req)
         IN  /\ answer.status \in Nat
             /\ h.failsafe => answer.status = 200 /\ answer.body = "reflection"
             /\ answer.body \in {"errors", "reflection"}
             /\ answer.status = 400 <=> answer.body = "errors"
  <1> DEFINE errors == EchoErrors(req)
             resp   == Noted(h.failsafe, errors)[Len(errors)]
  <1>1. /\ DOMAIN resp = {"status", "errors"}
        /\ resp.status = IF h.failsafe \/ errors = <<>> THEN 0 ELSE 400
        /\ resp.errors = <<>> <=> errors = <<>>
    <2>1. errors \in Seq(EchoMessages)
      BY EchoErrorsType, Zenon
    <2> HIDE DEF errors
    <2> QED BY <2>1, NotedErrors
  <1>2. ServeEcho(h, req) = Answer(WriteHeader(resp, 200).status,
                                   IF resp.errors # <<>> /\ ~h.failsafe THEN "errors" ELSE "reflection")
    BY Zenon DEF ServeEcho
  <1> HIDE DEF resp, errors
  <1>3. WriteHeader(resp, 200).status = IF h.failsafe \/ errors = <<>> THEN 200 ELSE 400
    BY <1>1 DEF WriteHeader
  <1> QED BY <1>1, <1>2, <1>3 DEF Answer

(***************************************************************************)
(* The other handlers                                                      *)
(***************************************************************************)
IsHandler(h) ==
    /\ h.kind \in {"file", "ping", "redirect", "echo", "reload"}
    /\ h.failsafe \in BOOLEAN /\ h.code \in Nat

\* What is in a directory is a file or a directory.
LEMMA EntryType ==
  ASSUME NEW d \in DOMAIN Files, NEW names
  PROVE  Entry(d, names) \in {"none", "file", "directory"}
  <1>1. CASE Len(names) = 1 /\ names[1] \in DOMAIN Files[d]
    <2>1. Files[d][names[1]] \in {"none", "file", "directory"}
      BY <1>1, FilesAssumption
    <2> QED BY <1>1, <2>1 DEF Entry
  <1> QED BY <1>1 DEF Entry

\* A file server shows a file, or the listing for a path that is empty or ends
\* in "/", and a listing that is to be hidden for the empty path alone.
LEMMA FileServerAnswer ==
  ASSUME NEW h, NEW p
  PROVE  LET answer == ServeFile(h, p)
         IN  /\ answer.status \in Nat
             /\ answer.body \notin {"errors", "reflection"}
             /\ answer.body = "listing" /\ h.hide => p = NoPath
  <1> DEFINE answer == ServeFile(h, p)
             Good(x) == /\ x.status \in Nat
                        /\ x.body \notin {"errors", "reflection"}
                        /\ x.body = "listing" /\ h.hide => p = NoPath
  <1> SUFFICES Good(answer)
    BY Zenon
  <1>1. /\ Good(Answer(404, Nothing)) /\ Good(Answer(301, Nothing))
        /\ Good(Answer(200, "file"))
        /\ (h.hide => p = NoPath) => Good(Answer(200, "listing"))
    BY DEF Answer, Nothing
  <1> DEFINE entry == IF h.directory \notin DOMAIN Files THEN "none"
                      ELSE Entry(h.directory, SelectSeq(p, LAMBDA t : t # "/"))
             slash == p = NoPath \/ EndsInSlash(p)
             served == FileServer(h.directory, p)
  <1> HIDE DEF Good
  <1>2. entry \in {"none", "file", "directory"}
    BY EntryType, Zenon
  <1>3. served = CASE entry = "none"      -> Answer(404, Nothing)
                   [] entry = "directory" -> IF slash THEN Answer(200, "listing")
                                             ELSE Answer(301, Nothing)
                   [] entry = "file"      -> IF slash THEN Answer(301, Nothing)
                                             ELSE Answer(200, "file")
    BY Zenon DEF FileServer
  <1> HIDE DEF entry, served
  <1>4. \/ served \in {Answer(404, Nothing), Answer(301, Nothing), Answer(200, "file")}
        \/ slash /\ served = Answer(200, "listing")
    <2>1. CASE entry = "none"
      BY <1>3, <2>1
    <2>2. CASE entry = "directory"
      BY <1>3, <2>2
    <2>3. CASE entry = "file"
      BY <1>3, <2>3
    <2> QED BY <1>2, <2>1, <2>2, <2>3
  <1>5. CASE HideListing(h, p)
    <2>1. answer = Answer(404, Nothing)
      BY <1>5, Zenon DEF ServeFile
    <2> QED BY <1>1, <2>1
  <1>6. CASE ~HideListing(h, p)
    <2>1. answer = served
      BY <1>6, Zenon DEF ServeFile, served
    <2>2. slash => (h.hide => p = NoPath)
      BY <1>6 DEF HideListing
    <2> HIDE DEF answer, slash
    <2> QED BY <1>1, <1>4, <2>1, <2>2
  <1> QED BY <1>5, <1>6

\* A handler that is no echo handler sends no reflection and no errors, and one
\* that is no file server no listing.
LEMMA HandlerAnswer ==
  ASSUME NEW h, IsHandler(h), NEW req, NEW p
  PROVE  LET answer == ServeHandler(h, req, p)
         IN  /\ answer.status \in Nat
             /\ h.kind = "echo" => answer = ServeEcho(h, req)
             /\ h.kind # "echo" => answer.body \notin {"errors", "reflection"}
             /\ h.kind # "file" => answer.body # "listing"
  <1>1. CASE h.kind = "echo"
    BY <1>1, EchoAnswer DEF ServeHandler, IsHandler
  <1>2. CASE h.kind = "file"
    BY <1>2, FileServerAnswer, Zenon DEF ServeHandler
  <1>3. CASE h.kind = "ping"
    BY <1>3 DEF ServeHandler, Answer
  <1>4. CASE h.kind = "redirect"
    <2> DEFINE status == IF h.code = 0 THEN 307 ELSE h.code
    <2>1. ServeHandler(h, req, p) = Answer(status, Nothing)
      BY <1>4 DEF ServeHandler
    <2>2. status \in Nat
      BY DEF IsHandler
    <2> HIDE DEF status
    <2>3. Answer(status, Nothing).status = status /\ Answer(status, Nothing).body = ""
      BY DEF Answer, Nothing
    <2>4. ServeHandler(h, req, p).status \in Nat /\ ServeHandler(h, req, p).body = ""
      BY <2>1, <2>2, <2>3
    <2>5. "" # "errors" /\ "" # "reflection" /\ h.kind # "echo"
      BY <1>4
    <2> QED BY <2>4, <2>5
  <1>5. CASE h.kind = "reload"
    <2> DEFINE status == IF req.method = "POST" THEN 204 ELSE 405
    <2>1. ServeHandler(h, req, p) = Answer(status, Nothing)
      BY <1>5 DEF ServeHandler
    <2>2. status \in Nat
      OBVIOUS
    <2> HIDE DEF status
    <2>3. Answer(status, Nothing).status = status /\ Answer(status, Nothing).body = ""
      BY DEF Answer, Nothing
    <2>4. ServeHandler(h, req, p).status \in Nat /\ ServeHandler(h, req, p).body = ""
      BY <2>1, <2>2, <2>3
    <2>5. "" # "errors" /\ "" # "reflection" /\ h.kind # "echo"
      BY <1>5
    <2> QED BY <2>4, <2>5
  <1> QED BY <1>1, <1>2, <1>3, <1>4, <1>5 DEF IsHandler

-----------------------------------------------------------------------------
(***************************************************************************)
(* The middleware                                                          *)
(***************************************************************************)
IsWrapped(inner, size, f) ==
    f = [i \in 0..size |-> IF i = 0 THEN inner ELSE Wrap(f[i - 1], server.middleware[i])]

LEMMA WrappedExists ==
  ASSUME NEW inner, NEW size \in Nat
  PROVE  \E f : IsWrapped(inner, size, f)
  <1> DEFINE T == {k \in Nat : \E f : IsWrapped(inner, k, f)}
  <1>1. 0 \in T
    <2>1. IsWrapped(inner, 0, [i \in 0..0 |-> inner])
      BY DEF IsWrapped
    <2> QED BY <2>1
  <1>2. ASSUME NEW k \in Nat, k \in T PROVE k + 1 \in T
    <2>1. PICK f : IsWrapped(inner, k, f)
      BY <1>2
    <2> DEFINE g == [i \in 0..k + 1 |-> IF i = k + 1 THEN Wrap(f[k], server.middleware[k + 1]) ELSE f[i]]
    <2>2. \A i \in 0..k : f[i] = IF i = 0 THEN inner ELSE Wrap(f[i - 1], server.middleware[i])
      BY <2>1 DEF IsWrapped
    <2>3. \A i \in 0..k + 1 : g[i] = IF i = 0 THEN inner ELSE Wrap(g[i - 1], server.middleware[i])
      <3> SUFFICES ASSUME NEW i \in 0..k + 1
                   PROVE  g[i] = IF i = 0 THEN inner ELSE Wrap(g[i - 1], server.middleware[i])
        OBVIOUS
      <3>1. CASE i = k + 1
        <4>1. g[i] = Wrap(f[k], server.middleware[k + 1]) /\ i - 1 = k /\ i # 0
          BY <3>1
        <4>2. g[k] = f[k]
          OBVIOUS
        <4> QED BY <3>1, <4>1, <4>2
      <3>2. CASE i # k + 1
        <4>1. i \in 0..k /\ g[i] = f[i] /\ (i # 0 => g[i - 1] = f[i - 1])
          BY <3>2
        <4> QED BY <2>2, <4>1
      <3> QED BY <3>1, <3>2
    <2>4. g = [i \in 0..k + 1 |-> g[i]]
      OBVIOUS
    <2>5. IsWrapped(inner, k + 1, g)
      <3> HIDE DEF g
      <3> QED BY <2>3, <2>4 DEF IsWrapped
    <2> QED BY <2>5
  <1>3. Nat \subseteq T
    <2> HIDE DEF T
    <2> QED BY <1>1, <1>2, Induction
  <1> QED BY <1>3

LEMMA WrappedStep ==
  ASSUME NEW inner, NEW size \in Nat, Len(server.middleware) = size
  PROVE  /\ Wrapped(inner)[0] = inner
         /\ \A i \in 1..size : Wrapped(inner)[i] = Wrap(Wrapped(inner)[i - 1], server.middleware[i])
  <1> DEFINE A == Wrapped(inner)
  <1>1. A = CHOOSE f : IsWrapped(inner, size, f)
    BY DEF Wrapped, IsWrapped
  <1>2. IsWrapped(inner, size, A)
    BY <1>1, WrappedExists, Zenon
  <1> HIDE DEF A
  <1>3. \A i \in 0..size : A[i] = IF i = 0 THEN inner ELSE Wrap(A[i - 1], server.middleware[i])
    BY <1>2 DEF IsWrapped
  <1>4. A[0] = inner /\ \A i \in 1..size : A[i] = Wrap(A[i - 1], server.middleware[i])
    BY <1>3
  <1> QED BY <1>4 DEF A

IsExchange(x) == DOMAIN x = {"request", "status", "body", "headers", "logs"}

\* The same response.
SameAnswer(x, y) ==
    IsExchange(y) /\ y.request = x.request /\ y.status = x.status /\ y.body = x.body

Logs(status) ==
    IF server.accessLog = Nothing THEN <<>>
    ELSE <<[format |-> server.accessLog, status |-> status]>>

LEMMA WrapAccessLog ==
  ASSUME NEW x, IsExchange(x), x.logs = <<>>
  PROVE  LET y == Wrap(x, AccessLogMiddleware)
         IN  SameAnswer(x, y) /\ y.headers = x.headers /\ y.logs = Logs(x.status)
  <1>1. CASE server.accessLog = Nothing
    <2>1. Wrap(x, AccessLogMiddleware) = x
      BY <1>1 DEF Wrap, AccessLogMiddleware
    <2> QED BY <1>1, <2>1 DEF SameAnswer, Logs
  <1>2. CASE server.accessLog # Nothing
    <2> DEFINE entry == [format |-> server.accessLog, status |-> x.status]
    <2>1. Wrap(x, AccessLogMiddleware) = [x EXCEPT !.logs = Append(x.logs, entry)]
      BY <1>2, Zenon DEF Wrap, AccessLogMiddleware
    <2> HIDE DEF entry
    <2>2. Append(<<>>, entry) = <<entry>>
      OBVIOUS
    <2>3. Wrap(x, AccessLogMiddleware) = [x EXCEPT !.logs = <<entry>>]
      BY <2>1, <2>2
    <2>4. Logs(x.status) = <<entry>>
      BY <1>2 DEF Logs, entry
    <2> QED BY <2>3, <2>4 DEF IsExchange, SameAnswer
  <1> QED BY <1>1, <1>2

LEMMA WrapHeader ==
  ASSUME NEW x, IsExchange(x), NEW v
  PROVE  LET y == Wrap(x, NewHeaderMiddleware(v))
         IN  SameAnswer(x, y) /\ y.headers = <<v>> \o x.headers /\ y.logs = x.logs
  <1>1. Wrap(x, NewHeaderMiddleware(v)) = [x EXCEPT !.headers = <<v>> \o x.headers]
    BY Zenon DEF Wrap, NewHeaderMiddleware
  <1> DEFINE hs == <<v>> \o x.headers
  <1> HIDE DEF hs
  <1>2. Wrap(x, NewHeaderMiddleware(v)) = [x EXCEPT !.headers = hs]
    BY <1>1 DEF hs
  <1>3. SameAnswer(x, [x EXCEPT !.headers = hs]) /\ [x EXCEPT !.headers = hs].headers = hs
        /\ [x EXCEPT !.headers = hs].logs = x.logs
    BY DEF IsExchange, SameAnswer
  <1> QED BY <1>2, <1>3 DEF hs

\* A response gets the middleware that is there: the access log and at most
\* two headers.
LEMMA ExchangeIs ==
  ASSUME NEW req
  PROVE  LET x == Exchange(req)
             Whole(headers) == /\ x.request = req /\ x.logs = Logs(x.status)
                               /\ x.status = ServeBase(req).status
                               /\ x.body = ServeBase(req).body
                               /\ x.headers = headers
         IN  /\ server.middleware = <<AccessLogMiddleware>> => Whole(<<>>)
             /\ \A v : server.middleware = <<AccessLogMiddleware, NewHeaderMiddleware(v)>>
                          => Whole(<<v>> \o <<>>)
             /\ \A v, w : server.middleware = <<AccessLogMiddleware, NewHeaderMiddleware(v),
                                                NewHeaderMiddleware(w)>>
                          => Whole(<<w>> \o (<<v>> \o <<>>))
  <1> DEFINE inner == [request |-> req, status |-> ServeBase(req).status,
                       body |-> ServeBase(req).body, headers |-> <<>>, logs |-> <<>>]
             W == Wrapped(inner)
             size == Len(server.middleware)
             Whole(x, headers) == /\ x.request = req /\ x.logs = Logs(x.status)
                                  /\ x.status = ServeBase(req).status
                                  /\ x.body = ServeBase(req).body
                                  /\ x.headers = headers
  <1>1. Exchange(req) = W[size]
    BY Zenon DEF Exchange
  <1>2. /\ IsExchange(inner) /\ inner.request = req /\ inner.status = ServeBase(req).status
        /\ inner.body = ServeBase(req).body /\ inner.headers = <<>> /\ inner.logs = <<>>
    BY DEF IsExchange
  <1>3. size \in Nat => /\ W[0] = inner
                        /\ \A i \in 1..size : W[i] = Wrap(W[i - 1], server.middleware[i])
    BY WrappedStep, Zenon
  <1> HIDE DEF inner, W
  <1>4. ASSUME size \in Nat, size >= 1, server.middleware[1] = AccessLogMiddleware
        PROVE  IsExchange(W[1]) /\ Whole(W[1], <<>>)
    <2>1. W[1] = Wrap(inner, AccessLogMiddleware)
      BY <1>3, <1>4
    <2>2. SameAnswer(inner, W[1]) /\ W[1].headers = inner.headers /\ W[1].logs = Logs(inner.status)
      BY <1>2, <2>1, WrapAccessLog
    <2> QED BY <1>2, <2>2 DEF SameAnswer
  <1>5. ASSUME NEW x, NEW hs, NEW v, IsExchange(x), Whole(x, hs)
        PROVE  LET y == Wrap(x, NewHeaderMiddleware(v))
               IN  IsExchange(y) /\ Whole(y, <<v>> \o hs)
    <2> DEFINE y == Wrap(x, NewHeaderMiddleware(v))
    <2>1. SameAnswer(x, y) /\ y.headers = <<v>> \o x.headers /\ y.logs = x.logs
      BY <1>5, WrapHeader
    <2>2. IsExchange(y) /\ y.request = x.request /\ y.status = x.status
          /\ y.body = x.body /\ y.headers = <<v>> \o x.headers /\ y.logs = x.logs
      BY <2>1, Zenon DEF SameAnswer
    <2> QED BY <1>5, <2>2, Zenon
  <1> DEFINE Good(x, hs) == IsExchange(x) /\ Whole(x, hs)
  <1>6. \A x, hs, v : Good(x, hs) => Good(Wrap(x, NewHeaderMiddleware(v)), <<v>> \o hs)
    BY <1>5
  <1> HIDE DEF Good
  <1>7. ASSUME server.middleware = <<AccessLogMiddleware>>
        PROVE  Whole(Exchange(req), <<>>)
    <2>1. size = 1 /\ server.middleware[1] = AccessLogMiddleware
      BY <1>7
    <2> QED BY <1>1, <1>4, <2>1
  <1>8. ASSUME NEW v, server.middleware = <<AccessLogMiddleware, NewHeaderMiddleware(v)>>
        PROVE  Whole(Exchange(req), <<v>> \o <<>>)
    <2>1. /\ size = 2 /\ server.middleware[1] = AccessLogMiddleware
          /\ server.middleware[2] = NewHeaderMiddleware(v)
      BY <1>8
    <2>2. Good(W[1], <<>>)
      BY <1>4, <2>1 DEF Good
    <2>3. W[2] = Wrap(W[1], NewHeaderMiddleware(v))
      BY <1>3, <2>1
    <2>4. Good(W[2], <<v>> \o <<>>)
      BY <1>6, <2>2, <2>3, Zenon
    <2> QED BY <1>1, <2>1, <2>4 DEF Good
  <1>9. ASSUME NEW v, NEW w,
               server.middleware = <<AccessLogMiddleware, NewHeaderMiddleware(v), NewHeaderMiddleware(w)>>
        PROVE  Whole(Exchange(req), <<w>> \o (<<v>> \o <<>>))
    <2>1. /\ size = 3 /\ server.middleware[1] = AccessLogMiddleware
          /\ server.middleware[2] = NewHeaderMiddleware(v)
          /\ server.middleware[3] = NewHeaderMiddleware(w)
      BY <1>9
    <2>2. Good(W[1], <<>>)
      BY <1>4, <2>1 DEF Good
    <2>3. W[2] = Wrap(W[1], NewHeaderMiddleware(v)) /\ W[3] = Wrap(W[2], NewHeaderMiddleware(w))
      BY <1>3, <2>1
    <2>4. Good(W[2], <<v>> \o <<>>)
      BY <1>6, <2>2, <2>3, Zenon
    <2>5. Good(W[3], <<w>> \o (<<v>> \o <<>>))
      BY <1>6, <2>3, <2>4, Zenon
    <2> QED BY <1>1, <2>1, <2>5 DEF Good
  <1> HIDE DEF size
  <1> QED BY <1>7, <1>8, <1>9, Zenon
-----------------------------------------------------------------------------
(***************************************************************************)
(* The inductive invariant                                                 *)
(***************************************************************************)
\* What the flags with this name that have run were given.
RanTexts(flag) == {o[2] : o \in {o \in line \ pending : o[1] = flag}}

Given(texts, default) == IF texts = {} THEN default ELSE CHOOSE t \in texts : TRUE

GivenInv == line \in CommandLines /\ config \in Configs

\* Nothing is shown or answered before the server listens, and it listens when
\* no flag is left, over TLS if and only if it has both files.
PhaseInv ==
    /\ phase # "serving" => reports = <<>> /\ last.request = NoRequest /\ last.body = Nothing
    /\ phase = "serving" => /\ pending = {}
                            /\ bind.tls <=> server.certFile # Nothing
                            /\ server.certFile # Nothing => server.keyFile # Nothing

\* What the properties say of the whole line, of the flags that have run.
AddressInv ==
    Texts("addr") = {} /\ Base.splits =>
        server.addr = JoinHostPort(Given(RanTexts("host") \ {Nothing}, Base.host),
                                   Given(RanTexts("port"), Base.port))

Formats(logs, disabled) ==
    LET asked == logs \cup {Nothing : v \in disabled}
    IN  IF asked = {} THEN {Configured("accessLog", "default")} ELSE asked

AccessLogInv == server.accessLog \in Formats(RanTexts("access-log"), RanTexts("no-access-log"))

MiddlewareInv ==
    server.middleware = IF RanTexts("server") = {} THEN ConfigHeaders
                        ELSE Append(ConfigHeaders,
                                    NewHeaderMiddleware(CHOOSE v \in RanTexts("server") : TRUE))

RoutesInv == \A p \in DOMAIN routes : IsHandler(routes[p])

IInv == /\ TypeOK /\ GivenInv /\ PhaseInv
        /\ AddressInv /\ AccessLogInv /\ MiddlewareInv /\ RoutesInv
        /\ LoggedAsAsked /\ ServerHeaderOnEvery /\ ReportsScheme
        /\ EchoAnswers /\ ListingsOfRoots

(***************************************************************************)
(* What the flags do                                                       *)
(***************************************************************************)
\* One flag ran, and changed of the server what the invariant is about.
FlagEffect(flag, arg) ==
    /\ phase = "flags" /\ phase' \in {"flags", "done", "failed"}
    /\ <<flag, arg>> \in pending /\ pending' = pending \ {<<flag, arg>>}
    /\ UNCHANGED <<line, config, bind, reports, last>>
    /\ Shaped(server')
    /\ server'.addr = IF flag = "host" THEN UpdateAddr(server, arg, Nothing).addr
                      ELSE IF flag = "port" THEN UpdateAddr(server, Nothing, arg).addr
                      ELSE IF flag = "addr" THEN arg
                      ELSE server.addr
    /\ server'.middleware = IF flag = "server"
                            THEN Append(server.middleware, NewHeaderMiddleware(arg))
                            ELSE server.middleware
    /\ server'.accessLog = IF flag = "access-log" THEN arg
                           ELSE IF flag = "no-access-log" THEN Nothing
                           ELSE server.accessLog

\* A flag that sets a field of the server.
FlagSets(flag, arg) == FlagEffect(flag, arg) /\ routes' = routes

\* A flag that registers a handler, if it can.
FlagHandles(flag, arg) ==
    /\ FlagEffect(flag, arg)
    /\ \/ routes' = routes
       \/ LET vp == ParseVirtualPath(arg)
          IN  \/ /\ vp.physical \in Providers
                 /\ routes' = Handle(vp.request, RegistryHandlerSpec(vp))
              \/ routes' = Handle(vp.request, FileServerHandlerSpec(vp))

LEMMA ArgsArePending ==
  ASSUME NEW flag, NEW arg \in Args(flag), GivenInv, pending \subseteq line
  PROVE  <<flag, arg>> \in pending
  <1>1. PICK o \in pending : o[1] = flag /\ o[2] = arg
    BY DEF Args
  <1>2. o = <<o[1], o[2]>>
    BY OccurrencesAssumption, Zenon DEF GivenInv
  <1> QED BY <1>1, <1>2

LEMMA UpdateAddrShape ==
  ASSUME NEW s, Shaped(s), NEW hostname, NEW port
  PROVE  Keeps(s, UpdateAddr(s, hostname, port), "addr")
  <1> DEFINE a == JoinHostPort(
                IF hostname = Nothing /\ s.addr.splits THEN s.addr.host ELSE hostname,
                IF port = Nothing /\ s.addr.splits THEN s.addr.port ELSE port)
  <1>1. UpdateAddr(s, hostname, port) = [s EXCEPT !.addr = a]
    BY UpdateAddrSets
  <1> HIDE DEF a
  <1>2. Keeps(s, [s EXCEPT !.addr = a], "addr")
    BY KeepsAddr
  <1> QED BY <1>1, <1>2

LEMMA FlagRunsEffect ==
  ASSUME FlagRuns, GivenInv, pending \subseteq line, Shaped(server)
  PROVE  \E flag, arg : \/ FlagSets(flag, arg)
                        \/ flag \in {"handler", "files"} /\ FlagHandles(flag, arg)
  <1> DEFINE Goal == \E flag, arg : \/ FlagSets(flag, arg)
                                    \/ flag \in {"handler", "files"} /\ FlagHandles(flag, arg)
  <1> SUFFICES Goal
    OBVIOUS
  <1>1. ASSUME NEW flag, NEW arg \in Args(flag), Ran(flag, arg),
               phase' \in {"flags", "done", "failed"}
        PROVE  /\ phase = "flags"
               /\ <<flag, arg>> \in pending /\ pending' = pending \ {<<flag, arg>>}
               /\ UNCHANGED <<line, config, bind, reports, last>>
    BY <1>1, ArgsArePending DEF Ran
  <1>2. ASSUME NEW flag, NEW arg \in Args(flag), Ran(flag, arg), phase' = phase,
               NEW field, Keeps(server, server', field), routes' = routes,
               flag \notin {"host", "port", "addr", "server", "access-log", "no-access-log"},
               field \notin {"hostname", "port", "addr", "serverHeader", "accessLog"}
        PROVE  Goal
    <2>1. FlagSets(flag, arg)
      BY <1>1, <1>2 DEF Ran, FlagSets, FlagEffect, Keeps
    <2> QED BY <2>1
  <1>3. CASE HostFlag
    <2>1. PICK arg \in Args("host") : Ran("host", arg) /\ server' = UpdateAddr(server, arg, Nothing)
                                      /\ UNCHANGED <<phase, routes>>
      BY <1>3, Zenon DEF HostFlag, Runs, SetHostname
    <2>2. Keeps(server, server', "addr")
      BY <2>1, UpdateAddrShape
    <2>3. FlagSets("host", arg)
      BY <1>1, <2>1, <2>2 DEF Ran, FlagSets, FlagEffect, Keeps
    <2> QED BY <2>3
  <1>4. CASE PortFlag
    <2>1. PICK arg \in Args("port") : Ran("port", arg) /\ server' = UpdateAddr(server, Nothing, arg)
                                      /\ UNCHANGED <<phase, routes>>
      BY <1>4, Zenon DEF PortFlag, Runs, SetPort
    <2>2. Keeps(server, server', "addr")
      BY <2>1, UpdateAddrShape
    <2>3. FlagSets("port", arg)
      BY <1>1, <2>1, <2>2 DEF Ran, FlagSets, FlagEffect, Keeps
    <2> QED BY <2>3
  <1>5. CASE AddrFlag
    <2>1. PICK arg \in Args("addr") : Ran("addr", arg) /\ server' = [server EXCEPT !.addr = arg]
                                      /\ UNCHANGED <<phase, routes>>
      BY <1>5, Zenon DEF AddrFlag, Runs, SetAddr
    <2>2. Keeps(server, server', "addr") /\ server'.addr = arg
      BY <2>1, KeepsExcept DEF Shaped
    <2>3. FlagSets("addr", arg)
      BY <1>1, <2>1, <2>2 DEF Ran, FlagSets, FlagEffect, Keeps
    <2> QED BY <2>3
  <1>6. CASE ServerHeaderFlag
    <2>1. PICK arg \in Args("server") :
              /\ Ran("server", arg) /\ UNCHANGED <<phase, routes>>
              /\ server' = [server EXCEPT !.middleware = Append(@, NewHeaderMiddleware(arg))]
      BY <1>6, Zenon DEF ServerHeaderFlag, Runs, SetServerHeader, AddMiddleware
    <2>2. Keeps(server, server', "serverHeader")
          /\ server'.middleware = Append(server.middleware, NewHeaderMiddleware(arg))
      BY <2>1, KeepsExcept DEF Shaped
    <2>3. FlagSets("server", arg)
      BY <1>1, <2>1, <2>2 DEF Ran, FlagSets, FlagEffect, Keeps
    <2> QED BY <2>3
  <1>7. CASE AccessLogFlag
    <2>1. PICK arg \in Args("access-log") :
              /\ Ran("access-log", arg) /\ UNCHANGED <<phase, routes>>
              /\ server' = [server EXCEPT !.accessLog = arg]
      BY <1>7, Zenon DEF AccessLogFlag, Runs, SetAccessLog
    <2>2. Keeps(server, server', "accessLog") /\ server'.accessLog = arg
      BY <2>1, KeepsExcept DEF Shaped
    <2>3. FlagSets("access-log", arg)
      BY <1>1, <2>1, <2>2 DEF Ran, FlagSets, FlagEffect, Keeps
    <2> QED BY <2>3
  <1>8. CASE NoAccessLogFlag
    <2>1. PICK arg \in Args("no-access-log") :
              /\ Ran("no-access-log", arg) /\ UNCHANGED <<phase, routes>>
              /\ server' = [server EXCEPT !.accessLog = Nothing]
      BY <1>8, Zenon DEF NoAccessLogFlag, Runs, SetAccessLog
    <2>2. Keeps(server, server', "accessLog") /\ server'.accessLog = Nothing
      BY <2>1, KeepsExcept DEF Shaped
    <2>3. FlagSets("no-access-log", arg)
      BY <1>1, <2>1, <2>2 DEF Ran, FlagSets, FlagEffect, Keeps
    <2> QED BY <2>3
  <1>9. CASE ReadTimeoutFlag
    <2>1. PICK arg \in Args("read-timeout") :
              /\ Ran("read-timeout", arg) /\ UNCHANGED <<phase, routes>>
              /\ server' = [server EXCEPT !.timeouts.read = arg]
      BY <1>9, Zenon DEF ReadTimeoutFlag, Runs, SetReadTimeout
    <2>2. Keeps(server, server', "read")
      BY <2>1, KeepsExcept
    <2> QED BY <1>2, <2>1, <2>2
  <1>10. CASE ShutdownTimeoutFlag
    <2>1. PICK arg \in Args("shutdown-timeout") :
              /\ Ran("shutdown-timeout", arg) /\ UNCHANGED <<phase, routes>>
              /\ server' = [server EXCEPT !.timeouts.shutdown = arg]
      BY <1>10, Zenon DEF ShutdownTimeoutFlag, Runs, SetShutdownTimeout
    <2>2. Keeps(server, server', "shutdown")
      BY <2>1, KeepsExcept
    <2> QED BY <1>2, <2>1, <2>2
  <1>11. CASE ReadHeaderTimeoutFlag
    <2>1. PICK arg \in Args("read-header-timeout") :
              /\ Ran("read-header-timeout", arg) /\ UNCHANGED <<phase, routes>>
              /\ server' = [server EXCEPT !.timeouts.readHeader = arg]
      BY <1>11, Zenon DEF ReadHeaderTimeoutFlag, Runs, SetReadHeaderTimeout
    <2>2. Keeps(server, server', "readHeader")
      BY <2>1, KeepsExcept
    <2> QED BY <1>2, <2>1, <2>2
  <1>12. CASE WriteTimeoutFlag
    <2>1. PICK arg \in Args("write-header-timeout") :
              /\ Ran("write-header-timeout", arg) /\ UNCHANGED <<phase, routes>>
              /\ server' = [server EXCEPT !.timeouts.write = arg]
      BY <1>12, Zenon DEF WriteTimeoutFlag, Runs, SetWriteTimeout
    <2>2. Keeps(server, server', "write")
      BY <2>1, KeepsExcept
    <2> QED BY <1>2, <2>1, <2>2
  <1>13. CASE IdleTimeoutFlag
    <2>1. PICK arg \in Args("idle-timeout") :
              /\ Ran("idle-timeout", arg) /\ UNCHANGED <<phase, routes>>
              /\ server' = [server EXCEPT !.timeouts.idle = arg]
      BY <1>13, Zenon DEF IdleTimeoutFlag, Runs, SetIdleTimeout
    <2>2. Keeps(server, server', "idle")
      BY <2>1, KeepsExcept
    <2> QED BY <1>2, <2>1, <2>2
  <1>14. CASE MaxHeaderBytesFlag
    <2>1. PICK arg \in Args("max-header-bytes") :
              /\ Ran("max-header-bytes", arg) /\ UNCHANGED <<phase, routes>>
              /\ server' = [server EXCEPT !.maxHeaderBytes = arg]
      BY <1>14, Zenon DEF MaxHeaderBytesFlag, Runs, SetMaxHeaderBytes
    <2>2. Keeps(server, server', "maxHeaderBytes")
      BY <2>1, KeepsExcept
    <2> QED BY <1>2, <2>1, <2>2
  <1>15. CASE DirectoryFlag
    <2>1. PICK arg \in Args("directory") :
              /\ Ran("directory", arg) /\ UNCHANGED <<phase, routes>>
              /\ server' = [server EXCEPT !.staticDir = arg]
      BY <1>15, Zenon DEF DirectoryFlag, Runs, SetStaticDirectory
    <2>2. Keeps(server, server', "staticDir")
      BY <2>1, KeepsExcept
    <2> QED BY <1>2, <2>1, <2>2
  <1>16. CASE HideFlag
    <2>1. PICK arg \in Args("hide-directory-listings") :
              /\ Ran("hide-directory-listings", arg) /\ UNCHANGED <<phase, routes>>
              /\ Keeps(server, server', "hideDirListings")
      BY <1>16, KeepsExcept, Zenon DEF HideFlag, Runs, SetHideDirectoryListings
    <2> QED BY <1>2, <2>1
  <1>17. CASE OpenFlag
    <2>1. PICK arg \in Args("open") :
              /\ Ran("open", arg) /\ UNCHANGED <<phase, routes>>
              /\ Keeps(server, server', "ready")
      BY <1>17, KeepsExcept, Zenon DEF OpenFlag, Runs, AddReadyFunc
    <2> QED BY <1>2, <2>1
  <1>18. CASE CertFlag
    <2>1. PICK arg \in Args("cert") :
              /\ Ran("cert", arg) /\ UNCHANGED <<phase, routes>>
              /\ server' = [server EXCEPT !.certFile = arg]
      BY <1>18, Zenon DEF CertFlag, Runs, SetTLSCertFile
    <2>2. Keeps(server, server', "certFile")
      BY <2>1, KeepsExcept
    <2> QED BY <1>2, <2>1, <2>2
  <1>19. CASE KeyFlag
    <2>1. PICK arg \in Args("key") :
              /\ Ran("key", arg) /\ UNCHANGED <<phase, routes>>
              /\ server' = [server EXCEPT !.keyFile = arg]
      BY <1>19, Zenon DEF KeyFlag, Runs, SetTLSKeyFile
    <2>2. Keeps(server, server', "keyFile")
      BY <2>1, KeepsExcept
    <2> QED BY <1>2, <2>1, <2>2
  <1>20. CASE HandlerFlag
    <2>1. PICK arg \in Args("handler") :
              /\ Ran("handler", arg) /\ UNCHANGED server
              /\ LET vp == ParseVirtualPath(arg)
                 IN  \/ /\ vp.physical \in Providers /\ UNCHANGED phase
                        /\ routes' = Handle(vp.request, RegistryHandlerSpec(vp))
                     \/ phase' = "failed" /\ UNCHANGED routes
      BY <1>20, Zenon DEF HandlerFlag, HandleSpec
    <2>2. FlagHandles("handler", arg)
      BY <1>1, <2>1 DEF Ran, FlagHandles, FlagEffect
    <2> QED BY <2>2
  <1>21. CASE FilesArg
    <2>1. PICK arg \in Args("files") :
              /\ Ran("files", arg) /\ UNCHANGED server
              /\ LET vp == ParseVirtualPath(arg)
                 IN  \/ /\ UNCHANGED phase
                        /\ routes' = Handle(vp.request, FileServerHandlerSpec(vp))
                     \/ phase' = "failed" /\ UNCHANGED routes
      BY <1>21, Zenon DEF FilesArg, HandleSpec
    <2>2. FlagHandles("files", arg)
      BY <1>1, <2>1 DEF Ran, FlagHandles, FlagEffect
    <2> QED BY <2>2
  <1>22. CASE ListHandlers
    <2>1. PICK arg \in Args("list-handlers") :
              Ran("list-handlers", arg) /\ phase' = "done" /\ UNCHANGED <<server, routes>>
      BY <1>22 DEF ListHandlers
    <2>2. FlagSets("list-handlers", arg)
      BY <1>1, <2>1 DEF Ran, FlagSets, FlagEffect
    <2> QED BY <2>2
  <1> HIDE DEF Goal
  <1> QED BY <1>3, <1>4, <1>5, <1>6, <1>7, <1>8, <1>9, <1>10, <1>11, <1>12, <1>13, <1>14, <1>15,
             <1>16, <1>17, <1>18, <1>19, <1>20, <1>21, <1>22, Zenon DEF FlagRuns

\* A parsed virtual path begins with "/", and its options have their types.
LEMMA ParsedPath ==
  ASSUME NEW arg, IsVirtualPath(arg)
  PROVE  LET vp == ParseVirtualPath(arg)
         IN  /\ vp.request \in Seq(Tokens) /\ vp.request # NoPath /\ Head(vp.request) = "/"
             /\ Option(vp.options, "failsafe", FALSE) \in BOOLEAN
             /\ Option(vp.options, "code", 307) \in Nat
  <1> DEFINE vp == ParseVirtualPath(arg)
             text == arg.text
             Begins(token) == text # NoPath /\ Head(text) = token
             rest == IF Begins("./") THEN Tail(text) ELSE text
  <1>1. text \in Seq(Tokens)
    BY DEF IsVirtualPath
  <1>2. vp.request = IF Begins("/") THEN text ELSE <<"/">> \o rest
    BY DEF ParseVirtualPath
  <1>3. vp.options = IF arg.colon THEN arg.options ELSE << >>
    BY DEF ParseVirtualPath
  <1>4. rest \in Seq(Tokens)
    <2>1. text # NoPath => Tail(text) \in Seq(Tokens)
      BY <1>1, HeadTailProperties DEF NoPath
    <2> QED BY <1>1, <2>1
  <1> HIDE DEF vp, rest, text
  <1>5. /\ <<"/">> \o rest \in Seq(Tokens) /\ <<"/">> \o rest # NoPath
        /\ Head(<<"/">> \o rest) = "/"
    <2>1. "/" \in Tokens
      BY RequestsAssumption
    <2>2. <<"/">> \in Seq(Tokens) /\ Len(<<"/">>) = 1 /\ <<"/">>[1] = "/"
      BY <2>1
    <2> DEFINE path == <<"/">> \o rest
    <2>3. /\ path \in Seq(Tokens) /\ path[1] = "/"
          /\ Len(path) = 1 + Len(rest) /\ Len(rest) \in Nat
      BY <1>4, <2>2, ConcatProperties
    <2> HIDE DEF path
    <2>4. Len(NoPath) = 0
      BY DEF NoPath
    <2>5. path # NoPath
      BY <2>3, <2>4
    <2>6. Head(path) = path[1]
      BY <2>3, <2>5 DEF NoPath
    <2> QED BY <2>3, <2>5, <2>6 DEF path
  <1>6. vp.request \in Seq(Tokens) /\ vp.request # NoPath /\ Head(vp.request) = "/"
    BY <1>1, <1>2, <1>5, Zenon
  <1>7. /\ Option(vp.options, "failsafe", FALSE) \in BOOLEAN
        /\ Option(vp.options, "code", 307) \in Nat
    <2>1. DOMAIN << >> = {}
      OBVIOUS
    <2>2. CASE arg.colon
      <3>1. vp.options = arg.options
        BY <1>3, <2>2
      <3>2. Option(vp.options, "failsafe", FALSE) \in BOOLEAN
        BY <3>1 DEF Option, IsVirtualPath
      <3>3. Option(vp.options, "code", 307) \in Nat
        BY <3>1 DEF Option, IsVirtualPath
      <3> QED BY <3>2, <3>3
    <2>3. CASE ~arg.colon
      <3>1. DOMAIN vp.options = {}
        BY <1>3, <2>1, <2>3
      <3> QED BY <3>1 DEF Option
    <2> QED BY <2>2, <2>3
  <1> QED BY <1>6, <1>7 DEF vp

RoutesType ==
    \A p \in DOMAIN routes : /\ p \in Seq(Tokens) /\ p # NoPath /\ Head(p) = "/"
                             /\ routes[p].strip \in {NoPath, p}

LEMMA HandleAdds ==
  ASSUME RoutesType, RoutesInv, NEW p \in Seq(Tokens), p # NoPath, Head(p) = "/",
         NEW h, IsHandler(h), h.strip \in {NoPath, p}, routes' = Handle(p, h)
  PROVE  RoutesType' /\ RoutesInv'
  <1>1. /\ DOMAIN routes' = DOMAIN routes \cup {p}
        /\ \A q \in DOMAIN routes' : routes'[q] = IF q = p THEN h ELSE routes[q]
    BY DEF Handle
  <1>2. RoutesInv'
    BY <1>1 DEF RoutesInv
  <1>3. RoutesType'
    <2> SUFFICES ASSUME NEW q \in DOMAIN routes'
                 PROVE  /\ q \in Seq(Tokens) /\ q # NoPath /\ Head(q) = "/"
                        /\ routes'[q].strip \in {NoPath, q}
      BY Zenon DEF RoutesType
    <2>1. CASE q = p
      BY <1>1, <2>1
    <2>2. CASE q # p
      BY <1>1, <2>2 DEF RoutesType
    <2> QED BY <2>1, <2>2
  <1> QED BY <1>2, <1>3

LEMMA FlagHandlesRoutes ==
  ASSUME RoutesType, RoutesInv, GivenInv, pending \subseteq line,
         NEW flag \in {"handler", "files"}, NEW arg, FlagHandles(flag, arg)
  PROVE  RoutesType' /\ RoutesInv'
  <1> DEFINE vp == ParseVirtualPath(arg)
  <1>1. IsVirtualPath(arg)
    <2> DEFINE o == <<flag, arg>>
    <2>1. o \in pending /\ o[1] = flag /\ o[2] = arg
      BY DEF FlagHandles, FlagEffect
    <2> HIDE DEF o
    <2> QED BY <2>1, ArgumentsAssumption DEF GivenInv
  <1>2. /\ vp.request \in Seq(Tokens) /\ vp.request # NoPath /\ Head(vp.request) = "/"
        /\ Option(vp.options, "failsafe", FALSE) \in BOOLEAN
        /\ Option(vp.options, "code", 307) \in Nat
    BY <1>1, ParsedPath
  <1>3. CASE routes' = routes
    BY <1>3 DEF RoutesType, RoutesInv
  <1>4. CASE vp.physical \in Providers /\ routes' = Handle(vp.request, RegistryHandlerSpec(vp))
    <2> DEFINE h == RegistryHandlerSpec(vp)
               kind == IF Head(vp.physical) = "reflect" THEN "echo" ELSE Head(vp.physical)
    <2> HIDE DEF vp
    <2>1. /\ h.kind = kind /\ h.strip = IF kind = "reload" THEN NoPath ELSE vp.request
          /\ h.failsafe = Option(vp.options, "failsafe", FALSE)
          /\ h.code = Option(vp.options, "code", 307)
      BY DEF RegistryHandlerSpec, Handler
    <2>2. kind \in {"file", "ping", "redirect", "echo", "reload"}
      BY <1>4 DEF Providers
    <2> HIDE DEF h, kind
    <2>3. IsHandler(h) /\ h.strip \in {NoPath, vp.request}
      BY <1>2, <2>1, <2>2 DEF IsHandler
    <2>4. routes' = Handle(vp.request, h)
      BY <1>4 DEF h
    <2> QED BY <1>2, <2>3, <2>4, HandleAdds
  <1>5. CASE routes' = Handle(vp.request, FileServerHandlerSpec(vp))
    <2> DEFINE h == FileServerHandlerSpec(vp)
    <2> HIDE DEF vp
    <2>1. h.kind = "file" /\ h.strip = vp.request /\ h.failsafe = FALSE /\ h.code = 0
      BY DEF FileServerHandlerSpec, NewFileServerHandler, Handler
    <2> HIDE DEF h
    <2>2. h.kind \in {"file", "ping", "redirect", "echo", "reload"}
      BY <2>1
    <2>3. IsHandler(h)
      <3>1. h.failsafe \in BOOLEAN
        BY <2>1
      <3>2. h.code \in Nat
        BY <2>1
      <3> QED BY <2>2, <3>1, <3>2, Zenon DEF IsHandler
    <2>4. h.strip \in {NoPath, vp.request}
      BY <2>1
    <2>5. routes' = Handle(vp.request, h)
      BY <1>5 DEF h
    <2> QED BY <1>2, <2>3, <2>4, <2>5, HandleAdds
  <1> QED BY <1>3, <1>4, <1>5 DEF FlagHandles

\* What has run after a flag: what had, and this one; and only --handler and
\* the directories had run before.
LEMMA RanNext ==
  ASSUME GivenInv, pending \subseteq line, NEW flag, NEW arg, FlagEffect(flag, arg)
  PROVE  /\ \A other : other # flag => RanTexts(other)' = RanTexts(other)
         /\ RanTexts(flag)' = RanTexts(flag) \cup {arg}
         /\ flag \notin {"handler", "files"} => RanTexts(flag) = {}
  <1> DEFINE o == <<flag, arg>>
  <1>1. o \in pending /\ pending' = pending \ {o} /\ line' = line /\ o[1] = flag /\ o[2] = arg
    BY DEF FlagEffect
  <1> HIDE DEF o
  <1>2. line' \ pending' = (line \ pending) \cup {o}
    BY <1>1
  <1> DEFINE ran == line \ pending
             ranNext == line' \ pending'
  <1> HIDE DEF ran, ranNext
  <1>3. ranNext = ran \cup {o}
    BY <1>2 DEF ran, ranNext
  <1>4. \A f : RanTexts(f) = {p[2] : p \in {p \in ran : p[1] = f}}
    BY Zenon DEF RanTexts, ran
  <1>5. \A f : RanTexts(f)' = {p[2] : p \in {p \in ranNext : p[1] = f}}
    BY Zenon DEF RanTexts, ranNext
  <1>6. ASSUME NEW other, other # flag PROVE RanTexts(other)' = RanTexts(other)
    <2>1. {p \in ranNext : p[1] = other} = {p \in ran : p[1] = other}
      BY <1>1, <1>3, <1>6
    <2> QED BY <1>4, <1>5, <2>1
  <1>7. RanTexts(flag)' = RanTexts(flag) \cup {arg}
    <2>1. {p \in ranNext : p[1] = flag} = {p \in ran : p[1] = flag} \cup {o}
      BY <1>1, <1>3
    <2> DEFINE S == {p \in ran : p[1] = flag}
    <2> HIDE DEF S
    <2>2. RanTexts(flag)' = {p[2] : p \in S \cup {o}} /\ RanTexts(flag) = {p[2] : p \in S}
      BY <1>4, <1>5, <2>1 DEF S
    <2> QED BY <1>1, <2>2
  <1>8. ASSUME flag \notin {"handler", "files"} PROVE RanTexts(flag) = {}
    <2>1. SUFFICES ASSUME NEW p \in ran, p[1] = flag PROVE FALSE
      BY <1>4
    <2>2. p \in line /\ o \in line /\ p \notin pending
      BY <1>1, <2>1 DEF ran
    <2>3. p = o
      BY <1>1, <1>8, <2>1, <2>2, OccurrencesAssumption DEF GivenInv
    <2> QED BY <1>1, <2>2, <2>3
  <1> QED BY <1>6, <1>7, <1>8

LEMMA TypeIsShaped == TypeOK => Shaped(server) /\ RoutesType
  BY DEF TypeOK, Shaped, NewServer, RoutesType

LEMMA ConfigKept ==
  ASSUME config' = config, line' = line
  PROVE  /\ Base' = Base /\ ConfigHeaders' = ConfigHeaders
         /\ \A field, default : Configured(field, default)' = Configured(field, default)
         /\ \A flag : Texts(flag)' = Texts(flag)
  <1>1. Base' = Base
    BY DEF Base, Configured
  <1>2. ConfigHeaders' = ConfigHeaders
    BY DEF ConfigHeaders
  <1>3. \A field, default : Configured(field, default)' = Configured(field, default)
    BY DEF Configured
  <1>4. \A flag : Texts(flag)' = Texts(flag)
    BY DEF Texts
  <1> QED BY <1>1, <1>2, <1>3, <1>4

LEMMA GivenOne ==
  /\ \A default : Given({}, default) = default
  /\ \A t, default : Given({t}, default) = t
  BY DEF Given

\* One of --host, --port and --addr sets its part and keeps the other.
LEMMA AddressStep ==
  ASSUME TypeOK, GivenInv, AddressInv, NEW flag, NEW arg, FlagEffect(flag, arg)
  PROVE  AddressInv' /\ IsAddress(server'.addr)
  <1> DEFINE o == <<flag, arg>>
             hosts == RanTexts("host")
             ports == RanTexts("port")
  <1>1. o \in line /\ o[1] = flag /\ o[2] = arg /\ line \in CommandLines
    BY DEF FlagEffect, TypeOK, GivenInv
  <1>2. Shaped(server) /\ IsAddress(server.addr)
    BY TypeIsShaped DEF TypeOK
  <1>3. /\ \A other : other # flag => RanTexts(other)' = RanTexts(other)
        /\ RanTexts(flag)' = RanTexts(flag) \cup {arg}
        /\ flag \notin {"handler", "files"} => RanTexts(flag) = {}
    BY RanNext DEF TypeOK
  <1>4. Base' = Base /\ Texts("addr")' = Texts("addr")
    BY ConfigKept DEF FlagEffect
  <1> DEFINE Or(new, old) == IF new = Nothing /\ server.addr.splits THEN old ELSE new
             a == JoinHostPort(Or(arg, server.addr.host), Or(Nothing, server.addr.port))
             b == JoinHostPort(Or(Nothing, server.addr.host), Or(arg, server.addr.port))
  <1>5. /\ flag = "host" => server'.addr = a
        /\ flag = "port" => server'.addr = b
        /\ flag = "addr" => server'.addr = arg
        /\ flag \notin {"host", "port", "addr"} => server'.addr = server.addr
    <2>1. UpdateAddr(server, arg, Nothing) = [server EXCEPT !.addr = a]
      BY <1>2, UpdateAddrSets
    <2>2. UpdateAddr(server, Nothing, arg) = [server EXCEPT !.addr = b]
      BY <1>2, UpdateAddrSets
    <2> HIDE DEF a, b
    <2>3. UpdateAddr(server, arg, Nothing).addr = a /\ UpdateAddr(server, Nothing, arg).addr = b
      BY <1>2, <2>1, <2>2 DEF Shaped
    <2> QED BY <2>3 DEF FlagEffect
  <1>6. IsAddress(server'.addr)
    <2>1. IsAddress(a) /\ IsAddress(b)
      BY DEF IsAddress, JoinHostPort
    <2>2. flag = "addr" => IsAddress(arg)
      BY <1>1, ArgumentsAssumption
    <2> HIDE DEF a, b
    <2> QED BY <1>2, <1>5, <2>1, <2>2
  <1>7. ASSUME Texts("addr")' = {}, (Base.splits)'
        PROVE  server'.addr = JoinHostPort(Given(RanTexts("host")' \ {Nothing}, Base.host),
                                           Given(RanTexts("port")', Base.port))
    <2>1. server.addr = JoinHostPort(Given(hosts \ {Nothing}, Base.host), Given(ports, Base.port))
      BY <1>4, <1>7 DEF AddressInv
    <2>2. /\ server.addr.splits = TRUE
          /\ server.addr.host = Given(hosts \ {Nothing}, Base.host)
          /\ server.addr.port = Given(ports, Base.port)
      BY <2>1 DEF JoinHostPort
    <2> HIDE DEF o
    <2>3. flag # "addr"
      <3>1. o[1] = "addr" => o[2] \in Texts("addr")
        BY <1>1 DEF Texts
      <3> QED BY <1>1, <1>4, <1>7, <3>1
    <2>4. CASE flag = "host"
      <3>1. hosts = {} /\ RanTexts("host")' = {arg} /\ RanTexts("port")' = ports
        BY <1>3, <2>4
      <3>2. server.addr.host = Base.host
        <4>1. hosts \ {Nothing} = {}
          BY <3>1
        <4> QED BY <2>2, <4>1, GivenOne
      <3>3. server'.addr = JoinHostPort(IF arg = Nothing THEN Base.host ELSE arg,
                                        Given(ports, Base.port))
        BY <1>5, <2>2, <2>4, <3>2
      <3>4. Given({arg} \ {Nothing}, Base.host) = IF arg = Nothing THEN Base.host ELSE arg
        <4>1. {arg} \ {Nothing} = IF arg = Nothing THEN {} ELSE {arg}
          OBVIOUS
        <4> QED BY <4>1, GivenOne
      <3> QED BY <3>1, <3>3, <3>4
    <2>5. CASE flag = "port"
      <3>1. ports = {} /\ RanTexts("port")' = {arg} /\ RanTexts("host")' = hosts
        BY <1>3, <2>5
      <3>2. arg # Nothing
        BY <1>1, <2>5, ArgumentsAssumption
      <3>3. server'.addr = JoinHostPort(Given(hosts \ {Nothing}, Base.host), arg)
        BY <1>5, <2>2, <2>5, <3>2
      <3>4. Given({arg}, Base.port) = arg
        BY GivenOne
      <3> QED BY <3>1, <3>3, <3>4
    <2>6. CASE flag \notin {"host", "port"}
      <3>1. RanTexts("port")' = ports /\ RanTexts("host")' = hosts
        BY <1>3, <2>6
      <3>2. server'.addr = server.addr
        BY <1>5, <2>3, <2>6
      <3> QED BY <2>1, <3>1, <3>2
    <2> QED BY <2>4, <2>5, <2>6
  <1>8. AddressInv'
    BY <1>4, <1>7 DEF AddressInv
  <1> QED BY <1>6, <1>8

LEMMA AccessLogStep ==
  ASSUME TypeOK, GivenInv, AccessLogInv, NEW flag, NEW arg, FlagEffect(flag, arg)
  PROVE  AccessLogInv'
  <1> DEFINE default == Configured("accessLog", "default")
             asked   == RanTexts("access-log") \cup {Nothing : v \in RanTexts("no-access-log")}
             askedNext == RanTexts("access-log")' \cup {Nothing : v \in RanTexts("no-access-log")'}
  <1>1. /\ \A other : other # flag => RanTexts(other)' = RanTexts(other)
        /\ RanTexts(flag)' = RanTexts(flag) \cup {arg}
    BY RanNext DEF TypeOK
  <1>2. Configured("accessLog", "default")' = default
    BY ConfigKept DEF FlagEffect
  <1> HIDE DEF default
  <1>3. server.accessLog \in IF asked = {} THEN {default} ELSE asked
    BY DEF AccessLogInv, Formats, default
  <1>4. server'.accessLog \in IF askedNext = {} THEN {default} ELSE askedNext
    <2>1. CASE flag = "access-log"
      BY <1>1, <2>1 DEF FlagEffect
    <2>2. CASE flag = "no-access-log"
      <3>1. arg \in RanTexts("no-access-log")'
        BY <1>1, <2>2
      <3>2. server'.accessLog = Nothing
        BY <2>2 DEF FlagEffect
      <3>3. Nothing \in askedNext
        BY <3>1
      <3> QED BY <3>2, <3>3
    <2>3. CASE flag \notin {"access-log", "no-access-log"}
      <3>1. askedNext = asked
        BY <1>1, <2>3
      <3>2. server'.accessLog = server.accessLog
        BY <2>3 DEF FlagEffect
      <3> QED BY <1>3, <3>1, <3>2
    <2> QED BY <2>1, <2>2, <2>3
  <1> QED BY <1>2, <1>4 DEF AccessLogInv, Formats

LEMMA MiddlewareStep ==
  ASSUME TypeOK, GivenInv, MiddlewareInv, NEW flag, NEW arg, FlagEffect(flag, arg)
  PROVE  MiddlewareInv'
  <1>1. /\ \A other : other # flag => RanTexts(other)' = RanTexts(other)
        /\ RanTexts(flag)' = RanTexts(flag) \cup {arg}
        /\ flag \notin {"handler", "files"} => RanTexts(flag) = {}
    BY RanNext DEF TypeOK
  <1>2. ConfigHeaders' = ConfigHeaders
    BY ConfigKept DEF FlagEffect
  <1>3. CASE flag = "server"
    <2>1. RanTexts("server") = {} /\ RanTexts("server")' = {arg}
      BY <1>1, <1>3
    <2>2. server'.middleware = Append(ConfigHeaders, NewHeaderMiddleware(arg))
      BY <1>3, <2>1 DEF FlagEffect, MiddlewareInv
    <2>3. (CHOOSE v \in {arg} : TRUE) = arg
      OBVIOUS
    <2>4. (CHOOSE v \in RanTexts("server")' : TRUE) = arg
      BY <2>1, <2>3
    <2>5. RanTexts("server")' # {}
      BY <2>1
    <2> QED BY <1>2, <2>2, <2>4, <2>5 DEF MiddlewareInv
  <1>4. CASE flag # "server"
    <2>1. RanTexts("server")' = RanTexts("server")
      BY <1>1, <1>4
    <2>2. server'.middleware = server.middleware
      BY <1>4 DEF FlagEffect
    <2>3. server.middleware = IF RanTexts("server") = {} THEN ConfigHeaders
                        ELSE Append(ConfigHeaders,
                                    NewHeaderMiddleware(CHOOSE v \in RanTexts("server") : TRUE))
      BY Zenon DEF MiddlewareInv
    <2>4. server'.middleware = IF RanTexts("server")' = {} THEN ConfigHeaders'
                        ELSE Append(ConfigHeaders',
                                    NewHeaderMiddleware(CHOOSE v \in RanTexts("server")' : TRUE))
      BY <1>2, <2>1, <2>2, <2>3
    <2> QED BY <2>4, Zenon DEF MiddlewareInv
  <1> QED BY <1>3, <1>4

LEMMA AccessLogFirst ==
  ASSUME NEW v, NEW w
  PROVE  /\ <<AccessLogMiddleware>>[1] = AccessLogMiddleware
         /\ Append(<<AccessLogMiddleware>>, v)[1] = AccessLogMiddleware
         /\ Append(<<AccessLogMiddleware, w>>, v)[1] = AccessLogMiddleware
  <1> DEFINE a == AccessLogMiddleware
  <1> HIDE DEF a
  <1>1. Append(<<a>>, v) = <<a, v>> /\ Append(<<a, w>>, v) = <<a, w, v>>
    BY AppendToOne, AppendToTwo
  <1>2. <<a>>[1] = a /\ <<a, v>>[1] = a /\ <<a, w, v>>[1] = a
    OBVIOUS
  <1> QED BY <1>1, <1>2 DEF a

\* The properties say nothing before the server answers.
Unanswered == last.request = NoRequest /\ last.body = Nothing /\ reports = <<>>

LEMMA NothingAnswered ==
  Unanswered => /\ LoggedAsAsked /\ ServerHeaderOnEvery /\ ReportsScheme
                /\ EchoAnswers /\ ListingsOfRoots
  <1> SUFFICES ASSUME Unanswered
               PROVE  /\ LoggedAsAsked /\ ServerHeaderOnEvery /\ ReportsScheme
                      /\ EchoAnswers /\ ListingsOfRoots
    OBVIOUS
  <1>1. LoggedAsAsked /\ ServerHeaderOnEvery
    BY DEF Unanswered, LoggedAsAsked, ServerHeaderOnEvery
  <1>2. ReportsScheme
    BY DEF Unanswered, ReportsScheme
  <1>3. EchoAnswers /\ ListingsOfRoots
    BY DEF Unanswered, EchoAnswers, ListingsOfRoots, Nothing
  <1> QED BY <1>1, <1>2, <1>3

LEMMA FlagPreserves ==
  ASSUME IInv, FlagRuns
  PROVE  IInv'
  <1> USE DEF IInv
  <1>1. Shaped(server) /\ RoutesType /\ pending \subseteq line
    BY TypeIsShaped DEF TypeOK
  <1>2. PICK flag, arg : \/ FlagSets(flag, arg)
                         \/ flag \in {"handler", "files"} /\ FlagHandles(flag, arg)
    BY <1>1, FlagRunsEffect
  <1>3. FlagEffect(flag, arg)
    BY <1>2 DEF FlagSets, FlagHandles
  <1>4. RoutesType' /\ RoutesInv'
    <2>1. CASE FlagSets(flag, arg)
      BY <1>1, <2>1 DEF FlagSets, RoutesType, RoutesInv
    <2>2. CASE flag \in {"handler", "files"} /\ FlagHandles(flag, arg)
      BY <1>1, <2>2, FlagHandlesRoutes
    <2> QED BY <1>2, <2>1, <2>2
  <1>5. AddressInv' /\ IsAddress(server'.addr) /\ AccessLogInv' /\ MiddlewareInv'
    BY <1>3, AddressStep, AccessLogStep, MiddlewareStep
  <1>6. server'.middleware[1] = AccessLogMiddleware
    <2> DEFINE v == NewHeaderMiddleware(CHOOSE v \in RanTexts("server")' : TRUE)
               w == NewHeaderMiddleware(config'.serverHeader)
    <2>1. server'.middleware \in {ConfigHeaders', Append(ConfigHeaders', v)}
      BY <1>5, Zenon DEF MiddlewareInv
    <2>2. ConfigHeaders' \in {<<AccessLogMiddleware>>, <<AccessLogMiddleware, w>>}
      BY Zenon DEF ConfigHeaders
    <2> HIDE DEF v, w
    <2>3. <<AccessLogMiddleware, w>>[1] = AccessLogMiddleware
      OBVIOUS
    <2> QED BY <2>1, <2>2, <2>3, AccessLogFirst
  <1>7. Unanswered' /\ phase # "serving" /\ phase' # "serving"
    BY <1>3 DEF FlagEffect, PhaseInv, Unanswered, NoRequest
  <1>8. TypeOK'
    <2>1. /\ DOMAIN server' = DOMAIN NewServer
          /\ DOMAIN server'.timeouts = DOMAIN NewServer.timeouts
      BY <1>3, ShapedIsShape DEF FlagEffect
    <2>2. /\ pending' \subseteq line' /\ phase' \in {"flags", "serving", "done", "failed"}
          /\ bind' = bind /\ last' = last
      BY <1>1, <1>3 DEF FlagEffect
    <2>3. bind.listening \in BOOLEAN /\ bind.tls \in BOOLEAN /\ last.status \in Nat
      BY DEF TypeOK
    <2> QED BY <1>4, <1>5, <1>6, <1>7, <2>1, <2>2, <2>3 DEF TypeOK, RoutesType
  <1>9. GivenInv' /\ PhaseInv'
    BY <1>3, <1>7 DEF FlagEffect, GivenInv, PhaseInv, Unanswered, NoRequest
  <1>10. (LoggedAsAsked /\ ServerHeaderOnEvery /\ ReportsScheme /\ EchoAnswers
          /\ ListingsOfRoots)'
    BY <1>7, NothingAnswered, PTL
  <1> QED BY <1>4, <1>5, <1>8, <1>9, <1>10

\* What was read off the flags stays as they do.
LEMMA FlagsKept ==
  ASSUME AddressInv, AccessLogInv, MiddlewareInv, UNCHANGED <<line, config, pending, server>>
  PROVE  AddressInv' /\ AccessLogInv' /\ MiddlewareInv'
  <1>1. /\ Base' = Base /\ ConfigHeaders' = ConfigHeaders /\ Texts("addr")' = Texts("addr")
        /\ Configured("accessLog", "default")' = Configured("accessLog", "default")
    BY ConfigKept
  <1>2. \A flag : RanTexts(flag)' = RanTexts(flag)
    BY DEF RanTexts
  <1>3. AddressInv'
    BY <1>1, <1>2 DEF AddressInv
  <1>4. AccessLogInv'
    BY <1>1, <1>2 DEF AccessLogInv, Formats
  <1>5. MiddlewareInv'
    <2>1. server.middleware = IF RanTexts("server") = {} THEN ConfigHeaders
                        ELSE Append(ConfigHeaders,
                                    NewHeaderMiddleware(CHOOSE v \in RanTexts("server") : TRUE))
      BY Zenon DEF MiddlewareInv
    <2>2. server'.middleware = IF RanTexts("server")' = {} THEN ConfigHeaders'
                        ELSE Append(ConfigHeaders',
                                    NewHeaderMiddleware(CHOOSE v \in RanTexts("server")' : TRUE))
      BY <1>1, <1>2, <2>1
    <2> QED BY <2>2, Zenon DEF MiddlewareInv
  <1> QED BY <1>3, <1>4, <1>5

\* The pattern that a path is routed by.
RouteOf(rs, path) ==
    LET matching == {p \in DOMAIN rs : Matches(p, path)}
    IN  CHOOSE p \in matching : \A q \in matching : Len(p) >= Len(q)

\* The handler that serves a path.
HandlerOf(s, rs, path) ==
    IF DOMAIN rs = {}
    THEN NewFileServerHandler(NoPath, IF s.staticDir = NoPath THEN Dot ELSE s.staticDir,
                              s.hideDirListings)
    ELSE rs[RouteOf(rs, path)]

\* The response x of the handler h is one that the properties allow.
AnswerOf(h, x) ==
    /\ x.body \in {"errors", "reflection"} =>
           /\ h.failsafe => x.status = 200 /\ x.body = "reflection"
           /\ x.status = 400 <=> x.body = "errors"
    /\ x.body = "listing" /\ h.hide => x.request.path = h.strip

LEMMA AnswersAre ==
  /\ EchoAnswers /\ ListingsOfRoots
        <=> AnswerOf(HandlerOf(server, routes, last.request.path), last)
  /\ (EchoAnswers /\ ListingsOfRoots)'
        <=> AnswerOf(HandlerOf(server', routes', last'.request.path), last')
  <1>1. HandlerFor(last.request.path) = HandlerOf(server, routes, last.request.path)
    BY Zenon DEF HandlerFor, HandlerOf, DefaultHandler, Pattern, RouteOf, Matching
  <1>2. HandlerFor(last.request.path)' = HandlerOf(server', routes', last'.request.path)
    BY Zenon DEF HandlerFor, HandlerOf, DefaultHandler, Pattern, RouteOf, Matching
  <1>3. EchoAnswers /\ ListingsOfRoots
           <=> AnswerOf(HandlerOf(server, routes, last.request.path), last)
    BY <1>1, Zenon DEF EchoAnswers, ListingsOfRoots, AnswerOf
  <1>4. (EchoAnswers /\ ListingsOfRoots)'
           <=> AnswerOf(HandlerOf(server', routes', last'.request.path), last')
    BY <1>2, Zenon DEF EchoAnswers, ListingsOfRoots, AnswerOf
  <1> QED BY <1>3, <1>4

LoggedAs(formats, x) ==
    x.request # NoRequest =>
        \E f \in formats :
            x.logs = IF f = Nothing THEN <<>> ELSE <<[format |-> f, status |-> x.status]>>

LEMMA LoggedIs ==
  /\ LoggedAsAsked <=> LoggedAs(Formats(Texts("access-log"), Texts("no-access-log")), last)
  /\ LoggedAsAsked' <=> LoggedAs(Formats(Texts("access-log"), Texts("no-access-log"))', last')
  <1>1. LoggedAsAsked <=> LoggedAs(Formats(Texts("access-log"), Texts("no-access-log")), last)
    BY Zenon DEF LoggedAsAsked, LoggedAs, Formats
  <1>2. LoggedAsAsked' <=> LoggedAs(Formats(Texts("access-log"), Texts("no-access-log"))', last')
    BY Zenon DEF LoggedAsAsked, LoggedAs, Formats
  <1> QED BY <1>1, <1>2

LEMMA FormatsKept ==
  ASSUME UNCHANGED <<line, config>>
  PROVE  Formats(Texts("access-log"), Texts("no-access-log"))'
            = Formats(Texts("access-log"), Texts("no-access-log"))
  BY ConfigKept DEF Formats

LEMMA AnswersKept ==
  ASSUME LoggedAsAsked, ServerHeaderOnEvery, EchoAnswers, ListingsOfRoots,
         UNCHANGED <<line, config, server, routes, last>>
  PROVE  (LoggedAsAsked /\ ServerHeaderOnEvery /\ EchoAnswers /\ ListingsOfRoots)'
  <1>1. LoggedAsAsked'
    BY LoggedIs, FormatsKept
  <1>2. ServerHeaderOnEvery'
    BY ConfigKept DEF ServerHeaderOnEvery
  <1>3. (EchoAnswers /\ ListingsOfRoots)'
    BY AnswersAre
  <1> QED BY <1>1, <1>2, <1>3

LEMMA ListenPreserves ==
  ASSUME IInv, Listen
  PROVE  IInv'
  <1> USE DEF IInv
  <1>1. /\ phase = "flags" /\ pending = {} /\ UNCHANGED configured
        /\ UNCHANGED <<reports, last>>
        /\ \/ phase' = "failed" /\ bind' = bind
           \/ /\ bind' = [listening |-> TRUE, tls |-> server.certFile # Nothing]
              /\ \/ phase' = "serving" /\ (server.certFile # Nothing => server.keyFile # Nothing)
                 \/ phase' = "failed"
    BY DEF Listen, ServesTLS
  <1>2. Unanswered'
    BY <1>1 DEF PhaseInv, Unanswered, NoRequest
  <1>3. (LoggedAsAsked /\ ServerHeaderOnEvery /\ ReportsScheme /\ EchoAnswers
         /\ ListingsOfRoots)'
    BY <1>2, NothingAnswered, PTL
  <1>4. /\ bind'.listening \in BOOLEAN /\ bind'.tls \in BOOLEAN
        /\ phase' \in {"serving", "failed"}
        /\ phase' = "serving" => /\ bind'.listening
                                 /\ bind'.tls <=> server.certFile # Nothing
                                 /\ server.certFile # Nothing => server.keyFile # Nothing
    <2>1. CASE phase' = "failed" /\ bind' = bind
      BY <2>1 DEF TypeOK
    <2>2. CASE bind' = [listening |-> TRUE, tls |-> server.certFile # Nothing]
      <3>1. bind'.listening = TRUE /\ bind'.tls = (server.certFile # Nothing)
        BY <2>2
      <3> QED BY <1>1, <3>1
    <2> QED BY <1>1, <2>1, <2>2
  <1>5. PhaseInv'
    BY <1>1, <1>2, <1>4 DEF PhaseInv, Unanswered, NoRequest, configured
  <1>8. TypeOK'
    BY <1>1, <1>4 DEF TypeOK, configured
  <1>6. GivenInv' /\ RoutesInv'
    BY <1>1 DEF GivenInv, RoutesInv, configured
  <1>7. AddressInv' /\ AccessLogInv' /\ MiddlewareInv'
    BY <1>1, FlagsKept DEF configured
  <1> QED BY <1>3, <1>5, <1>6, <1>7, <1>8

LEMMA ReadyPreserves ==
  ASSUME IInv, Ready
  PROVE  IInv'
  <1> USE DEF IInv
  <1>1. /\ phase = "serving" /\ UNCHANGED configured /\ UNCHANGED <<phase, bind, last>>
        /\ \A i \in DOMAIN reports' :
              reports'[i] = [what   |-> server.ready[i],
                             scheme |-> IF server.ready[i] = "reload" THEN Nothing ELSE Url]
    BY DEF Ready
  <1>2. TypeOK' /\ GivenInv' /\ PhaseInv' /\ RoutesInv'
    BY <1>1 DEF TypeOK, GivenInv, PhaseInv, RoutesInv, configured
  <1>3. AddressInv' /\ AccessLogInv' /\ MiddlewareInv'
    BY <1>1, FlagsKept DEF configured
  <1>4. ReportsScheme'
    <2>1. Url = IF server.certFile # Nothing THEN "https" ELSE "http"
      BY <1>1 DEF Url, PhaseInv
    <2>2. server.certFile # Nothing => server.keyFile # Nothing
      BY <1>1 DEF PhaseInv
    <2>3. \A i \in DOMAIN reports' : /\ reports'[i].what = server.ready[i]
                                     /\ server.ready[i] # "reload" => reports'[i].scheme = Url
      BY <1>1
    <2> QED BY <1>1, <2>1, <2>2, <2>3 DEF ReportsScheme, configured
  <1>5. (LoggedAsAsked /\ ServerHeaderOnEvery /\ EchoAnswers /\ ListingsOfRoots)'
    BY <1>1, AnswersKept DEF configured
  <1> QED BY <1>2, <1>3, <1>4, <1>5

-----------------------------------------------------------------------------
(***************************************************************************)
(* Serving                                                                 *)
(***************************************************************************)
\* Of the patterns that match there is a longest one.
LEMMA LongestMatch ==
  ASSUME RoutesType, NEW path \in Seq(Tokens), Matching(path) # {}
  PROVE  RouteOf(routes, path) \in Matching(path)
  <1> DEFINE M == Matching(path)
             Left(p) == Len(path) - Len(p)
             T == {Left(p) : p \in M}
  <1>1. \A p \in M : p \in Seq(Tokens) /\ Len(p) \in Nat /\ Len(p) <= Len(path)
    <2> SUFFICES ASSUME NEW p \in M
                 PROVE  p \in Seq(Tokens) /\ Len(p) \in Nat /\ Len(p) <= Len(path)
      OBVIOUS
    <2>1. p \in Seq(Tokens) /\ (p = path \/ IsPrefix(p, path))
      BY DEF Matching, Matches, RoutesType
    <2>2. Len(p) \in Nat /\ Len(path) \in Nat
      BY <2>1, LenProperties
    <2>3. IsPrefix(p, path) => Len(p) <= Len(path)
      BY Zenon DEF IsPrefix
    <2> QED BY <2>1, <2>2, <2>3
  <1>2. Len(path) \in Nat
    BY LenProperties
  <1> HIDE DEF M
  <1>3. T \subseteq Nat /\ T # {}
    BY <1>1, <1>2 DEF M
  <1>4. PICK x \in T : \A y \in T : x <= y
    BY <1>3, LeastNumber
  <1>5. PICK longest \in M : Left(longest) = x
    BY <1>4
  <1>6. \A q \in M : Len(longest) >= Len(q)
    <2> SUFFICES ASSUME NEW q \in M PROVE Len(longest) >= Len(q)
      OBVIOUS
    <2>1. Left(q) \in T /\ Left(longest) <= Left(q)
      BY <1>4, <1>5
    <2> QED BY <1>1, <1>2, <2>1
  <1>7. RouteOf(routes, path) = CHOOSE p \in M : \A q \in M : Len(p) >= Len(q)
    BY Zenon DEF RouteOf, M, Matching
  <1>8. (CHOOSE p \in M : \A q \in M : Len(p) >= Len(q)) \in M
    BY <1>5, <1>6, Zenon
  <1> QED BY <1>7, <1>8 DEF M

LEMMA MuxAnswer ==
  ASSUME NEW answer, answer = Answer(301, Nothing) \/ answer = Answer(404, Nothing)
  PROVE  answer.status \in Nat /\ answer.status # 400 /\ answer.body = ""
  <1>1. \A status : Answer(status, Nothing).status = status /\ Answer(status, Nothing).body = ""
    BY DEF Answer, Nothing
  <1>2. PICK status \in {301, 404} : answer = Answer(status, Nothing)
    OBVIOUS
  <1>3. answer.status = status /\ answer.body = ""
    BY <1>1, <1>2
  <1>4. status \in Nat /\ status # 400
    BY <1>2
  <1> QED BY <1>3, <1>4

\* Of a path that matches a pattern nothing is left if the pattern is the path,
\* and then only.
LEMMA NothingLeft ==
  ASSUME NEW path \in Seq(Tokens), NEW p \in Seq(Tokens), Matches(p, path),
         NEW strip \in {NoPath, p}, SubSeq(path, Len(strip) + 1, Len(path)) = NoPath
  PROVE  path = strip
  <1> DEFINE rest == SubSeq(path, Len(strip) + 1, Len(path))
  <1>1. Len(path) \in Nat /\ Len(p) \in Nat /\ Len(NoPath) = 0
    BY LenProperties DEF NoPath
  <1>2. Len(strip) \in Nat
    BY <1>1
  <1>3. Len(rest) = IF Len(strip) + 1 <= Len(path) THEN Len(path) - (Len(strip) + 1) + 1 ELSE 0
    <2>1. \A i \in Len(strip) + 1 .. Len(path) : path[i] \in Tokens
      <3> SUFFICES ASSUME NEW i \in Len(strip) + 1 .. Len(path) PROVE path[i] \in Tokens
        OBVIOUS
      <3>1. i \in 1..Len(path)
        BY <1>1, <1>2
      <3> QED BY <3>1, ElementOfSeq
    <2>2. Len(strip) + 1 \in Int /\ Len(path) \in Int
      BY <1>1, <1>2
    <2> QED BY <2>1, <2>2, SubSeqProperties
  <1>4. Len(path) <= Len(strip)
    <2> DEFINE m == Len(path)
               n == Len(strip)
               l == Len(rest)
    <2>1. l = 0
      BY <1>1
    <2>2. m \in Nat /\ n \in Nat /\ l = IF n + 1 <= m THEN m - (n + 1) + 1 ELSE 0
      BY <1>1, <1>2, <1>3
    <2> HIDE DEF m, n, l
    <2>3. m <= n
      BY <2>1, <2>2
    <2> QED BY <2>3 DEF m, n
  <1>5. CASE strip = NoPath
    <2>1. Len(path) = 0
      BY <1>1, <1>4, <1>5
    <2>2. path = NoPath
      BY <2>1, EmptySeq DEF NoPath
    <2> QED BY <1>5, <2>2
  <1>6. CASE strip = p /\ p # path
    <2>1. IsPrefix(p, path)
      BY <1>6, Zenon DEF Matches
    <2>2. Len(p) <= Len(path) /\ SubSeq(p, 1, Len(p)) = SubSeq(path, 1, Len(p))
      BY <2>1, Zenon DEF IsPrefix
    <2>3. Len(p) = Len(path)
      BY <1>1, <1>4, <1>6, <2>2
    <2>4. SubSeq(p, 1, Len(p)) = p /\ SubSeq(path, 1, Len(path)) = path
      BY SubSeqFull
    <2>5. p = path
      BY <2>2, <2>3, <2>4
    <2> QED BY <1>6, <2>5
  <1> QED BY <1>5, <1>6

\* What the middleware gets from the mux, or from the handler in its place.
LEMMA BaseAnswer ==
  ASSUME RoutesType, RoutesInv, NEW req \in Requests
  PROVE  LET answer == ServeBase(req)
             h == HandlerOf(server, routes, req.path)
         IN  /\ answer.status \in Nat
             /\ answer.body \in {"errors", "reflection"} =>
                    /\ h.failsafe => answer.status = 200 /\ answer.body = "reflection"
                    /\ answer.status = 400 <=> answer.body = "errors"
             /\ answer.body = "listing" /\ h.hide => req.path = h.strip
  <1> DEFINE answer == ServeBase(req)
             h == HandlerOf(server, routes, req.path)
             M == Matching(req.path)
             Good ==
                /\ answer.status \in Nat
                /\ answer.body \in {"errors", "reflection"} =>
                       /\ h.failsafe => answer.status = 200 /\ answer.body = "reflection"
                       /\ answer.status = 400 <=> answer.body = "errors"
                /\ answer.body = "listing" /\ h.hide => req.path = h.strip
  <1> SUFFICES Good
    OBVIOUS
  <1>1. req.path \in Seq(Tokens)
    BY RequestsAssumption
  <1>2. CASE DOMAIN routes = {}
    <2>1. h = DefaultHandler
      BY <1>2, Zenon DEF HandlerOf, DefaultHandler
    <2>2. /\ h.kind = "file" /\ h.strip = NoPath
          /\ answer = ServeHandler(h, req, req.path)
      <3>1. DefaultHandler.kind = "file" /\ DefaultHandler.strip = NoPath
        BY DEF DefaultHandler, NewFileServerHandler, Handler
      <3>2. answer = ServeHandler(DefaultHandler, req, req.path)
        BY <1>2, Zenon DEF ServeBase
      <3> HIDE DEF h, answer
      <3> QED BY <2>1, <3>1, <3>2
    <2> HIDE DEF h, answer
    <2>3. answer = ServeFile(h, req.path)
      BY <2>2, Zenon DEF ServeHandler
    <2>4. /\ answer.status \in Nat /\ answer.body \notin {"errors", "reflection"}
          /\ answer.body = "listing" /\ h.hide => req.path = NoPath
      BY <2>3, FileServerAnswer, Zenon
    <2> QED BY <2>2, <2>4
  <1>3. CASE DOMAIN routes # {} /\ ~Redirects(req.path) /\ M # {}
    <2> DEFINE rest == SubSeq(req.path, Len(h.strip) + 1, Len(req.path))
               p == RouteOf(routes, req.path)
    <2>1. p \in M /\ h = routes[p]
      <3>1. p \in M
        BY <1>1, <1>3, LongestMatch
      <3>2. h = routes[p]
        BY <1>3, Zenon DEF HandlerOf
      <3> QED BY <3>1, <3>2
    <2>2. IsHandler(h) /\ p \in Seq(Tokens) /\ Matches(p, req.path) /\ h.strip \in {NoPath, p}
      <3> HIDE DEF h, p
      <3>1. p \in DOMAIN routes /\ Matches(p, req.path)
        BY <2>1 DEF Matching
      <3> QED BY <2>1, <3>1 DEF RoutesInv, RoutesType
    <2>3. answer = ServeHandler(h, req, rest)
      <3>1. answer = ServeMux(req)
        BY <1>3, Zenon DEF ServeBase
      <3>2. p = Pattern(req.path)
        BY Zenon DEF RouteOf, Matching, Pattern
      <3>3. h = routes[Pattern(req.path)]
        BY <2>1, <3>2, Zenon
      <3> HIDE DEF h, answer, p
      <3> QED BY <1>3, <3>1, <3>3, Zenon DEF ServeMux
    <2> HIDE DEF h, rest, answer, p
    <2>4. /\ answer.status \in Nat
          /\ h.kind = "echo" => answer = ServeEcho(h, req)
          /\ h.kind # "echo" => answer.body \notin {"errors", "reflection"}
          /\ h.kind # "file" => answer.body # "listing"
      BY <2>2, <2>3, HandlerAnswer
    <2>5. CASE h.kind = "echo"
      <3>1. h.failsafe \in BOOLEAN
        BY <2>2 DEF IsHandler
      <3>2. /\ h.failsafe => answer.status = 200 /\ answer.body = "reflection"
            /\ answer.status = 400 <=> answer.body = "errors"
        BY <2>4, <2>5, <3>1, EchoAnswer
      <3> QED BY <2>4, <2>5, <3>2
    <2>6. CASE h.kind = "file"
      <3>1. answer = ServeFile(h, rest)
        BY <2>3, <2>6, Zenon DEF ServeHandler
      <3>2. answer.body = "listing" /\ h.hide => rest = NoPath
        BY <3>1, FileServerAnswer, Zenon
      <3>3. rest = NoPath => req.path = h.strip
        BY <1>1, <2>2, NothingLeft DEF rest
      <3> QED BY <2>4, <2>6, <3>2, <3>3
    <2>7. CASE h.kind \notin {"echo", "file"}
      BY <2>4, <2>7
    <2> QED BY <2>5, <2>6, <2>7
  <1>4. CASE DOMAIN routes # {} /\ (Redirects(req.path) \/ M = {})
    <2>1. answer = ServeMux(req)
      BY <1>4, Zenon DEF ServeBase
    <2>2. answer = Answer(301, Nothing) \/ answer = Answer(404, Nothing)
      BY <1>4, <2>1, Zenon DEF ServeMux
    <2>3. answer.status \in Nat /\ answer.status # 400 /\ answer.body = ""
      BY <2>2, MuxAnswer, Zenon
    <2> HIDE DEF answer, h
    <2> QED BY <2>3
  <1> QED BY <1>2, <1>3, <1>4

\* The middleware of the server, whatever of it was asked for.
LEMMA MiddlewareIs ==
  ASSUME MiddlewareInv
  PROVE  LET flagged == RanTexts("server") # {}
             given   == "serverHeader" \in DOMAIN config
             v == NewHeaderMiddleware(CHOOSE v \in RanTexts("server") : TRUE)
             w == NewHeaderMiddleware(config.serverHeader)
         IN  /\ ~flagged /\ ~given => server.middleware = <<AccessLogMiddleware>>
             /\ ~flagged /\ given  => server.middleware = <<AccessLogMiddleware, w>>
             /\ flagged /\ ~given  => server.middleware = <<AccessLogMiddleware, v>>
             /\ flagged /\ given   => server.middleware = <<AccessLogMiddleware, w, v>>
  <1> DEFINE v == NewHeaderMiddleware(CHOOSE v \in RanTexts("server") : TRUE)
             w == NewHeaderMiddleware(config.serverHeader)
  <1>1. server.middleware = IF RanTexts("server") = {} THEN ConfigHeaders
                            ELSE Append(ConfigHeaders, v)
    BY Zenon DEF MiddlewareInv
  <1>2. ConfigHeaders = IF "serverHeader" \in DOMAIN config THEN <<AccessLogMiddleware, w>>
                        ELSE <<AccessLogMiddleware>>
    BY Zenon DEF ConfigHeaders
  <1>3. /\ Append(<<AccessLogMiddleware>>, v) = <<AccessLogMiddleware, v>>
        /\ Append(<<AccessLogMiddleware, w>>, v) = <<AccessLogMiddleware, w, v>>
    BY AppendToOne, AppendToTwo, Zenon
  <1> QED BY <1>1, <1>2, <1>3, Zenon

LEMMA ServePreserves ==
  ASSUME IInv, NEW req \in Requests, Serve(req)
  PROVE  IInv'
  <1> USE DEF IInv
  <1>1. /\ phase = "serving" /\ pending = {} /\ UNCHANGED configured
        /\ UNCHANGED <<phase, bind, reports>>
        /\ last' = Exchange(req)
    BY DEF Serve, PhaseInv
  <1>2. \A flag : RanTexts(flag) = Texts(flag)
    BY <1>1 DEF RanTexts, Texts
  <1> DEFINE v == CHOOSE v \in RanTexts("server") : TRUE
             w == config.serverHeader
             flagged == RanTexts("server") # {}
             given == "serverHeader" \in DOMAIN config
             headers == (IF flagged THEN <<v>> ELSE <<>>) \o (IF given THEN <<w>> ELSE <<>>)
  <1>3. /\ last'.request = req /\ last'.logs = Logs(last'.status)
        /\ last'.status = ServeBase(req).status /\ last'.body = ServeBase(req).body
        /\ last'.headers = headers
    <2> DEFINE Whole(hs) == /\ last'.request = req /\ last'.logs = Logs(last'.status)
                            /\ last'.status = ServeBase(req).status
                            /\ last'.body = ServeBase(req).body
                            /\ last'.headers = hs
    <2>1. /\ server.middleware = <<AccessLogMiddleware>> => Whole(<<>>)
          /\ server.middleware = <<AccessLogMiddleware, NewHeaderMiddleware(v)>>
                => Whole(<<v>> \o <<>>)
          /\ server.middleware = <<AccessLogMiddleware, NewHeaderMiddleware(w)>>
                => Whole(<<w>> \o <<>>)
          /\ server.middleware = <<AccessLogMiddleware, NewHeaderMiddleware(w),
                                   NewHeaderMiddleware(v)>>
                => Whole(<<v>> \o (<<w>> \o <<>>))
      <3> DEFINE x == Exchange(req)
                 Is(hs) == /\ x.request = req /\ x.logs = Logs(x.status)
                           /\ x.status = ServeBase(req).status
                           /\ x.body = ServeBase(req).body
                           /\ x.headers = hs
      <3>1. /\ server.middleware = <<AccessLogMiddleware>> => Is(<<>>)
            /\ \A t : server.middleware = <<AccessLogMiddleware, NewHeaderMiddleware(t)>>
                     => Is(<<t>> \o <<>>)
            /\ \A t, u : server.middleware = <<AccessLogMiddleware, NewHeaderMiddleware(t),
                                              NewHeaderMiddleware(u)>>
                     => Is(<<u>> \o (<<t>> \o <<>>))
        BY ExchangeIs, Zenon
      <3>2. \A hs : Is(hs) => Whole(hs)
        BY <1>1
      <3> HIDE DEF Is, Whole, v, w
      <3> QED BY <3>1, <3>2, Zenon
    <2>2. /\ ~flagged /\ ~given => server.middleware = <<AccessLogMiddleware>>
          /\ ~flagged /\ given  => server.middleware
                                      = <<AccessLogMiddleware, NewHeaderMiddleware(w)>>
          /\ flagged /\ ~given  => server.middleware
                                      = <<AccessLogMiddleware, NewHeaderMiddleware(v)>>
          /\ flagged /\ given   => server.middleware
                                      = <<AccessLogMiddleware, NewHeaderMiddleware(w),
                                          NewHeaderMiddleware(v)>>
      BY MiddlewareIs, Zenon
    <2> HIDE DEF v, w, flagged, given
    <2>3. <<w>> \o <<>> = <<w>> /\ <<v>> \o <<>> = <<v>> /\ <<>> \o <<w>> = <<w>>
          /\ <<>> \o <<>> = <<>>
      OBVIOUS
    <2>4. Whole(headers)
      <3> HIDE DEF Whole
      <3>1. CASE ~flagged /\ ~given
        BY <2>1, <2>2, <2>3, <3>1
      <3>2. CASE ~flagged /\ given
        BY <2>1, <2>2, <2>3, <3>2
      <3>3. CASE flagged /\ ~given
        BY <2>1, <2>2, <2>3, <3>3
      <3>4. CASE flagged /\ given
        BY <2>1, <2>2, <2>3, <3>4
      <3> QED BY <3>1, <3>2, <3>3, <3>4
    <2> QED BY <2>4
  <1> HIDE DEF v, w, flagged, given, headers
  <1>4. RoutesType /\ RoutesInv
    BY TypeIsShaped
  <1>5. LoggedAsAsked'
    <2> DEFINE formats == Formats(Texts("access-log"), Texts("no-access-log"))
    <2>1. server.accessLog \in formats
      BY <1>2 DEF AccessLogInv, Formats
    <2>2. last'.logs = IF server.accessLog = Nothing THEN <<>>
                       ELSE <<[format |-> server.accessLog, status |-> last'.status]>>
      BY <1>3, Zenon DEF Logs
    <2>3. Formats(Texts("access-log"), Texts("no-access-log"))' = formats
      BY <1>1, FormatsKept DEF configured
    <2> HIDE DEF formats
    <2>4. LoggedAs(formats, last')
      BY <2>1, <2>2, Zenon DEF LoggedAs
    <2> QED BY <2>3, <2>4, LoggedIs
  <1>6. ServerHeaderOnEvery'
    <2>1. last'.headers = (IF Texts("server") = {} THEN <<>>
                           ELSE <<CHOOSE t \in Texts("server") : TRUE>>)
                          \o (IF "serverHeader" \in DOMAIN config THEN <<config.serverHeader>>
                              ELSE <<>>)
      BY <1>2, <1>3 DEF headers, flagged, given, v, w
    <2>2. Texts("server")' = Texts("server") /\ config' = config
      BY <1>1, ConfigKept DEF configured
    <2> QED BY <2>1, <2>2 DEF ServerHeaderOnEvery
  <1>7. EchoAnswers' /\ ListingsOfRoots'
    <2> DEFINE h == HandlerOf(server, routes, req.path)
    <2>1. AnswerOf(h, last')
      <3> DEFINE answer == ServeBase(req)
      <3>1. /\ answer.body \in {"errors", "reflection"} =>
                   /\ h.failsafe => answer.status = 200 /\ answer.body = "reflection"
                   /\ answer.status = 400 <=> answer.body = "errors"
            /\ answer.body = "listing" /\ h.hide => req.path = h.strip
        BY <1>4, BaseAnswer
      <3> HIDE DEF h, answer
      <3> QED BY <1>3, <3>1 DEF AnswerOf, answer
    <2>2. AnswerOf(HandlerOf(server', routes', last'.request.path), last')
      BY <1>1, <1>3, <2>1 DEF configured
    <2> QED BY <2>2, AnswersAre
  <1>9. ReportsScheme'
    BY <1>1 DEF ReportsScheme, configured
  <1>10. last'.status \in Nat
    BY <1>3, <1>4, BaseAnswer
  <1>11. TypeOK' /\ GivenInv' /\ PhaseInv' /\ RoutesInv'
    <2>1. TypeOK'
      BY <1>1, <1>10 DEF TypeOK, configured
    <2>2. GivenInv' /\ PhaseInv' /\ RoutesInv'
      BY <1>1 DEF GivenInv, PhaseInv, RoutesInv, configured
    <2> QED BY <2>1, <2>2
  <1>12. AddressInv' /\ AccessLogInv' /\ MiddlewareInv'
    BY <1>1, FlagsKept DEF configured
  <1> QED BY <1>5, <1>6, <1>7, <1>9, <1>11, <1>12

LEMMA InitEstablishes ==
  ASSUME Init
  PROVE  IInv
  <1>1. /\ line \in CommandLines /\ config \in Configs /\ phase = "flags" /\ pending = line
        /\ server = Apply(NewServer, config) /\ routes = << >> /\ reports = <<>>
        /\ bind = [listening |-> FALSE, tls |-> FALSE]
        /\ last = [request |-> NoRequest, status |-> 0, body |-> Nothing,
                   headers |-> <<>>, logs |-> <<>>]
    BY DEF Init
  <1>2. /\ Shaped(server) /\ server.addr = Base /\ server.middleware = ConfigHeaders
        /\ server.accessLog = Configured("accessLog", "default")
    BY <1>1, ApplyNewServer
  <1>3. last.request = NoRequest /\ last.body = Nothing /\ last.status = 0
    BY <1>1
  <1>4. Unanswered
    BY <1>1, <1>3 DEF Unanswered
  <1>5. \A flag : RanTexts(flag) = {}
    BY <1>1 DEF RanTexts
  <1>6. IsAddress(Base)
    <2>1. "addr" \in DOMAIN config => IsAddress(config["addr"])
      BY <1>1, ConfigsAssumption
    <2>2. \A host, port : IsAddress(JoinHostPort(host, port))
      BY DEF IsAddress, JoinHostPort
    <2> QED BY <2>1, <2>2, Zenon DEF Base, Configured
  <1>7. DOMAIN routes = {}
    BY <1>1
  <1>8. server.middleware[1] = AccessLogMiddleware
    <2> DEFINE w == NewHeaderMiddleware(config.serverHeader)
    <2>1. server.middleware \in {<<AccessLogMiddleware>>, <<AccessLogMiddleware, w>>}
      BY <1>2, Zenon DEF ConfigHeaders
    <2> HIDE DEF w
    <2> QED BY <2>1
  <1>9. TypeOK
    <2>1. DOMAIN server = DOMAIN NewServer /\ DOMAIN server.timeouts = DOMAIN NewServer.timeouts
      BY <1>2, ShapedIsShape
    <2>2. bind.listening \in BOOLEAN /\ bind.tls \in BOOLEAN /\ last.status \in Nat
      BY <1>1
    <2>3. /\ IsAddress(server.addr) /\ pending \subseteq line
          /\ phase \in {"flags", "serving", "done", "failed"} /\ phase # "serving"
      BY <1>1, <1>2, <1>6
    <2> QED BY <1>3, <1>7, <1>8, <2>1, <2>2, <2>3 DEF TypeOK
  <1>10. GivenInv /\ PhaseInv /\ RoutesInv
    BY <1>1, <1>4, <1>7 DEF GivenInv, PhaseInv, RoutesInv, Unanswered
  <1>11. AddressInv
    <2> SUFFICES ASSUME Base.splits
                 PROVE  server.addr = JoinHostPort(Base.host, Base.port)
      BY <1>5, GivenOne DEF AddressInv
    <2>1. CASE "addr" \in DOMAIN config
      <3>1. Base.splits = TRUE
        BY <1>6 DEF IsAddress
      <3>2. Base = [splits |-> Base.splits, host |-> Base.host, port |-> Base.port]
        BY <1>6, Zenon DEF IsAddress
      <3> QED BY <1>2, <3>1, <3>2, Zenon DEF JoinHostPort
    <2>2. CASE "addr" \notin DOMAIN config
      <3>1. PICK host, port : Base = JoinHostPort(host, port)
        BY <2>2, Zenon DEF Base, Configured
      <3> QED BY <1>2, <3>1 DEF JoinHostPort
    <2> QED BY <2>1, <2>2
  <1>12. AccessLogInv
    BY <1>2, <1>5 DEF AccessLogInv, Formats
  <1>13. MiddlewareInv
    BY <1>2, <1>5, Zenon DEF MiddlewareInv
  <1>14. /\ LoggedAsAsked /\ ServerHeaderOnEvery /\ ReportsScheme
         /\ EchoAnswers /\ ListingsOfRoots
    BY <1>4, NothingAnswered
  <1> QED BY <1>9, <1>10, <1>11, <1>12, <1>13, <1>14 DEF IInv

LEMMA StutterPreserves ==
  ASSUME IInv, UNCHANGED vars
  PROVE  IInv'
  <1> USE DEF IInv, vars
  <1>1. TypeOK' /\ GivenInv' /\ PhaseInv' /\ RoutesInv' /\ ReportsScheme'
    BY DEF TypeOK, GivenInv, PhaseInv, RoutesInv, ReportsScheme
  <1>2. AddressInv' /\ AccessLogInv' /\ MiddlewareInv'
    BY FlagsKept
  <1>3. (LoggedAsAsked /\ ServerHeaderOnEvery /\ EchoAnswers /\ ListingsOfRoots)'
    BY AnswersKept
  <1> QED BY <1>1, <1>2, <1>3

-----------------------------------------------------------------------------
(***************************************************************************)
(* The theorems                                                            *)
(***************************************************************************)
\* Whatever the command line, the Options value and the requests are, and in
\* whatever order the setters of the flags run, IInv holds.
THEOREM Inductive == Spec => []IInv
  <1>1. Init => IInv
    BY InitEstablishes
  <1>2. IInv /\ [Next]_vars => IInv'
    <2> SUFFICES ASSUME IInv, [Next]_vars PROVE IInv'
      OBVIOUS
    <2>1. CASE FlagRuns
      BY <2>1, FlagPreserves
    <2>2. CASE Listen
      BY <2>2, ListenPreserves
    <2>3. CASE Ready
      BY <2>3, ReadyPreserves
    <2>4. CASE \E req \in Requests : Serve(req)
      BY <2>4, ServePreserves
    <2>5. CASE UNCHANGED vars
      BY <2>5, StutterPreserves
    <2> QED BY <2>1, <2>2, <2>3, <2>4, <2>5 DEF Next
  <1> QED BY <1>1, <1>2, PTL DEF Spec

\* Every variable holds a value of its type: the routes are paths that begin
\* with "/", and the access log is the middleware next to the handler.
THEOREM TypeCorrect == Spec => []TypeOK
  <1>1. IInv => TypeOK
    BY DEF IInv
  <1> QED BY <1>1, Inductive, PTL

\* Once the server listens no flag is left, and it does so on the host and the
\* port that --host and --port gave, each for its own part, over the address of
\* the Options value; and its ready functions show the scheme it answers to.
THEOREM ListensWhereTold == Spec => []ServesWhereTold
  <1>1. IInv => ServesWhereTold
    <2> SUFFICES ASSUME IInv PROVE AddressFromFlags /\ ReportsScheme
      BY DEF ServesWhereTold
    <2>1. ReportsScheme
      BY DEF IInv
    <2>2. AddressFromFlags
      <3> SUFFICES ASSUME phase = "serving", Texts("addr") = {}, Base.splits
                   PROVE  server.addr = JoinHostPort(Given(Texts("host") \ {Nothing}, Base.host),
                                                     Given(Texts("port"), Base.port))
        BY Zenon DEF AddressFromFlags, Base, Given
      <3>1. pending = {}
        BY DEF IInv, PhaseInv
      <3>2. \A flag : RanTexts(flag) = Texts(flag)
        BY <3>1 DEF RanTexts, Texts
      <3> QED BY <3>2 DEF IInv, AddressInv
    <2> QED BY <2>1, <2>2
  <1> QED BY <1>1, Inductive, PTL

\* Every response has the headers that were asked for, in the order in which
\* they were added from the inside out, and is logged as the flags say, once,
\* with the status that was sent.
THEOREM MiddlewareAroundAll == Spec => []MiddlewareOnEvery
  <1>1. IInv => MiddlewareOnEvery
    BY DEF IInv, MiddlewareOnEvery
  <1> QED BY <1>1, Inductive, PTL

\* The echo handler sends errors, as a bad request, or the reflection, which is
\* all that a failsafe one sends; and a file server that is to hide listings shows
\* none but that of its root, for the path that it is registered for or, if it is
\* the one of DefaultServer, for the empty path.
THEOREM HandlersAnswer == Spec => []HandlersAsOptions
  <1>1. IInv => HandlersAsOptions
    BY DEF IInv, HandlersAsOptions
  <1> QED BY <1>1, Inductive, PTL
=============================================================================
