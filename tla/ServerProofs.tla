---------------------------- MODULE ServerProofs ----------------------------
(***************************************************************************)
(* Proofs about the server: the mux that chooses the handler of a request  *)
(* (ServerMux), the writer that the access log puts between that handler   *)
(* and net/http (ResponseWriter), and the life of the server itself, from  *)
(* its first step to the release of its listener (RunServer).  They share  *)
(* no variable, and each part below is about one of them.                  *)
(*                                                                         *)
(* ServerMux, for any patterns, handlers, POSTs and bound: the inductive   *)
(* invariant says that nothing is built or reloaded before the server      *)
(* serves (ConfigInv), that patterns belong to a mux (MuxInv), that no     *)
(* POST began after the last publication (VersionInv), and what a POST in  *)
(* progress has yet to do (PendingInv).                                    *)
(*                                                                         *)
(* ResponseWriter, for every writer below, every statuses and tees, and    *)
(* every bound: its invariant adds what holds before the header is written *)
(* (HeaderInv) and what ReadFrom counts twice (CopiedInv).                 *)
(*                                                                         *)
(* RunServer, for every set of connections and of configurations: its      *)
(* invariant adds the order of its threads (OrderInv), what a configured   *)
(* handler goes through (HandlerInv), and the listener (ListenerInv).      *)
(***************************************************************************)
EXTENDS ServerMux, ResponseWriter, RunServer, FiniteSetTheorems, SequenceTheorems, TLAPS

Elements(s) == {s[i] : i \in 1..Len(s)}

\* Until ListenAndServe there is no middleware, no POST and nothing built.
ConfigInv ==
    ~serving => /\ ~wrapped
                /\ floor = 0
                /\ \A k \in Posts : start[k] = 0
                /\ \A h \in Reloadables : built[h] = NotBuilt

\* A server without a mux has no patterns.
MuxInv == base \in {"nil", "custom"} => routes = NoRoutes /\ accepted = {}

VersionInv ==
    /\ version >= 1
    /\ floor <= version
    /\ \A k \in Posts : start[k] <= version

\* Each reloadable handler a POST has to reload is still among the targets to
\* come, is not built, or was built since the POST began.
PendingInv ==
    base = "mux" /\ ~wrapped =>
        \A k \in Posts, p \in Direct :
            start[k] # 0 =>
                \/ routes[p].handler \in Elements(pending[k])
                \/ built[routes[p].handler] = NotBuilt
                \/ built[routes[p].handler] >= start[k]

IInv ==
    /\ TypeOK /\ ConfigInv /\ MuxInv /\ TargetsMatchRoutes /\ AcceptedIsRouted
    /\ VersionInv /\ PendingInv /\ ReloadReachesTargets

-----------------------------------------------------------------------------
(***************************************************************************)
(* Sequences of targets and sets of patterns                               *)
(***************************************************************************)
\* Appending a target adds it to the elements.
LEMMA AppendElements ==
    ASSUME NEW S, NEW s \in Seq(S), NEW e \in S
    PROVE  /\ Append(s, e) \in Seq(S)
           /\ Len(Append(s, e)) = Len(s) + 1
           /\ Elements(Append(s, e)) = Elements(s) \cup {e}
<1> DEFINE t == Append(s, e)
<1>1. /\ t \in Seq(S) /\ Len(s) \in Nat /\ Len(t) = Len(s) + 1
      /\ \A i \in 1..Len(s) : t[i] = s[i]
      /\ t[Len(s) + 1] = e
  OBVIOUS
<1>2. 1..Len(t) = 1..Len(s) \cup {Len(s) + 1}
  BY <1>1
<1> HIDE DEF t
<1>3. Elements(t) = Elements(s) \cup {e}
  BY <1>1, <1>2 DEF Elements
<1> QED
  BY <1>1, <1>3 DEF t

\* What an invalidation takes from the targets to come is the head.
LEMMA TailElements ==
    ASSUME NEW S, NEW s \in Seq(S), s # <<>>
    PROVE  /\ Tail(s) \in Seq(S) /\ Head(s) \in S
           /\ Elements(s) \subseteq Elements(Tail(s)) \cup {Head(s)}
<1>1. /\ Tail(s) \in Seq(S) /\ Head(s) \in S /\ Head(s) = s[1]
      /\ Len(s) \in Nat /\ Len(s) >= 1 /\ Len(Tail(s)) = Len(s) - 1
  OBVIOUS
<1>2. ASSUME NEW i \in 1..Len(s), s[i] # Head(s)
      PROVE  s[i] \in Elements(Tail(s))
  <2>1. i - 1 \in 1..Len(Tail(s)) /\ s[i] = Tail(s)[i - 1]
    BY <1>1, <1>2
  <2> QED
    BY <2>1 DEF Elements
<1> QED
  BY <1>1, <1>2 DEF Elements

\* The empty sequence has no elements.
LEMMA EmptyElements == Elements(<<>>) = {}
BY DEF Elements

\* No pattern routes to a reloadable handler before one is registered.
LEMMA NoneDirect == routes = NoRoutes => Direct = {}
BY RouteAssumption DEF NoRoutes, Nothing, Direct

\* There are finitely many patterns to reload.
LEMMA DirectFinite == IsFiniteSet(Direct)
<1>1. Direct \in SUBSET Patterns
  BY DEF Direct
<1> QED
  BY <1>1, PatternAssumption, FS_Subset

-----------------------------------------------------------------------------
(***************************************************************************)
(* The initial states and the steps                                        *)
(***************************************************************************)
\* The initial states satisfy the invariant.
LEMMA InitInv == Init => IInv
<1> SUFFICES ASSUME Init PROVE IInv
  OBVIOUS
<1>1. TypeOK
  <2>1. targets \in Seq(Reloadables) /\ pending \in [Posts -> Seq(Reloadables)]
    BY DEF Init
  <2>2. base \in Bases /\ routes \in [Patterns -> Routes \cup {Nothing}]
    BY DEF Init, Bases, NoRoutes
  <2> QED
    BY <2>1, <2>2 DEF Init, TypeOK, NotBuilt
<1>2. TargetsMatchRoutes /\ PendingInv /\ ReloadReachesTargets
  BY DEF Init, TargetsMatchRoutes, PendingInv, ReloadReachesTargets
<1> QED
  BY <1>1, <1>2 DEF Init, IInv, ConfigInv, MuxInv, AcceptedIsRouted, VersionInv

\* A registration: its handler, and what it leaves alone.
Registers(p, r) ==
    /\ ~serving /\ p \in Patterns /\ r \in Routes
    /\ Register(p, r)
    /\ UNCHANGED <<wrapped, wrap, serving>> /\ UNCHANGED reloadVars

\* Handle and HandleSpec register one route.
LEMMA HandleRegisters ==
    ASSUME NEW p \in Patterns, NEW h \in Handlers, Handle(p, h) \/ HandleSpec(p, h)
    PROVE  \E r \in Routes : Registers(p, r)
<1>1. CASE Handle(p, h)
  <2>1. [handler |-> h, stripped |-> FALSE] \in Routes
    BY DEF Routes
  <2> QED
    BY <1>1, <2>1 DEF Handle, Registers
<1>2. CASE HandleSpec(p, h)
  <2>1. [handler |-> h, stripped |-> h # ReloadHandler] \in Routes
    BY DEF Routes
  <2> QED
    BY <1>2, <2>1 DEF HandleSpec, Registers
<1> QED
  BY <1>1, <1>2

\* Every step keeps the variables to their types.
LEMMA TypeStep == TypeOK /\ [Next]_vars => TypeOK'
<1> SUFFICES ASSUME TypeOK, [Next]_vars PROVE TypeOK'
  OBVIOUS
<1> USE DEF TypeOK, configVars, reloadVars
<1>1. CASE \E b \in {"nil", "plainMux", "custom"} : WithHandler(b)
  BY <1>1 DEF WithHandler, Bases, NoRoutes
<1>2. CASE \E p \in Patterns, h \in Handlers : Handle(p, h) \/ HandleSpec(p, h)
  <2> PICK p \in Patterns, r \in Routes : Registers(p, r)
    BY <1>2, HandleRegisters
  <2>1. base' \in Bases
    BY DEF Registers, Register, EnsureMux, Bases
  <2>2. targets' \in Seq(Reloadables)
    <3>1. targets' = targets \/ (r.handler \in Reloadables /\ targets' = Append(targets, r.handler))
      BY DEF Registers, Register, Targets
    <3>2. \A s \in Seq(Reloadables), e \in Reloadables : Append(s, e) \in Seq(Reloadables)
      BY AppendElements
    <3> QED
      BY <3>1, <3>2
  <2>3. routes' \in [Patterns -> Routes \cup {Nothing}] /\ accepted' \subseteq Patterns \X Routes
    <3>1. \/ UNCHANGED <<routes, accepted>>
          \/ /\ routes' = [routes EXCEPT ![p] = r]
             /\ accepted' = accepted \cup {<<p, r>>}
      BY DEF Registers, Register
    <3> QED
      BY <3>1
  <2> QED
    BY <2>1, <2>2, <2>3 DEF Registers
<1>3. CASE ListenAndServe
  BY <1>3 DEF ListenAndServe
<1>4. CASE Publish
  BY <1>4 DEF Publish
<1>5. CASE \E p \in Patterns : Serve(p)
  BY <1>5 DEF Serve
<1>6. CASE \E k \in Posts : Reload(k)
  BY <1>6 DEF Reload, ReloadAll
<1>7. CASE \E k \in Posts : InvalidateTarget(k)
  <2> PICK k \in Posts : InvalidateTarget(k)
    BY <1>7
  <2>1. pending[k] \in Seq(Reloadables) /\ pending[k] # <<>>
    BY DEF InvalidateTarget
  <2>2. Tail(pending[k]) \in Seq(Reloadables)
    BY <2>1, TailElements
  <2> QED
    BY <2>2 DEF InvalidateTarget, NotBuilt
<1>8. CASE \E k \in Posts : NoContent(k)
  BY <1>8 DEF NoContent
<1>9. CASE UNCHANGED vars
  BY <1>9 DEF vars
<1> QED
  BY <1>1, <1>2, <1>3, <1>4, <1>5, <1>6, <1>7, <1>8, <1>9 DEF Next

\* What happens while serving leaves the configuration alone.
LEMMA ServingStep ==
    ASSUME \/ Publish \/ \E p \in Patterns : Serve(p)
           \/ \E k \in Posts : Reload(k) \/ InvalidateTarget(k) \/ NoContent(k)
           \/ UNCHANGED vars
    PROVE  UNCHANGED configVars
BY DEF Publish, Serve, Reload, InvalidateTarget, NoContent, configVars, vars

\* Nothing is built or reloaded before the server serves, and what the
\* middleware wraps is settled only then.
LEMMA ConfigStep == IInv /\ [Next]_vars => ConfigInv' /\ VersionInv'
<1> SUFFICES ASSUME IInv, [Next]_vars PROVE ConfigInv' /\ VersionInv'
  OBVIOUS
<1> USE DEF IInv, TypeOK, ConfigInv, VersionInv, configVars, reloadVars
<1>1. CASE \E b \in {"nil", "plainMux", "custom"} : WithHandler(b)
  BY <1>1 DEF WithHandler
<1>2. CASE \E p \in Patterns, h \in Handlers : Handle(p, h) \/ HandleSpec(p, h)
  BY <1>2 DEF Handle, HandleSpec
<1>3. CASE ListenAndServe
  BY <1>3 DEF ListenAndServe
<1>4. CASE Publish
  BY <1>4 DEF Publish
<1>5. CASE \E p \in Patterns : Serve(p)
  BY <1>5 DEF Serve
<1>6. CASE \E k \in Posts : Reload(k)
  BY <1>6 DEF Reload
<1>7. CASE \E k \in Posts : InvalidateTarget(k)
  <2> PICK k \in Posts : InvalidateTarget(k)
    BY <1>7
  <2>1. \A h \in Reloadables : built'[h] = built[h] \/ built'[h] = NotBuilt
    BY DEF InvalidateTarget
  <2> QED
    BY <2>1 DEF InvalidateTarget
<1>8. CASE \E k \in Posts : NoContent(k)
  BY <1>8 DEF NoContent
<1>9. CASE UNCHANGED vars
  BY <1>9 DEF vars
<1> QED
  BY <1>1, <1>2, <1>3, <1>4, <1>5, <1>6, <1>7, <1>8, <1>9 DEF Next

-----------------------------------------------------------------------------
(***************************************************************************)
(* Routes, accepted registrations and targets                              *)
(***************************************************************************)
\* The patterns to reload after a registration.
LEMMA DirectAfter ==
    ASSUME TypeOK, NEW p \in Patterns, NEW r \in Routes, routes[p] = Nothing,
           routes' = [routes EXCEPT ![p] = r]
    PROVE  /\ p \notin Direct
           /\ Direct' = IF r.handler \in Reloadables /\ ~r.stripped
                        THEN Direct \cup {p} ELSE Direct
           /\ \A q \in Direct : routes'[q] = routes[q]
<1>1. p \notin Direct
  BY RouteAssumption DEF Direct, Nothing
<1>2. \A q \in Patterns : routes'[q] = IF q = p THEN r ELSE routes[q]
  BY DEF TypeOK
<1> QED
  BY <1>1, <1>2 DEF Direct

\* What leaves the mux alone keeps its targets in step with its patterns.
LEMMA MuxUnchanged ==
    ASSUME IInv, UNCHANGED <<base, routes, accepted, targets>>
    PROVE  MuxInv' /\ AcceptedIsRouted' /\ TargetsMatchRoutes'
<1>1. UNCHANGED Direct
  BY DEF Direct
<1>2. MuxInv' /\ AcceptedIsRouted'
  BY DEF IInv, MuxInv, AcceptedIsRouted
<1>3. TargetsMatchRoutes
  BY DEF IInv
<1>4. {routes'[p].handler : p \in Direct'} = {routes[p].handler : p \in Direct}
  BY <1>1
<1>5. TargetsMatchRoutes'
  <2>1. CASE base = "mux"
    BY ONLY <1>1, <1>3, <1>4, <2>1, UNCHANGED <<base, targets>> DEF TargetsMatchRoutes
  <2>2. CASE base # "mux"
    BY ONLY <1>3, <2>2, UNCHANGED <<base, targets>> DEF TargetsMatchRoutes
  <2> QED
    BY <2>1, <2>2
<1> QED
  BY <1>2, <1>5

\* Registrations keep the patterns, the accepted registrations and the targets
\* in step.
LEMMA RegistryStep ==
    IInv /\ [Next]_vars => MuxInv' /\ AcceptedIsRouted' /\ TargetsMatchRoutes'
<1> SUFFICES ASSUME IInv, [Next]_vars
             PROVE  MuxInv' /\ AcceptedIsRouted' /\ TargetsMatchRoutes'
  OBVIOUS
<1>1. CASE \E b \in {"nil", "plainMux", "custom"} : WithHandler(b)
  BY <1>1 DEF WithHandler, MuxInv, AcceptedIsRouted, TargetsMatchRoutes
<1>2. CASE \E p \in Patterns, h \in Handlers : Handle(p, h) \/ HandleSpec(p, h)
  <2> PICK p \in Patterns, r \in Routes : Registers(p, r)
    BY <1>2, HandleRegisters
  <2>1. base # "custom" /\ base' = IF base = "nil" THEN "mux" ELSE base
    BY DEF Registers, Register, EnsureMux
  <2>2. MuxInv'
    BY <2>1 DEF MuxInv
  <2>3. base' = "mux" => /\ Len(targets) = Cardinality(Direct)
                         /\ Elements(targets) = {routes[q].handler : q \in Direct}
    <3>1. CASE base = "nil"
      <4>1. targets = <<>> /\ Direct = {}
        BY <3>1, NoneDirect DEF IInv, TargetsMatchRoutes, MuxInv
      <4> QED
        BY <4>1, FS_EmptySet, EmptyElements
    <3>2. CASE base # "nil"
      BY <3>2, <2>1 DEF IInv, TargetsMatchRoutes, Elements
    <3> QED
      BY <3>1, <3>2
  <2>4. base' # "mux" => targets = <<>>
    BY <2>1 DEF IInv, TargetsMatchRoutes
  <2>5. CASE Panics(p)
    <3>1. UNCHANGED <<routes, accepted, targets>>
      BY <2>5 DEF Registers, Register
    <3>2. UNCHANGED Direct
      BY <3>1 DEF Direct
    <3>3. AcceptedIsRouted'
      BY <3>1 DEF IInv, AcceptedIsRouted
    <3>4. {routes'[q].handler : q \in Direct'} = {routes[q].handler : q \in Direct}
      BY <3>1, <3>2
    <3>5. TargetsMatchRoutes'
      <4>1. CASE base' = "mux"
        BY ONLY <2>3, <3>1, <3>2, <3>4, <4>1 DEF TargetsMatchRoutes, Elements
      <4>2. CASE base' # "mux"
        BY ONLY <2>4, <3>1, <4>2 DEF TargetsMatchRoutes
      <4> QED
        BY <4>1, <4>2
    <3> QED
      BY <2>2, <3>3, <3>5
  <2>6. CASE ~Panics(p)
    <3>1. /\ routes[p] = Nothing
          /\ routes' = [routes EXCEPT ![p] = r]
          /\ accepted' = accepted \cup {<<p, r>>}
          /\ targets' = Targets(base', r)
      BY <2>6 DEF Registers, Register, Panics
    <3>2. AcceptedIsRouted'
      <4> SUFFICES ASSUME NEW a \in accepted' PROVE routes'[a[1]] = a[2]
        BY DEF AcceptedIsRouted
      <4>1. CASE a = <<p, r>>
        BY <4>1, <3>1 DEF IInv, TypeOK
      <4>2. CASE a \in accepted
        <5>1. a[1] \in Patterns /\ a[2] \in Routes /\ routes[a[1]] = a[2]
          BY <4>2 DEF IInv, TypeOK, AcceptedIsRouted
        <5>2. a[2] # Nothing
          BY <5>1, RouteAssumption DEF Routes, Nothing, Handlers
        <5> QED
          BY <5>1, <5>2, <3>1 DEF IInv, TypeOK
      <4> QED
        BY <4>1, <4>2, <3>1
    <3>3. TargetsMatchRoutes'
      <4>1. /\ p \notin Direct
            /\ Direct' = IF r.handler \in Reloadables /\ ~r.stripped
                         THEN Direct \cup {p} ELSE Direct
            /\ \A q \in Direct : routes'[q] = routes[q]
        BY <3>1, DirectAfter DEF IInv
      <4>2. routes'[p] = r
        BY <3>1 DEF IInv, TypeOK
      <4>3. CASE base' = "mux" /\ r.handler \in Reloadables /\ ~r.stripped
        <5>1. targets' = Append(targets, r.handler)
          BY <4>3, <3>1 DEF Targets
        <5>2. /\ Len(targets') = Len(targets) + 1
              /\ Elements(targets') = Elements(targets) \cup {r.handler}
          BY <5>1, <4>3, AppendElements DEF IInv, TypeOK
        <5>3. Cardinality(Direct') = Cardinality(Direct) + 1
          BY <4>1, <4>3, DirectFinite, FS_AddElement
        <5>4. {routes'[q].handler : q \in Direct'}
                 = {routes[q].handler : q \in Direct} \cup {r.handler}
          BY <4>1, <4>2, <4>3
        <5> QED
          BY <5>2, <5>3, <5>4, <2>3, <4>3 DEF TargetsMatchRoutes, Elements
      <4>4. CASE ~(base' = "mux" /\ r.handler \in Reloadables /\ ~r.stripped)
        <5>1. targets' = targets
          BY <4>4, <3>1 DEF Targets
        <5>2. base' = "mux" => /\ Direct' = Direct
                               /\ {routes'[q].handler : q \in Direct'}
                                     = {routes[q].handler : q \in Direct}
          BY <4>1, <4>4
        <5> QED
          BY <5>1, <5>2, <2>3, <2>4 DEF TargetsMatchRoutes, Elements
      <4> QED
        BY <4>3, <4>4
    <3> QED
      BY <2>2, <3>2, <3>3
  <2> QED
    BY <2>5, <2>6
<1>3. CASE ListenAndServe
  BY <1>3, MuxUnchanged DEF ListenAndServe
<1>4. CASE UNCHANGED configVars
  BY <1>4, MuxUnchanged DEF configVars
<1> QED
  BY <1>1, <1>2, <1>3, <1>4, ServingStep DEF Next

-----------------------------------------------------------------------------
(***************************************************************************)
(* Reloads                                                                 *)
(***************************************************************************)
\* A POST that is answered has reloaded each of its targets, whatever requests
\* and other POSTs did in between.
LEMMA ReloadStep == IInv /\ [Next]_vars => PendingInv' /\ ReloadReachesTargets'
<1> SUFFICES ASSUME IInv, [Next]_vars PROVE PendingInv' /\ ReloadReachesTargets'
  OBVIOUS
<1>t. TypeOK /\ TypeOK'
  BY TypeStep DEF IInv
<1>1. CASE ~serving
  <2>1. /\ floor' = 0 /\ \A k \in Posts : start'[k] = 0
    <3>1. ~\E k \in Posts : Reload(k) \/ NoContent(k)
      BY <1>1 DEF IInv, ConfigInv, Reload, NoContent
    <3>2. UNCHANGED <<floor, start>>
      BY <3>1 DEF Next, WithHandler, Handle, HandleSpec, ListenAndServe, Publish, Serve,
                  InvalidateTarget, reloadVars, vars
    <3> QED
      BY <3>2, <1>1 DEF IInv, ConfigInv
  <2>2. \A p \in Direct' : built'[routes'[p].handler] \in Nat
    BY <1>t DEF Direct, TypeOK
  <2> QED
    BY <2>1, <2>2 DEF PendingInv, ReloadReachesTargets
<1>2. CASE serving
  <2>1. UNCHANGED configVars
    BY <1>2, ServingStep DEF Next, WithHandler, Handle, HandleSpec, ListenAndServe
  <2>2. UNCHANGED <<base, wrapped, routes, targets, Direct>>
    BY <2>1 DEF configVars, Direct
  <2>3. SUFFICES ASSUME base = "mux", ~wrapped, NEW p \in Direct
        PROVE  /\ built'[routes[p].handler] # NotBuilt => built'[routes[p].handler] >= floor'
               /\ \A k \in Posts : start'[k] # 0 =>
                     \/ routes[p].handler \in Elements(pending'[k])
                     \/ built'[routes[p].handler] = NotBuilt
                     \/ built'[routes[p].handler] >= start'[k]
    BY <2>2 DEF PendingInv, ReloadReachesTargets
  <2> DEFINE h == routes[p].handler
  <2>4. h \in Reloadables /\ p \in Patterns
    BY DEF Direct
  <2>5. /\ built[h] # NotBuilt => built[h] >= floor
        /\ \A k \in Posts : start[k] # 0 => \/ h \in Elements(pending[k])
                                            \/ built[h] = NotBuilt
                                            \/ built[h] >= start[k]
    BY <2>3 DEF IInv, PendingInv, ReloadReachesTargets
  <2>6. /\ version \in Nat /\ floor \in Nat /\ floor <= version
        /\ start \in [Posts -> Nat] /\ \A k \in Posts : start[k] <= version
        /\ built \in [Reloadables -> Nat] /\ pending \in [Posts -> Seq(Reloadables)]
    BY DEF IInv, TypeOK, VersionInv
  <2> HIDE DEF h
  <2>7. CASE Publish \/ UNCHANGED vars
    BY <2>7, <2>5 DEF Publish, vars, h
  <2>8. CASE \E q \in Patterns : Serve(q)
    <3>1. /\ built'[h] = built[h] \/ built'[h] = version
          /\ UNCHANGED <<floor, start, pending>>
      BY <2>8, <2>4, <2>6 DEF Serve
    <3> QED
      BY <3>1, <2>5, <2>6 DEF h
  <2>9. CASE \E k \in Posts : Reload(k)
    <3> PICK k \in Posts : Reload(k)
      BY <2>9
    <3>1. /\ UNCHANGED <<built, floor>>
          /\ pending' = [pending EXCEPT ![k] = targets]
          /\ start' = [start EXCEPT ![k] = version]
      BY <2>3 DEF Reload, ReloadAll
    <3>2. h \in Elements(targets)
      BY <2>3 DEF IInv, TargetsMatchRoutes, Elements, h
    <3> QED
      BY <3>1, <3>2, <2>5, <2>6 DEF h
  <2>10. CASE \E k \in Posts : InvalidateTarget(k)
    <3> PICK k \in Posts : InvalidateTarget(k)
      BY <2>10
    <3>1. /\ pending[k] \in Seq(Reloadables) /\ pending[k] # <<>>
          /\ UNCHANGED <<floor, start>>
          /\ pending' = [pending EXCEPT ![k] = Tail(pending[k])]
          /\ built' = [built EXCEPT ![Head(pending[k])] = NotBuilt]
      BY <2>6 DEF InvalidateTarget
    <3>2. Head(pending[k]) \in Reloadables
          /\ Elements(pending[k]) \subseteq Elements(Tail(pending[k])) \cup {Head(pending[k])}
      BY <3>1, TailElements
    <3>3. CASE h = Head(pending[k])
      BY <3>1, <3>2, <3>3, <2>6 DEF h
    <3>4. CASE h # Head(pending[k])
      <4>1. built'[h] = built[h]
        BY <3>1, <3>4, <2>4, <2>6
      <4>2. \A j \in Posts : h \in Elements(pending[j]) => h \in Elements(pending'[j])
        BY <3>1, <3>2, <3>4, <2>6
      <4> QED
        BY <4>1, <4>2, <3>1, <2>5 DEF h
    <3> QED
      BY <3>3, <3>4
  <2>11. CASE \E k \in Posts : NoContent(k)
    <3> PICK k \in Posts : NoContent(k)
      BY <2>11
    <3>1. /\ UNCHANGED <<built, pending>>
          /\ pending[k] = <<>> /\ start[k] # 0
          /\ floor' \in {floor, start[k]}
          /\ start' = [start EXCEPT ![k] = 0]
      BY DEF NoContent
    <3>2. built[h] = NotBuilt \/ built[h] >= start[k]
      BY <3>1, <2>5, EmptyElements
    <3> QED
      BY <3>1, <3>2, <2>5, <2>6 DEF h
  <2> QED
    BY <1>2, <2>7, <2>8, <2>9, <2>10, <2>11
       DEF Next, WithHandler, Handle, HandleSpec, ListenAndServe
<1> QED
  BY <1>1, <1>2 DEF IInv, TypeOK

-----------------------------------------------------------------------------
(***************************************************************************)
(* The theorems                                                            *)
(***************************************************************************)
\* The invariant is inductive.
THEOREM Inductive == Spec => []IInv
<1>1. IInv /\ [Next]_vars => IInv'
  BY TypeStep, ConfigStep, RegistryStep, ReloadStep DEF IInv
<1> QED
  BY InitInv, <1>1, PTL DEF Spec

\* Every variable keeps to its type.
THEOREM TypeCorrect == Spec => []TypeOK
<1>1. IInv => TypeOK
  BY DEF IInv
<1> QED
  BY Inductive, <1>1, PTL

\* The targets of ReloadAll are the reloadable handlers of the patterns.
THEOREM TargetsAreRoutes == Spec => []TargetsMatchRoutes
<1>1. IInv => TargetsMatchRoutes
  BY DEF IInv
<1> QED
  BY Inductive, <1>1, PTL

\* A registration that Handle accepted is routed to.
THEOREM AcceptedRoutes == Spec => []AcceptedIsRouted
<1>1. IInv => AcceptedIsRouted
  BY DEF IInv
<1> QED
  BY Inductive, <1>1, PTL

\* Patterns, accepted registrations and targets agree, whatever is registered.
THEOREM RegistrationsAgree == Spec => []RegistrationsHold
<1>1. IInv => RegistrationsHold
  BY DEF IInv, RegistrationsHold
<1> QED
  BY Inductive, <1>1, PTL

\* After a POST to the reload handler was answered, nothing older than the
\* POST is served by a target.
THEOREM ReloadIsEffective == Spec => []ReloadReachesTargets
<1>1. IInv => ReloadReachesTargets
  BY DEF IInv
<1> QED
  BY Inductive, <1>1, PTL

\* Handle never puts the built-in mux in place of the application's handler.
THEOREM HandlerIsKept == Spec => HandleKeepsHandler
<1>1. [Next]_vars => [(base \in {"custom", "plainMux"}) => (base' # "mux")]_vars
  <2> SUFFICES ASSUME Next, base \in {"custom", "plainMux"} PROVE base' # "mux"
    BY DEF vars
  <2>1. CASE \E b \in {"nil", "plainMux", "custom"} : WithHandler(b)
    BY <2>1 DEF WithHandler
  <2>2. CASE \E p \in Patterns, h \in Handlers : Handle(p, h) \/ HandleSpec(p, h)
    BY <2>2 DEF Handle, HandleSpec, Register, EnsureMux
  <2>3. CASE ListenAndServe
    BY <2>3 DEF ListenAndServe
  <2>4. CASE UNCHANGED configVars
    BY <2>4 DEF configVars
  <2> QED
    BY <2>1, <2>2, <2>3, <2>4, ServingStep DEF Next
<1> QED
  BY <1>1, PTL DEF Spec, HandleKeepsHandler

-----------------------------------------------------------------------------
(***************************************************************************)
(* The response writer                                                     *)
(***************************************************************************)
\* Before the header is written, nothing is decided below and no status known.
HeaderInv ==
    (phase = "serving" /\ ~wroteHeader) => code = NoStatus /\ status = NoStatus

\* What the wrapper counts is what was sent, and once more what ReadFrom copied
\* to a tee, which is no more than what was sent.
CopiedInv == bytes = sent + copied /\ copied <= sent

WriterInv ==
    /\ WriterTypeOK
    /\ HeaderInv /\ CopiedInv
    /\ WrapperTransparent /\ WritesAddUp

-----------------------------------------------------------------------------
\* The features of the type that newWrapResponseWriter chooses are features of
\* the writer below: the type assertions of its methods succeed.
LEMMA OffersBelow == Offers \subseteq below
  BY DEF Offers

\* A status that a body or a flush implies is a final one, and one that was
\* decided stays.
LEMMA ImpliedFinal ==
  ASSUME WriterTypeOK
  PROVE  /\ Implied(status) \in (Codes \ Informational) \cup {NoStatus}
         /\ status # NoStatus => Implied(status) = status
         /\ status = NoStatus /\ ~hijacked => Implied(status) = OK
  BY CodeAssumption DEF Implied, WriterTypeOK

\* A write is short or whole: it takes no more than it was given.
LEMMA ChunkSizes ==
  ASSUME NEW c \in Chunks PROVE c[1] \in Nat /\ c[2] \in Nat /\ c[1] <= c[2]
  BY BoundAssumption DEF Chunks

\* A handler is entered in a state of the invariant.
LEMMA WriterInitInv == WriterInit => WriterInv
  <1> SUFFICES ASSUME WriterInit PROVE WriterInv
    OBVIOUS
  <1> USE DEF WriterInit
  <1>1. /\ bytes \in 0..2 * MaxBytes /\ sent \in 0..MaxBytes /\ copied \in 0..MaxBytes
    BY BoundAssumption
  <1>2. teed \in [Tees -> Nat] /\ due \in [Tees -> Nat]
    OBVIOUS
  <1>3. WriterTypeOK
    BY <1>1, <1>2 DEF WriterTypeOK
  <1>4. HeaderInv /\ CopiedInv /\ OfferedIsSupported /\ BytesCounted /\ TeeGetsAll
    BY DEF HeaderInv, CopiedInv, OfferedIsSupported, BytesCounted, TeeGetsAll
  <1>5. StatusAgrees
    BY DEF StatusAgrees, FlushedFirst
  <1> QED
    BY <1>3, <1>4, <1>5 DEF WriterInv, WrapperTransparent, WritesAddUp

\* What Write and ReadFrom have in common: the wrapper notes the status, and n
\* bytes are delivered.  The status that is reported stays that of the client
\* or unknown, and what is due to a tee is what was sent while it was set.
LEMMA DeliverKeeps ==
  ASSUME WriterInv, NEW n \in Nat, NEW len \in Nat, phase = "serving",
         MaybeWriteHeader, Deliver(n, len),
         UNCHANGED <<below, proto, tee, hijacked>>
  PROVE  /\ wroteHeader' = TRUE /\ code' \in Codes \cup {NoStatus}
         /\ status' \in (Codes \ Informational) \cup {NoStatus}
         /\ StatusAgrees'
         /\ sent' = sent + n /\ sent' \in 0..MaxBytes
         /\ due' \in [Tees -> Nat]
  <1>1. wroteHeader' = TRUE /\ code' \in Codes \cup {NoStatus}
    BY CodeAssumption DEF MaybeWriteHeader, WriterInv, WriterTypeOK
  <1>2. status' = Implied(status) /\ sent' = sent + n /\ sent + n <= MaxBytes
    BY DEF Deliver, CanSend
  <1>3. status' \in (Codes \ Informational) \cup {NoStatus}
    BY <1>2, ImpliedFinal DEF WriterInv
  <1>4. StatusAgrees'
    <2>1. CASE wroteHeader
      BY <1>2, <2>1, ImpliedFinal
      DEF WriterInv, WrapperTransparent, StatusAgrees, FlushedFirst, MaybeWriteHeader
    <2>2. CASE ~wroteHeader
      BY <1>2, <2>2, ImpliedFinal DEF WriterInv, HeaderInv, StatusAgrees, FlushedFirst, MaybeWriteHeader
    <2> QED BY <2>1, <2>2
  <1>5. sent' \in 0..MaxBytes
    BY <1>2, BoundAssumption DEF WriterInv, WriterTypeOK
  <1>6. due' \in [Tees -> Nat]
    BY DEF Deliver, WriterInv, WriterTypeOK
  <1> QED BY <1>1, <1>2, <1>3, <1>4, <1>5, <1>6

\* Write keeps the invariant.
LEMMA WriteKeeps ==
  ASSUME WriterInv, NEW c \in Chunks, Write(c[1], c[2])
  PROVE  WriterInv'
  <1> DEFINE n == c[1]
             len == c[2]
  <1>1. n \in Nat /\ len \in Nat BY ChunkSizes
  <1>2. /\ phase = "serving" /\ MaybeWriteHeader /\ Deliver(n, len) /\ TeeWrite(n)
        /\ bytes' = bytes + n
        /\ UNCHANGED <<below, proto, phase, tee, hijacked, copied>>
    BY DEF Write
  <1> HIDE DEF n, len
  <1>3. /\ wroteHeader' = TRUE /\ code' \in Codes \cup {NoStatus}
        /\ status' \in (Codes \ Informational) \cup {NoStatus}
        /\ StatusAgrees'
        /\ sent' = sent + n /\ sent' \in 0..MaxBytes
        /\ due' \in [Tees -> Nat]
    BY <1>1, <1>2, DeliverKeeps
  <1>4. CopiedInv' /\ BytesCounted'
    BY <1>1, <1>2, <1>3 DEF WriterInv, WriterTypeOK, CopiedInv, BytesCounted
  <1>5. teed' = due' /\ TeeGetsAll'
    BY <1>2 DEF WriterInv, WritesAddUp, TeeGetsAll, TeeWrite, Deliver
  <1>6. bytes' \in 0..2 * MaxBytes
    BY <1>2, <1>3, <1>4, BoundAssumption DEF WriterInv, WriterTypeOK, CopiedInv, BytesCounted
  <1>7. WriterTypeOK'
    BY <1>2, <1>3, <1>5, <1>6 DEF WriterInv, WriterTypeOK
  <1>8. HeaderInv' /\ OfferedIsSupported'
    BY <1>2, <1>3 DEF HeaderInv, OfferedIsSupported
  <1> QED BY <1>3, <1>4, <1>5, <1>7, <1>8 DEF WriterInv, WrapperTransparent, WritesAddUp

\* ReadFrom keeps it when there is a tee, whose bytes are counted twice.
LEMMA ReadFromByTeeKeeps ==
  ASSUME WriterInv, NEW c \in Chunks, ReadFromByTee(c[1], c[2])
  PROVE  WriterInv'
  <1> DEFINE n == c[1]
             len == c[2]
  <1>1. n \in Nat /\ len \in Nat BY ChunkSizes
  <1>2. /\ phase = "serving" /\ MaybeWriteHeader /\ Deliver(n, len) /\ TeeWrite(n)
        /\ bytes' = bytes + n + n /\ copied' = copied + n
        /\ UNCHANGED <<below, proto, phase, tee, hijacked>>
    BY DEF ReadFromByTee, Serving
  <1> HIDE DEF n, len
  <1>3. /\ wroteHeader' = TRUE /\ code' \in Codes \cup {NoStatus}
        /\ status' \in (Codes \ Informational) \cup {NoStatus}
        /\ StatusAgrees'
        /\ sent' = sent + n /\ sent' \in 0..MaxBytes
        /\ due' \in [Tees -> Nat]
    BY <1>1, <1>2, DeliverKeeps
  <1>4. CopiedInv' /\ BytesCounted'
    BY <1>1, <1>2, <1>3 DEF WriterInv, WriterTypeOK, CopiedInv, BytesCounted
  <1>5. teed' = due' /\ TeeGetsAll'
    BY <1>2 DEF WriterInv, WritesAddUp, TeeGetsAll, TeeWrite, Deliver
  <1>6. bytes' \in 0..2 * MaxBytes /\ copied' \in 0..MaxBytes
    BY <1>1, <1>2, <1>3, <1>4, BoundAssumption DEF WriterInv, WriterTypeOK, CopiedInv, BytesCounted
  <1>7. WriterTypeOK'
    BY <1>2, <1>3, <1>5, <1>6 DEF WriterInv, WriterTypeOK
  <1>8. HeaderInv' /\ OfferedIsSupported'
    BY <1>2, <1>3 DEF HeaderInv, OfferedIsSupported
  <1> QED BY <1>3, <1>4, <1>5, <1>7, <1>8 DEF WriterInv, WrapperTransparent, WritesAddUp

\* ReadFrom keeps it when there is none.
LEMMA ReadFromKeeps ==
  ASSUME WriterInv, NEW c \in Chunks, ReadFrom(c[1], c[2])
  PROVE  WriterInv'
  <1> DEFINE n == c[1]
             len == c[2]
  <1>1. n \in Nat /\ len \in Nat BY ChunkSizes
  <1>2. /\ phase = "serving" /\ MaybeWriteHeader /\ Deliver(n, len) /\ tee = NoTee
        /\ "readFrom" \in Offers /\ Asserted("readFrom")
        /\ bytes' = bytes + n
        /\ UNCHANGED <<below, proto, tee, hijacked, copied, teed>>
    BY DEF ReadFrom, Serving
  <1> HIDE DEF n, len
  <1>3. /\ wroteHeader' = TRUE /\ code' \in Codes \cup {NoStatus}
        /\ status' \in (Codes \ Informational) \cup {NoStatus}
        /\ StatusAgrees'
        /\ sent' = sent + n /\ sent' \in 0..MaxBytes
        /\ due' \in [Tees -> Nat]
    BY <1>1, <1>2, DeliverKeeps
  <1>4. phase' = "serving"
    BY <1>2, OffersBelow DEF Asserted
  <1>5. CopiedInv' /\ BytesCounted'
    BY <1>1, <1>2, <1>3 DEF WriterInv, WriterTypeOK, CopiedInv, BytesCounted
  <1>6. teed' = due' /\ TeeGetsAll'
    BY <1>2 DEF WriterInv, WritesAddUp, TeeGetsAll, Deliver
  <1>7. bytes' \in 0..2 * MaxBytes
    BY <1>2, <1>3, <1>5, BoundAssumption DEF WriterInv, WriterTypeOK, CopiedInv, BytesCounted
  <1>8. WriterTypeOK'
    BY <1>2, <1>3, <1>4, <1>6, <1>7 DEF WriterInv, WriterTypeOK
  <1>9. HeaderInv' /\ OfferedIsSupported'
    BY <1>3, <1>4 DEF HeaderInv, OfferedIsSupported
  <1> QED BY <1>3, <1>5, <1>6, <1>8, <1>9 DEF WriterInv, WrapperTransparent, WritesAddUp

\* Every step keeps the invariant.
THEOREM WriterInductive == WriterInv /\ [WriterNext]_writerVars => WriterInv'
  <1> SUFFICES ASSUME WriterInv, [WriterNext]_writerVars PROVE WriterInv'
    OBVIOUS
  <1> USE DEF teeVars
  <1>1. ASSUME NEW c \in Codes, WriteHeader(c) PROVE WriterInv'
    <2>1. WriterTypeOK'
      BY <1>1, CodeAssumption DEF WriteHeader, Decided, WriterInv, WriterTypeOK
    <2>2. HeaderInv'
      BY <1>1 DEF WriteHeader, WriterInv, HeaderInv
    <2>3. StatusAgrees'
      <3>1. CASE wroteHeader
        BY <1>1, <3>1 DEF WriteHeader, WriterInv, WrapperTransparent, StatusAgrees, FlushedFirst
      <3>2. CASE ~wroteHeader
        BY <1>1, <3>2 DEF WriteHeader, Decided, WriterInv, HeaderInv, StatusAgrees, FlushedFirst
      <3> QED BY <3>1, <3>2
    <2>4. CopiedInv' /\ WritesAddUp' /\ OfferedIsSupported'
      BY <1>1 DEF WriteHeader, WriterInv, CopiedInv, WritesAddUp, BytesCounted, TeeGetsAll,
                  OfferedIsSupported
    <2> QED BY <2>1, <2>2, <2>3, <2>4 DEF WriterInv, WrapperTransparent
  <1>2. ASSUME Flush PROVE WriterInv'
    <2>1. phase = "serving" /\ phase' = "serving" /\ status' = Implied(status)
      BY <1>2, OffersBelow DEF Flush, Serving, Asserted
    <2>2. WriterTypeOK'
      BY <1>2, <2>1, ImpliedFinal DEF Flush, WriterInv, WriterTypeOK
    <2>3. StatusAgrees'
      BY <1>2, <2>1, ImpliedFinal DEF Flush, WriterInv, WrapperTransparent, StatusAgrees, FlushedFirst
    <2>4. HeaderInv' /\ CopiedInv' /\ WritesAddUp' /\ OfferedIsSupported'
      BY <1>2, <2>1 DEF Flush, WriterInv, HeaderInv, CopiedInv, WritesAddUp, BytesCounted,
                        TeeGetsAll, OfferedIsSupported
    <2> QED BY <2>2, <2>3, <2>4 DEF WriterInv, WrapperTransparent
  <1>3. ASSUME Hijack PROVE WriterInv'
    <2>1. phase = "serving" /\ phase' = "serving"
      BY <1>3, OffersBelow DEF Hijack, Serving, Asserted
    <2>2. WriterTypeOK'
      BY <1>3, <2>1 DEF Hijack, WriterInv, WriterTypeOK
    <2>3. HeaderInv' /\ CopiedInv' /\ WrapperTransparent' /\ WritesAddUp'
      BY <1>3, <2>1 DEF Hijack, WriterInv, HeaderInv, CopiedInv, WritesAddUp, BytesCounted,
                        TeeGetsAll, WrapperTransparent, OfferedIsSupported, StatusAgrees, FlushedFirst
    <2> QED BY <2>2, <2>3 DEF WriterInv
  <1>4. ASSUME NEW t \in Tees \cup {NoTee}, Tee(t) PROVE WriterInv'
    BY <1>4 DEF Tee, WriterInv, WriterTypeOK, HeaderInv, CopiedInv, WritesAddUp, BytesCounted,
                TeeGetsAll, WrapperTransparent, OfferedIsSupported, StatusAgrees, FlushedFirst
  <1>5. ASSUME Return PROVE WriterInv'
    <2>1. WriterTypeOK'
      BY <1>5, ImpliedFinal DEF Return, WriterInv, WriterTypeOK
    <2>2. StatusAgrees'
      BY <1>5, ImpliedFinal DEF Return, WriterInv, WrapperTransparent, StatusAgrees, FlushedFirst
    <2>3. HeaderInv' /\ CopiedInv' /\ WritesAddUp' /\ OfferedIsSupported'
      BY <1>5 DEF Return, WriterInv, HeaderInv, CopiedInv, WritesAddUp, BytesCounted,
                  TeeGetsAll, OfferedIsSupported
    <2> QED BY <2>1, <2>2, <2>3 DEF WriterInv, WrapperTransparent
  <1>6. ASSUME UNCHANGED writerVars PROVE WriterInv'
    BY <1>6 DEF writerVars, WriterInv, WriterTypeOK, HeaderInv, CopiedInv, WritesAddUp, BytesCounted,
                TeeGetsAll, WrapperTransparent, OfferedIsSupported, StatusAgrees, FlushedFirst
  <1> QED
    BY <1>1, <1>2, <1>3, <1>4, <1>5, <1>6, WriteKeeps, ReadFromByTeeKeeps, ReadFromKeeps
    DEF WriterNext

\* Every state that a handler can bring about is in the invariant.
THEOREM WriterInvariance == WriterSpec => []WriterInv
  BY WriterInitInv, WriterInductive, PTL DEF WriterSpec

\* Every variable holds a value of its type; the counts stay within the bounds
\* of what a response may have.
THEOREM WriterTypeCorrect == WriterSpec => []WriterTypeOK
  <1>1. WriterInv => WriterTypeOK BY DEF WriterInv
  <1> QED BY <1>1, WriterInvariance, PTL

\* For every writer below and every order of calls, no type assertion of the
\* wrapper panics, and the status that it reports is what the client got unless
\* the first call flushed, sent an informational status or hijacked.
THEOREM WrapperIsTransparent == WriterSpec => []WrapperTransparent
  <1>1. WriterInv => WrapperTransparent BY DEF WriterInv
  <1> QED BY <1>1, WriterInvariance, PTL

\* A tee gets all that is sent while it is set, and as long as ReadFrom copied
\* nothing to one the wrapper counts what was sent, however Write and ReadFrom alternate and however short the writes.
THEOREM TalliesAgree == WriterSpec => []WritesAddUp
  <1>1. WriterInv => WritesAddUp BY DEF WriterInv
  <1> QED BY <1>1, WriterInvariance, PTL

-----------------------------------------------------------------------------
(***************************************************************************)
(* RunServer                                                               *)
(***************************************************************************)
\* What a request should get of a configured server.
Target == [base |-> opts.initial, layers |-> IF opts.wrap THEN 1 ELSE 0]

\* What goes with where main stands: the thunk is started once, the ready
\* functions are started once and after it, and a notice is printed once.
OrderInv ==
    /\ main = "start" => thunk = "none"
    /\ main \in {"start", "select"} => ready = "none"
    /\ main # "exited" => stderr \in {<<>>, <<"listening">>}
    /\ ready \in {"none", "report"} => stderr \in {<<>>, <<"goodbye">>}

\* A configured handler is never stored over but by the middleware: what the
\* words of Server.Handler hold follows from where the thunk stands.
HandlerInv ==
    opts.initial # "nil" =>
        /\ ready # "install" /\ thunk \notin {"factory", "assign"}
        /\ \A w \in Words : handler[w] \in {Bare(opts.initial), Target}
        /\ thunk \in {"none", "start", "listen", "bind", "middleware"}
            => \A w \in Words : handler[w] = Bare(opts.initial)
        /\ thunk = "wrap"
            => local = Target /\ \A w \in Words : w # left["thunk"] => handler[w] = Target
        /\ thunk \in {"serve", "serving"} => \A w \in Words : handler[w] = Target

\* The listener is there from net.Listen on, and before Serve nobody closes it.
ListenerInv ==
    /\ thunk \in {"none", "start", "factory", "assign", "listen"} => listener = "none"
    /\ thunk \in {"bind", "middleware", "wrap", "serve", "serving"} => listener # "none"
    /\ addr # "unset" => listener # "none"
    /\ stderr \notin {<<>>, <<"goodbye">>} => listener # "none"

CommandInv ==
    /\ CommandTypeOK
    /\ OrderInv /\ HandlerInv /\ ListenerInv
    /\ ConfiguredHandlerServes /\ ListenerReleased

-----------------------------------------------------------------------------
\* What is put on an empty sequence, and behind one element.
LEMMA ShortSequences ==
  ASSUME NEW x, NEW y
  PROVE  /\ Append(<<>>, x) = <<x>> /\ Tail(<<x>>) = <<>>
         /\ Append(<<y>>, x) = <<y, x>>
  <1> DEFINE S == {x, y}
             s == Append(<<y>>, x)
             t == <<y, x>>
  <1>1. <<y>> \in Seq(S) /\ Len(<<y>>) = 1 /\ x \in S
    OBVIOUS
  <1>2. s \in Seq(S) /\ Len(s) = 2 /\ s[1] = y /\ s[2] = x
    BY <1>1, AppendProperties
  <1>3. t \in Seq(S) /\ Len(t) = 2 /\ t[1] = y /\ t[2] = x
    OBVIOUS
  <1> HIDE DEF s, t, S
  <1>4. \A i \in 1..Len(s) : s[i] = t[i]
    BY <1>2, <1>3
  <1>5. s = t
    BY <1>2, <1>3, <1>4, SeqEqual
  <1>6. Append(<<>>, x) = <<x>> /\ Tail(<<x>>) = <<>>
    OBVIOUS
  <1> QED BY <1>5, <1>6 DEF s, t

\* The channel of execContext holds one error at most, and the notices that
\* are printed are those of CommandTypeOK.
LEMMA Notices ==
  /\ Append(<<>>, "error") = <<"error">> /\ Tail(<<"error">>) = <<>>
  /\ Append(<<>>, "listening") = <<"listening">>
  /\ Append(<<"goodbye">>, "listening") = <<"goodbye", "listening">>
  /\ Append(<<>>, "goodbye") = <<"goodbye">>
  /\ Append(<<"listening">>, "goodbye") = <<"listening", "goodbye">>
  BY ShortSequences, Zenon

\* What a store of v leaves in the words, half way and at its end.
LEMMA BeginStoreKeeps ==
  ASSUME CommandTypeOK, NEW g \in {"thunk", "ready"}, NEW v \in HandlerValues, BeginStore(g, v)
  PROVE  /\ handler' \in [Words -> HandlerValues]
         /\ left' \in [{"thunk", "ready"} -> Words \cup {"none"}]
         /\ left'[g] \in Words
         /\ \A w \in Words : handler'[w] = IF w = left'[g] THEN handler[w] ELSE v
  <1>1. PICK w \in Words :
            /\ handler' = [handler EXCEPT ![w] = v]
            /\ left' = [left EXCEPT ![g] = CHOOSE u \in Words : u # w]
    BY DEF BeginStore
  <1>2. (CHOOSE u \in Words : u # w) \in Words \ {w}
    BY DEF Words
  <1> QED BY <1>1, <1>2 DEF CommandTypeOK, Words

LEMMA EndStoreKeeps ==
  ASSUME CommandTypeOK, NEW g \in {"thunk", "ready"}, NEW v \in HandlerValues, EndStore(g, v)
  PROVE  /\ handler' \in [Words -> HandlerValues]
         /\ left' \in [{"thunk", "ready"} -> Words \cup {"none"}]
         /\ \A w \in Words : handler'[w] = IF w = left[g] THEN v ELSE handler[w]
  BY DEF EndStore, CommandTypeOK, Words

\* The values that are stored.
LEMMA Values ==
  /\ \A b \in HandlerBases : Bare(b) \in HandlerValues
  /\ Bare("nil") \in HandlerValues /\ Bare("factory") \in HandlerValues
  /\ Bare("empty") \in HandlerValues /\ Bare("torn") \in HandlerValues
  BY DEF Bare, HandlerValues, HandlerBases

\* The configuration is one of those that RunServer is proved for.
LEMMA OptionsTyped ==
  ASSUME CommandTypeOK
  PROVE  opts \in AllOptions /\ opts.initial \in {"nil", "mux", "custom"} /\ opts.wrap \in BOOLEAN
  BY OptionsAssumption DEF CommandTypeOK, AllOptions

\* A handler that is configured is not nil, with and without its middleware.
LEMMA ConfiguredIsNotNil ==
  ASSUME CommandTypeOK, HandlerInv, opts.initial # "nil"
  PROVE  ~HandlerIsNil
  <1>1. Bare(opts.initial) # Bare("nil") /\ Target # Bare("nil")
    BY DEF Bare, Target
  <1> QED BY <1>1 DEF HandlerInv, HandlerIsNil, Words

LEMMA ReadTyped == ASSUME CommandTypeOK PROVE Read \in HandlerValues
  BY Values DEF Read, CommandTypeOK, Words

\* RunServer starts in a state of the invariant.
LEMMA CommandInitInv == CommandInit => CommandInv
  <1> SUFFICES ASSUME CommandInit PROVE CommandInv
    OBVIOUS
  <1> USE DEF CommandInit
  <1>1. opts \in AllOptions /\ opts.initial \in HandlerBases
    BY OptionsAssumption DEF AllOptions, HandlerBases
  <1>2. CommandTypeOK
    BY <1>1, Values DEF CommandTypeOK, Words
  <1>3. OrderInv /\ ListenerInv /\ ConfiguredHandlerServes /\ ListenerReleased
    BY DEF OrderInv, ListenerInv, ConfiguredHandlerServes, ListenerReleased
  <1>4. HandlerInv
    BY DEF HandlerInv, Words
  <1> QED BY <1>2, <1>3, <1>4 DEF CommandInv

-----------------------------------------------------------------------------
\* The steps that leave Server.Handler and what serves it alone.
LEMMA MainKeeps ==
  ASSUME CommandInv, Main \/ Signal
  PROVE  CommandInv'
  <1> USE DEF serverVars, connVars, CommandInv
  <1>1. CASE Start
    BY <1>1 DEF Start, CommandTypeOK, OrderInv, HandlerInv, Target, ListenerInv,
                ConfiguredHandlerServes, ListenerReleased
  <1>2. CASE StartupElapsed
    BY <1>2 DEF StartupElapsed, CommandTypeOK, OrderInv, HandlerInv, Target, ListenerInv,
                ConfiguredHandlerServes, ListenerReleased
  <1>3. CASE StartupFails
    <2>1. errors = <<"error">>
      BY <1>3 DEF StartupFails, CommandTypeOK
    <2>2. errors' = <<>>
      BY <1>3, <2>1, Notices DEF StartupFails
    <2>3. CommandTypeOK'
      BY <1>3, <2>2 DEF StartupFails, CommandTypeOK
    <2>4. OrderInv' /\ ListenerInv'
      BY <1>3 DEF StartupFails, OrderInv, ListenerInv
    <2>5. HandlerInv' /\ ConfiguredHandlerServes' /\ ListenerReleased'
      BY <1>3 DEF StartupFails, HandlerInv, Target, ConfiguredHandlerServes, ListenerReleased
    <2> QED BY <2>3, <2>4, <2>5
  <1>4. CASE Interrupted
    BY <1>4 DEF Interrupted, CommandTypeOK, OrderInv, HandlerInv, Target, ListenerInv,
                ConfiguredHandlerServes, ListenerReleased
  <1>5. CASE Shutdown
    BY <1>5 DEF Shutdown, CommandTypeOK, OrderInv, HandlerInv, Target, ListenerInv,
                ConfiguredHandlerServes, ListenerReleased
  <1>6. CASE ExitWithoutAfter
    BY <1>6 DEF ExitWithoutAfter, CommandTypeOK, OrderInv, HandlerInv, Target, ListenerInv,
                ConfiguredHandlerServes, ListenerReleased
  <1>7. CASE ShutdownReturns
    BY <1>7 DEF ShutdownReturns, CommandTypeOK, OrderInv, HandlerInv, Target, ListenerInv,
                ConfiguredHandlerServes, ListenerReleased
  <1>8. CASE Goodbye
    <2>1. /\ stderr = <<>> => stderr' = <<"goodbye">>
          /\ stderr = <<"listening">> => stderr' = <<"listening", "goodbye">>
          /\ stderr \in {<<>>, <<"listening">>}
      BY <1>8, Notices DEF Goodbye, OrderInv
    <2>2. CommandTypeOK' /\ HandlerInv' /\ ConfiguredHandlerServes' /\ ListenerReleased'
      BY <1>8, <2>1 DEF Goodbye, CommandTypeOK, HandlerInv, Target, ConfiguredHandlerServes,
                        ListenerReleased
    <2>3. OrderInv' /\ ListenerInv'
      BY <1>8, <2>1 DEF Goodbye, OrderInv, ListenerInv
    <2> QED BY <2>2, <2>3
  <1>9. CASE Signal
    BY <1>9 DEF Signal, CommandTypeOK, OrderInv, HandlerInv, Target, ListenerInv,
                ConfiguredHandlerServes, ListenerReleased
  <1> QED
    BY <1>1, <1>2, <1>3, <1>4, <1>5, <1>6, <1>7, <1>8, <1>9 DEF Main

\* The steps of ListenAndServe.
LEMMA ThunkKeeps ==
  ASSUME CommandInv, Thunk \/ ServeReturns
  PROVE  CommandInv'
  <1> USE DEF serverVars, connVars, CommandInv
  <1> DEFINE Rest == OrderInv' /\ ListenerInv' /\ ConfiguredHandlerServes' /\ ListenerReleased'
  <1>1. CASE CheckFactory
    <2>1. opts.initial # "nil" => thunk' = "listen"
      BY <1>1, ConfiguredIsNotNil DEF CheckFactory
    <2>2. CommandTypeOK' /\ Rest
      BY <1>1 DEF CheckFactory, CommandTypeOK, OrderInv, ListenerInv, ConfiguredHandlerServes,
                  ListenerReleased
    <2>3. HandlerInv'
      BY <1>1, <2>1 DEF CheckFactory, HandlerInv, Target
    <2> QED BY <2>2, <2>3
  <1>2. CASE FactoryReturns
    <2>1. opts.initial = "nil"
      BY <1>2 DEF FactoryReturns, HandlerInv
    <2>2. /\ handler' \in [Words -> HandlerValues] /\ local' \in HandlerValues
          /\ left' \in [{"thunk", "ready"} -> Words \cup {"none"}]
      BY <1>2, Values, BeginStoreKeeps DEF FactoryReturns, Fail, CommandTypeOK
    <2>3. thunk' \in {"send", "assign"}
      BY <1>2 DEF FactoryReturns, Fail
    <2>4. CommandTypeOK' /\ Rest
      BY <1>2, <2>2, <2>3 DEF FactoryReturns, CommandTypeOK, OrderInv, ListenerInv,
                              ConfiguredHandlerServes, ListenerReleased
    <2>5. HandlerInv'
      BY <1>2, <2>1 DEF FactoryReturns, HandlerInv
    <2> QED BY <2>4, <2>5
  <1>3. CASE AssignFactory
    <2>1. opts.initial = "nil"
      BY <1>3 DEF AssignFactory, HandlerInv
    <2>2. /\ handler' \in [Words -> HandlerValues]
          /\ left' \in [{"thunk", "ready"} -> Words \cup {"none"}]
      BY <1>3, EndStoreKeeps DEF AssignFactory, CommandTypeOK
    <2>3. CommandTypeOK' /\ Rest
      BY <1>3, <2>2 DEF AssignFactory, CommandTypeOK, OrderInv, ListenerInv,
                        ConfiguredHandlerServes, ListenerReleased
    <2>4. HandlerInv'
      BY <1>3, <2>1 DEF AssignFactory, HandlerInv
    <2> QED BY <2>3, <2>4
  <1>4. CASE Listen
    BY <1>4 DEF Listen, Fail, CommandTypeOK, OrderInv, HandlerInv, Target, ListenerInv,
                ConfiguredHandlerServes, ListenerReleased
  <1>5. CASE Bind
    BY <1>5 DEF Bind, CommandTypeOK, OrderInv, HandlerInv, Target, ListenerInv,
                ConfiguredHandlerServes, ListenerReleased
  <1>6. CASE ApplyMiddleware
    <2>1. local' \in HandlerValues
      BY <1>6, ReadTyped DEF ApplyMiddleware, HandlerValues
    <2>2. /\ handler' \in [Words -> HandlerValues]
          /\ left' \in [{"thunk", "ready"} -> Words \cup {"none"}]
          /\ left'["thunk"] \in Words
          /\ \A w \in Words : handler'[w] = IF w = left'["thunk"] THEN handler[w] ELSE local'
      BY <1>6, <2>1, BeginStoreKeeps DEF ApplyMiddleware
    <2>3. CommandTypeOK' /\ Rest
      BY <1>6, <2>1, <2>2 DEF ApplyMiddleware, CommandTypeOK, OrderInv, ListenerInv,
                              ConfiguredHandlerServes, ListenerReleased
    <2>4. ASSUME opts.initial # "nil" PROVE Read = Bare(opts.initial) /\ local' = Target
      <3>1. handler["itab"] = Bare(opts.initial) /\ handler["data"] = Bare(opts.initial)
        BY <1>6, <2>4 DEF ApplyMiddleware, HandlerInv, Words
      <3>2. Read = Bare(opts.initial)
        BY <3>1 DEF Read
      <3> QED BY <1>6, <3>2 DEF ApplyMiddleware, Bare, Target
    <2>5. HandlerInv'
      BY <1>6, <2>2, <2>4 DEF ApplyMiddleware, HandlerInv, Target
    <2> QED BY <2>3, <2>5
  <1>7. CASE Wrap
    <2>1. /\ handler' \in [Words -> HandlerValues]
          /\ left' \in [{"thunk", "ready"} -> Words \cup {"none"}]
          /\ \A w \in Words : handler'[w] = IF w = left["thunk"] THEN local ELSE handler[w]
      BY <1>7, EndStoreKeeps DEF Wrap, CommandTypeOK
    <2>2. CommandTypeOK' /\ Rest
      BY <1>7, <2>1 DEF Wrap, CommandTypeOK, OrderInv, ListenerInv, ConfiguredHandlerServes,
                        ListenerReleased
    <2>3. HandlerInv'
      BY <1>7, <2>1 DEF Wrap, HandlerInv, Target
    <2> QED BY <2>2, <2>3
  <1>8. CASE ServeListener
    BY <1>8 DEF ServeListener, Fail, CommandTypeOK, OrderInv, HandlerInv, Target, ListenerInv,
                ConfiguredHandlerServes, ListenerReleased
  <1>9. CASE SendError
    <2>1. errors = <<>>
      BY <1>9 DEF SendError, CommandTypeOK
    <2>2. errors' = <<"error">>
      BY <1>9, <2>1, Notices DEF SendError
    <2>3. CommandTypeOK'
      <3>1. errors' \in {<<>>, <<"error">>} /\ thunk' = "done"
        BY <1>9, <2>2 DEF SendError
      <3>2. UNCHANGED <<handler, left, main, local, ready, signalled, stderr, crashed,
                        opts, addr, listener, inShutdown, conn, served>>
        BY <1>9 DEF SendError
      <3> QED BY <3>1, <3>2 DEF CommandTypeOK
    <2>4. OrderInv' /\ ListenerInv'
      BY <1>9 DEF SendError, OrderInv, ListenerInv
    <2>5. HandlerInv' /\ ConfiguredHandlerServes' /\ ListenerReleased'
      BY <1>9 DEF SendError, HandlerInv, Target, ConfiguredHandlerServes, ListenerReleased
    <2> QED BY <2>3, <2>4, <2>5
  <1>10. CASE ServeReturns
    BY <1>10 DEF ServeReturns, Fail, CommandTypeOK, OrderInv, HandlerInv, Target, ListenerInv,
                 ConfiguredHandlerServes, ListenerReleased
  <1> QED
    BY <1>1, <1>2, <1>3, <1>4, <1>5, <1>6, <1>7, <1>8, <1>9, <1>10 DEF Thunk

\* A crash takes the listener and the requests with it.
LEMMA CrashKeeps ==
  ASSUME CommandInv, Crash,
         UNCHANGED <<opts, handler, left, addr, inShutdown, local, errors, signalled,
                     stderr, served>>
  PROVE  CommandInv'
  BY DEF Crash, CommandInv, CommandTypeOK, OrderInv, HandlerInv, Target, ListenerInv,
         ConfiguredHandlerServes, ListenerReleased

\* The steps of the ready functions.
LEMMA ReadyKeeps ==
  ASSUME CommandInv, Ready
  PROVE  CommandInv'
  <1> USE DEF serverVars, connVars
  <1>1. CASE ReportListening
    <2>1. CASE ready' = "assert" /\ UNCHANGED <<main, thunk, stderr, conn, listener, crashed>>
      BY <1>1, <2>1 DEF ReportListening, CommandInv, CommandTypeOK, OrderInv, HandlerInv, Target,
                        ListenerInv, ConfiguredHandlerServes, ListenerReleased
    <2>2. CASE /\ addr = "set" /\ ready' = "assert" /\ stderr' = Append(stderr, "listening")
               /\ UNCHANGED <<main, thunk, conn, listener, crashed>>
      <3>1. /\ stderr = <<>> => stderr' = <<"listening">>
            /\ stderr = <<"goodbye">> => stderr' = <<"goodbye", "listening">>
            /\ stderr \in {<<>>, <<"goodbye">>}
        BY <1>1, <2>2, Notices DEF ReportListening, CommandInv, OrderInv
      <3>2. main # "exited" => stderr = <<>>
        BY <3>1 DEF CommandInv, OrderInv
      <3>3. CommandTypeOK' /\ OrderInv' /\ ListenerInv'
        BY <1>1, <2>2, <3>1, <3>2 DEF ReportListening, CommandInv, CommandTypeOK, OrderInv, ListenerInv
      <3>4. HandlerInv' /\ ConfiguredHandlerServes' /\ ListenerReleased'
        BY <1>1, <2>2 DEF ReportListening, CommandInv, HandlerInv, Target,
                          ConfiguredHandlerServes, ListenerReleased
      <3> QED BY <3>3, <3>4 DEF CommandInv
    <2>3. CASE Crash /\ UNCHANGED stderr
      BY <1>1, <2>3, CrashKeeps DEF ReportListening
    <2> QED BY <1>1, <2>1, <2>2, <2>3 DEF ReportListening
  <1>2. CASE AssertMux
    <2>1. CASE Crash
      BY <1>2, <2>1, CrashKeeps DEF AssertMux
    <2>2. CASE ready' \in {"done", "test"} /\ UNCHANGED <<main, thunk, conn, listener, crashed>>
      BY <1>2, <2>2 DEF AssertMux, CommandInv, CommandTypeOK, OrderInv, HandlerInv, Target, ListenerInv,
                        ConfiguredHandlerServes, ListenerReleased
    <2> QED BY <1>2, <2>1, <2>2 DEF AssertMux
  <1>3. CASE TestNil
    <2>1. opts.initial # "nil" => ready' = "done" /\ UNCHANGED <<handler, left>>
      BY <1>3, ConfiguredIsNotNil DEF TestNil, CommandInv
    <2>2. /\ handler' \in [Words -> HandlerValues]
          /\ left' \in [{"thunk", "ready"} -> Words \cup {"none"}]
      BY <1>3, Values, BeginStoreKeeps DEF TestNil, CommandInv, CommandTypeOK
    <2>3. CommandTypeOK' /\ OrderInv' /\ ListenerInv' /\ ConfiguredHandlerServes' /\ ListenerReleased'
      BY <1>3, <2>2 DEF TestNil, CommandInv, CommandTypeOK, OrderInv, ListenerInv,
                        ConfiguredHandlerServes, ListenerReleased
    <2>4. HandlerInv'
      BY <1>3, <2>1 DEF TestNil, CommandInv, HandlerInv, Target
    <2> QED BY <2>3, <2>4 DEF CommandInv
  <1>4. CASE InstallMux
    <2>1. opts.initial = "nil"
      BY <1>4 DEF InstallMux, CommandInv, HandlerInv
    <2>2. /\ handler' \in [Words -> HandlerValues]
          /\ left' \in [{"thunk", "ready"} -> Words \cup {"none"}]
      BY <1>4, Values, EndStoreKeeps DEF InstallMux, CommandInv
    <2>3. CommandTypeOK' /\ OrderInv' /\ ListenerInv' /\ ConfiguredHandlerServes' /\ ListenerReleased'
      BY <1>4, <2>2 DEF InstallMux, CommandInv, CommandTypeOK, OrderInv, ListenerInv,
                        ConfiguredHandlerServes, ListenerReleased
    <2>4. HandlerInv'
      BY <1>4, <2>1 DEF InstallMux, HandlerInv
    <2> QED BY <2>3, <2>4 DEF CommandInv
  <1> QED BY <1>1, <1>2, <1>3, <1>4 DEF Ready

\* A request reads Server.Handler whole once it is served.
LEMMA ConnKeeps ==
  ASSUME CommandInv, NEW c \in Conns, Request(c) \/ Respond(c)
  PROVE  CommandInv'
  <1> USE DEF serverVars
  <1>1. CASE Request(c)
    <2>1. Read \in HandlerValues
      BY ReadTyped DEF CommandInv
    <2>2. opts.initial # "nil" => Read = Target
      BY <1>1 DEF Request, CommandInv, HandlerInv, Read, Words
    <2>3. CommandTypeOK'
      BY <1>1, <2>1 DEF Request, CommandInv, CommandTypeOK
    <2>4. ConfiguredHandlerServes'
      BY <1>1, <2>2 DEF Request, CommandInv, CommandTypeOK, ConfiguredHandlerServes, Target
    <2>5. OrderInv' /\ HandlerInv' /\ ListenerInv' /\ ListenerReleased'
      BY <1>1 DEF Request, CommandInv, OrderInv, HandlerInv, Target, ListenerInv, ListenerReleased
    <2> QED BY <2>3, <2>4, <2>5 DEF CommandInv
  <1>2. CASE Respond(c)
    BY <1>2 DEF Respond, CommandInv, CommandTypeOK, OrderInv, HandlerInv, Target, ListenerInv,
                ConfiguredHandlerServes, ListenerReleased
  <1> QED BY <1>1, <1>2

\* Every step keeps the invariant.
THEOREM CommandInductive == CommandInv /\ [CommandNext]_commandVars => CommandInv'
  <1> SUFFICES ASSUME CommandInv, [CommandNext]_commandVars PROVE CommandInv'
    OBVIOUS
  <1>1. ASSUME UNCHANGED commandVars PROVE CommandInv'
    BY <1>1 DEF commandVars, CommandInv, CommandTypeOK, OrderInv, HandlerInv, Target, ListenerInv,
                ConfiguredHandlerServes, ListenerReleased
  <1> QED
    BY <1>1, MainKeeps, ThunkKeeps, ReadyKeeps, ConnKeeps DEF CommandNext, Finished

\* Every state of RunServer is in the invariant.
THEOREM CommandInvariance == CommandSpec => []CommandInv
  BY CommandInitInv, CommandInductive, PTL DEF CommandSpec

\* Every variable holds a value of its type: the error channel one error at
\* most, the notices each printed once at most.
THEOREM CommandTypeCorrect == CommandSpec => []CommandTypeOK
  <1>1. CommandInv => CommandTypeOK BY DEF CommandInv
  <1> QED BY <1>1, CommandInvariance, PTL

\* For every number of connections, the handler that an application set serves
\* every request, whole and below its middleware, although thunk and ready
\* functions store to Server.Handler without synchronisation.
THEOREM ConfiguredServes == CommandSpec => []ConfiguredHandlerServes
  <1>1. CommandInv => ConfiguredHandlerServes BY DEF CommandInv
  <1> QED BY <1>1, CommandInvariance, PTL

\* The server announces its listener only after net.Listen, and gives it back
\* whenever ListenAndServe returns, save when the key pair cannot be loaded.
THEOREM ListenerReported == CommandSpec => []ListenerAsReported
  <1>1. ASSUME CommandInv PROVE ReportsOnlyListening
    <2>1. stderr \in {<<>>, <<"goodbye">>} => ~ \E i \in 1..Len(stderr) : stderr[i] = "listening"
      OBVIOUS
    <2> QED BY <1>1, <2>1 DEF CommandInv, ListenerInv, ReportsOnlyListening
  <1>2. CommandInv => ListenerAsReported
    BY <1>1 DEF CommandInv, ListenerAsReported
  <1> QED BY <1>2, CommandInvariance, PTL
=============================================================================
