------------------------------ MODULE ServerMux ------------------------------
(***************************************************************************)
(* How handlers are registered with a Server and reloaded together         *)
(* (httpserver/server.go, reloadable_handler.go, handler.go).              *)
(*                                                                         *)
(* While the server is configured, one goroutine calls WithHandler, Handle *)
(* and HandleSpec in some order.  ListenAndServe then wraps the handler in *)
(* the middleware and serves: requests build the reloadable handlers on    *)
(* demand, from what the application last published, and POSTs to the      *)
(* reload handler invalidate them, each POST target by target while other  *)
(* requests and POSTs go on.                                               *)
(*                                                                         *)
(* One reloadable handler is what HandlerCache describes, with its build   *)
(* and its Invalidate in one step each: h.mu orders them.                  *)
(***************************************************************************)
EXTENDS Naturals, Sequences, FiniteSets

CONSTANTS
    Patterns,      \* patterns that handlers are registered for
    Malformed,     \* those that http.ServeMux rejects
    Reloadables,   \* handlers made by NewReloadableHandler
    ReloadHandler, \* the handler made by NewReloadHandler
    NoRoute,       \* a pattern without a handler
    Posts,         \* goroutines that serve a POST to the reload handler
    MaxVersion     \* bound: how often the application publishes new contents

ASSUME PatternAssumption == IsFiniteSet(Patterns) /\ Malformed \subseteq Patterns
ASSUME HandlerAssumption == ReloadHandler \notin Reloadables
ASSUME RouteAssumption   == NoRoute \notin Reloadables \cup {ReloadHandler}
ASSUME VersionAssumption == MaxVersion \in Nat

Handlers == Reloadables \cup {ReloadHandler}

\* What is registered for a pattern: the handler itself, or the handler
\* within http.StripPrefix (stripped).
Routes == [handler : Handlers, stripped : BOOLEAN]
Nothing == [handler |-> NoRoute, stripped |-> FALSE]

\* The handler of the server below its middleware: none, the built-in mux
\* (reloadSupport), an http.ServeMux of the application, or another handler.
Bases == {"nil", "mux", "plainMux", "custom"}

NotBuilt == 0

VARIABLES
    base,      \* Server.Handler, below the middleware
    wrapped,   \* whether Server.Handler is middleware around it
    wrap,      \* whether the middleware wraps (an access log, a Server header)
    serving,   \* ListenAndServe was called
    routes,    \* the patterns of the mux
    accepted,  \* the registrations for which Handle returned no error
    targets,   \* reloadSupport.targets
    version,   \* what the application has published last
    built,     \* the version each reloadable handler was built from
    pending,   \* each POST: the targets it has yet to invalidate
    start,     \* each POST: the version when it began, 0 when there is none
    floor      \* history: the latest such version among the POSTs answered 204

vars == <<base, wrapped, wrap, serving, routes, accepted, targets, version,
          built, pending, start, floor>>

configVars == <<base, wrapped, wrap, serving, routes, accepted, targets>>
reloadVars == <<version, built, pending, start, floor>>

NoRoutes == [p \in Patterns |-> Nothing]

Init ==
    /\ base     = "nil"
    /\ wrapped  = FALSE
    /\ wrap     \in BOOLEAN
    /\ serving  = FALSE
    /\ routes   = NoRoutes
    /\ accepted = {}
    /\ targets  = <<>>
    /\ version  = 1
    /\ built    = [h \in Reloadables |-> NotBuilt]
    /\ pending  = [k \in Posts |-> <<>>]
    /\ start    = [k \in Posts |-> 0]
    /\ floor    = 0

(***************************************************************************)
(* Configuration                                                           *)
(***************************************************************************)
\* WithHandler replaces the handler, and with it the patterns of a mux: an
\* http.ServeMux of the application is a new one.
WithHandler(b) ==
    /\ ~serving
    /\ base' = b
    /\ routes' = NoRoutes /\ accepted' = {} /\ targets' = <<>>
    /\ UNCHANGED <<wrapped, wrap, serving>> /\ UNCHANGED reloadVars

\* ensureMux: the handler if it is a mux, a new built-in mux if there is none.
EnsureMux ==
    /\ base # "custom"
    /\ base' = IF base = "nil" THEN "mux" ELSE base

\* Fault: every handler becomes a target.
TargetsUnasserted(b, r) == IF b = "mux" THEN Append(targets, r.handler) ELSE targets

\* The targets with the route r: reloadSupport.Handle asserts the type of the
\* handler, which sees through no http.StripPrefix.
Targets(b, r) ==
    IF b = "mux" /\ r.handler \in Reloadables /\ ~r.stripped
    THEN Append(targets, r.handler) ELSE targets

\* http.ServeMux.Handle panics.
Panics(p) == p \in Malformed \/ routes[p] # Nothing

\* Fault: the target is appended before http.ServeMux.Handle panics.
RegisterTargetFirst(p, r) ==
    /\ EnsureMux
    /\ targets' = Targets(base', r)
    /\ IF Panics(p)
       THEN UNCHANGED <<routes, accepted>>
       ELSE /\ routes' = [routes EXCEPT ![p] = r]
            /\ accepted' = accepted \cup {<<p, r>>}

\* Server.Handle on a mux, with reloadSupport.Handle: a panic becomes an
\* error, and a reloadable handler that was registered becomes a target.
Register(p, r) ==
    /\ EnsureMux
    /\ IF Panics(p)
       THEN UNCHANGED <<routes, accepted, targets>>
       ELSE /\ routes' = [routes EXCEPT ![p] = r]
            /\ accepted' = accepted \cup {<<p, r>>}
            /\ targets' = Targets(base', r)

Handle(p, h) ==
    /\ ~serving
    /\ Register(p, [handler |-> h, stripped |-> FALSE])
    /\ UNCHANGED <<wrapped, wrap, serving>> /\ UNCHANGED reloadVars

\* Handle of what RegistryHandlerSpec makes: a HandlerSpec of the registry (the
\* reload handler) as it is, any other handler within http.StripPrefix.
HandleSpec(p, h) ==
    /\ ~serving
    /\ Register(p, [handler |-> h, stripped |-> h # ReloadHandler])
    /\ UNCHANGED <<wrapped, wrap, serving>> /\ UNCHANGED reloadVars

\* applyMiddleware, and the server serves.
ListenAndServe ==
    /\ ~serving
    /\ serving' = TRUE /\ wrapped' = wrap
    /\ UNCHANGED <<base, wrap, routes, accepted, targets>> /\ UNCHANGED reloadVars

(***************************************************************************)
(* Serving                                                                 *)
(***************************************************************************)
\* The contents that reloadable handlers are built from change.
Publish ==
    /\ serving /\ version < MaxVersion
    /\ version' = version + 1
    /\ UNCHANGED <<built, pending, start, floor>> /\ UNCHANGED configVars

\* A request reaches a reloadable handler, which is built unless it is there.
Serve(p) ==
    /\ serving /\ routes[p].handler \in Reloadables
    /\ built[routes[p].handler] = NotBuilt
    /\ built' = [built EXCEPT ![routes[p].handler] = version]
    /\ UNCHANGED <<version, pending, start, floor>> /\ UNCHANGED configVars

\* Fault: ReloadAll leaves out the last target.
ReloadAllButLast ==
    IF base = "mux" /\ ~wrapped /\ targets # <<>> THEN SubSeq(targets, 1, Len(targets) - 1) ELSE <<>>

\* ReloadAll goes through the targets if Server.Handler is the built-in mux.
ReloadAll == IF base = "mux" /\ ~wrapped THEN targets ELSE <<>>

\* A POST reaches the reload handler.  (Other methods are answered 405.)
Reload(k) ==
    /\ serving /\ start[k] = 0
    /\ \E p \in Patterns : routes[p].handler = ReloadHandler
    /\ start'   = [start EXCEPT ![k] = version]
    /\ pending' = [pending EXCEPT ![k] = ReloadAll]
    /\ UNCHANGED <<version, built, floor>> /\ UNCHANGED configVars

InvalidateTarget(k) ==
    /\ pending[k] # <<>>
    /\ built'   = [built EXCEPT ![Head(pending[k])] = NotBuilt]
    /\ pending' = [pending EXCEPT ![k] = Tail(@)]
    /\ UNCHANGED <<version, start, floor>> /\ UNCHANGED configVars

\* The answer of the POST: 204 No Content.
NoContent(k) ==
    /\ start[k] # 0 /\ pending[k] = <<>>
    /\ floor' = IF start[k] > floor THEN start[k] ELSE floor
    /\ start' = [start EXCEPT ![k] = 0]
    /\ UNCHANGED <<version, built, pending>> /\ UNCHANGED configVars

Next ==
    \/ \E b \in {"nil", "plainMux", "custom"} : WithHandler(b)
    \/ \E p \in Patterns, h \in Handlers : Handle(p, h) \/ HandleSpec(p, h)
    \/ ListenAndServe
    \/ Publish
    \/ \E p \in Patterns : Serve(p)
    \/ \E k \in Posts : Reload(k) \/ InvalidateTarget(k) \/ NoContent(k)

Spec == Init /\ [][Next]_vars

-----------------------------------------------------------------------------
(***************************************************************************)
(* Properties                                                              *)
(***************************************************************************)
\* Every variable holds a value of its type, and only reloadable handlers are
\* ever targets of a reload.
TypeOK ==
    /\ base \in Bases
    /\ wrapped \in BOOLEAN /\ wrap \in BOOLEAN /\ serving \in BOOLEAN
    /\ routes \in [Patterns -> Routes \cup {Nothing}]
    /\ accepted \subseteq Patterns \X Routes
    /\ targets \in Seq(Reloadables)
    /\ version \in Nat
    /\ built \in [Reloadables -> Nat]
    /\ pending \in [Posts -> Seq(Reloadables)]
    /\ start \in [Posts -> Nat]
    /\ floor \in Nat

\* The patterns whose handler is itself a reloadable handler.
Direct == {p \in Patterns : routes[p].handler \in Reloadables /\ ~routes[p].stripped}

\* The built-in mux keeps one target for each pattern that has a reloadable
\* handler: a registration that failed leaves none behind, and one that
\* succeeded is never missed by a reload.
TargetsMatchRoutes ==
    /\ base = "mux" => /\ Len(targets) = Cardinality(Direct)
                       /\ {targets[i] : i \in 1..Len(targets)}
                              = {routes[p].handler : p \in Direct}
    /\ base # "mux" => targets = <<>>

\* A registration that Handle accepted is the one its pattern routes to,
\* whatever registrations for the same pattern came before or after it.
AcceptedIsRouted == \A a \in accepted : routes[a[1]] = a[2]

\* Whatever registrations fail, are repeated or follow a WithHandler, the
\* patterns, the answers of Handle and the targets of a reload agree.
RegistrationsHold == TargetsMatchRoutes /\ AcceptedIsRouted

\* Registering a handler never displaces the handler of the application (the
\* built-in mux is only ever installed where there is no handler).
HandleKeepsHandler ==
    [][(base \in {"custom", "plainMux"}) => (base' # "mux")]_vars

\* Once a POST to the reload handler is answered, no reloadable handler of the
\* built-in mux holds contents from before the POST, if no middleware wraps
\* the mux: requests and other POSTs in between cannot bring them back.
ReloadReachesTargets ==
    base = "mux" /\ ~wrapped =>
        \A p \in Direct :
            built[routes[p].handler] # NotBuilt => built[routes[p].handler] >= floor

\* The documentation of ReloadAll: it "causes the server to reload all
\* reloadable handlers.  To support reloading, the built-in mux must be used".
ReloadReachesAll ==
    base = "mux" =>
        \A p \in Direct :
            built[routes[p].handler] # NotBuilt => built[routes[p].handler] >= floor
=============================================================================
