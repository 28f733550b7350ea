------------------------------ MODULE RunServer ------------------------------
(***************************************************************************)
(* The life of a server under RunServer (httpserver/server_commands.go,    *)
(* server.go, ready_func.go).  Four kinds of goroutine share one Server:   *)
(*                                                                         *)
(*   main    the action of RunServer: starts the others, waits one second  *)
(*           for a startup failure, then for the signal, then shuts down   *)
(*   thunk   ListenAndServe, whose error goes to the channel "errors"      *)
(*   ready   the ready functions: ReportListening, then ReloadServer       *)
(*   conns   the connections of net/http, which read Server.Handler anew   *)
(*           for every request                                             *)
(*                                                                         *)
(* Nothing synchronises their accesses to Server.Handler (an interface)    *)
(* and actualBind.addr (a string): both take two stores, and a read that   *)
(* meets the stores half way gets the old value, the new value, or parts   *)
(* of both ("torn").  A load is one step here: what two loads a store      *)
(* apart see, a single load between the two stores sees as well.           *)
(***************************************************************************)
EXTENDS Naturals, Sequences

CONSTANTS
    Conns,    \* connections, each serving one request after another
    Options   \* how the server may be configured: a set of option records

\* What Server.Handler can hold, before any middleware: nothing, the built-in
\* mux with the registered handlers, the application's own handler, what the
\* handler factory made, a mux with nothing registered, or a mix of two.
HandlerBases == {"nil", "mux", "custom", "factory", "empty", "torn"}

\* A handler is its base and the number of times the middleware was applied.
HandlerValues == [base : HandlerBases, layers : 0..1]

Words == {"itab", "data"}

Bare(base) == [base |-> base, layers |-> 0]

\* initial: Server.Handler when RunServer starts; factory: a handler factory is
\* set; wrap: some middleware wraps the handler (the access log does); tls:
\* whether certificate files are set, and whether they can be loaded.
AllOptions ==
    [initial : {"nil", "mux", "custom"}, factory : BOOLEAN, wrap : BOOLEAN,
     tls : {"off", "good", "bad"}]

ASSUME OptionsAssumption == Options \subseteq AllOptions

VARIABLES
    opts,        \* the configuration
    handler,     \* the type word and the data word of Server.Handler
    left,        \* the word of Server.Handler that thunk and ready have yet to store
    addr,        \* actualBind.addr: "unset", "partial" (half stored) or "set"
    listener,    \* the TCP listener: "none", "open", "closed"
    inShutdown,  \* http.Server: Shutdown was called
    main,        \* where the action of RunServer stands
    thunk,       \* where ListenAndServe stands
    local,       \* ListenAndServe: the handler it computes
    errors,      \* the channel of execContext, of capacity 1
    ready,       \* where the ready functions stand
    signalled,   \* the context is done: a signal arrived
    stderr,      \* what the ready and shutdown functions printed
    conn,        \* each connection: "idle" or "active"
    served,      \* the handler that the latest request of a connection got
    crashed      \* a torn value was used outside a request: the process died

commandVars == <<opts, handler, left, addr, listener, inShutdown, main, thunk, local,
                 errors, ready, signalled, stderr, conn, served, crashed>>

serverVars == <<opts, addr, listener, inShutdown>>
connVars   == <<conn, served>>

CommandInit ==
    /\ opts       \in Options
    /\ handler    = [w \in Words |-> Bare(opts.initial)]
    /\ left       = [g \in {"thunk", "ready"} |-> "none"]
    /\ addr       = "unset"
    /\ listener   = "none"
    /\ inShutdown = FALSE
    /\ main       = "start"
    /\ thunk      = "none"
    /\ local      = Bare("nil")
    /\ errors     = <<>>
    /\ ready      = "none"
    /\ signalled  = FALSE
    /\ stderr     = <<>>
    /\ conn       = [c \in Conns |-> "idle"]
    /\ served     = [c \in Conns |-> Bare("nil")]
    /\ crashed    = FALSE

\* A read of Server.Handler, when its value is needed.
Read == IF handler.itab = handler.data THEN handler.itab ELSE Bare("torn")

\* s.Server.Handler == nil compares the type word.
HandlerIsNil == handler.itab = Bare("nil")

BeginStore(g, v) ==
    \E w \in Words :
        /\ handler' = [handler EXCEPT ![w] = v]
        /\ left'    = [left EXCEPT ![g] = CHOOSE u \in Words : u # w]

EndStore(g, v) ==
    /\ handler' = [handler EXCEPT ![left[g]] = v]
    /\ left'    = [left EXCEPT ![g] = "none"]

\* A word of one value used with the other word of another value, outside a
\* request (where net/http recovers): the process dies, its sockets with it.
Crash ==
    /\ main' = "exited" /\ thunk' = "done" /\ ready' = "done"
    /\ conn' = [c \in Conns |-> "idle"]
    /\ listener' = "closed"
    /\ crashed' = TRUE

(***************************************************************************)
(* main: RunServer and execContext                                         *)
(***************************************************************************)
\* c.After registers the shutdown, and execContext starts the thunk.
Start ==
    /\ main = "start"
    /\ main' = "select" /\ thunk' = "start"
    /\ UNCHANGED <<handler, left, local, errors, ready, signalled, stderr, crashed>>
    /\ UNCHANGED serverVars /\ UNCHANGED connVars

\* HandleSignal cancels the context of the command.
Signal ==
    /\ main \notin {"start", "exited"} /\ ~signalled
    /\ signalled' = TRUE
    /\ UNCHANGED <<handler, left, main, thunk, local, errors, ready, stderr, crashed>>
    /\ UNCHANGED serverVars /\ UNCHANGED connVars

\* <-time.After(allowStartupTime).  Assumed of the scheduler: within a second
\* the thunk has begun to run.
StartupElapsed ==
    /\ main = "select" /\ thunk # "start"
    /\ main' = "wait" /\ ready' = "report"
    /\ UNCHANGED <<handler, left, thunk, local, errors, signalled, stderr, crashed>>
    /\ UNCHANGED serverVars /\ UNCHANGED connVars

\* err := <-errors: serverFailed.
StartupFails ==
    /\ main = "select" /\ errors # <<>>
    /\ main' = "failed" /\ errors' = Tail(errors)
    /\ UNCHANGED <<handler, left, thunk, local, ready, signalled, stderr, crashed>>
    /\ UNCHANGED serverVars /\ UNCHANGED connVars

\* <-c.Done()
Interrupted ==
    /\ main = "wait" /\ signalled
    /\ main' = "returned"
    /\ UNCHANGED <<handler, left, thunk, local, errors, ready, signalled, stderr, crashed>>
    /\ UNCHANGED serverVars /\ UNCHANGED connVars

\* The After hook calls Shutdown, which closes the listener that is served.
Shutdown ==
    /\ main \in {"returned", "failed"}
    /\ main' = "shutdown" /\ inShutdown' = TRUE
    /\ listener' = IF thunk = "serving" THEN "closed" ELSE listener
    /\ UNCHANGED <<opts, handler, left, addr, thunk, local, errors, ready, signalled,
                   stderr, crashed>>
    /\ UNCHANGED connVars

\* Whether the After hooks run when the action failed is up to joe-cli: here
\* they may not.
ExitWithoutAfter ==
    /\ main = "failed"
    /\ main' = "exited"
    /\ UNCHANGED <<handler, left, thunk, local, errors, ready, signalled, stderr, crashed>>
    /\ UNCHANGED serverVars /\ UNCHANGED connVars

\* Shutdown returns when no connection is active, or at ShutdownTimeout.
ShutdownReturns ==
    /\ main = "shutdown"
    /\ main' = "goodbye"
    /\ UNCHANGED <<handler, left, thunk, local, errors, ready, signalled, stderr, crashed>>
    /\ UNCHANGED serverVars /\ UNCHANGED connVars

\* Fault: the shutdown function runs again and again.
GoodbyeAgain ==
    /\ main = "goodbye"
    /\ stderr' = Append(stderr, "goodbye")
    /\ UNCHANGED <<handler, left, main, thunk, local, errors, ready, signalled, crashed>>
    /\ UNCHANGED serverVars /\ UNCHANGED connVars

\* actualShutdown()(ctx): ReportShutdown.
Goodbye ==
    /\ main = "goodbye"
    /\ main' = "exited" /\ stderr' = Append(stderr, "goodbye")
    /\ UNCHANGED <<handler, left, thunk, local, errors, ready, signalled, crashed>>
    /\ UNCHANGED serverVars /\ UNCHANGED connVars

(***************************************************************************)
(* thunk: ListenAndServe                                                   *)
(***************************************************************************)
\* s.Server.Handler == nil && s.handlerFactory != nil
CheckFactory ==
    /\ thunk = "start"
    /\ thunk' = IF HandlerIsNil /\ opts.factory THEN "factory" ELSE "listen"
    /\ UNCHANGED <<handler, left, main, local, errors, ready, signalled, stderr, crashed>>
    /\ UNCHANGED serverVars /\ UNCHANGED connVars

\* ListenAndServe returns an error, which the thunk is about to send.
Fail == thunk' = "send" /\ UNCHANGED <<handler, left, local>>

\* h, err := s.handlerFactory(s); begins s.Server.Handler = h
FactoryReturns ==
    /\ thunk = "factory"
    /\ \/ Fail
       \/ /\ local' = Bare("factory")
          /\ BeginStore("thunk", Bare("factory"))
          /\ thunk' = "assign"
    /\ UNCHANGED <<main, errors, ready, signalled, stderr, crashed>>
    /\ UNCHANGED serverVars /\ UNCHANGED connVars

AssignFactory ==
    /\ thunk = "assign"
    /\ EndStore("thunk", local)
    /\ thunk' = "listen"
    /\ UNCHANGED <<main, local, errors, ready, signalled, stderr, crashed>>
    /\ UNCHANGED serverVars /\ UNCHANGED connVars

\* net.Listen; begins s.actualBind.addr = ...
Listen ==
    /\ thunk = "listen"
    /\ \/ /\ Fail
          /\ UNCHANGED <<addr, listener>>
       \/ /\ listener' = "open" /\ addr' = "partial"
          /\ thunk' = "bind"
          /\ UNCHANGED <<handler, left, local>>
    /\ UNCHANGED <<opts, inShutdown, main, errors, ready, signalled, stderr, crashed>>
    /\ UNCHANGED connVars

Bind ==
    /\ thunk = "bind"
    /\ addr' = "set" /\ thunk' = "middleware"
    /\ UNCHANGED <<opts, listener, inShutdown, handler, left, main, local, errors, ready,
                   signalled, stderr, crashed>>
    /\ UNCHANGED connVars

\* applyMiddleware reads the handler, wraps it, and begins to store the result.
ApplyMiddleware ==
    /\ thunk = "middleware"
    /\ local' = [Read EXCEPT !.layers = IF opts.wrap THEN 1 ELSE 0]
    /\ BeginStore("thunk", local')
    /\ thunk' = "wrap"
    /\ UNCHANGED <<main, errors, ready, signalled, stderr, crashed>>
    /\ UNCHANGED serverVars /\ UNCHANGED connVars

Wrap ==
    /\ thunk = "wrap"
    /\ EndStore("thunk", local)
    /\ thunk' = "serve"
    /\ UNCHANGED <<main, local, errors, ready, signalled, stderr, crashed>>
    /\ UNCHANGED serverVars /\ UNCHANGED connVars

\* Fault: a return between net.Listen and Serve leaves the listener open.
ServeLeaking ==
    /\ thunk = "serve"
    /\ IF opts.tls = "bad" \/ inShutdown THEN Fail
       ELSE thunk' = "serving" /\ UNCHANGED <<handler, left, local>>
    /\ UNCHANGED <<main, errors, ready, signalled, stderr, crashed>>
    /\ UNCHANGED serverVars /\ UNCHANGED connVars

\* Serve or ServeTLS.  ServeTLS returns without closing the listener when the
\* key pair cannot be loaded; Serve closes it and returns after a Shutdown.
ServeListener ==
    /\ thunk = "serve"
    /\ IF opts.tls = "bad" THEN Fail /\ UNCHANGED listener
       ELSE IF inShutdown THEN Fail /\ listener' = "closed"
       ELSE thunk' = "serving" /\ UNCHANGED <<listener, handler, left, local>>
    /\ UNCHANGED <<opts, addr, inShutdown, main, errors, ready, signalled, stderr, crashed>>
    /\ UNCHANGED connVars

\* Serve returns after a Shutdown, or because accepting fails.
ServeReturns ==
    /\ thunk = "serving"
    /\ Fail /\ listener' = "closed"
    /\ UNCHANGED <<opts, addr, inShutdown, main, errors, ready, signalled, stderr, crashed>>
    /\ UNCHANGED connVars

\* Fault: the channel has no buffer: the send waits for the select of main.
SendUnbuffered ==
    /\ thunk = "send" /\ main = "select"
    /\ errors' = Append(errors, "error") /\ thunk' = "done"
    /\ UNCHANGED <<handler, left, main, local, ready, signalled, stderr, crashed>>
    /\ UNCHANGED serverVars /\ UNCHANGED connVars

\* errors <- err: blocks while the channel is full.
SendError ==
    /\ thunk = "send" /\ Len(errors) < 1
    /\ errors' = Append(errors, "error") /\ thunk' = "done"
    /\ UNCHANGED <<handler, left, main, local, ready, signalled, stderr, crashed>>
    /\ UNCHANGED serverVars /\ UNCHANGED connVars

(***************************************************************************)
(* ready: DefaultReadyFunc                                                 *)
(***************************************************************************)
\* ReportListening: ErrNotListening is dropped.  A half stored address reads
\* as empty, or as a length without its bytes.
ReportListening ==
    /\ ready = "report"
    /\ \/ /\ addr \in {"unset", "partial"}
          /\ ready' = "assert"
          /\ UNCHANGED <<main, thunk, stderr, conn, listener, crashed>>
       \/ /\ addr = "set"
          /\ ready' = "assert" /\ stderr' = Append(stderr, "listening")
          /\ UNCHANGED <<main, thunk, conn, listener, crashed>>
       \/ addr = "partial" /\ Crash /\ UNCHANGED stderr
    /\ UNCHANGED <<opts, handler, left, addr, inShutdown, local, errors, signalled, served>>

IsMux(v) == v \in {Bare("mux"), Bare("empty")}

\* ensureMux: s.Server.Handler.(mux), and ReloadAll on what it gives.
AssertMux ==
    /\ ready = "assert"
    /\ IF IsMux(handler.itab) /\ Read = Bare("torn")
       THEN Crash
       ELSE /\ ready' = IF IsMux(handler.itab) THEN "done" ELSE "test"
            /\ UNCHANGED <<main, thunk, conn, listener, crashed>>
    /\ UNCHANGED <<opts, handler, left, addr, inShutdown, local, errors, signalled,
                   stderr, served>>

\* Fault: ensureMux gives any handler that is no mux a new mux.
TestNothing ==
    /\ ready = "test"
    /\ BeginStore("ready", Bare("empty")) /\ ready' = "install"
    /\ UNCHANGED <<main, thunk, local, errors, signalled, stderr, crashed>>
    /\ UNCHANGED serverVars /\ UNCHANGED connVars

\* ensureMux: s.Server.Handler == nil; if so, begins to store a new mux, else
\* the error is dropped.
TestNil ==
    /\ ready = "test"
    /\ IF HandlerIsNil
       THEN BeginStore("ready", Bare("empty")) /\ ready' = "install"
       ELSE UNCHANGED <<handler, left>> /\ ready' = "done"
    /\ UNCHANGED <<main, thunk, local, errors, signalled, stderr, crashed>>
    /\ UNCHANGED serverVars /\ UNCHANGED connVars

InstallMux ==
    /\ ready = "install"
    /\ EndStore("ready", Bare("empty"))
    /\ ready' = "done"
    /\ UNCHANGED <<main, thunk, local, errors, signalled, stderr, crashed>>
    /\ UNCHANGED serverVars /\ UNCHANGED connVars

(***************************************************************************)
(* conns: net/http (external)                                              *)
(***************************************************************************)
\* A request arrives and reads Server.Handler.
Request(c) ==
    /\ thunk = "serving" /\ ~inShutdown /\ conn[c] = "idle"
    /\ conn' = [conn EXCEPT ![c] = "active"]
    /\ served' = [served EXCEPT ![c] = Read]
    /\ UNCHANGED <<handler, left, main, thunk, local, errors, ready, signalled, stderr,
                   crashed>>
    /\ UNCHANGED serverVars

Respond(c) ==
    /\ conn[c] = "active"
    /\ conn' = [conn EXCEPT ![c] = "idle"]
    /\ UNCHANGED <<handler, left, main, thunk, local, errors, ready, signalled, stderr,
                   served, crashed>>
    /\ UNCHANGED serverVars

-----------------------------------------------------------------------------
Main ==
    \/ Start \/ StartupElapsed \/ StartupFails \/ Interrupted
    \/ Shutdown \/ ExitWithoutAfter \/ ShutdownReturns \/ Goodbye

Thunk ==
    \/ CheckFactory \/ FactoryReturns \/ AssignFactory \/ Listen \/ Bind
    \/ ApplyMiddleware \/ Wrap \/ ServeListener \/ SendError
    \/ (inShutdown /\ ServeReturns)

Ready == ReportListening \/ AssertMux \/ TestNil \/ InstallMux

\* The program is over once main has exited and its goroutines have ended.
Finished ==
    /\ main = "exited" /\ thunk = "done" /\ ready \in {"none", "done"}
    /\ UNCHANGED commandVars

CommandNext ==
    \/ Main \/ Thunk \/ Ready \/ Signal \/ ServeReturns
    \/ \E c \in Conns : Request(c) \/ Respond(c)
    \/ Finished

CommandSpec == CommandInit /\ [][CommandNext]_commandVars

(***************************************************************************)
(* Runnable goroutines run; the handler factory and net.Listen return; the *)
(* one-second timer and ShutdownTimeout elapse.  No signal, no request and *)
(* no end of a request is promised, nor that accepting fails.              *)
(***************************************************************************)
Fairness ==
    /\ WF_commandVars(Main)
    /\ WF_commandVars(Thunk)
    /\ WF_commandVars(Ready)

FairSpec == CommandSpec /\ Fairness

-----------------------------------------------------------------------------
(***************************************************************************)
(* Properties                                                              *)
(***************************************************************************)
\* Every variable holds a value of its type.
CommandTypeOK ==
    /\ opts \in Options
    /\ handler \in [Words -> HandlerValues]
    /\ left \in [{"thunk", "ready"} -> Words \cup {"none"}]
    /\ addr \in {"unset", "partial", "set"}
    /\ listener \in {"none", "open", "closed"}
    /\ inShutdown \in BOOLEAN
    /\ main \in {"start", "select", "wait", "returned", "failed", "shutdown", "goodbye", "exited"}
    /\ thunk \in {"none", "start", "factory", "assign", "listen", "bind", "middleware", "wrap",
                  "serve", "serving", "send", "done"}
    /\ local \in HandlerValues
    /\ errors \in {<<>>, <<"error">>}
    /\ ready \in {"none", "report", "assert", "test", "install", "done"}
    /\ signalled \in BOOLEAN
    /\ stderr \in {<<>>, <<"listening">>, <<"goodbye">>,
                   <<"listening", "goodbye">>, <<"goodbye", "listening">>}
    /\ conn \in [Conns -> {"idle", "active"}]
    /\ served \in [Conns -> HandlerValues]
    /\ crashed \in BOOLEAN

\* "Listening on ..." is printed only if net.Listen has succeeded, although the
\* ready functions run on a timer and not on the listener.
ReportsOnlyListening ==
    (\E i \in 1..Len(stderr) : stderr[i] = "listening") => listener # "none"

\* A handler the application set itself, or the mux it registered handlers
\* with, serves every request, below the middleware: neither the ready
\* functions nor the factory get in its way.
ConfiguredHandlerServes ==
    \A c \in Conns :
        conn[c] = "active" /\ opts.initial # "nil"
            => served[c] = [base |-> opts.initial, layers |-> IF opts.wrap THEN 1 ELSE 0]

\* Once ListenAndServe has returned, its listener is closed, save when the key
\* pair could not be loaded.
ListenerReleased ==
    thunk \in {"send", "done"} /\ listener = "open" => opts.tls = "bad"

\* After a signal main exits, whatever ListenAndServe and requests are doing.
SignalEndsMain == signalled ~> main = "exited"

\* After Shutdown the goroutine of ListenAndServe ends: it is not left behind
\* on its send, on which nobody waits any more.
ShutdownEndsThunk == inShutdown ~> thunk = "done"

\* What is reported of the listener is so: it is announced only when it listens,
\* and ListenAndServe gives it back.
ListenerAsReported == ReportsOnlyListening /\ ListenerReleased

\* The command comes to its end, and its goroutine with it.
CommandEnds == SignalEndsMain /\ ShutdownEndsThunk
=============================================================================
