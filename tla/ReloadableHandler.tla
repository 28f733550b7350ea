-------------------------- MODULE ReloadableHandler --------------------------
(***************************************************************************)
(* The lazily built, invalidatable HTTP handler of                         *)
(* httpserver/reloadable_handler.go, at the grain of its memory accesses.  *)
(*                                                                         *)
(* Request goroutines run ServeHTTP: take the read lock, test h.handler,   *)
(* drop the read lock, and then either return h.handler (read AGAIN,       *)
(* without the lock) or take the write lock and build the handler through  *)
(* h.once.  Reloader goroutines (a POST to the reload handler, the ready   *)
(* function) run Invalidate under the write lock.                          *)
(*                                                                         *)
(* h.handler is an interface: two machine words, a type word and a data    *)
(* word.  Accesses under the lock that excludes all writers see both words *)
(* at once; the unlocked re-read loads them one at a time, in either       *)
(* order, while Invalidate and a rebuild store them one at a time, in      *)
(* either order: every outcome of the data race is a behaviour here.       *)
(*                                                                         *)
(* The epoch counts Invalidates; it and the records of what a request saw  *)
(* (since, answer, calls) are history: no step of the program reads them.  *)
(***************************************************************************)
EXTENDS Naturals

CONSTANTS
    Requests,     \* request goroutines, each serving one request after another
    Reloaders,    \* goroutines that call Invalidate
    NoProc,       \* no goroutine: the free write lock
    MaxReloads    \* bound: no Invalidate starts after this many epochs

ASSUME ProcAssumption ==
    /\ Requests \cap Reloaders = {}
    /\ NoProc \notin Requests \cup Reloaders

ASSUME BoundAssumption == MaxReloads \in Nat

Procs == Requests \cup Reloaders

\* The two words of an interface value, and the kinds of handler they hold:
\* "func" is the http.HandlerFunc(serviceUnavailable), "user" what fn returned.
Words == {"itab", "data"}
Kinds == {"nil", "func", "user"}

\* A data word identifies its object by the epoch it was stored in.
Handlers == [itab : Kinds, data : Kinds, epoch : Nat]

NilHandler == [itab |-> "nil", data |-> "nil", epoch |-> 0]

\* What a request is answered with: the user's handler, the 503 handler, the
\* panic of fn, the panic of calling a nil interface, a call through words of
\* two different values, or nothing yet.
Outcomes == {"none", "user", "func", "buildPanic", "nilPanic", "torn"}

VARIABLES
    handler,   \* h.handler
    done,      \* h.once has run
    readers,   \* h.mu: goroutines holding the read lock
    rwait,     \* h.mu: readers queued behind a pending writer
    wlock,     \* h.mu: the writer that holds it or waits for readers to leave
    pc,        \* where each goroutine stands
    reg,       \* the interface value a request is loading or storing
    todo,      \* the words that are still to load or store
    epoch,     \* history: number of Invalidates that emptied h.handler
    calls,     \* history: number of calls of fn in this epoch
    since,     \* history: the epoch in which a request started
    answer     \* history: what the latest request of a goroutine got

vars == <<handler, done, readers, rwait, wlock, pc, reg, todo,
          epoch, calls, since, answer>>

lockVars == <<readers, rwait, wlock>>
history  == <<epoch, calls, since, answer>>

Init ==
    /\ handler = NilHandler
    /\ done    = FALSE
    /\ readers = {}
    /\ rwait   = {}
    /\ wlock   = NoProc
    /\ pc      = [p \in Procs |-> "idle"]
    /\ reg     = [p \in Requests |-> NilHandler]
    /\ todo    = [p \in Procs |-> {}]
    /\ epoch   = 0
    /\ calls   = 0
    /\ since   = [p \in Requests |-> 0]
    /\ answer  = [p \in Requests |-> "none"]

Goto(p, label) == pc' = [pc EXCEPT ![p] = label]

(***************************************************************************)
(* sync.RWMutex: a pending writer keeps new readers out, and releasing the *)
(* write lock admits every queued reader before the next writer.           *)
(***************************************************************************)
RLock(p) ==
    /\ IF wlock = NoProc
       THEN readers' = readers \cup {p} /\ rwait' = rwait
       ELSE rwait' = rwait \cup {p} /\ readers' = readers
    /\ wlock' = wlock

RUnlock(p) == readers' = readers \ {p} /\ UNCHANGED <<rwait, wlock>>

Lock(p) == wlock = NoProc /\ wlock' = p /\ UNCHANGED <<readers, rwait>>

Unlock == wlock' = NoProc /\ readers' = rwait /\ rwait' = {}

\* p holds the write lock: it is the writer, and the readers have left.
Writing(p) == wlock = p /\ readers = {}

(***************************************************************************)
(* Word accesses of the interface h.handler.                               *)
(***************************************************************************)
StoreWord(v, w, from) ==
    IF w = "itab" THEN [v EXCEPT !.itab = from.itab]
    ELSE [v EXCEPT !.data = from.data, !.epoch = from.epoch]

\* Fault: the error of fn itself is stored.
StoringError(p, kind) ==
    /\ reg'  = [reg EXCEPT ![p] = [itab |-> "error", data |-> "error", epoch |-> epoch]]
    /\ todo' = [todo EXCEPT ![p] = Words]

\* Begin storing a value of the given kind into h.handler.
Storing(p, kind) ==
    /\ reg'  = [reg EXCEPT ![p] = [itab |-> kind, data |-> kind, epoch |-> epoch]]
    /\ todo' = [todo EXCEPT ![p] = Words]

(***************************************************************************)
(* ServeHTTP and ensureHandler                                             *)
(***************************************************************************)
ServeHTTP(p) ==
    /\ pc[p] = "idle"
    /\ Goto(p, "peek")
    /\ RLock(p)
    /\ since'  = [since EXCEPT ![p] = epoch]
    /\ answer' = [answer EXCEPT ![p] = "none"]
    /\ UNCHANGED <<handler, done, reg, todo, epoch, calls>>

\* The nil test (it compares the type word) and RUnlock.
Peek(p) ==
    /\ pc[p] = "peek" /\ p \in readers
    /\ RUnlock(p)
    /\ IF handler.itab # "nil"
       THEN Goto(p, "load") /\ todo' = [todo EXCEPT ![p] = Words]
       ELSE Goto(p, "lock") /\ UNCHANGED todo
    /\ UNCHANGED <<handler, done, reg>> /\ UNCHANGED history

\* return h.handler after RUnlock: one word at a time, racing any writer.
LoadWord(p, w) ==
    /\ pc[p] = "load" /\ w \in todo[p]
    /\ reg'  = [reg EXCEPT ![p] = StoreWord(@, w, handler)]
    /\ todo' = [todo EXCEPT ![p] = @ \ {w}]
    /\ IF todo[p] = {w} THEN Goto(p, "call") ELSE UNCHANGED pc
    /\ UNCHANGED <<handler, done>> /\ UNCHANGED lockVars /\ UNCHANGED history

\* Both ensureHandler and Invalidate take the write lock here.
Acquire(p) ==
    /\ pc[p] = "lock"
    /\ Lock(p)
    /\ Goto(p, IF p \in Requests THEN "once" ELSE "clear")
    /\ UNCHANGED <<handler, done, reg, todo>> /\ UNCHANGED history

\* Fault: the lock is released while fn runs.
OnceUnlocked(p) ==
    /\ pc[p] = "once" /\ Writing(p)
    /\ IF done
       THEN Goto(p, "default") /\ UNCHANGED calls /\ UNCHANGED lockVars
       ELSE Goto(p, "build") /\ calls' = calls + 1 /\ Unlock
    /\ UNCHANGED <<handler, done, reg, todo, epoch, since, answer>>

\* once.Do: call fn unless it has run since the last Invalidate.
Once(p) ==
    /\ pc[p] = "once" /\ Writing(p)
    /\ IF done
       THEN Goto(p, "default") /\ UNCHANGED calls
       ELSE Goto(p, "build") /\ calls' = calls + 1
    /\ UNCHANGED <<handler, done, reg, todo, epoch, since, answer>>
    /\ UNCHANGED lockVars

\* fn returned a handler, or an error: the value of the assignment to h.handler.
BuildReturns(p, kind) ==
    /\ pc[p] = "build"
    /\ Storing(p, kind)
    /\ done' = TRUE
    /\ Goto(p, "store")
    /\ UNCHANGED handler /\ UNCHANGED lockVars /\ UNCHANGED history

\* fn returned neither a handler nor an error.
BuildReturnsNil(p) ==
    /\ pc[p] = "build"
    /\ done' = TRUE
    /\ Goto(p, "default")
    /\ UNCHANGED <<handler, reg, todo>> /\ UNCHANGED lockVars /\ UNCHANGED history

\* Fault: Unlock is not deferred, and the panic skips it.
BuildPanicsLocked(p) ==
    /\ pc[p] = "build"
    /\ done' = TRUE
    /\ answer' = [answer EXCEPT ![p] = "buildPanic"]
    /\ Goto(p, "idle")
    /\ UNCHANGED <<handler, reg, todo, epoch, calls, since>>
    /\ UNCHANGED lockVars

\* fn panicked: Once counts as run, the deferred Unlock runs, and net/http
\* recovers the panic and drops the connection.
BuildPanics(p) ==
    /\ pc[p] = "build"
    /\ done' = TRUE
    /\ Unlock
    /\ answer' = [answer EXCEPT ![p] = "buildPanic"]
    /\ Goto(p, "idle")
    /\ UNCHANGED <<handler, reg, todo, epoch, calls, since>>

\* One word of the assignment to h.handler in ensureHandler.
Store(p, w) ==
    /\ pc[p] = "store" /\ w \in todo[p]
    /\ handler' = StoreWord(handler, w, reg[p])
    /\ todo'    = [todo EXCEPT ![p] = @ \ {w}]
    /\ IF todo[p] = {w} THEN Goto(p, "default") ELSE UNCHANGED pc
    /\ UNCHANGED <<done, reg>> /\ UNCHANGED lockVars /\ UNCHANGED history

\* Fault: the 503 handler is installed whatever there is.
InstallUntested(p) ==
    /\ pc[p] = "default"
    /\ Storing(p, "func")
    /\ Goto(p, "store")
    /\ UNCHANGED <<handler, done>> /\ UNCHANGED lockVars /\ UNCHANGED history

\* if h.handler == nil, install the 503 handler.
InstallUnavailable(p) ==
    /\ pc[p] = "default" /\ handler.itab = "nil"
    /\ Storing(p, "func")
    /\ Goto(p, "store")
    /\ UNCHANGED <<handler, done>> /\ UNCHANGED lockVars /\ UNCHANGED history

\* Fault: the nil test before the return is missing.
ReturnUntested(p) ==
    /\ pc[p] = "default"
    /\ reg' = [reg EXCEPT ![p] = handler]
    /\ Unlock
    /\ Goto(p, "call")
    /\ UNCHANGED <<handler, done, todo>> /\ UNCHANGED history

\* return h.handler under the write lock, which the deferred Unlock releases.
ReturnLocked(p) ==
    /\ pc[p] = "default" /\ handler.itab # "nil"
    /\ reg' = [reg EXCEPT ![p] = handler]
    /\ Unlock
    /\ Goto(p, "call")
    /\ UNCHANGED <<handler, done, todo>> /\ UNCHANGED history

\* handler.ServeHTTP(w, r) on what ensureHandler returned.
Outcome(v) ==
    IF v.itab = "nil" THEN "nilPanic"
    ELSE IF v.itab # v.data THEN "torn" ELSE v.itab

Call(p) ==
    /\ pc[p] = "call"
    /\ answer' = [answer EXCEPT ![p] = Outcome(reg[p])]
    /\ reg' = [reg EXCEPT ![p] = NilHandler]
    /\ Goto(p, "idle")
    /\ UNCHANGED <<handler, done, todo, epoch, calls, since>>
    /\ UNCHANGED lockVars

(***************************************************************************)
(* Invalidate                                                              *)
(***************************************************************************)
Invalidate(p) ==
    /\ pc[p] = "idle" /\ epoch < MaxReloads
    /\ Goto(p, "lock")
    /\ UNCHANGED <<handler, done, reg, todo>> /\ UNCHANGED lockVars /\ UNCHANGED history

\* Fault: Invalidate resets the Once and leaves h.handler alone.
ClearNothing(p) ==
    /\ pc[p] = "clear" /\ Writing(p)
    /\ epoch' = epoch + 1
    /\ calls' = 0
    /\ Goto(p, "reset")
    /\ UNCHANGED <<handler, done, reg, todo, since, answer>> /\ UNCHANGED lockVars

\* The epoch turns when the write lock is held and the stores begin.
Clear(p) ==
    /\ pc[p] = "clear" /\ Writing(p)
    /\ epoch' = epoch + 1
    /\ calls' = 0
    /\ todo'  = [todo EXCEPT ![p] = Words]
    /\ Goto(p, "clearing")
    /\ UNCHANGED <<handler, done, reg, since, answer>> /\ UNCHANGED lockVars

\* One word of h.handler = nil.
ClearWord(p, w) ==
    /\ pc[p] = "clearing" /\ w \in todo[p]
    /\ handler' = StoreWord(handler, w, [NilHandler EXCEPT !.epoch = epoch])
    /\ todo'    = [todo EXCEPT ![p] = @ \ {w}]
    /\ IF todo[p] = {w} THEN Goto(p, "reset") ELSE UNCHANGED pc
    /\ UNCHANGED <<done, reg>> /\ UNCHANGED lockVars /\ UNCHANGED history

\* h.once = sync.Once{}, and the deferred Unlock.
ResetOnce(p) ==
    /\ pc[p] = "reset"
    /\ done' = FALSE
    /\ Unlock
    /\ Goto(p, "idle")
    /\ UNCHANGED <<handler, reg, todo>> /\ UNCHANGED history

-----------------------------------------------------------------------------
RequestStep(p) ==
    \/ Peek(p)
    \/ \E w \in Words : LoadWord(p, w)
    \/ Once(p)
    \/ \E kind \in {"user", "func"} : BuildReturns(p, kind)
    \/ BuildReturnsNil(p)
    \/ BuildPanics(p)
    \/ \E w \in Words : Store(p, w)
    \/ InstallUnavailable(p)
    \/ ReturnLocked(p)
    \/ Call(p)

ReloaderStep(p) ==
    \/ Clear(p)
    \/ \E w \in Words : ClearWord(p, w)
    \/ ResetOnce(p)

Next ==
    \/ \E p \in Procs     : Acquire(p)
    \/ \E p \in Requests  : ServeHTTP(p) \/ RequestStep(p)
    \/ \E p \in Reloaders : Invalidate(p) \/ ReloaderStep(p)

Spec == Init /\ [][Next]_vars

(***************************************************************************)
(* The Go scheduler runs every goroutine that can run (WF).  sync.Mutex    *)
(* hands the lock to a waiter that starved for 1ms, so a writer that keeps *)
(* finding the lock free gets it (SF).  fn is assumed to return.  Nothing  *)
(* forces a request or an Invalidate to arrive.                            *)
(***************************************************************************)
Fairness ==
    /\ \A p \in Procs     : SF_vars(Acquire(p))
    /\ \A p \in Requests  : WF_vars(RequestStep(p))
    /\ \A p \in Reloaders : WF_vars(ReloaderStep(p))

FairSpec == Spec /\ Fairness

-----------------------------------------------------------------------------
(***************************************************************************)
(* Properties                                                              *)
(***************************************************************************)
RequestLabels  == {"idle", "peek", "load", "lock", "once", "build", "store",
                   "default", "call"}
ReloaderLabels == {"idle", "lock", "clear", "clearing", "reset"}

\* Every variable holds a value of its type, and a goroutine is at a place of
\* the function it runs.
TypeOK ==
    /\ handler \in Handlers
    /\ done \in BOOLEAN
    /\ readers \subseteq Requests
    /\ rwait \subseteq Requests
    /\ wlock \in Procs \cup {NoProc}
    /\ pc \in [Procs -> RequestLabels \cup ReloaderLabels]
    /\ \A p \in Requests : pc[p] \in RequestLabels
    /\ \A p \in Reloaders : pc[p] \in ReloaderLabels
    /\ reg \in [Requests -> Handlers]
    /\ todo \in [Procs -> SUBSET Words]
    /\ epoch \in Nat
    /\ calls \in Nat
    /\ since \in [Requests -> Nat]
    /\ answer \in [Requests -> Outcomes]

\* Places where a goroutine reads or writes the handler's state as the writer.
Exclusive(p) ==
    pc[p] \in {"build", "store", "default", "clearing", "reset"}

\* fn never runs while another goroutine runs fn, stores into h.handler or
\* tests it under the read lock.
BuildExclusive ==
    \A p, q \in Procs :
        pc[p] = "build" /\ p # q => ~Exclusive(q) /\ q \notin readers

\* Between two Invalidates fn is called at most once, whatever the number of
\* requests that find no handler at the same time.
BuildOncePerEpoch == calls <= 1

\* A request that starts after an Invalidate returned is never served by a
\* handler (or by a 503) from before it, even through the unlocked re-read.
NoStaleServe ==
    \A p \in Requests :
        pc[p] = "call" /\ Outcome(reg[p]) \in {"user", "func"}
            => reg[p].epoch >= since[p]

\* A request is handed a nil or a torn handler only if an Invalidate emptied
\* h.handler while the request ran: without one, every request is served.
OnlyInvalidateDisturbs ==
    \A p \in Requests :
        pc[p] = "call" /\ Outcome(reg[p]) \in {"nilPanic", "torn"}
            => epoch > since[p]

\* h.handler holds a whole value of this epoch.
Installed == handler.itab # "nil" /\ handler.itab = handler.data /\ handler.epoch = epoch

\* An installed handler stays until the next Invalidate: no late build and no
\* late 503 replaces what requests are already served by.
InstalledStays == [][Installed /\ epoch' = epoch => handler' = handler]_vars

\* No 503 out of thin air: a handler of this epoch, 503 included, is served
\* only after fn was called in this epoch.
ServedAfterBuild ==
    \A p \in Requests :
        pc[p] = "call" /\ Outcome(reg[p]) \in {"user", "func"} /\ reg[p].epoch = epoch
            => calls = 1

\* The three duties of ensureHandler together: fn runs alone, once between two
\* Invalidates, and before anything of the epoch is served.
BuildDiscipline == BuildExclusive /\ BuildOncePerEpoch /\ ServedAfterBuild

\* Every request is answered, in one of the ways ServeHTTP can end.
RequestFinishes == \A p \in Requests : pc[p] = "peek" ~> pc[p] = "idle"

\* Every Invalidate returns.
InvalidateFinishes == \A p \in Reloaders : pc[p] = "lock" ~> pc[p] = "idle"

\* Nobody is left behind the lock: ServeHTTP and Invalidate return, though fn
\* may panic inside once.Do and writers and readers queue behind each other.
CallsFinish == RequestFinishes /\ InvalidateFinishes

\* The documentation of ReloadableHandler: after an invalidation, "the next
\* time it serves, it recomputes it".  A request never calls a nil handler.
RecomputesWhenInvalid == \A p \in Requests : answer[p] # "nilPanic"
=============================================================================
