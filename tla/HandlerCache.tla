---------------------------- MODULE HandlerCache ----------------------------
(***************************************************************************)
(* What a reloadable handler promises (the documentation of                *)
(* ReloadableHandler and NewReloadableHandler, with the exception the code *)
(* makes): a cache of one handler, built on demand, dropped by Invalidate. *)
(*                                                                         *)
(* Every epoch (the time between two Invalidates) has at most one handler: *)
(* what fn returned or the 503 handler.  A request obtains a handler that  *)
(* was current at some time since the request began.  The exception: a     *)
(* request that an Invalidate overtakes may be disturbed, and then gets a  *)
(* nil or a torn handler.                                                  *)
(***************************************************************************)
EXTENDS Naturals

CONSTANTS Requests

VARIABLES
    epoch,     \* number of Invalidates
    cached,    \* the handler and the epoch it was built in
    state,     \* of each request: "idle", "waiting", "holding", "disturbed"
    since,     \* the epoch in which each request began
    got,       \* the handler each request holds
    answer     \* what each request was answered with

avars == <<epoch, cached, state, since, got, answer>>

None == [kind |-> "nil", epoch |-> 0]

Init ==
    /\ epoch  = 0
    /\ cached = None
    /\ state  = [p \in Requests |-> "idle"]
    /\ since  = [p \in Requests |-> 0]
    /\ got    = [p \in Requests |-> None]
    /\ answer = [p \in Requests |-> "none"]

Begin(p) ==
    /\ state[p] = "idle"
    /\ state'  = [state EXCEPT ![p] = "waiting"]
    /\ since'  = [since EXCEPT ![p] = epoch]
    /\ answer' = [answer EXCEPT ![p] = "none"]
    /\ UNCHANGED <<epoch, cached, got>>

\* The epoch gets its handler, on demand of a request.
Build(kind) ==
    /\ cached.kind = "nil"
    /\ \E p \in Requests : state[p] = "waiting"
    /\ cached' = [kind |-> kind, epoch |-> epoch]
    /\ UNCHANGED <<epoch, state, since, got, answer>>

\* fn panics on behalf of a request: there is no handler, and no answer.
BuildPanics(p) ==
    /\ state[p] = "waiting" /\ cached.kind = "nil"
    /\ state'  = [state EXCEPT ![p] = "idle"]
    /\ answer' = [answer EXCEPT ![p] = "buildPanic"]
    /\ UNCHANGED <<epoch, cached, since, got>>

Fetch(p) ==
    /\ state[p] = "waiting"
    /\ cached.kind # "nil" /\ cached.epoch >= since[p]
    /\ got'   = [got EXCEPT ![p] = cached]
    /\ state' = [state EXCEPT ![p] = "holding"]
    /\ UNCHANGED <<epoch, cached, since, answer>>

\* Only an Invalidate later than the request's start disturbs it.
Disturb(p) ==
    /\ state[p] \in {"waiting", "holding"} /\ epoch > since[p]
    /\ got'   = [got EXCEPT ![p] = None]
    /\ state' = [state EXCEPT ![p] = "disturbed"]
    /\ UNCHANGED <<epoch, cached, since, answer>>

Answer(p) ==
    /\ \/ /\ state[p] = "holding"
          /\ answer' = [answer EXCEPT ![p] = got[p].kind]
       \/ /\ state[p] = "disturbed"
          /\ \E o \in {"nilPanic", "torn"} : answer' = [answer EXCEPT ![p] = o]
    /\ got'   = [got EXCEPT ![p] = None]
    /\ state' = [state EXCEPT ![p] = "idle"]
    /\ UNCHANGED <<epoch, cached, since>>

\* An Invalidate makes the cached handler a thing of the past...
Invalidate ==
    /\ epoch' = epoch + 1
    /\ UNCHANGED <<cached, state, since, got, answer>>

\* ...which is dropped before the Invalidate returns.
Discard ==
    /\ cached.epoch < epoch
    /\ cached' = [kind |-> "nil", epoch |-> epoch]
    /\ UNCHANGED <<epoch, state, since, got, answer>>

Next ==
    \/ Invalidate \/ Discard
    \/ \E kind \in {"user", "func"} : Build(kind)
    \/ \E p \in Requests :
         Begin(p) \/ BuildPanics(p) \/ Fetch(p) \/ Disturb(p) \/ Answer(p)

Spec == Init /\ [][Next]_avars
=============================================================================
