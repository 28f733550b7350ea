--------------------- MODULE ReloadableHandlerRefinement ---------------------
(***************************************************************************)
(* ReloadableHandler implements HandlerCache.  The data word of h.handler  *)
(* is the cached handler; a request holds a handler once it has loaded the *)
(* data word, and is disturbed once the words it loaded cannot be called.  *)
(***************************************************************************)
EXTENDS ReloadableHandler

\* The data word of an interface value, as the cached handler it stands for.
Entry(v) == [kind |-> v.data, epoch |-> v.epoch]

\* The words p has loaded so far show that its handler is nil or torn.
Disturbed(p) ==
    \/ pc[p] = "call" /\ Outcome(reg[p]) \in {"nilPanic", "torn"}
    \/ pc[p] = "load" /\ \E w \in Words \ todo[p] : reg[p][w] = "nil"

\* p has loaded (or was returned) a data word it can call, so far.
Holding(p) ==
    /\ ~Disturbed(p)
    /\ pc[p] = "call" \/ (pc[p] = "load" /\ "data" \notin todo[p])

requestState ==
    [p \in Requests |->
        IF pc[p] = "idle" THEN "idle"
        ELSE IF Disturbed(p) THEN "disturbed"
        ELSE IF Holding(p) THEN "holding" ELSE "waiting"]

heldEntry ==
    [p \in Requests |->
        IF Holding(p) THEN Entry(reg[p]) ELSE [kind |-> "nil", epoch |-> 0]]

Cache == INSTANCE HandlerCache WITH
    cached <- Entry(handler), state <- requestState, got <- heldEntry

\* Every step of the locks and words is a step, or no step, of the cache that
\* the documentation describes.
ImplementsHandlerCache == Cache!Spec
=============================================================================
