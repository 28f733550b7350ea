----------------------- MODULE ReloadableHandlerProofs -----------------------
(***************************************************************************)
(* Proofs, for any number of goroutines and any bound, of the safety       *)
(* properties of ReloadableHandler, and that it implements HandlerCache.   *)
(* The inductive invariant IInv says who holds h.mu (LockInv), how h.once  *)
(* and the calls of fn go together (OnceInv), what the two words of        *)
(* h.handler hold at each stage of a store (HandlerInv), and what a        *)
(* request has loaded so far (LoadInv).                                    *)
(***************************************************************************)
EXTENDS ReloadableHandlerRefinement, TLAPS

OwnerLabels == {"once", "build", "store", "default", "clear", "clearing", "reset"}

\* The owner of the write lock is where its lock is held, and readers are
\* those about to test h.handler.
LockInv ==
    /\ \A p \in Procs : pc[p] \in OwnerLabels <=> wlock = p
    /\ \A p \in readers \cup rwait : pc[p] = "peek"
    /\ readers \cap rwait = {}
    /\ wlock = NoProc => rwait = {}
    /\ \A p \in Procs : Exclusive(p) => readers = {}

\* fn is called at most once before h.once is reset, and has been called
\* whenever h.once has run since the last Invalidate.
OnceInv ==
    /\ calls <= 1
    /\ \A p \in Procs : pc[p] = "build" => ~done /\ calls = 1
    /\ ~done /\ calls = 1 => \E p \in Procs : pc[p] = "build"
    /\ \A p \in Procs : pc[p] \in {"clearing", "reset"} => calls = 0
    /\ done => calls = 1 \/ \E p \in Procs : pc[p] \in {"clearing", "reset"}
    /\ \A p \in Procs : pc[p] \in {"store", "default"} => done

\* What h.handler holds: a whole value of this epoch or nil, save for the
\* words a store or a clear in progress has yet to write.
HandlerInv ==
    /\ handler.epoch <= epoch
    /\ ~done => handler.itab = "nil" /\ handler.data = "nil"
    /\ handler.data # "nil" /\ handler.epoch = epoch => calls = 1
    /\ (\A p \in Procs : pc[p] \notin {"store", "clearing"}) =>
           /\ handler.itab = handler.data
           /\ handler.itab # "nil" => handler.epoch = epoch
    /\ \A p \in Requests : pc[p] = "store" =>
           /\ reg[p].epoch = epoch /\ reg[p].itab = reg[p].data /\ reg[p].itab # "nil"
           /\ todo[p] # {}
           /\ \A w \in Words : handler[w] = IF w \in todo[p] THEN "nil" ELSE reg[p][w]
           /\ "data" \notin todo[p] => handler.epoch = epoch
    /\ \A p \in Reloaders : pc[p] = "clearing" =>
           /\ todo[p] # {}
           /\ \A w \in Words : w \notin todo[p] => handler[w] = "nil"
           /\ "data" \in todo[p] => handler.epoch < epoch
    /\ \A p \in Reloaders : pc[p] = "reset" => handler.itab = "nil" /\ handler.data = "nil"

\* What a request has loaded: a value no older than the request, which is
\* the whole installed one if no Invalidate came since the request started.
LoadInv ==
    \A p \in Requests :
        /\ since[p] <= epoch
        /\ pc[p] = "load" =>
              /\ since[p] <= handler.epoch
              /\ "data" \notin todo[p] => since[p] <= reg[p].epoch /\ reg[p].epoch <= epoch
              /\ "data" \notin todo[p] /\ reg[p].data # "nil" /\ reg[p].epoch = epoch => calls = 1
              /\ since[p] = epoch => /\ Installed
                                     /\ \A w \in Words \ todo[p] : reg[p][w] = handler[w]
        /\ pc[p] = "call" =>
              /\ since[p] <= reg[p].epoch /\ reg[p].epoch <= epoch
              /\ reg[p].data # "nil" /\ reg[p].epoch = epoch => calls = 1
              /\ since[p] = epoch => reg[p].itab = reg[p].data /\ reg[p].itab # "nil"

IInv == TypeOK /\ LockInv /\ OnceInv /\ HandlerInv /\ LoadInv

-----------------------------------------------------------------------------
(***************************************************************************)
(* Type correctness                                                        *)
(***************************************************************************)
\* The initial state is of its type.
LEMMA TypeInit == Init => TypeOK
<1> SUFFICES ASSUME Init PROVE TypeOK
  OBVIOUS
<1>1. handler \in Handlers /\ reg \in [Requests -> Handlers]
  BY DEF Init, Handlers, NilHandler, Kinds
<1>2. /\ pc \in [Procs -> RequestLabels \cup ReloaderLabels]
      /\ \A p \in Requests : pc[p] \in RequestLabels
      /\ \A p \in Reloaders : pc[p] \in ReloaderLabels
  BY DEF Init, Procs, RequestLabels, ReloaderLabels
<1> QED
  BY <1>1, <1>2 DEF Init, TypeOK, Outcomes

\* Loading or storing one word of an interface value gives an interface value.
LEMMA StoreWordType ==
    ASSUME NEW v \in Handlers, NEW from \in Handlers, NEW w \in Words
    PROVE  StoreWord(v, w, from) \in Handlers
BY DEF StoreWord, Handlers, Words

\* Every step keeps the variables to their types.
LEMMA TypeStep == TypeOK /\ [Next]_vars => TypeOK'
<1> SUFFICES ASSUME TypeOK, [Next]_vars PROVE TypeOK'
  OBVIOUS
<1> USE DEF TypeOK, Procs, Words, Kinds, Outcomes, RequestLabels, ReloaderLabels,
            Goto, RLock, RUnlock, Lock, Unlock, lockVars, history
<1>1. CASE \E p \in Procs : Acquire(p)
  BY <1>1, ProcAssumption DEF Acquire
<1>2. CASE \E p \in Requests : ServeHTTP(p)
  <2> PICK p \in Requests : ServeHTTP(p)
    BY <1>2
  <2>1. readers' \subseteq Requests /\ rwait' \subseteq Requests /\ wlock' \in Procs \cup {NoProc}
    BY DEF ServeHTTP
  <2>2. /\ pc' \in [Procs -> RequestLabels \cup ReloaderLabels]
        /\ \A q \in Requests : pc'[q] \in RequestLabels
        /\ \A q \in Reloaders : pc'[q] \in ReloaderLabels
    BY ProcAssumption DEF ServeHTTP
  <2>3. since' \in [Requests -> Nat] /\ answer' \in [Requests -> Outcomes]
    BY DEF ServeHTTP
  <2> QED
    BY <2>1, <2>2, <2>3 DEF ServeHTTP
<1>3. CASE \E p \in Requests : Peek(p)
  BY <1>3 DEF Peek
<1>4. CASE \E p \in Requests : \E w \in Words : LoadWord(p, w)
  BY <1>4, StoreWordType DEF LoadWord
<1>5. CASE \E p \in Requests : Once(p)
  BY <1>5 DEF Once
<1>6. CASE \E p \in Requests : \E kind \in {"user", "func"} : BuildReturns(p, kind)
  BY <1>6 DEF BuildReturns, Storing, Handlers
<1>7. CASE \E p \in Requests : BuildReturnsNil(p)
  BY <1>7 DEF BuildReturnsNil
<1>8. CASE \E p \in Requests : BuildPanics(p)
  BY <1>8 DEF BuildPanics
<1>9. CASE \E p \in Requests : \E w \in Words : Store(p, w)
  BY <1>9, StoreWordType DEF Store
<1>10. CASE \E p \in Requests : InstallUnavailable(p)
  BY <1>10 DEF InstallUnavailable, Storing, Handlers
<1>11. CASE \E p \in Requests : ReturnLocked(p)
  BY <1>11 DEF ReturnLocked
<1>12. CASE \E p \in Requests : Call(p)
  BY <1>12 DEF Call, NilHandler, Handlers, Outcome
<1>13. CASE \E p \in Reloaders : Invalidate(p)
  BY <1>13 DEF Invalidate
<1>14. CASE \E p \in Reloaders : Clear(p)
  BY <1>14 DEF Clear
<1>15. CASE \E p \in Reloaders : \E w \in Words : ClearWord(p, w)
  BY <1>15, StoreWordType DEF ClearWord, NilHandler, Handlers
<1>16. CASE \E p \in Reloaders : ResetOnce(p)
  <2> PICK p \in Reloaders : ResetOnce(p)
    BY <1>16
  <2>1. readers' \subseteq Requests /\ rwait' \subseteq Requests /\ wlock' = NoProc /\ done' = FALSE
    BY DEF ResetOnce
  <2>2. pc' = [pc EXCEPT ![p] = "idle"] /\ UNCHANGED <<handler, reg, todo, epoch, calls, since, answer>>
    BY DEF ResetOnce
  <2> QED
    BY <2>1, <2>2
<1>17. CASE UNCHANGED vars
  BY <1>17 DEF vars
<1> HIDE DEF TypeOK, Procs, Words, Kinds, Outcomes, RequestLabels, ReloaderLabels, Goto,
         RLock, RUnlock, Lock, Unlock, lockVars, history
<1> QED
  BY <1>1, <1>2, <1>3, <1>4, <1>5, <1>6, <1>7, <1>8, <1>9, <1>10, <1>11, <1>12, <1>13,
     <1>14, <1>15, <1>16, <1>17 DEF Next, RequestStep, ReloaderStep

\* Every step keeps the read-write lock consistent with where goroutines stand:
\* RLock, RUnlock, Lock and Unlock are called in pairs.
LEMMA LockStep == TypeOK /\ LockInv /\ [Next]_vars => LockInv'
<1> SUFFICES ASSUME TypeOK, LockInv, [Next]_vars PROVE LockInv'
  OBVIOUS
<1> USE ProcAssumption DEF TypeOK, LockInv, OwnerLabels, Exclusive, Procs, RequestLabels,
        ReloaderLabels, Goto, RLock, RUnlock, Lock, Unlock, Writing, lockVars, history
<1>1. CASE \E p \in Procs : Acquire(p)
  BY <1>1 DEF Acquire
<1>2. CASE \E p \in Requests : ServeHTTP(p)
  <2> PICK p \in Requests : ServeHTTP(p)
    BY <1>2
  <2>1. CASE wlock = NoProc
    BY <2>1 DEF ServeHTTP
  <2>2. CASE wlock # NoProc
    BY <2>2 DEF ServeHTTP
  <2> QED
    BY <2>1, <2>2
<1>3. CASE \E p \in Requests : Peek(p)
  BY <1>3 DEF Peek
<1>4. CASE \E p \in Requests : \E w \in Words : LoadWord(p, w)
  BY <1>4 DEF LoadWord
<1>5. CASE \E p \in Requests : Once(p)
  BY <1>5 DEF Once
<1>6. CASE \E p \in Requests : \E kind \in {"user", "func"} : BuildReturns(p, kind)
  BY <1>6 DEF BuildReturns
<1>7. CASE \E p \in Requests : BuildReturnsNil(p)
  BY <1>7 DEF BuildReturnsNil
<1>8. CASE \E p \in Requests : BuildPanics(p)
  BY <1>8 DEF BuildPanics
<1>9. CASE \E p \in Requests : \E w \in Words : Store(p, w)
  BY <1>9 DEF Store
<1>10. CASE \E p \in Requests : InstallUnavailable(p)
  BY <1>10 DEF InstallUnavailable
<1>11. CASE \E p \in Requests : ReturnLocked(p)
  BY <1>11 DEF ReturnLocked
<1>12. CASE \E p \in Requests : Call(p)
  BY <1>12 DEF Call
<1>13. CASE \E p \in Reloaders : Invalidate(p)
  BY <1>13 DEF Invalidate
<1>14. CASE \E p \in Reloaders : Clear(p)
  BY <1>14 DEF Clear
<1>15. CASE \E p \in Reloaders : \E w \in Words : ClearWord(p, w)
  BY <1>15 DEF ClearWord
<1>16. CASE \E p \in Reloaders : ResetOnce(p)
  BY <1>16 DEF ResetOnce
<1>17. CASE UNCHANGED vars
  BY <1>17 DEF vars
<1> HIDE DEF TypeOK, LockInv, OwnerLabels, Exclusive, Procs, RequestLabels,
         ReloaderLabels, Goto, RLock, RUnlock, Lock, Unlock, Writing, lockVars, history
<1> QED
  BY <1>1, <1>2, <1>3, <1>4, <1>5, <1>6, <1>7, <1>8,
     <1>9, <1>10, <1>11, <1>12, <1>13, <1>14, <1>15, <1>16, <1>17 DEF Next, RequestStep, ReloaderStep

\* Every step keeps h.once, the calls of fn and their epoch together.
LEMMA OnceStep == TypeOK /\ LockInv /\ OnceInv /\ [Next]_vars => OnceInv'
<1> SUFFICES ASSUME TypeOK, LockInv, OnceInv, [Next]_vars PROVE OnceInv'
  OBVIOUS
<1> USE ProcAssumption DEF TypeOK, LockInv, OnceInv, OwnerLabels, Exclusive, Procs, RequestLabels,
        ReloaderLabels, Goto, RLock, RUnlock, Lock, Unlock, Writing, lockVars, history
<1>1. CASE \E p \in Procs : Acquire(p)
  BY <1>1 DEF Acquire
<1>2. CASE \E p \in Requests : ServeHTTP(p)
  BY <1>2 DEF ServeHTTP
<1>3. CASE \E p \in Requests : Peek(p)
  BY <1>3 DEF Peek
<1>4. CASE \E p \in Requests : \E w \in Words : LoadWord(p, w)
  BY <1>4 DEF LoadWord
<1>5. CASE \E p \in Requests : Once(p)
  BY <1>5 DEF Once
<1>6. CASE \E p \in Requests : \E kind \in {"user", "func"} : BuildReturns(p, kind)
  BY <1>6 DEF BuildReturns
<1>7. CASE \E p \in Requests : BuildReturnsNil(p)
  BY <1>7 DEF BuildReturnsNil
<1>8. CASE \E p \in Requests : BuildPanics(p)
  BY <1>8 DEF BuildPanics
<1>9. CASE \E p \in Requests : \E w \in Words : Store(p, w)
  BY <1>9 DEF Store
<1>10. CASE \E p \in Requests : InstallUnavailable(p)
  BY <1>10 DEF InstallUnavailable
<1>11. CASE \E p \in Requests : ReturnLocked(p)
  BY <1>11 DEF ReturnLocked
<1>12. CASE \E p \in Requests : Call(p)
  BY <1>12 DEF Call
<1>13. CASE \E p \in Reloaders : Invalidate(p)
  BY <1>13 DEF Invalidate
<1>14. CASE \E p \in Reloaders : Clear(p)
  BY <1>14 DEF Clear
<1>15. CASE \E p \in Reloaders : \E w \in Words : ClearWord(p, w)
  BY <1>15 DEF ClearWord
<1>16. CASE \E p \in Reloaders : ResetOnce(p)
  BY <1>16 DEF ResetOnce
<1>17. CASE UNCHANGED vars
  BY <1>17 DEF vars
<1> HIDE DEF TypeOK, LockInv, OnceInv, OwnerLabels, Exclusive, Procs, RequestLabels,
         ReloaderLabels, Goto, RLock, RUnlock, Lock, Unlock, Writing, lockVars, history
<1> QED
  BY <1>1, <1>2, <1>3, <1>4, <1>5, <1>6, <1>7, <1>8,
     <1>9, <1>10, <1>11, <1>12, <1>13, <1>14, <1>15, <1>16, <1>17 DEF Next, RequestStep, ReloaderStep

\* The owner of the write lock begins to store a handler over nil: what h.handler
\* holds is as HandlerInv says of a store of which no word has been written.
LEMMA StoreBegins ==
    ASSUME TypeOK, HandlerInv, NEW p \in Requests, NEW kind \in {"user", "func"},
           reg'[p] = [itab |-> kind, data |-> kind, epoch |-> epoch], todo'[p] = Words,
           pc'[p] = "store", done', UNCHANGED <<handler, epoch, calls>>,
           handler.itab = "nil", handler.data = "nil",
           \A q \in Procs \ {p} : pc'[q] \notin OwnerLabels
    PROVE  HandlerInv'
<1>1. /\ \A q \in Requests : pc'[q] = "store" => q = p
      /\ \A q \in Reloaders : pc'[q] \notin {"clearing", "reset"}
  BY ProcAssumption DEF Procs, OwnerLabels
<1>2. /\ handler'.epoch <= epoch' /\ p \in Procs
      /\ handler'.data = "nil"
  BY DEF HandlerInv, Procs
<1>3. /\ reg'[p].epoch = epoch' /\ reg'[p].itab = reg'[p].data /\ reg'[p].itab # "nil"
      /\ todo'[p] # {} /\ "data" \in todo'[p]
  BY DEF Words
<1>4. \A w \in Words : handler'[w] = IF w \in todo'[p] THEN "nil" ELSE reg'[p][w]
  BY DEF Words
<1>5. \A q \in Requests : pc'[q] = "store" =>
         /\ reg'[q].epoch = epoch' /\ reg'[q].itab = reg'[q].data /\ reg'[q].itab # "nil"
         /\ todo'[q] # {}
         /\ \A w \in Words : handler'[w] = IF w \in todo'[q] THEN "nil" ELSE reg'[q][w]
         /\ "data" \notin todo'[q] => handler'.epoch = epoch'
  BY <1>1, <1>3, <1>4
<1> QED
  BY <1>1, <1>2, <1>5 DEF HandlerInv

\* Every step keeps h.handler a whole value of this epoch, or nil, or in the
\* middle of the stores of the one goroutine that holds the write lock.
LEMMA HandlerStep == TypeOK /\ LockInv /\ OnceInv /\ HandlerInv /\ [Next]_vars => HandlerInv'
<1> SUFFICES ASSUME TypeOK, LockInv, OnceInv, HandlerInv, [Next]_vars PROVE HandlerInv'
  OBVIOUS
<1> USE ProcAssumption DEF TypeOK, LockInv, OnceInv, HandlerInv, OwnerLabels, Exclusive, Procs, RequestLabels,
        ReloaderLabels, Goto, RLock, RUnlock, Lock, Unlock, Writing, lockVars, history,
        Handlers, Kinds, Words, NilHandler, StoreWord, Storing
<1>1. CASE \E p \in Procs : Acquire(p)
  BY <1>1 DEF Acquire
<1>2. CASE \E p \in Requests : ServeHTTP(p)
  BY <1>2 DEF ServeHTTP
<1>3. CASE \E p \in Requests : Peek(p)
  BY <1>3 DEF Peek
<1>4. CASE \E p \in Requests : \E w \in Words : LoadWord(p, w)
  BY <1>4 DEF LoadWord
<1>5. CASE \E p \in Requests : Once(p)
  BY <1>5 DEF Once
<1>6. CASE \E p \in Requests : \E kind \in {"user", "func"} : BuildReturns(p, kind)
  <2> PICK p \in Requests, kind \in {"user", "func"} : BuildReturns(p, kind)
    BY <1>6
  <2>1. /\ reg'[p] = [itab |-> kind, data |-> kind, epoch |-> epoch] /\ todo'[p] = Words
        /\ pc' = [pc EXCEPT ![p] = "store"]
        /\ UNCHANGED <<handler, epoch, calls>>
        /\ done'
    BY DEF BuildReturns
  <2>2. handler.itab = "nil" /\ handler.data = "nil"
    BY DEF BuildReturns
  <2>3. \A q \in Procs \ {p} : pc'[q] = pc[q] /\ pc[q] \notin OwnerLabels
    BY <2>1 DEF BuildReturns
  <2>4. \A q \in Procs \ {p} : pc'[q] \notin OwnerLabels
    BY <2>3
  <2>5. pc'[p] = "store"
    BY <2>1
  <2> QED
    BY ONLY TypeOK, HandlerInv, <2>1, <2>2, <2>4, <2>5, StoreBegins
<1>7. CASE \E p \in Requests : BuildReturnsNil(p)
  BY <1>7 DEF BuildReturnsNil
<1>8. CASE \E p \in Requests : BuildPanics(p)
  BY <1>8 DEF BuildPanics
<1>9. CASE \E p \in Requests : \E w \in Words : Store(p, w)
  BY <1>9 DEF Store
<1>10. CASE \E p \in Requests : InstallUnavailable(p)
  <2> PICK p \in Requests : InstallUnavailable(p)
    BY <1>10
  <2>1. /\ reg'[p] = [itab |-> "func", data |-> "func", epoch |-> epoch] /\ todo'[p] = Words
        /\ pc' = [pc EXCEPT ![p] = "store"]
        /\ UNCHANGED <<handler, epoch, calls>>
        /\ done'
    BY DEF InstallUnavailable
  <2>2. handler.itab = "nil" /\ handler.data = "nil"
    BY DEF InstallUnavailable
  <2>3. \A q \in Procs \ {p} : pc'[q] = pc[q] /\ pc[q] \notin OwnerLabels
    BY <2>1 DEF InstallUnavailable
  <2>4. \A q \in Procs \ {p} : pc'[q] \notin OwnerLabels
    BY <2>3
  <2>5. pc'[p] = "store"
    BY <2>1
  <2> QED
    BY ONLY TypeOK, HandlerInv, <2>1, <2>2, <2>4, <2>5, StoreBegins
<1>11. CASE \E p \in Requests : ReturnLocked(p)
  BY <1>11 DEF ReturnLocked
<1>12. CASE \E p \in Requests : Call(p)
  BY <1>12 DEF Call
<1>13. CASE \E p \in Reloaders : Invalidate(p)
  BY <1>13 DEF Invalidate
<1>14. CASE \E p \in Reloaders : Clear(p)
  BY <1>14 DEF Clear
<1>15. CASE \E p \in Reloaders : \E w \in Words : ClearWord(p, w)
  BY <1>15 DEF ClearWord
<1>16. CASE \E p \in Reloaders : ResetOnce(p)
  BY <1>16 DEF ResetOnce
<1>17. CASE UNCHANGED vars
  BY <1>17 DEF vars
<1> HIDE DEF TypeOK, LockInv, OnceInv, HandlerInv, OwnerLabels, Exclusive, Procs,
         RequestLabels, ReloaderLabels, Goto, RLock, RUnlock, Lock, Unlock, Writing,
         lockVars, history, Handlers, Kinds, Words, NilHandler, StoreWord, Storing
<1> QED
  BY <1>1, <1>2, <1>3, <1>4, <1>5, <1>6, <1>7, <1>8,
     <1>9, <1>10, <1>11, <1>12, <1>13, <1>14, <1>15, <1>16, <1>17 DEF Next, RequestStep, ReloaderStep

\* The step behind InstalledStays: only an Invalidate, which turns the epoch,
\* makes a store into h.handler possible while a whole handler is installed.
LEMMA StableStep ==
    TypeOK /\ LockInv /\ OnceInv /\ HandlerInv /\ [Next]_vars
        => (Installed /\ epoch' = epoch => handler' = handler)
<1> SUFFICES ASSUME TypeOK, LockInv, OnceInv, HandlerInv, [Next]_vars,
                    Installed, epoch' = epoch
             PROVE  handler' = handler
  OBVIOUS
<1> USE DEF TypeOK, HandlerInv, Installed, Words, Procs, RequestLabels, ReloaderLabels
<1>1. ASSUME NEW p \in Requests, NEW w \in Words, Store(p, w) PROVE FALSE
  BY <1>1 DEF Store
<1>2. ASSUME NEW p \in Reloaders, NEW w \in Words, ClearWord(p, w) PROVE FALSE
  BY <1>2 DEF ClearWord
<1> QED
  BY <1>1, <1>2 DEF Next, RequestStep, ReloaderStep, vars, Acquire, ServeHTTP, Peek,
     LoadWord, Once, BuildReturns, BuildReturnsNil, BuildPanics, InstallUnavailable,
     ReturnLocked, Call, Invalidate, Clear, ResetOnce

\* Every step keeps what the unlocked re-read of h.handler has seen in line with
\* the epochs that have passed.
LEMMA LoadStep == TypeOK /\ LockInv /\ OnceInv /\ HandlerInv /\ LoadInv /\ [Next]_vars => LoadInv'
<1> SUFFICES ASSUME TypeOK, LockInv, OnceInv, HandlerInv, LoadInv, [Next]_vars PROVE LoadInv'
  OBVIOUS
<1> USE ProcAssumption DEF TypeOK, LockInv, OnceInv, HandlerInv, LoadInv, Installed,
        OwnerLabels, Exclusive, Procs, RequestLabels, ReloaderLabels, Goto, RLock, RUnlock, Lock, Unlock, Writing, lockVars, history,
        Handlers, Kinds, Words, NilHandler, StoreWord, Storing
<1>1. CASE \E p \in Procs : Acquire(p)
  BY <1>1 DEF Acquire
<1>2. CASE \E p \in Requests : ServeHTTP(p)
  BY <1>2 DEF ServeHTTP
<1>3. CASE \E p \in Requests : Peek(p)
  BY <1>3 DEF Peek
<1>4. CASE \E p \in Requests : \E w \in Words : LoadWord(p, w)
  <2> PICK p \in Requests, w \in Words : LoadWord(p, w)
    BY <1>4
  <2>1. /\ UNCHANGED <<handler, epoch, calls, since>>
        /\ \A q \in Requests \ {p} :
              pc'[q] = pc[q] /\ reg'[q] = reg[q] /\ todo'[q] = todo[q]
    BY DEF LoadWord
  <2>2. /\ pc[p] = "load" /\ w \in todo[p] /\ todo'[p] = todo[p] \ {w}
        /\ pc'[p] = IF todo[p] = {w} THEN "call" ELSE "load"
    BY DEF LoadWord
  <2>3. /\ w = "itab" => /\ reg'[p].itab = handler.itab
                         /\ reg'[p].data = reg[p].data /\ reg'[p].epoch = reg[p].epoch
        /\ w = "data" => /\ reg'[p].data = handler.data /\ reg'[p].epoch = handler.epoch
                         /\ reg'[p].itab = reg[p].itab
    BY DEF LoadWord
  <2>4. /\ "data" \notin todo'[p] =>
              /\ since[p] <= reg'[p].epoch /\ reg'[p].epoch <= epoch
              /\ reg'[p].data # "nil" /\ reg'[p].epoch = epoch => calls = 1
    BY <2>2, <2>3
  <2>5. since[p] = epoch =>
              /\ Installed
              /\ "itab" \notin todo'[p] => reg'[p].itab = handler.itab
              /\ "data" \notin todo'[p] => reg'[p].data = handler.data
    BY <2>2, <2>3
  <2>6. pc'[p] = "call" => "itab" \notin todo'[p] /\ "data" \notin todo'[p]
    BY <2>2
  <2>7. pc'[p] = "call" =>
              /\ since[p] <= reg'[p].epoch /\ reg'[p].epoch <= epoch
              /\ reg'[p].data # "nil" /\ reg'[p].epoch = epoch => calls = 1
              /\ since[p] = epoch => reg'[p].itab = reg'[p].data /\ reg'[p].itab # "nil"
    BY <2>4, <2>5, <2>6
  <2> QED
    BY <2>1, <2>2, <2>4, <2>5, <2>7
<1>5. CASE \E p \in Requests : Once(p)
  BY <1>5 DEF Once
<1>6. CASE \E p \in Requests : \E kind \in {"user", "func"} : BuildReturns(p, kind)
  BY <1>6 DEF BuildReturns
<1>7. CASE \E p \in Requests : BuildReturnsNil(p)
  BY <1>7 DEF BuildReturnsNil
<1>8. CASE \E p \in Requests : BuildPanics(p)
  BY <1>8 DEF BuildPanics
<1>9. CASE \E p \in Requests : \E w \in Words : Store(p, w)
  BY <1>9 DEF Store
<1>10. CASE \E p \in Requests : InstallUnavailable(p)
  BY <1>10 DEF InstallUnavailable
<1>11. CASE \E p \in Requests : ReturnLocked(p)
  BY <1>11 DEF ReturnLocked
<1>12. CASE \E p \in Requests : Call(p)
  BY <1>12 DEF Call
<1>13. CASE \E p \in Reloaders : Invalidate(p)
  BY <1>13 DEF Invalidate
<1>14. CASE \E p \in Reloaders : Clear(p)
  BY <1>14 DEF Clear
<1>15. CASE \E p \in Reloaders : \E w \in Words : ClearWord(p, w)
  BY <1>15 DEF ClearWord
<1>16. CASE \E p \in Reloaders : ResetOnce(p)
  BY <1>16 DEF ResetOnce
<1>17. CASE UNCHANGED vars
  BY <1>17 DEF vars
<1> HIDE DEF TypeOK, LockInv, OnceInv, HandlerInv, LoadInv, Installed, OwnerLabels,
         Exclusive, Procs, RequestLabels, ReloaderLabels, Goto, RLock, RUnlock, Lock,
         Unlock, Writing, lockVars, history, Handlers, Kinds, Words, NilHandler,
         StoreWord, Storing
<1> QED
  BY <1>1, <1>2, <1>3, <1>4, <1>5, <1>6, <1>7, <1>8,
     <1>9, <1>10, <1>11, <1>12, <1>13, <1>14, <1>15, <1>16, <1>17 DEF Next, RequestStep, ReloaderStep

-----------------------------------------------------------------------------
(***************************************************************************)
(* The theorems                                                            *)
(***************************************************************************)
\* The inductive invariant holds initially.
LEMMA IInvInit == Init => IInv
<1> SUFFICES ASSUME Init PROVE IInv
  OBVIOUS
<1>1. TypeOK
  BY TypeInit
<1>2. LockInv
  <2>1. \A p \in Procs : pc[p] = "idle" /\ wlock # p
    BY ProcAssumption DEF Init, Procs
  <2> QED
    BY <2>1 DEF Init, LockInv, OwnerLabels, Exclusive
<1>3. OnceInv
  BY DEF Init, OnceInv, Procs
<1>4. HandlerInv
  BY DEF Init, HandlerInv, NilHandler, Procs
<1>5. LoadInv
  <2> SUFFICES ASSUME NEW p \in Requests
               PROVE  since[p] <= epoch /\ pc[p] \notin {"load", "call"}
    BY DEF LoadInv
  <2>1. epoch = 0 /\ since[p] = 0
    BY DEF Init
  <2>2. pc[p] = "idle"
    BY DEF Init, Procs
  <2> QED
    BY <2>1, <2>2
<1> QED
  BY <1>1, <1>2, <1>3, <1>4, <1>5 DEF IInv

\* The inductive invariant holds throughout every behaviour.
THEOREM Inductive == Spec => []IInv
<1>1. IInv /\ [Next]_vars => IInv'
  BY TypeStep, LockStep, OnceStep, HandlerStep, LoadStep DEF IInv
<1> QED
  BY IInvInit, <1>1, PTL DEF Spec

\* Every variable of the handler's model keeps its type.
THEOREM TypeCorrect == Spec => []TypeOK
<1>1. IInv => TypeOK
  BY DEF IInv
<1> QED
  BY Inductive, <1>1, PTL

\* However many goroutines there are, fn runs alone: against itself, against
\* every store into h.handler and against every test under the read lock.
THEOREM BuildIsExclusive == Spec => []BuildExclusive
<1>1. IInv => BuildExclusive
  <2> SUFFICES ASSUME IInv, NEW p \in Procs, NEW q \in Procs, pc[p] = "build", p # q
               PROVE  ~Exclusive(q) /\ q \notin readers
    BY DEF BuildExclusive
  <2>1. wlock = p /\ readers = {}
    BY DEF IInv, LockInv, OwnerLabels, Exclusive
  <2>2. pc[q] \notin OwnerLabels
    BY <2>1 DEF IInv, LockInv
  <2> QED
    BY <2>1, <2>2 DEF OwnerLabels, Exclusive
<1> QED
  BY Inductive, <1>1, PTL

\* However many requests find the handler missing, fn is called once.
THEOREM BuildsOncePerEpoch == Spec => []BuildOncePerEpoch
<1>1. IInv => BuildOncePerEpoch
  BY DEF IInv, OnceInv, BuildOncePerEpoch
<1> QED
  BY Inductive, <1>1, PTL

\* No request is served by a handler from before an Invalidate that returned
\* before the request began.
THEOREM NeverServesStale == Spec => []NoStaleServe
<1>1. IInv => NoStaleServe
  BY DEF IInv, TypeOK, LoadInv, NoStaleServe, Handlers
<1> QED
  BY Inductive, <1>1, PTL

\* A nil or torn handler reaches a request only across an Invalidate.
THEOREM UndisturbedIsServed == Spec => []OnlyInvalidateDisturbs
<1>1. IInv => OnlyInvalidateDisturbs
  <2> SUFFICES ASSUME IInv, NEW p \in Requests, pc[p] = "call",
                      Outcome(reg[p]) \in {"nilPanic", "torn"}
               PROVE  epoch > since[p]
    BY DEF OnlyInvalidateDisturbs
  <2>1. reg[p].itab \in Kinds /\ since[p] <= epoch /\ epoch \in Nat /\ since[p] \in Nat
    BY DEF IInv, TypeOK, LoadInv, Handlers
  <2>2. since[p] # epoch
    BY <2>1 DEF Outcome, IInv, LoadInv, Kinds
  <2> QED
    BY <2>1, <2>2
<1> QED
  BY Inductive, <1>1, PTL

\* A handler of this epoch is served only after fn was called in this epoch.
THEOREM ServesOnlyAfterBuild == Spec => []ServedAfterBuild
<1>1. IInv => ServedAfterBuild
  <2> SUFFICES ASSUME IInv, NEW p \in Requests, pc[p] = "call", reg[p].epoch = epoch,
                      Outcome(reg[p]) \in {"user", "func"}
               PROVE  calls = 1
    BY DEF ServedAfterBuild
  <2>1. reg[p].data # "nil"
    BY DEF Outcome
  <2> QED
    BY <2>1 DEF IInv, LoadInv
<1> QED
  BY Inductive, <1>1, PTL

\* What ensureHandler owes its callers: fn runs alone, once in an epoch, and
\* before any handler of the epoch is served.
THEOREM BuildIsDisciplined == Spec => []BuildDiscipline
<1>1. BuildExclusive /\ BuildOncePerEpoch /\ ServedAfterBuild => BuildDiscipline
  BY DEF BuildDiscipline
<1> QED
  BY BuildIsExclusive, BuildsOncePerEpoch, ServesOnlyAfterBuild, <1>1, PTL

\* An installed handler stays until the next Invalidate.
THEOREM InstalledHandlerStays == Spec => InstalledStays
<1>1. IInv /\ [Next]_vars => [Installed /\ epoch' = epoch => handler' = handler]_vars
  BY StableStep DEF IInv
<1> QED
  BY Inductive, <1>1, PTL DEF Spec, InstalledStays

-----------------------------------------------------------------------------
(***************************************************************************)
(* ReloadableHandler implements HandlerCache: the refinement mapping takes *)
(* every step to a step of the cache or to none, given IInv.               *)
(***************************************************************************)
\* What a request is to the cache, from its place and the words it has loaded.
StateOf(p) ==
    IF pc[p] = "idle" THEN "idle"
    ELSE IF Disturbed(p) THEN "disturbed"
    ELSE IF Holding(p) THEN "holding" ELSE "waiting"

HeldBy(p) == IF Holding(p) THEN Entry(reg[p]) ELSE Cache!None

\* The mapping takes each request by itself.
LEMMA Mapped ==
  /\ requestState = [p \in Requests |-> StateOf(p)]
  /\ heldEntry = [p \in Requests |-> HeldBy(p)]
  BY DEF requestState, heldEntry, StateOf, HeldBy, Cache!None

\* The other requests are to the cache what they were.
LEMMA OthersStay ==
  ASSUME NEW p \in Requests,
         \A q \in Requests \ {p} : pc'[q] = pc[q] /\ reg'[q] = reg[q] /\ todo'[q] = todo[q]
  PROVE  /\ requestState' = [requestState EXCEPT ![p] = StateOf(p)']
         /\ heldEntry' = [heldEntry EXCEPT ![p] = HeldBy(p)']
  <1>1. \A q \in Requests \ {p} : StateOf(q)' = StateOf(q) /\ HeldBy(q)' = HeldBy(q)
    BY DEF StateOf, HeldBy, Disturbed, Holding, Cache!None
  <1>2. /\ requestState' = [q \in Requests |-> StateOf(q)']
        /\ heldEntry' = [q \in Requests |-> HeldBy(q)']
    BY DEF requestState, heldEntry, StateOf, HeldBy, Cache!None
  <1> QED BY <1>1, <1>2, Mapped

\* A step of which the cache sees nothing.
LEMMA Unseen ==
  ASSUME NEW p \in Requests, Entry(handler)' = Entry(handler),
         UNCHANGED <<epoch, since, answer>>,
         StateOf(p)' = StateOf(p), HeldBy(p)' = HeldBy(p),
         \A q \in Requests \ {p} : pc'[q] = pc[q] /\ reg'[q] = reg[q] /\ todo'[q] = todo[q]
  PROVE  UNCHANGED Cache!avars
  <1>1. requestState' = requestState /\ heldEntry' = heldEntry
    BY OthersStay, Mapped
  <1> QED BY <1>1 DEF Cache!avars

\* A step of a reloader changes no request.
LEMMA ReloaderStays ==
  ASSUME TypeOK, NEW p \in Reloaders,
         \A q \in Procs \ {p} : pc'[q] = pc[q] /\ todo'[q] = todo[q], reg' = reg
  PROVE  requestState' = requestState /\ heldEntry' = heldEntry
  <1>1. \A q \in Requests : q \in Procs \ {p}
    BY ProcAssumption DEF Procs
  <1>2. \A q \in Requests : pc'[q] = pc[q] /\ reg'[q] = reg[q] /\ todo'[q] = todo[q]
    BY <1>1
  <1>3. \A q \in Requests : StateOf(q)' = StateOf(q) /\ HeldBy(q)' = HeldBy(q)
    BY <1>2 DEF StateOf, HeldBy, Disturbed, Holding, Cache!None
  <1>4. /\ requestState' = [q \in Requests |-> StateOf(q)']
        /\ heldEntry' = [q \in Requests |-> HeldBy(q)']
    BY DEF requestState, heldEntry, StateOf, HeldBy, Cache!None
  <1> QED BY <1>3, <1>4, Mapped

\* The cache begins empty, with nobody waiting.
LEMMA InitMaps == Init => Cache!Init
  <1> SUFFICES ASSUME Init PROVE Cache!Init
    OBVIOUS
  <1>1. \A p \in Requests : pc[p] = "idle"
    BY DEF Init, Procs
  <1>2. \A p \in Requests : StateOf(p) = "idle" /\ HeldBy(p) = Cache!None
    BY <1>1 DEF StateOf, HeldBy, Disturbed, Holding
  <1>3. Entry(handler) = Cache!None
    BY DEF Init, Entry, NilHandler, Cache!None
  <1>4. /\ requestState = [p \in Requests |-> "idle"]
        /\ heldEntry = [p \in Requests |-> Cache!None]
    BY <1>2, Mapped
  <1> QED BY <1>3, <1>4 DEF Init, Cache!Init

-----------------------------------------------------------------------------
\* Where a request waits: before it has loaded a word.
Waits(p) ==
    \/ pc[p] \in {"peek", "lock", "once", "build", "store", "default"}
    \/ pc[p] = "load" /\ todo[p] = Words

\* A waiting request holds nothing, before a step and after it.
LEMMA WaitingIsWaiting ==
  ASSUME NEW p \in Requests
  PROVE  /\ Waits(p) => StateOf(p) = "waiting" /\ HeldBy(p) = Cache!None
         /\ Waits(p)' => StateOf(p)' = "waiting" /\ HeldBy(p)' = Cache!None
  BY DEF Waits, StateOf, HeldBy, Disturbed, Holding, Words

\* Taking locks, testing, running fn and preparing a store: the cache sees
\* nothing of it, for the request waits before and after.
LEMMA WaitingSteps ==
  ASSUME IInv, NEW p \in Requests,
         \/ Acquire(p) \/ Peek(p) \/ Once(p) \/ BuildReturnsNil(p) \/ InstallUnavailable(p)
         \/ \E kind \in {"user", "func"} : BuildReturns(p, kind)
         \/ Store(p, "itab")
  PROVE  UNCHANGED Cache!avars
  <1> USE DEF Goto, history
  <1>1. p \in Procs /\ TypeOK
    BY DEF Procs, IInv
  <1>2. Waits(p) /\ Waits(p)'
    BY <1>1 DEF Acquire, Peek, Once, BuildReturnsNil, InstallUnavailable, BuildReturns, Store,
                Storing, Waits, TypeOK, Words
  <1>3. \A q \in Requests \ {p} : pc'[q] = pc[q] /\ reg'[q] = reg[q] /\ todo'[q] = todo[q]
    BY <1>1 DEF Acquire, Peek, Once, BuildReturnsNil, InstallUnavailable, BuildReturns, Store,
                Storing, TypeOK, Procs
  <1>4. UNCHANGED <<epoch, since, answer>>
    BY DEF Acquire, Peek, Once, BuildReturnsNil, InstallUnavailable, BuildReturns, Store
  <1>5. Entry(handler)' = Entry(handler)
    <2>1. CASE Store(p, "itab")
      BY <2>1, <1>1 DEF Store, StoreWord, Entry, TypeOK, Handlers
    <2>2. CASE ~Store(p, "itab")
      BY <2>2 DEF Acquire, Peek, Once, BuildReturnsNil, InstallUnavailable, BuildReturns
    <2> QED BY <2>1, <2>2
  <1> QED BY <1>2, <1>3, <1>4, <1>5, WaitingIsWaiting, Unseen

\* ServeHTTP begins a request.
LEMMA ServeBegins ==
  ASSUME IInv, NEW p \in Requests, ServeHTTP(p)
  PROVE  Cache!Begin(p)
  <1>1. p \in Procs /\ TypeOK
    BY DEF Procs, IInv
  <1>2. StateOf(p) = "idle" /\ HeldBy(p) = Cache!None
    BY DEF ServeHTTP, StateOf, HeldBy, Disturbed, Holding
  <1>3. StateOf(p)' = "waiting" /\ HeldBy(p)' = Cache!None
    BY <1>1, WaitingIsWaiting DEF ServeHTTP, Goto, Waits, TypeOK
  <1>4. /\ requestState' = [requestState EXCEPT ![p] = "waiting"]
        /\ heldEntry' = heldEntry
    BY <1>1, <1>2, <1>3, OthersStay, Mapped DEF ServeHTTP, Goto, TypeOK, Procs
  <1>5. requestState[p] = "idle"
    BY <1>2, Mapped
  <1>6. /\ since' = [since EXCEPT ![p] = epoch] /\ answer' = [answer EXCEPT ![p] = "none"]
        /\ epoch' = epoch /\ Entry(handler)' = Entry(handler)
    BY DEF ServeHTTP, Entry
  <1> QED BY <1>4, <1>5, <1>6 DEF Cache!Begin

\* The data word of a store makes the handler the one of the epoch.
LEMMA StoreBuilds ==
  ASSUME IInv, NEW p \in Requests, Store(p, "data")
  PROVE  \E kind \in {"user", "func"} : Cache!Build(kind)
  <1>1. p \in Procs /\ TypeOK
    BY DEF Procs, IInv
  <1>2. /\ reg[p].epoch = epoch /\ reg[p].itab = reg[p].data /\ reg[p].itab # "nil"
        /\ handler["data"] = "nil" /\ reg[p] \in Handlers
    BY DEF Store, IInv, HandlerInv, TypeOK, Words
  <1>3. reg[p].data \in {"user", "func"}
    BY <1>2 DEF Handlers, Kinds
  <1>4. Entry(handler)' = [kind |-> reg[p].data, epoch |-> epoch] /\ Entry(handler).kind = "nil"
    BY <1>1, <1>2 DEF Store, StoreWord, Entry, TypeOK, Handlers
  <1>5. Waits(p) /\ Waits(p)'
    BY <1>1 DEF Store, Goto, Waits, TypeOK
  <1>6. requestState' = requestState /\ heldEntry' = heldEntry
    BY <1>1, <1>5, WaitingIsWaiting, OthersStay, Mapped DEF Store, Goto, TypeOK, Procs
  <1>7. requestState[p] = "waiting"
    BY <1>5, WaitingIsWaiting, Mapped
  <1>8. UNCHANGED <<epoch, since, answer>>
    BY DEF Store, history
  <1> QED BY <1>3, <1>4, <1>6, <1>7, <1>8 DEF Cache!Build

\* A panic of fn ends the request that ran it.
LEMMA PanicEnds ==
  ASSUME IInv, NEW p \in Requests, BuildPanics(p)
  PROVE  Cache!BuildPanics(p)
  <1>1. p \in Procs /\ TypeOK
    BY DEF Procs, IInv
  <1>2. handler.data = "nil"
    BY <1>1 DEF BuildPanics, IInv, OnceInv, HandlerInv
  <1>3. Waits(p) /\ StateOf(p)' = "idle" /\ HeldBy(p)' = Cache!None
    BY <1>1 DEF BuildPanics, Goto, Waits, StateOf, HeldBy, Disturbed, Holding, TypeOK
  <1>4. /\ requestState' = [requestState EXCEPT ![p] = "idle"]
        /\ heldEntry' = heldEntry
    BY <1>1, <1>3, WaitingIsWaiting, OthersStay, Mapped DEF BuildPanics, Goto, TypeOK, Procs
  <1>5. requestState[p] = "waiting" /\ Entry(handler).kind = "nil"
    BY <1>2, <1>3, WaitingIsWaiting, Mapped DEF Entry
  <1>6. /\ answer' = [answer EXCEPT ![p] = "buildPanic"]
        /\ epoch' = epoch /\ since' = since /\ Entry(handler)' = Entry(handler)
    BY DEF BuildPanics, Entry
  <1> QED BY <1>4, <1>5, <1>6 DEF Cache!BuildPanics

\* The return under the write lock fetches the handler of this epoch.
LEMMA ReturnFetches ==
  ASSUME IInv, NEW p \in Requests, ReturnLocked(p)
  PROVE  Cache!Fetch(p)
  <1>1. p \in Procs /\ TypeOK /\ wlock = p
    BY DEF Procs, IInv, LockInv, OwnerLabels, ReturnLocked
  <1>2. \A q \in Procs : pc[q] \notin {"store", "clearing"}
    BY <1>1 DEF IInv, LockInv, OwnerLabels, ReturnLocked
  <1>3. handler.itab = handler.data /\ handler.itab # "nil" /\ handler.epoch = epoch
    BY <1>2 DEF IInv, HandlerInv, ReturnLocked
  <1>4. since[p] <= epoch
    BY DEF IInv, LoadInv
  <1>5. pc'[p] = "call" /\ reg'[p] = handler /\ handler.itab \in Kinds
    BY <1>1 DEF ReturnLocked, Goto, TypeOK, Handlers
  <1>6. ~Disturbed(p)' /\ Holding(p)'
    BY <1>3, <1>5 DEF Disturbed, Holding, Outcome, Kinds
  <1>7. StateOf(p)' = "holding" /\ HeldBy(p)' = Entry(handler) /\ Waits(p)
    BY <1>5, <1>6 DEF ReturnLocked, StateOf, HeldBy, Entry, Waits
  <1>8. /\ requestState' = [requestState EXCEPT ![p] = "holding"]
        /\ heldEntry' = [heldEntry EXCEPT ![p] = Entry(handler)]
    BY <1>1, <1>7, OthersStay DEF ReturnLocked, Goto, TypeOK, Procs
  <1>9. requestState[p] = "waiting"
    BY <1>7, WaitingIsWaiting, Mapped
  <1>10. Entry(handler).kind # "nil" /\ Entry(handler).epoch >= since[p]
    BY <1>1, <1>3, <1>4 DEF Entry, TypeOK
  <1>11. UNCHANGED <<epoch, since, answer>> /\ Entry(handler)' = Entry(handler)
    BY DEF ReturnLocked, history, Entry
  <1> QED BY <1>8, <1>9, <1>10, <1>11 DEF Cache!Fetch

\* The call of what was returned answers the request.
LEMMA CallAnswers ==
  ASSUME IInv, NEW p \in Requests, Call(p)
  PROVE  Cache!Answer(p)
  <1>1. p \in Procs /\ TypeOK /\ reg[p] \in Handlers
    BY DEF Procs, IInv, TypeOK
  <1>2. StateOf(p)' = "idle" /\ HeldBy(p)' = Cache!None
    BY <1>1 DEF Call, Goto, StateOf, HeldBy, Disturbed, Holding, TypeOK
  <1>3. /\ requestState' = [requestState EXCEPT ![p] = "idle"]
        /\ heldEntry' = [heldEntry EXCEPT ![p] = Cache!None]
    BY <1>1, <1>2, OthersStay DEF Call, Goto, TypeOK, Procs
  <1>4. \/ requestState[p] = "holding" /\ Outcome(reg[p]) = heldEntry[p].kind
        \/ requestState[p] = "disturbed" /\ Outcome(reg[p]) \in {"nilPanic", "torn"}
    <2>1. CASE Outcome(reg[p]) \in {"nilPanic", "torn"}
      BY <2>1, Mapped DEF Call, StateOf, Disturbed
    <2>2. CASE Outcome(reg[p]) \notin {"nilPanic", "torn"}
      <3>1. Outcome(reg[p]) = reg[p].data
        BY <2>2 DEF Outcome
      <3>2. Holding(p) /\ ~Disturbed(p)
        BY <2>2 DEF Call, Holding, Disturbed
      <3>3. StateOf(p) = "holding" /\ HeldBy(p) = Entry(reg[p])
        BY <3>2 DEF Call, StateOf, HeldBy
      <3> QED BY <3>1, <3>3, Mapped DEF Entry
    <2> QED BY <2>1, <2>2
  <1>5. /\ answer' = [answer EXCEPT ![p] = Outcome(reg[p])]
        /\ epoch' = epoch /\ since' = since /\ Entry(handler)' = Entry(handler)
    BY DEF Call, Entry
  <1> QED BY <1>3, <1>4, <1>5 DEF Cache!Answer

\* What a load makes of a request: a word that is nil, or does not go with the
\* other one, disturbs it; a data word that does is fetched; a type word alone
\* is not seen.
LEMMA LoadMaps ==
  ASSUME IInv, NEW p \in Requests, NEW w \in Words, LoadWord(p, w)
  PROVE  Cache!Fetch(p) \/ Cache!Disturb(p) \/ UNCHANGED Cache!avars
  <1>1. p \in Procs /\ TypeOK /\ w \in {"itab", "data"} /\ todo[p] \subseteq {"itab", "data"}
    BY DEF Procs, IInv, TypeOK, Words
  <1>2. /\ pc[p] = "load" /\ w \in todo[p] /\ todo'[p] = todo[p] \ {w}
        /\ pc'[p] = IF todo[p] = {w} THEN "call" ELSE "load"
    BY <1>1 DEF LoadWord, Goto, TypeOK
  <1>3. reg'[p] = StoreWord(reg[p], w, handler) /\ reg[p] \in Handlers /\ handler \in Handlers
    BY <1>1 DEF LoadWord, TypeOK
  <1>4. \A q \in Requests \ {p} : pc'[q] = pc[q] /\ reg'[q] = reg[q] /\ todo'[q] = todo[q]
    BY <1>1 DEF LoadWord, Goto, TypeOK, Procs
  <1>5. UNCHANGED <<epoch, since, answer>> /\ Entry(handler)' = Entry(handler)
    BY DEF LoadWord, history, Entry
  <1>6. /\ since[p] <= handler.epoch /\ since[p] <= epoch
        /\ since[p] \in Nat /\ epoch \in Nat /\ handler.epoch \in Nat
        /\ since[p] = epoch => /\ Installed
                               /\ \A u \in Words \ todo[p] : reg[p][u] = handler[u]
    BY <1>1, <1>2 DEF IInv, LoadInv, HandlerInv, TypeOK, Handlers
  <1>7. /\ requestState' = [requestState EXCEPT ![p] = StateOf(p)']
        /\ heldEntry' = [heldEntry EXCEPT ![p] = HeldBy(p)']
    BY <1>4, OthersStay
  <1>8. /\ w = "itab" => /\ reg'[p].itab = handler.itab
                         /\ reg'[p].data = reg[p].data /\ reg'[p].epoch = reg[p].epoch
        /\ w = "data" => /\ reg'[p].data = handler.data /\ reg'[p].epoch = handler.epoch
                         /\ reg'[p].itab = reg[p].itab
    BY <1>3 DEF StoreWord, Handlers
  <1>9. StateOf(p) = IF Disturbed(p) THEN "disturbed" ELSE IF Holding(p) THEN "holding" ELSE "waiting"
    BY <1>2 DEF StateOf
  <1>10. StateOf(p)' = IF Disturbed(p)' THEN "disturbed" ELSE IF Holding(p)' THEN "holding" ELSE "waiting"
    BY <1>2 DEF StateOf
  <1>11. CASE Disturbed(p)'
    <2>1. StateOf(p)' = "disturbed" /\ HeldBy(p)' = Cache!None
      BY <1>10, <1>11 DEF HeldBy, Holding
    <2>2. CASE Disturbed(p)
      <3>1. StateOf(p) = "disturbed" /\ HeldBy(p) = Cache!None
        BY <1>9, <2>2 DEF HeldBy, Holding
      <3> QED BY <1>4, <1>5, <2>1, <3>1, Unseen
    <2>3. CASE ~Disturbed(p)
      <3>1. since[p] # epoch
        <4> SUFFICES ASSUME since[p] = epoch PROVE FALSE
          OBVIOUS
        <4>1. /\ handler.itab # "nil" /\ handler.itab = handler.data
              /\ "itab" \notin todo'[p] => reg'[p].itab = handler.itab
              /\ "data" \notin todo'[p] => reg'[p].data = handler.data
          BY <1>1, <1>2, <1>6, <1>8 DEF Installed, Words
        <4>2. pc'[p] = "call" => "itab" \notin todo'[p] /\ "data" \notin todo'[p]
          BY <1>2
        <4>3. pc'[p] = "call" => Outcome(reg[p])' \notin {"nilPanic", "torn"}
          <5>1. handler.itab \in {"func", "user"}
            BY <1>3, <4>1 DEF Handlers, Kinds
          <5> QED BY <4>1, <4>2, <5>1 DEF Outcome
        <4>4. \A u \in Words \ todo'[p] : reg'[p][u] # "nil"
          BY <4>1 DEF Words
        <4> QED BY <1>11, <4>3, <4>4 DEF Disturbed
      <3>2. epoch > since[p]
        BY <1>6, <3>1
      <3>3. requestState[p] \in {"waiting", "holding"}
        BY <1>9, <2>3, Mapped
      <3> QED BY <1>5, <1>7, <2>1, <3>2, <3>3 DEF Cache!Disturb
    <2> QED BY <2>2, <2>3
  <1>12. CASE ~Disturbed(p)'
    <2>1. ~Disturbed(p)
      BY <1>1, <1>2, <1>8, <1>12 DEF Disturbed, Outcome, Words
    <2>2. CASE w = "itab"
      <3>1. Holding(p)' = Holding(p)
        BY <1>1, <1>2, <1>12, <2>1, <2>2 DEF Holding
      <3>2. Entry(reg[p])' = Entry(reg[p])
        BY <1>8, <2>2 DEF Entry
      <3>3. StateOf(p)' = StateOf(p) /\ HeldBy(p)' = HeldBy(p)
        BY <1>9, <1>10, <1>12, <2>1, <3>1, <3>2 DEF HeldBy, Cache!None
      <3> QED BY <1>4, <1>5, <3>3, Unseen
    <2>3. CASE w = "data"
      <3>1. ~Holding(p) /\ Holding(p)'
        BY <1>1, <1>2, <1>12, <2>3 DEF Holding
      <3>2. StateOf(p) = "waiting" /\ StateOf(p)' = "holding"
        BY <1>9, <1>10, <1>12, <2>1, <3>1
      <3>3. HeldBy(p)' = Entry(handler)
        BY <1>8, <2>3, <3>1 DEF HeldBy, Entry
      <3>4. handler.data # "nil"
        BY <1>2, <1>8, <1>12, <2>3 DEF Disturbed, Outcome, Words
      <3>5. requestState[p] = "waiting"
        BY <3>2, Mapped
      <3>6. Entry(handler).kind # "nil" /\ Entry(handler).epoch >= since[p]
        BY <1>6, <3>4 DEF Entry
      <3> QED BY <1>5, <1>7, <3>2, <3>3, <3>5, <3>6 DEF Cache!Fetch
    <2> QED BY <1>1, <2>2, <2>3
  <1> QED BY <1>11, <1>12

-----------------------------------------------------------------------------
\* Of an Invalidate the cache sees the turn of the epoch and the data word.
LEMMA InvalidateMaps ==
  ASSUME IInv, NEW p \in Reloaders, Acquire(p) \/ Invalidate(p) \/ ReloaderStep(p)
  PROVE  [Cache!Next]_Cache!avars
  <1>1. p \in Procs /\ TypeOK
    BY DEF Procs, IInv
  <1>2. requestState' = requestState /\ heldEntry' = heldEntry
    BY <1>1, ReloaderStays DEF Acquire, Invalidate, ReloaderStep, Clear, ClearWord, ResetOnce,
                               Goto, TypeOK
  <1>3. since' = since /\ answer' = answer
    BY DEF Acquire, Invalidate, ReloaderStep, Clear, ClearWord, ResetOnce, history
  <1>4. CASE Clear(p)
    <2>1. epoch' = epoch + 1 /\ Entry(handler)' = Entry(handler)
      BY <1>4 DEF Clear, Entry
    <2> QED BY <1>2, <1>3, <2>1 DEF Cache!Invalidate, Cache!Next
  <1>5. CASE ClearWord(p, "data")
    <2>1. handler.epoch < epoch /\ handler \in Handlers /\ epoch' = epoch
      BY <1>1, <1>5 DEF ClearWord, IInv, HandlerInv, TypeOK, history
    <2>2. Entry(handler)' = [kind |-> "nil", epoch |-> epoch] /\ Entry(handler).epoch < epoch
      BY <1>5, <2>1 DEF ClearWord, StoreWord, Entry, NilHandler, Handlers
    <2> QED BY <1>2, <1>3, <2>1, <2>2 DEF Cache!Discard, Cache!Next
  <1>6. CASE ClearWord(p, "itab")
    <2>1. epoch' = epoch /\ Entry(handler)' = Entry(handler)
      BY <1>1, <1>6 DEF ClearWord, StoreWord, Entry, history, TypeOK, Handlers
    <2> QED BY <1>2, <1>3, <2>1 DEF Cache!avars
  <1>7. CASE Acquire(p) \/ Invalidate(p) \/ ResetOnce(p)
    <2>1. epoch' = epoch /\ Entry(handler)' = Entry(handler)
      BY <1>7 DEF Acquire, Invalidate, ResetOnce, Entry, history
    <2> QED BY <1>2, <1>3, <2>1 DEF Cache!avars
  <1> QED BY <1>4, <1>5, <1>6, <1>7 DEF ReloaderStep, Words

\* Every step of a request is a step of the cache, or none.
LEMMA RequestMaps ==
  ASSUME IInv, NEW p \in Requests, Acquire(p) \/ ServeHTTP(p) \/ RequestStep(p)
  PROVE  [Cache!Next]_Cache!avars
  <1>1. CASE ServeHTTP(p)
    BY <1>1, ServeBegins DEF Cache!Next
  <1>2. CASE \E w \in Words : LoadWord(p, w)
    BY <1>2, LoadMaps DEF Cache!Next
  <1>3. CASE Store(p, "data")
    BY <1>3, StoreBuilds DEF Cache!Next
  <1>4. CASE BuildPanics(p)
    BY <1>4, PanicEnds DEF Cache!Next
  <1>5. CASE ReturnLocked(p)
    BY <1>5, ReturnFetches DEF Cache!Next
  <1>6. CASE Call(p)
    BY <1>6, CallAnswers DEF Cache!Next
  <1>7. CASE \/ Acquire(p) \/ Peek(p) \/ Once(p) \/ BuildReturnsNil(p) \/ InstallUnavailable(p)
             \/ \E kind \in {"user", "func"} : BuildReturns(p, kind)
             \/ Store(p, "itab")
    BY <1>7, WaitingSteps
  <1> QED BY <1>1, <1>2, <1>3, <1>4, <1>5, <1>6, <1>7 DEF RequestStep, Words

\* Where nothing changes, nothing changes for the cache.
LEMMA StutterMaps == UNCHANGED vars => UNCHANGED Cache!avars
  <1> SUFFICES ASSUME UNCHANGED vars PROVE UNCHANGED Cache!avars
    OBVIOUS
  <1>1. \A q \in Requests : StateOf(q)' = StateOf(q) /\ HeldBy(q)' = HeldBy(q)
    BY DEF vars, StateOf, HeldBy, Disturbed, Holding, Cache!None, Entry
  <1>2. /\ requestState' = [q \in Requests |-> StateOf(q)']
        /\ heldEntry' = [q \in Requests |-> HeldBy(q)']
    BY DEF requestState, heldEntry, StateOf, HeldBy, Cache!None
  <1> QED BY <1>1, <1>2, Mapped DEF vars, Cache!avars, Entry

\* Every step of ensureHandler and Invalidate, down to single words, is a step
\* of the documented cache: build on demand, one handler per epoch, dropped by
\* Invalidate, and requests disturbed only by a later Invalidate.
THEOREM Refines == Spec => ImplementsHandlerCache
<1>1. IInv /\ [Next]_vars => [Cache!Next]_Cache!avars
  <2> SUFFICES ASSUME IInv, [Next]_vars PROVE [Cache!Next]_Cache!avars
    OBVIOUS
  <2>1. CASE UNCHANGED vars
    BY <2>1, StutterMaps
  <2>2. CASE Next
    BY <2>2, RequestMaps, InvalidateMaps DEF Next, Procs
  <2> QED BY <2>1, <2>2
<1> QED
  BY InitMaps, <1>1, Inductive, PTL DEF Spec, ImplementsHandlerCache, Cache!Spec
=============================================================================
