--------------------------- MODULE LocationsProofs ---------------------------
(***************************************************************************)
(* Proofs about Locations, for any texts, templates and command lines: the *)
(* types of variables, what repeated flags for a variable leave, and that  *)
(* no request carries an expression that was not expanded.                 *)
(*                                                                         *)
(* The model is made of recursive functions.  The first half of the module *)
(* has the lemmas about them: each function satisfies its definition       *)
(* (...Exists, ...Steps), and what it computes has the properties of what  *)
(* it is computed from, step by step.  The second half is the inductive    *)
(* invariant and one lemma for each action.                                *)
(***************************************************************************)
EXTENDS Locations, FiniteSetTheorems, SequenceTheorems, WellFoundedInduction, TLAPS

-----------------------------------------------------------------------------
(***************************************************************************)
(* Induction over the natural numbers, as a fact about sets: a set that    *)
(* lacks a number lacks a least one.                                       *)
(***************************************************************************)
Less == OpToRel(<, Nat)

LEMMA LeastNumber ==
  ASSUME NEW T, T \subseteq Nat, T # {}
  PROVE  \E x \in T : \A y \in T : x <= y
  <1>1. IsWellFoundedOn(Less, Nat)
    BY NatLessThanWellFounded, Zenon DEF Less
  <1>2. \A i, j \in Nat : <<i, j>> \in Less <=> i < j
    BY Zenon DEF Less, OpToRel
  <1>3. PICK x \in T : \A y \in T : <<y, x>> \notin Less
    BY <1>1, WFMin
  <1>4. \A y \in T : x \in Nat /\ y \in Nat /\ ~(y < x)
    BY <1>2, <1>3
  <1>5. \A y \in T : x <= y
    BY <1>4
  <1> QED BY <1>5

LEMMA Induction ==
  ASSUME NEW T, 0 \in T, \A k \in Nat : k \in T => k + 1 \in T
  PROVE  Nat \subseteq T
  <1> SUFFICES ASSUME Nat \ T # {} PROVE FALSE
    OBVIOUS
  <1>1. PICK x \in Nat \ T : \A y \in Nat \ T : x <= y
    BY LeastNumber
  <1>2. x - 1 \in Nat
    BY <1>1
  <1> QED BY <1>1, <1>2

-----------------------------------------------------------------------------
(***************************************************************************)
(* Sequences                                                               *)
(***************************************************************************)
\* A sequence of anything.
IsSeq(s) == Len(s) \in Nat /\ s = [i \in 1..Len(s) |-> s[i]]

LEMMA TypedSeq ==
  ASSUME NEW S, NEW s \in Seq(S)
  PROVE  IsSeq(s)
  BY DEF IsSeq

LEMMA SeqTyped ==
  ASSUME NEW s, IsSeq(s)
  PROVE  s \in Seq({s[i] : i \in 1..Len(s)})
  BY DEF IsSeq

LEMMA FunSeq ==
  ASSUME NEW n \in Nat, NEW s, s = [i \in 1..n |-> s[i]]
  PROVE  IsSeq(s) /\ Len(s) = n
  <1>1. s \in Seq({s[i] : i \in 1..n}) /\ Len(s) = n
    OBVIOUS
  <1> QED BY <1>1, TypedSeq

LEMMA SeqDomain ==
  ASSUME NEW s, IsSeq(s)
  PROVE  DOMAIN s = 1..Len(s) /\ Len(s) \in Nat
  BY DEF IsSeq

LEMMA EmptyIsSeq == IsSeq(<<>>) /\ Len(<<>>) = 0
  <1>1. <<>> \in Seq({})
    OBVIOUS
  <1> QED BY <1>1, TypedSeq

LEMMA NonemptySeq ==
  ASSUME NEW s, IsSeq(s)
  PROVE  s # <<>> <=> Len(s) > 0
  <1>1. s \in Seq({s[i] : i \in 1..Len(s)})
    BY SeqTyped
  <1> QED BY <1>1

LEMMA SameSeq ==
  ASSUME NEW s, IsSeq(s), NEW t, IsSeq(t), Len(s) = Len(t), \A i \in 1..Len(s) : s[i] = t[i]
  PROVE  s = t
  BY DEF IsSeq

LEMMA OneSeq ==
  ASSUME NEW e
  PROVE  IsSeq(<<e>>) /\ Len(<<e>>) = 1 /\ <<e>>[1] = e /\ <<e>> # <<>>
  BY DEF IsSeq

LEMMA AppendSeq ==
  ASSUME NEW s, IsSeq(s), NEW e
  PROVE  /\ IsSeq(Append(s, e)) /\ Len(Append(s, e)) = Len(s) + 1
         /\ \A i \in 1..Len(s) : Append(s, e)[i] = s[i]
         /\ Append(s, e)[Len(s) + 1] = e
  <1> DEFINE S == {s[i] : i \in 1..Len(s)} \cup {e}
  <1>1. s \in Seq(S) /\ e \in S
    BY DEF IsSeq
  <1> HIDE DEF S
  <1>2. /\ Append(s, e) \in Seq(S) /\ Len(Append(s, e)) = Len(s) + 1
        /\ \A i \in 1..Len(s) : Append(s, e)[i] = s[i]
        /\ Append(s, e)[Len(s) + 1] = e
    BY <1>1
  <1> QED BY <1>2, TypedSeq

LEMMA ConcatSeq ==
  ASSUME NEW s, IsSeq(s), NEW t, IsSeq(t)
  PROVE  /\ IsSeq(s \o t) /\ Len(s \o t) = Len(s) + Len(t)
         /\ \A i \in 1..Len(s \o t) :
               (s \o t)[i] = IF i <= Len(s) THEN s[i] ELSE t[i - Len(s)]
  <1> DEFINE S == {s[i] : i \in 1..Len(s)} \cup {t[i] : i \in 1..Len(t)}
  <1>1. s \in Seq(S) /\ t \in Seq(S)
    BY DEF IsSeq
  <1> HIDE DEF S
  <1>2. /\ s \o t \in Seq(S) /\ Len(s \o t) = Len(s) + Len(t)
        /\ \A i \in 1..Len(s \o t) : (s \o t)[i] = IF i <= Len(s) THEN s[i] ELSE t[i - Len(s)]
    BY <1>1
  <1> QED BY <1>2, TypedSeq

LEMMA ConcatEmpty ==
  ASSUME NEW s, IsSeq(s)
  PROVE  s \o <<>> = s /\ <<>> \o s = s
  <1>1. s \in Seq({s[i] : i \in 1..Len(s)})
    BY SeqTyped
  <1> QED BY <1>1

LEMMA SubIsSeq ==
  ASSUME NEW s, IsSeq(s), NEW m \in 1..Len(s) + 1, NEW n \in m - 1..Len(s)
  PROVE  /\ IsSeq(SubSeq(s, m, n)) /\ Len(SubSeq(s, m, n)) = n - m + 1
         /\ \A i \in 1..n - m + 1 : SubSeq(s, m, n)[i] = s[m + i - 1]
  <1> DEFINE S == {s[i] : i \in 1..Len(s)}
  <1>1. s \in Seq(S)
    BY SeqTyped
  <1> HIDE DEF S
  <1>2. /\ SubSeq(s, m, n) \in Seq(S) /\ Len(SubSeq(s, m, n)) = n - m + 1
        /\ \A i \in 1..n - m + 1 : SubSeq(s, m, n)[i] = s[m + i - 1]
    BY <1>1, SubSeqProperties
  <1> QED BY <1>2, TypedSeq

LEMMA MapSeq ==
  ASSUME NEW s, IsSeq(s), NEW t, t = [i \in DOMAIN s |-> t[i]]
  PROVE  IsSeq(t) /\ Len(t) = Len(s)
  <1>1. DOMAIN s = 1..Len(s) /\ Len(s) \in Nat
    BY SeqDomain
  <1> QED BY <1>1, FunSeq
-----------------------------------------------------------------------------
(***************************************************************************)
(* Recursive functions: each satisfies its definition.                     *)
(***************************************************************************)
\* What one more token makes of the chunks so far.
SplitOne(chunks, t, sep) ==
    IF t = sep THEN Append(chunks, <<>>)
    ELSE Append(Front(chunks), Append(Last(chunks), t))

\* Split, token by token.
IsSplit(text, sep, size, f) ==
    f = [i \in 0..size |-> IF i = 0 THEN << <<>> >> ELSE SplitOne(f[i - 1], text[i], sep)]

LEMMA SplitExists ==
  ASSUME NEW text, NEW sep, NEW size \in Nat
  PROVE  \E f : IsSplit(text, sep, size, f)
  <1> DEFINE T == {k \in Nat : \E f : IsSplit(text, sep, k, f)}
             Step(acc, i) == SplitOne(acc, text[i], sep)
  <1>1. 0 \in T
    <2>1. IsSplit(text, sep, 0, [i \in 0..0 |-> << <<>> >>])
      BY DEF IsSplit
    <2> QED BY <2>1
  <1>2. ASSUME NEW k \in Nat, k \in T PROVE k + 1 \in T
    <2>1. PICK f : IsSplit(text, sep, k, f)
      BY <1>2
    <2> DEFINE g == [i \in 0..k + 1 |-> IF i = k + 1 THEN Step(f[k], k + 1) ELSE f[i]]
    <2>2. \A i \in 0..k : f[i] = IF i = 0 THEN << <<>> >> ELSE Step(f[i - 1], i)
      BY <2>1 DEF IsSplit
    <2> HIDE DEF Step
    <2>3. ASSUME NEW i \in 0..k + 1
          PROVE  g[i] = IF i = 0 THEN << <<>> >> ELSE Step(g[i - 1], i)
      <3>1. CASE i = k + 1
        <4>1. g[i] = Step(f[k], k + 1) /\ i - 1 = k /\ i # 0 /\ g[k] = f[k]
          BY <3>1
        <4> QED BY <3>1, <4>1
      <3>2. CASE i # k + 1
        <4>1. i \in 0..k /\ g[i] = f[i] /\ (i # 0 => g[i - 1] = f[i - 1])
          BY <3>2
        <4> QED BY <2>2, <4>1
      <3> QED BY <3>1, <3>2
    <2>4. g = [i \in 0..k + 1 |-> g[i]]
      OBVIOUS
    <2> HIDE DEF g
    <2>5. g = [i \in 0..k + 1 |-> IF i = 0 THEN << <<>> >> ELSE Step(g[i - 1], i)]
      BY <2>3, <2>4
    <2>6. IsSplit(text, sep, k + 1, g)
      BY <2>5 DEF IsSplit, Step
    <2> QED BY <2>6
  <1>3. Nat \subseteq T
    <2> HIDE DEF T
    <2> QED BY <1>1, <1>2, Induction
  <1> QED BY <1>3

LEMMA SplitSteps ==
  ASSUME NEW text, NEW sep, Len(text) \in Nat
  PROVE  \E f : /\ f[0] = << <<>> >> /\ Split(text, sep) = f[Len(text)]
                /\ \A i \in 1..Len(text) : f[i] = SplitOne(f[i - 1], text[i], sep)
  <1> DEFINE size == Len(text)
             F == CHOOSE f : IsSplit(text, sep, size, f)
  <1>1. Split(text, sep) = F[size]
    BY DEF Split, IsSplit, SplitOne
  <1>2. IsSplit(text, sep, size, F)
    BY SplitExists, Zenon
  <1> HIDE DEF F
  <1>3. \A i \in 0..size : F[i] = IF i = 0 THEN << <<>> >> ELSE SplitOne(F[i - 1], text[i], sep)
    BY <1>2 DEF IsSplit
  <1>4. F[0] = << <<>> >> /\ \A i \in 1..size : F[i] = SplitOne(F[i - 1], text[i], sep)
    BY <1>3
  <1> QED BY <1>1, <1>4

\* Copying, item by item.
IsCopyItems(items, more, size, f) ==
    f = [i \in 0..size |-> IF i = 0 THEN items ELSE CopyItem(f[i - 1], more[i])]

LEMMA CopyItemsExists ==
  ASSUME NEW items, NEW more, NEW size \in Nat
  PROVE  \E f : IsCopyItems(items, more, size, f)
  <1> DEFINE T == {k \in Nat : \E f : IsCopyItems(items, more, k, f)}
             Step(acc, i) == CopyItem(acc, more[i])
  <1>1. 0 \in T
    <2>1. IsCopyItems(items, more, 0, [i \in 0..0 |-> items])
      BY DEF IsCopyItems
    <2> QED BY <2>1
  <1>2. ASSUME NEW k \in Nat, k \in T PROVE k + 1 \in T
    <2>1. PICK f : IsCopyItems(items, more, k, f)
      BY <1>2
    <2> DEFINE g == [i \in 0..k + 1 |-> IF i = k + 1 THEN Step(f[k], k + 1) ELSE f[i]]
    <2>2. \A i \in 0..k : f[i] = IF i = 0 THEN items ELSE Step(f[i - 1], i)
      BY <2>1 DEF IsCopyItems
    <2> HIDE DEF Step
    <2>3. ASSUME NEW i \in 0..k + 1
          PROVE  g[i] = IF i = 0 THEN items ELSE Step(g[i - 1], i)
      <3>1. CASE i = k + 1
        <4>1. g[i] = Step(f[k], k + 1) /\ i - 1 = k /\ i # 0 /\ g[k] = f[k]
          BY <3>1
        <4> QED BY <3>1, <4>1
      <3>2. CASE i # k + 1
        <4>1. i \in 0..k /\ g[i] = f[i] /\ (i # 0 => g[i - 1] = f[i - 1])
          BY <3>2
        <4> QED BY <2>2, <4>1
      <3> QED BY <3>1, <3>2
    <2>4. g = [i \in 0..k + 1 |-> g[i]]
      OBVIOUS
    <2> HIDE DEF g
    <2>5. g = [i \in 0..k + 1 |-> IF i = 0 THEN items ELSE Step(g[i - 1], i)]
      BY <2>3, <2>4
    <2>6. IsCopyItems(items, more, k + 1, g)
      BY <2>5 DEF IsCopyItems, Step
    <2> QED BY <2>6
  <1>3. Nat \subseteq T
    <2> HIDE DEF T
    <2> QED BY <1>1, <1>2, Induction
  <1> QED BY <1>3

LEMMA CopyItemsSteps ==
  ASSUME NEW items, NEW more, Len(more) \in Nat
  PROVE  \E f : /\ f[0] = items /\ CopyItems(items, more) = f[Len(more)]
                /\ \A i \in 1..Len(more) : f[i] = CopyItem(f[i - 1], more[i])
  <1> DEFINE size == Len(more)
             F == CHOOSE f : IsCopyItems(items, more, size, f)
  <1>1. CopyItems(items, more) = F[size]
    BY DEF CopyItems, IsCopyItems
  <1>2. IsCopyItems(items, more, size, F)
    BY CopyItemsExists, Zenon
  <1> HIDE DEF F
  <1>3. \A i \in 0..size : F[i] = IF i = 0 THEN items ELSE CopyItem(F[i - 1], more[i])
    BY <1>2 DEF IsCopyItems
  <1>4. F[0] = items /\ \A i \in 1..size : F[i] = CopyItem(F[i - 1], more[i])
    BY <1>3
  <1> QED BY <1>1, <1>4

\* Update, entry by entry.
IsUpdate(variables, entries, size, f) ==
    f = [i \in 0..size |-> IF i = 0 THEN [vars |-> variables, outcome |-> "ok"] ELSE UpdateOne(f[i - 1], entries[i])]

LEMMA UpdateExists ==
  ASSUME NEW variables, NEW entries, NEW size \in Nat
  PROVE  \E f : IsUpdate(variables, entries, size, f)
  <1> DEFINE T == {k \in Nat : \E f : IsUpdate(variables, entries, k, f)}
             Step(acc, i) == UpdateOne(acc, entries[i])
  <1>1. 0 \in T
    <2>1. IsUpdate(variables, entries, 0, [i \in 0..0 |-> [vars |-> variables, outcome |-> "ok"]])
      BY DEF IsUpdate
    <2> QED BY <2>1
  <1>2. ASSUME NEW k \in Nat, k \in T PROVE k + 1 \in T
    <2>1. PICK f : IsUpdate(variables, entries, k, f)
      BY <1>2
    <2> DEFINE g == [i \in 0..k + 1 |-> IF i = k + 1 THEN Step(f[k], k + 1) ELSE f[i]]
    <2>2. \A i \in 0..k : f[i] = IF i = 0 THEN [vars |-> variables, outcome |-> "ok"] ELSE Step(f[i - 1], i)
      BY <2>1 DEF IsUpdate
    <2> HIDE DEF Step
    <2>3. ASSUME NEW i \in 0..k + 1
          PROVE  g[i] = IF i = 0 THEN [vars |-> variables, outcome |-> "ok"] ELSE Step(g[i - 1], i)
      <3>1. CASE i = k + 1
        <4>1. g[i] = Step(f[k], k + 1) /\ i - 1 = k /\ i # 0 /\ g[k] = f[k]
          BY <3>1
        <4> QED BY <3>1, <4>1
      <3>2. CASE i # k + 1
        <4>1. i \in 0..k /\ g[i] = f[i] /\ (i # 0 => g[i - 1] = f[i - 1])
          BY <3>2
        <4> QED BY <2>2, <4>1
      <3> QED BY <3>1, <3>2
    <2>4. g = [i \in 0..k + 1 |-> g[i]]
      OBVIOUS
    <2> HIDE DEF g
    <2>5. g = [i \in 0..k + 1 |-> IF i = 0 THEN [vars |-> variables, outcome |-> "ok"] ELSE Step(g[i - 1], i)]
      BY <2>3, <2>4
    <2>6. IsUpdate(variables, entries, k + 1, g)
      BY <2>5 DEF IsUpdate, Step
    <2> QED BY <2>6
  <1>3. Nat \subseteq T
    <2> HIDE DEF T
    <2> QED BY <1>1, <1>2, Induction
  <1> QED BY <1>3

LEMMA UpdateSteps ==
  ASSUME NEW variables, NEW entries, Len(entries) \in Nat
  PROVE  \E f : /\ f[0] = [vars |-> variables, outcome |-> "ok"] /\ Update(variables, entries) = f[Len(entries)]
                /\ \A i \in 1..Len(entries) : f[i] = UpdateOne(f[i - 1], entries[i])
  <1> DEFINE size == Len(entries)
             F == CHOOSE f : IsUpdate(variables, entries, size, f)
  <1>1. Update(variables, entries) = F[size]
    BY DEF Update, IsUpdate
  <1>2. IsUpdate(variables, entries, size, F)
    BY UpdateExists, Zenon
  <1> HIDE DEF F
  <1>3. \A i \in 0..size : F[i] = IF i = 0 THEN [vars |-> variables, outcome |-> "ok"] ELSE UpdateOne(F[i - 1], entries[i])
    BY <1>2 DEF IsUpdate
  <1>4. F[0] = [vars |-> variables, outcome |-> "ok"] /\ \A i \in 1..size : F[i] = UpdateOne(F[i - 1], entries[i])
    BY <1>3
  <1> QED BY <1>1, <1>4

\* Adding, entry by entry.
IsAddAll(variables, entries, size, f) ==
    f = [i \in 0..size |-> IF i = 0 THEN variables ELSE SetHelper(f[i - 1], entries[i].key, entries[i].val)]

LEMMA AddAllExists ==
  ASSUME NEW variables, NEW entries, NEW size \in Nat
  PROVE  \E f : IsAddAll(variables, entries, size, f)
  <1> DEFINE T == {k \in Nat : \E f : IsAddAll(variables, entries, k, f)}
             Step(acc, i) == SetHelper(acc, entries[i].key, entries[i].val)
  <1>1. 0 \in T
    <2>1. IsAddAll(variables, entries, 0, [i \in 0..0 |-> variables])
      BY DEF IsAddAll
    <2> QED BY <2>1
  <1>2. ASSUME NEW k \in Nat, k \in T PROVE k + 1 \in T
    <2>1. PICK f : IsAddAll(variables, entries, k, f)
      BY <1>2
    <2> DEFINE g == [i \in 0..k + 1 |-> IF i = k + 1 THEN Step(f[k], k + 1) ELSE f[i]]
    <2>2. \A i \in 0..k : f[i] = IF i = 0 THEN variables ELSE Step(f[i - 1], i)
      BY <2>1 DEF IsAddAll
    <2> HIDE DEF Step
    <2>3. ASSUME NEW i \in 0..k + 1
          PROVE  g[i] = IF i = 0 THEN variables ELSE Step(g[i - 1], i)
      <3>1. CASE i = k + 1
        <4>1. g[i] = Step(f[k], k + 1) /\ i - 1 = k /\ i # 0 /\ g[k] = f[k]
          BY <3>1
        <4> QED BY <3>1, <4>1
      <3>2. CASE i # k + 1
        <4>1. i \in 0..k /\ g[i] = f[i] /\ (i # 0 => g[i - 1] = f[i - 1])
          BY <3>2
        <4> QED BY <2>2, <4>1
      <3> QED BY <3>1, <3>2
    <2>4. g = [i \in 0..k + 1 |-> g[i]]
      OBVIOUS
    <2> HIDE DEF g
    <2>5. g = [i \in 0..k + 1 |-> IF i = 0 THEN variables ELSE Step(g[i - 1], i)]
      BY <2>3, <2>4
    <2>6. IsAddAll(variables, entries, k + 1, g)
      BY <2>5 DEF IsAddAll, Step
    <2> QED BY <2>6
  <1>3. Nat \subseteq T
    <2> HIDE DEF T
    <2> QED BY <1>1, <1>2, Induction
  <1> QED BY <1>3

LEMMA AddAllSteps ==
  ASSUME NEW variables, NEW entries, Len(entries) \in Nat
  PROVE  \E f : /\ f[0] = variables /\ AddAll(variables, entries) = f[Len(entries)]
                /\ \A i \in 1..Len(entries) : f[i] = SetHelper(f[i - 1], entries[i].key, entries[i].val)
  <1> DEFINE size == Len(entries)
             F == CHOOSE f : IsAddAll(variables, entries, size, f)
  <1>1. AddAll(variables, entries) = F[size]
    BY DEF AddAll, IsAddAll
  <1>2. IsAddAll(variables, entries, size, F)
    BY AddAllExists, Zenon
  <1> HIDE DEF F
  <1>3. \A i \in 0..size : F[i] = IF i = 0 THEN variables ELSE SetHelper(F[i - 1], entries[i].key, entries[i].val)
    BY <1>2 DEF IsAddAll
  <1>4. F[0] = variables /\ \A i \in 1..size : F[i] = SetHelper(F[i - 1], entries[i].key, entries[i].val)
    BY <1>3
  <1> QED BY <1>1, <1>4

\* What one more argument makes of an occurrence.
ReadOne(v, arg) == IF v.ok THEN NextArg(v, arg) ELSE v

\* Reading, argument by argument.
IsReadVar(args, size, f) ==
    f = [i \in 0..size |-> IF i = 0 THEN NewVarState ELSE ReadOne(f[i - 1], args[i])]

LEMMA ReadVarExists ==
  ASSUME NEW args, NEW size \in Nat
  PROVE  \E f : IsReadVar(args, size, f)
  <1> DEFINE T == {k \in Nat : \E f : IsReadVar(args, k, f)}
             Step(acc, i) == ReadOne(acc, args[i])
  <1>1. 0 \in T
    <2>1. IsReadVar(args, 0, [i \in 0..0 |-> NewVarState])
      BY DEF IsReadVar
    <2> QED BY <2>1
  <1>2. ASSUME NEW k \in Nat, k \in T PROVE k + 1 \in T
    <2>1. PICK f : IsReadVar(args, k, f)
      BY <1>2
    <2> DEFINE g == [i \in 0..k + 1 |-> IF i = k + 1 THEN Step(f[k], k + 1) ELSE f[i]]
    <2>2. \A i \in 0..k : f[i] = IF i = 0 THEN NewVarState ELSE Step(f[i - 1], i)
      BY <2>1 DEF IsReadVar
    <2> HIDE DEF Step
    <2>3. ASSUME NEW i \in 0..k + 1
          PROVE  g[i] = IF i = 0 THEN NewVarState ELSE Step(g[i - 1], i)
      <3>1. CASE i = k + 1
        <4>1. g[i] = Step(f[k], k + 1) /\ i - 1 = k /\ i # 0 /\ g[k] = f[k]
          BY <3>1
        <4> QED BY <3>1, <4>1
      <3>2. CASE i # k + 1
        <4>1. i \in 0..k /\ g[i] = f[i] /\ (i # 0 => g[i - 1] = f[i - 1])
          BY <3>2
        <4> QED BY <2>2, <4>1
      <3> QED BY <3>1, <3>2
    <2>4. g = [i \in 0..k + 1 |-> g[i]]
      OBVIOUS
    <2> HIDE DEF g
    <2>5. g = [i \in 0..k + 1 |-> IF i = 0 THEN NewVarState ELSE Step(g[i - 1], i)]
      BY <2>3, <2>4
    <2>6. IsReadVar(args, k + 1, g)
      BY <2>5 DEF IsReadVar, Step
    <2> QED BY <2>6
  <1>3. Nat \subseteq T
    <2> HIDE DEF T
    <2> QED BY <1>1, <1>2, Induction
  <1> QED BY <1>3

LEMMA ReadVarSteps ==
  ASSUME NEW args, Len(args) \in Nat
  PROVE  \E f : /\ f[0] = NewVarState /\ ReadVar(args) = f[Len(args)]
                /\ \A i \in 1..Len(args) : f[i] = ReadOne(f[i - 1], args[i])
  <1> DEFINE size == Len(args)
             F == CHOOSE f : IsReadVar(args, size, f)
  <1>1. ReadVar(args) = F[size]
    BY DEF ReadVar, IsReadVar, ReadOne
  <1>2. IsReadVar(args, size, F)
    BY ReadVarExists, Zenon
  <1> HIDE DEF F
  <1>3. \A i \in 0..size : F[i] = IF i = 0 THEN NewVarState ELSE ReadOne(F[i - 1], args[i])
    BY <1>2 DEF IsReadVar
  <1>4. F[0] = NewVarState /\ \A i \in 1..size : F[i] = ReadOne(F[i - 1], args[i])
    BY <1>3
  <1> QED BY <1>1, <1>4

\* What one more entry adds to the events of name.
EventOne(events, e, name) == IF e.key = name THEN Append(events, e) ELSE events

\* The events of a name, entry by entry.
IsEventsOf(history, name, size, f) ==
    f = [i \in 0..size |-> IF i = 0 THEN <<>> ELSE EventOne(f[i - 1], history[i], name)]

LEMMA EventsOfExists ==
  ASSUME NEW history, NEW name, NEW size \in Nat
  PROVE  \E f : IsEventsOf(history, name, size, f)
  <1> DEFINE T == {k \in Nat : \E f : IsEventsOf(history, name, k, f)}
             Step(acc, i) == EventOne(acc, history[i], name)
  <1>1. 0 \in T
    <2>1. IsEventsOf(history, name, 0, [i \in 0..0 |-> <<>>])
      BY DEF IsEventsOf
    <2> QED BY <2>1
  <1>2. ASSUME NEW k \in Nat, k \in T PROVE k + 1 \in T
    <2>1. PICK f : IsEventsOf(history, name, k, f)
      BY <1>2
    <2> DEFINE g == [i \in 0..k + 1 |-> IF i = k + 1 THEN Step(f[k], k + 1) ELSE f[i]]
    <2>2. \A i \in 0..k : f[i] = IF i = 0 THEN <<>> ELSE Step(f[i - 1], i)
      BY <2>1 DEF IsEventsOf
    <2> HIDE DEF Step
    <2>3. ASSUME NEW i \in 0..k + 1
          PROVE  g[i] = IF i = 0 THEN <<>> ELSE Step(g[i - 1], i)
      <3>1. CASE i = k + 1
        <4>1. g[i] = Step(f[k], k + 1) /\ i - 1 = k /\ i # 0 /\ g[k] = f[k]
          BY <3>1
        <4> QED BY <3>1, <4>1
      <3>2. CASE i # k + 1
        <4>1. i \in 0..k /\ g[i] = f[i] /\ (i # 0 => g[i - 1] = f[i - 1])
          BY <3>2
        <4> QED BY <2>2, <4>1
      <3> QED BY <3>1, <3>2
    <2>4. g = [i \in 0..k + 1 |-> g[i]]
      OBVIOUS
    <2> HIDE DEF g
    <2>5. g = [i \in 0..k + 1 |-> IF i = 0 THEN <<>> ELSE Step(g[i - 1], i)]
      BY <2>3, <2>4
    <2>6. IsEventsOf(history, name, k + 1, g)
      BY <2>5 DEF IsEventsOf, Step
    <2> QED BY <2>6
  <1>3. Nat \subseteq T
    <2> HIDE DEF T
    <2> QED BY <1>1, <1>2, Induction
  <1> QED BY <1>3

LEMMA EventsOfSteps ==
  ASSUME NEW history, NEW name, Len(history) \in Nat
  PROVE  \E f : /\ f[0] = <<>> /\ EventsOf(history, name) = f[Len(history)]
                /\ \A i \in 1..Len(history) : f[i] = EventOne(f[i - 1], history[i], name)
  <1> DEFINE size == Len(history)
             F == CHOOSE f : IsEventsOf(history, name, size, f)
  <1>1. EventsOf(history, name) = F[size]
    BY DEF EventsOf, IsEventsOf, EventOne
  <1>2. IsEventsOf(history, name, size, F)
    BY EventsOfExists, Zenon
  <1> HIDE DEF F
  <1>3. \A i \in 0..size : F[i] = IF i = 0 THEN <<>> ELSE EventOne(F[i - 1], history[i], name)
    BY <1>2 DEF IsEventsOf
  <1>4. F[0] = <<>> /\ \A i \in 1..size : F[i] = EventOne(F[i - 1], history[i], name)
    BY <1>3
  <1> QED BY <1>1, <1>4

\* Flattening, sequence by sequence.
IsFlattened(seqs, size, f) ==
    f = [i \in 1..size |-> IF i = 1 THEN seqs[i] ELSE f[i - 1] \o seqs[i]]

LEMMA FlattenExists ==
  ASSUME NEW seqs, NEW size \in Nat
  PROVE  \E f : IsFlattened(seqs, size, f)
  <1> DEFINE T == {k \in Nat : \E f : IsFlattened(seqs, k, f)}
             Step(acc, i) == acc \o seqs[i]
  <1>1. 0 \in T
    <2>1. IsFlattened(seqs, 0, [i \in 1..0 |-> 0])
      BY DEF IsFlattened
    <2> QED BY <2>1
  <1>2. ASSUME NEW k \in Nat, k \in T PROVE k + 1 \in T
    <2>1. PICK f : IsFlattened(seqs, k, f)
      BY <1>2
    <2> DEFINE g == [i \in 1..k + 1 |-> IF i = 1 THEN seqs[1]
                                        ELSE IF i = k + 1 THEN Step(f[k], k + 1) ELSE f[i]]
    <2>2. \A i \in 1..k : f[i] = IF i = 1 THEN seqs[i] ELSE Step(f[i - 1], i)
      BY <2>1 DEF IsFlattened
    <2> HIDE DEF Step
    <2>3. ASSUME NEW i \in 1..k + 1
          PROVE  g[i] = IF i = 1 THEN seqs[i] ELSE Step(g[i - 1], i)
      <3>1. CASE i = 1
        BY <3>1
      <3>2. CASE i = k + 1 /\ i # 1
        <4>1. g[i] = Step(f[k], k + 1) /\ i - 1 = k /\ k \in 1..k /\ g[k] = f[k]
          BY <2>2, <3>2
        <4> QED BY <3>2, <4>1
      <3>3. CASE i # k + 1 /\ i # 1
        <4>1. i \in 1..k /\ i - 1 \in 1..k /\ g[i] = f[i] /\ g[i - 1] = f[i - 1]
          BY <2>2, <3>3
        <4> QED BY <2>2, <3>3, <4>1
      <3> QED BY <3>1, <3>2, <3>3
    <2>4. g = [i \in 1..k + 1 |-> g[i]]
      OBVIOUS
    <2> HIDE DEF g
    <2>5. g = [i \in 1..k + 1 |-> IF i = 1 THEN seqs[i] ELSE Step(g[i - 1], i)]
      BY <2>3, <2>4
    <2>6. IsFlattened(seqs, k + 1, g)
      BY <2>5 DEF IsFlattened, Step
    <2> QED BY <2>6
  <1>3. Nat \subseteq T
    <2> HIDE DEF T
    <2> QED BY <1>1, <1>2, Induction
  <1> QED BY <1>3

LEMMA FlattenSteps ==
  ASSUME NEW seqs, Len(seqs) \in Nat, Len(seqs) # 0
  PROVE  \E f : /\ f[1] = seqs[1] /\ FlattenSeq(seqs) = f[Len(seqs)]
                /\ \A i \in Nat : 0 < i /\ i < Len(seqs) => f[i + 1] = f[i] \o seqs[i + 1]
  <1> DEFINE size == Len(seqs)
             F == CHOOSE f : IsFlattened(seqs, size, f)
             Step(acc, i) == acc \o seqs[i]
  <1>1. FlattenSeq(seqs) = F[size]
    BY DEF FlattenSeq, IsFlattened
  <1>2. IsFlattened(seqs, size, F)
    BY FlattenExists, Zenon
  <1> HIDE DEF F
  <1>3. \A i \in 1..size : F[i] = IF i = 1 THEN seqs[i] ELSE Step(F[i - 1], i)
    BY <1>2 DEF IsFlattened
  <1> HIDE DEF Step
  <1>4. F[1] = seqs[1]
    BY <1>3
  <1>5. ASSUME NEW i \in Nat, 0 < i, i < size
        PROVE  F[i + 1] = Step(F[i], i + 1)
    <2>1. i + 1 \in 1..size /\ i + 1 # 1 /\ i + 1 - 1 = i
      BY <1>5
    <2> QED BY <1>3, <2>1
  <1>6. \A i \in Nat : 0 < i /\ i < size => F[i + 1] = F[i] \o seqs[i + 1]
    BY <1>5 DEF Step
  <1> QED BY <1>1, <1>4, <1>6

AreSeqs(seqs) == IsSeq(seqs) /\ \A i \in 1..Len(seqs) : IsSeq(seqs[i])

LEMMA FlattenEmpty == FlattenSeq(<<>>) = <<>>
  BY EmptyIsSeq DEF FlattenSeq

LEMMA FlattenIsSeq ==
  ASSUME NEW seqs, AreSeqs(seqs)
  PROVE  IsSeq(FlattenSeq(seqs))
  <1>1. CASE Len(seqs) = 0
    BY <1>1 DEF FlattenSeq, AreSeqs
  <1>2. CASE Len(seqs) # 0
    <2>1. Len(seqs) \in Nat
      BY DEF AreSeqs, IsSeq
    <2>2. PICK f : /\ f[1] = seqs[1] /\ FlattenSeq(seqs) = f[Len(seqs)]
                   /\ \A i \in Nat : 0 < i /\ i < Len(seqs) => f[i + 1] = f[i] \o seqs[i + 1]
      BY <1>2, <2>1, FlattenSteps, Zenon
    <2> DEFINE T == {k \in Nat : 0 < k /\ k <= Len(seqs) => IsSeq(f[k])}
    <2>3. 0 \in T
      OBVIOUS
    <2>4. ASSUME NEW k \in Nat, k \in T PROVE k + 1 \in T
      <3>1. CASE k = 0
        <4>1. k + 1 = 1 /\ 1 \in 1..Len(seqs)
          BY <1>2, <2>1, <3>1
        <4>2. IsSeq(f[1])
          BY <2>2, <4>1, Zenon DEF AreSeqs
        <4> QED BY <4>1, <4>2
      <3>2. CASE k > 0 /\ k < Len(seqs)
        <4>1. k + 1 \in 1..Len(seqs) /\ IsSeq(f[k])
          BY <2>1, <2>4, <3>2
        <4>2. f[k + 1] = f[k] \o seqs[k + 1]
          BY <2>2, <3>2
        <4>3. IsSeq(seqs[k + 1])
          BY <4>1, Zenon DEF AreSeqs
        <4>4. IsSeq(f[k + 1])
          BY <4>1, <4>2, <4>3, ConcatSeq, Zenon
        <4> QED BY <4>4
      <3>3. CASE k > 0 /\ ~(k < Len(seqs))
        BY <2>1, <3>3
      <3> QED BY <2>1, <3>1, <3>2, <3>3
    <2>5. Nat \subseteq T
      <3> HIDE DEF T
      <3> QED BY <2>3, <2>4, Induction
    <2>6. IsSeq(f[Len(seqs)])
      <3>1. Len(seqs) \in T /\ 0 < Len(seqs) /\ Len(seqs) <= Len(seqs)
        BY <1>2, <2>1, <2>5
      <3> QED BY <3>1, Zenon
    <2> QED BY <2>2, <2>6
  <1> QED BY <1>1, <1>2

LEMMA FlattenOne ==
  ASSUME NEW s
  PROVE  FlattenSeq(<<s>>) = s
  <1> DEFINE t == <<s>>
  <1>1. Len(t) = 1 /\ t[1] = s
    BY OneSeq
  <1> HIDE DEF t
  <1>2. Len(t) \in Nat /\ Len(t) # 0
    BY <1>1
  <1>3. PICK f : f[1] = t[1] /\ FlattenSeq(t) = f[Len(t)]
    BY <1>2, FlattenSteps, Zenon
  <1> QED BY <1>1, <1>3 DEF t

LEMMA FlattenAppend ==
  ASSUME NEW seqs, AreSeqs(seqs), NEW s, IsSeq(s)
  PROVE  FlattenSeq(Append(seqs, s)) = FlattenSeq(seqs) \o s
  <1> DEFINE n == Len(seqs)
             t == Append(seqs, s)
  <1>1. n \in Nat
    BY DEF AreSeqs, IsSeq
  <1>2. Len(t) = n + 1 /\ t[n + 1] = s /\ \A i \in 1..n : t[i] = seqs[i]
    BY AppendSeq DEF AreSeqs
  <1> HIDE DEF t
  <1>3. PICK g : /\ g[1] = t[1] /\ FlattenSeq(t) = g[n + 1]
                 /\ \A i \in Nat : 0 < i /\ i < n + 1 => g[i + 1] = g[i] \o t[i + 1]
    <2>1. Len(t) \in Nat /\ Len(t) # 0
      BY <1>1, <1>2
    <2>2. \E g : /\ g[1] = t[1] /\ FlattenSeq(t) = g[Len(t)]
                 /\ \A i \in Nat : 0 < i /\ i < Len(t) => g[i + 1] = g[i] \o t[i + 1]
      BY <2>1, FlattenSteps, Zenon
    <2> QED BY <1>2, <2>2, Zenon
  <1>4. CASE n = 0
    <2>1. seqs = <<>>
      BY <1>4, NonemptySeq DEF AreSeqs
    <2>2. FlattenSeq(t) = s
      BY <1>2, <1>3, <1>4
    <2>3. FlattenSeq(seqs) \o s = s
      BY <2>1, FlattenEmpty, ConcatEmpty
    <2> QED BY <2>2, <2>3 DEF t
  <1>5. CASE n # 0
    <2>1. PICK f : /\ f[1] = seqs[1] /\ FlattenSeq(seqs) = f[n]
                   /\ \A i \in Nat : 0 < i /\ i < n => f[i + 1] = f[i] \o seqs[i + 1]
      BY <1>1, <1>5, FlattenSteps, Zenon
    <2> DEFINE T == {k \in Nat : 0 < k /\ k <= n => f[k] = g[k]}
    <2>2. 0 \in T
      OBVIOUS
    <2>3. ASSUME NEW k \in Nat, k \in T PROVE k + 1 \in T
      <3>1. CASE k = 0
        <4>1. k + 1 = 1 /\ 1 \in 1..n
          BY <1>1, <1>5, <3>1
        <4>2. f[1] = g[1]
          BY <1>2, <1>3, <2>1, <4>1, Zenon
        <4> QED BY <4>1, <4>2
      <3>2. CASE k > 0 /\ k < n
        <4>1. k + 1 \in 1..n /\ f[k] = g[k] /\ k < n + 1
          BY <1>1, <2>3, <3>2
        <4>2. f[k + 1] = f[k] \o seqs[k + 1]
          BY <2>1, <3>2
        <4>3. g[k + 1] = g[k] \o t[k + 1]
          BY <1>3, <3>2, <4>1
        <4>4. f[k + 1] = g[k + 1]
          BY <1>2, <4>1, <4>2, <4>3, Zenon
        <4> QED BY <4>4
      <3>3. CASE k > 0 /\ ~(k < n)
        BY <1>1, <3>3
      <3> QED BY <1>1, <3>1, <3>2, <3>3
    <2>4. Nat \subseteq T
      <3> HIDE DEF T
      <3> QED BY <2>2, <2>3, Induction
    <2>5. f[n] = g[n]
      <3>1. n \in T /\ 0 < n /\ n <= n
        BY <1>1, <1>5, <2>4
      <3> QED BY <3>1, Zenon
    <2>6. g[n + 1] = g[n] \o t[n + 1]
      <3>1. n \in Nat /\ 0 < n /\ n < n + 1
        BY <1>1, <1>5
      <3> QED BY <1>3, <3>1, Zenon
    <2>7. FlattenSeq(t) = FlattenSeq(seqs) \o s
      BY <1>2, <1>3, <2>1, <2>5, <2>6, Zenon
    <2> QED BY <2>7 DEF t
  <1> QED BY <1>4, <1>5

-----------------------------------------------------------------------------
(***************************************************************************)
(* Texts: what Split, Cut and SubSeq make of them.                         *)
(***************************************************************************)
Tokens(s) == {s[i] : i \in 1..Len(s)}

\* Chunks of tokens in E, without the separator.
Chunked(chunks, E, sep) ==
    /\ IsSeq(chunks) /\ Len(chunks) > 0
    /\ \A i \in 1..Len(chunks) : /\ IsSeq(chunks[i])
                                 /\ Tokens(chunks[i]) \subseteq E \ {sep}

LEMMA NoTokens == Tokens(<<>>) = {}
  BY EmptyIsSeq DEF Tokens

LEMMA AppendTokens ==
  ASSUME NEW s, IsSeq(s), NEW e
  PROVE  Tokens(Append(s, e)) = Tokens(s) \cup {e}
  <1>1. /\ Len(Append(s, e)) = Len(s) + 1 /\ Append(s, e)[Len(s) + 1] = e
        /\ \A i \in 1..Len(s) : Append(s, e)[i] = s[i]
    BY AppendSeq
  <1>2. Len(s) \in Nat
    BY DEF IsSeq
  <1> DEFINE t == Append(s, e)
  <1> HIDE DEF t
  <1>3. ASSUME NEW x \in Tokens(t) PROVE x \in Tokens(s) \cup {e}
    <2>1. PICK i \in 1..Len(s) + 1 : x = t[i]
      BY <1>1 DEF Tokens, t
    <2> QED BY <1>1, <1>2, <2>1 DEF Tokens, t
  <1>4. ASSUME NEW x \in Tokens(s) \cup {e} PROVE x \in Tokens(t)
    <2>1. CASE x = e
      BY <1>1, <1>2, <2>1 DEF Tokens, t
    <2>2. CASE x \in Tokens(s)
      <3>1. PICK i \in 1..Len(s) : x = s[i]
        BY <2>2 DEF Tokens
      <3>2. i \in 1..Len(t) /\ t[i] = x
        BY <1>1, <1>2, <3>1 DEF t
      <3> QED BY <3>2 DEF Tokens
    <2> QED BY <2>1, <2>2
  <1> QED BY <1>3, <1>4 DEF t

LEMMA ConcatTokens ==
  ASSUME NEW s, IsSeq(s), NEW t, IsSeq(t)
  PROVE  Tokens(s \o t) \subseteq Tokens(s) \cup Tokens(t)
  <1> DEFINE u == s \o t
  <1>1. /\ Len(u) = Len(s) + Len(t)
        /\ \A i \in 1..Len(u) : u[i] = IF i <= Len(s) THEN s[i] ELSE t[i - Len(s)]
    BY ConcatSeq
  <1>2. Len(s) \in Nat /\ Len(t) \in Nat
    BY DEF IsSeq
  <1> HIDE DEF u
  <1>3. ASSUME NEW x \in Tokens(u) PROVE x \in Tokens(s) \cup Tokens(t)
    <2>1. PICK i \in 1..Len(u) : x = u[i]
      BY DEF Tokens
    <2>2. CASE i <= Len(s)
      BY <1>1, <1>2, <2>1, <2>2 DEF Tokens
    <2>3. CASE ~(i <= Len(s))
      <3>1. i - Len(s) \in 1..Len(t) /\ x = t[i - Len(s)]
        BY <1>1, <1>2, <2>1, <2>3
      <3> QED BY <3>1 DEF Tokens
    <2> QED BY <2>2, <2>3
  <1> QED BY <1>3 DEF u

LEMMA SubTokens ==
  ASSUME NEW s, IsSeq(s), NEW m \in 1..Len(s) + 1, NEW n \in m - 1..Len(s)
  PROVE  Tokens(SubSeq(s, m, n)) \subseteq Tokens(s)
  <1> DEFINE t == SubSeq(s, m, n)
  <1>1. Len(t) = n - m + 1 /\ \A i \in 1..n - m + 1 : t[i] = s[m + i - 1]
    BY SubIsSeq
  <1>2. Len(s) \in Nat
    BY DEF IsSeq
  <1> HIDE DEF t
  <1>3. ASSUME NEW x \in Tokens(t) PROVE x \in Tokens(s)
    <2>1. PICK i \in 1..n - m + 1 : x = t[i]
      BY <1>1 DEF Tokens
    <2>2. m + i - 1 \in 1..Len(s) /\ x = s[m + i - 1]
      BY <1>1, <1>2, <2>1
    <2> QED BY <2>2 DEF Tokens
  <1> QED BY <1>3 DEF t

LEMMA SplitOneChunks ==
  ASSUME NEW E, NEW sep, NEW chunks, Chunked(chunks, E, sep), NEW t \in E
  PROVE  Chunked(SplitOne(chunks, t, sep), E, sep)
  <1>1. IsSeq(chunks) /\ Len(chunks) \in Nat /\ Len(chunks) > 0
    BY DEF Chunked, IsSeq
  <1>2. CASE t = sep
    <2>1. /\ IsSeq(Append(chunks, <<>>)) /\ Len(Append(chunks, <<>>)) = Len(chunks) + 1
          /\ \A i \in 1..Len(chunks) : Append(chunks, <<>>)[i] = chunks[i]
          /\ Append(chunks, <<>>)[Len(chunks) + 1] = <<>>
      BY <1>1, AppendSeq
    <2> DEFINE after == Append(chunks, <<>>)
    <2> HIDE DEF after
    <2>2. ASSUME NEW i \in 1..Len(after)
          PROVE  IsSeq(after[i]) /\ Tokens(after[i]) \subseteq E \ {sep}
      <3>1. CASE i \in 1..Len(chunks)
        BY <2>1, <3>1 DEF Chunked, after
      <3>2. CASE i = Len(chunks) + 1
        BY <2>1, <3>2, EmptyIsSeq, NoTokens DEF after
      <3> QED BY <1>1, <2>1, <3>1, <3>2 DEF after
    <2>3. IsSeq(after) /\ Len(after) > 0
      BY <1>1, <2>1 DEF after
    <2>4. SplitOne(chunks, t, sep) = after
      BY <1>2 DEF SplitOne, after
    <2> QED BY <2>2, <2>3, <2>4 DEF Chunked
  <1>3. CASE t # sep
    <2> DEFINE front == Front(chunks)
               last  == Append(chunks[Len(chunks)], t)
               after == Append(front, last)
    <2>1. /\ IsSeq(front) /\ Len(front) = Len(chunks) - 1
          /\ \A i \in 1..Len(chunks) - 1 : front[i] = chunks[i]
      <3>1. 1 \in 1..Len(chunks) + 1 /\ Len(chunks) - 1 \in 1 - 1..Len(chunks)
        BY <1>1
      <3>2. /\ IsSeq(SubSeq(chunks, 1, Len(chunks) - 1))
            /\ Len(SubSeq(chunks, 1, Len(chunks) - 1)) = Len(chunks) - 1 - 1 + 1
            /\ \A i \in 1..Len(chunks) - 1 - 1 + 1 :
                  SubSeq(chunks, 1, Len(chunks) - 1)[i] = chunks[1 + i - 1]
        BY <1>1, <3>1, SubIsSeq
      <3>3. Len(chunks) - 1 - 1 + 1 = Len(chunks) - 1
        BY <1>1
      <3>4. \A i \in 1..Len(chunks) - 1 : SubSeq(chunks, 1, Len(chunks) - 1)[i] = chunks[i]
        BY <3>2, <3>3
      <3> QED BY <3>2, <3>3, <3>4 DEF Front
    <2>2. IsSeq(last) /\ Tokens(last) \subseteq E \ {sep}
      <3>1. IsSeq(chunks[Len(chunks)]) /\ Tokens(chunks[Len(chunks)]) \subseteq E \ {sep}
        BY <1>1 DEF Chunked
      <3> QED BY <1>3, <3>1, AppendSeq, AppendTokens
    <2> HIDE DEF front, last
    <2>3. /\ IsSeq(after) /\ Len(after) = Len(front) + 1 /\ after[Len(front) + 1] = last
          /\ \A i \in 1..Len(front) : after[i] = front[i]
      BY <2>1, AppendSeq
    <2> HIDE DEF after
    <2>4. ASSUME NEW i \in 1..Len(after)
          PROVE  IsSeq(after[i]) /\ Tokens(after[i]) \subseteq E \ {sep}
      <3>1. CASE i \in 1..Len(chunks) - 1
        <4>1. after[i] = chunks[i] /\ i \in 1..Len(chunks)
          BY <1>1, <2>1, <2>3, <3>1
        <4> QED BY <4>1 DEF Chunked
      <3>2. CASE i = Len(chunks)
        <4>1. after[i] = last
          BY <1>1, <2>1, <2>3, <3>2
        <4> QED BY <2>2, <4>1
      <3> QED BY <1>1, <2>1, <2>3, <3>1, <3>2
    <2>5. IsSeq(after) /\ Len(after) > 0
      BY <1>1, <2>1, <2>3
    <2>6. SplitOne(chunks, t, sep) = after
      BY <1>3 DEF SplitOne, after, front, last, Last
    <2> QED BY <2>4, <2>5, <2>6 DEF Chunked
  <1> QED BY <1>2, <1>3

LEMMA SplitChunks ==
  ASSUME NEW text, IsSeq(text), NEW sep
  PROVE  Chunked(Split(text, sep), Tokens(text), sep)
  <1>1. Len(text) \in Nat
    BY DEF IsSeq
  <1>2. PICK f : /\ f[0] = << <<>> >> /\ Split(text, sep) = f[Len(text)]
                 /\ \A i \in 1..Len(text) : f[i] = SplitOne(f[i - 1], text[i], sep)
    BY <1>1, SplitSteps
  <1> DEFINE T == {k \in Nat : k <= Len(text) => Chunked(f[k], Tokens(text), sep)}
  <1>3. 0 \in T
    <2> DEFINE s == << <<>> >>
    <2>1. IsSeq(s) /\ Len(s) = 1 /\ s[1] = <<>>
      BY OneSeq
    <2> HIDE DEF s
    <2>2. Chunked(s, Tokens(text), sep)
      BY <2>1, EmptyIsSeq, NoTokens DEF Chunked
    <2> QED BY <1>2, <2>2 DEF s
  <1>4. ASSUME NEW k \in Nat, k \in T PROVE k + 1 \in T
    <2>1. CASE k + 1 <= Len(text)
      <3>1. k + 1 \in 1..Len(text) /\ k + 1 - 1 = k /\ Chunked(f[k], Tokens(text), sep)
        BY <1>1, <1>4, <2>1
      <3>2. f[k + 1] = SplitOne(f[k], text[k + 1], sep) /\ text[k + 1] \in Tokens(text)
        BY <1>2, <3>1 DEF Tokens
      <3>3. Chunked(f[k + 1], Tokens(text), sep)
        BY <3>1, <3>2, SplitOneChunks
      <3> QED BY <3>3
    <2>2. CASE ~(k + 1 <= Len(text))
      BY <2>2
    <2> QED BY <2>1, <2>2
  <1>5. Nat \subseteq T
    <2> HIDE DEF T
    <2> QED BY <1>3, <1>4, Induction
  <1> QED BY <1>1, <1>2, <1>5

\* Cut gives two sequences, from the tokens of the text.
LEMMA CutTexts ==
  ASSUME NEW text, IsSeq(text), NEW sep
  PROVE  LET c == Cut(text, sep)
         IN  /\ IsSeq(c.before) /\ IsSeq(c.after)
             /\ Tokens(c.before) \subseteq Tokens(text) /\ Tokens(c.after) \subseteq Tokens(text)
  <1> DEFINE I == {i \in 1..Len(text) : text[i] = sep}
             first == IF I # {} THEN Min(I) ELSE 0
  <1>1. Len(text) \in Nat
    BY DEF IsSeq
  <1>2. CASE I = {}
    <2>1. Cut(text, sep) = [before |-> text, after |-> <<>>, found |-> FALSE]
      BY <1>2 DEF Cut, SelectInSeq
    <2> QED BY <2>1, EmptyIsSeq, NoTokens
  <1>3. CASE I # {}
    <2>1. Min(I) \in I
      <3>1. PICK x \in I : \A y \in I : x <= y
        <4>1. I \subseteq Nat
          BY <1>1
        <4> HIDE DEF I
        <4> QED BY <1>3, <4>1, LeastNumber
      <3> QED BY <3>1 DEF Min
    <2>2. first \in 1..Len(text)
      BY <1>3, <2>1
    <2>3. Cut(text, sep) = [before |-> SubSeq(text, 1, first - 1),
                            after |-> SubSeq(text, first + 1, Len(text)), found |-> TRUE]
      <3>1. SelectInSeq(text, LAMBDA t : t = sep) = first
        BY DEF SelectInSeq
      <3> HIDE DEF first
      <3>2. first # 0
        BY <2>2
      <3> QED BY <3>1, <3>2 DEF Cut
    <2> HIDE DEF first
    <2>4. /\ 1 \in 1..Len(text) + 1 /\ first - 1 \in 1 - 1..Len(text)
          /\ first + 1 \in 1..Len(text) + 1 /\ Len(text) \in first + 1 - 1..Len(text)
      BY <1>1, <2>2
    <2>5. /\ IsSeq(SubSeq(text, 1, first - 1)) /\ IsSeq(SubSeq(text, first + 1, Len(text)))
          /\ Tokens(SubSeq(text, 1, first - 1)) \subseteq Tokens(text)
          /\ Tokens(SubSeq(text, first + 1, Len(text))) \subseteq Tokens(text)
      BY <2>4, SubIsSeq, SubTokens
    <2> QED BY <2>3, <2>5
  <1> QED BY <1>2, <1>3

\* Texts that came from the command line.
Known           == Chars \cup {"<nil>"}
IsKnown(text)   == IsSeq(text) /\ Tokens(text) \subseteq Known
AreKnown(texts) == IsSeq(texts) /\ \A i \in 1..Len(texts) : IsKnown(texts[i])

LEMMA TextIsKnown ==
  ASSUME NEW text \in Texts
  PROVE  IsKnown(text)
  <1>1. text \in Seq(Chars)
    BY DEF Texts
  <1>2. IsSeq(text)
    BY <1>1, TypedSeq
  <1>3. \A i \in 1..Len(text) : text[i] \in Chars
    BY <1>1
  <1> QED BY <1>2, <1>3 DEF IsKnown, Known, Tokens

LEMMA EmptyIsKnown == IsKnown(<<>>)
  BY EmptyIsSeq, NoTokens DEF IsKnown

LEMMA CutKnown ==
  ASSUME NEW text, IsKnown(text), NEW sep
  PROVE  IsKnown(Cut(text, sep).before) /\ IsKnown(Cut(text, sep).after)
  BY CutTexts DEF IsKnown

LEMMA SubKnown ==
  ASSUME NEW s, IsKnown(s), NEW m \in 1..Len(s) + 1, NEW n \in m - 1..Len(s)
  PROVE  IsKnown(SubSeq(s, m, n))
  BY SubIsSeq, SubTokens DEF IsKnown

LEMMA ChunksAreKnown ==
  ASSUME NEW text, IsKnown(text), NEW sep
  PROVE  AreKnown(Split(text, sep))
  BY SplitChunks DEF Chunked, AreKnown, IsKnown

-----------------------------------------------------------------------------
(***************************************************************************)
(* Values                                                                  *)
(***************************************************************************)
IsItem(x) == x = [key |-> x.key, val |-> x.val] /\ IsKnown(x.key) /\ IsKnown(x.val)
AreItems(s) == IsSeq(s) /\ \A i \in 1..Len(s) : IsItem(s[i])

Kinds == {"string", "array", "map"}

IsValue(v) ==
    /\ v = [kind |-> v.kind, items |-> v.items]
    /\ v.kind \in Kinds \cup {"other", "nil"} /\ AreItems(v.items)
    /\ v.kind \in {"string", "other"} => Len(v.items) = 1

\* The variables of an expander or a resolver.
AreValues(vs) == \A name \in DOMAIN vs : IsValue(vs[name]) /\ vs[name].kind \in Kinds

LEMMA ItemIsItem ==
  ASSUME NEW key, NEW val, IsKnown(key), IsKnown(val)
  PROVE  IsItem(Item(key, val))
  BY DEF IsItem, Item

LEMMA NoItems == AreItems(<<>>)
  BY EmptyIsSeq DEF AreItems

LEMMA AppendItems ==
  ASSUME NEW s, AreItems(s), NEW x, IsItem(x)
  PROVE  AreItems(Append(s, x))
  <1>1. IsSeq(s) /\ Len(s) \in Nat
    BY DEF AreItems, IsSeq
  <1>2. /\ IsSeq(Append(s, x)) /\ Len(Append(s, x)) = Len(s) + 1
        /\ \A i \in 1..Len(s) : Append(s, x)[i] = s[i]
        /\ Append(s, x)[Len(s) + 1] = x
    BY <1>1, AppendSeq
  <1> DEFINE t == Append(s, x)
  <1> HIDE DEF t
  <1>3. ASSUME NEW i \in 1..Len(t) PROVE IsItem(t[i])
    <2>1. CASE i \in 1..Len(s)
      BY <1>2, <2>1 DEF AreItems, t
    <2>2. CASE i = Len(s) + 1
      BY <1>2, <2>2 DEF t
    <2> QED BY <1>1, <1>2, <2>1, <2>2 DEF t
  <1> QED BY <1>2, <1>3 DEF AreItems, t

LEMMA ConcatItems ==
  ASSUME NEW s, AreItems(s), NEW t, AreItems(t)
  PROVE  AreItems(s \o t)
  <1> DEFINE u == s \o t
  <1>1. IsSeq(s) /\ Len(s) \in Nat /\ IsSeq(t) /\ Len(t) \in Nat
    BY DEF AreItems, IsSeq
  <1>2. /\ IsSeq(u) /\ Len(u) = Len(s) + Len(t)
        /\ \A i \in 1..Len(u) : u[i] = IF i <= Len(s) THEN s[i] ELSE t[i - Len(s)]
    BY <1>1, ConcatSeq
  <1> HIDE DEF u
  <1>3. ASSUME NEW i \in 1..Len(u) PROVE IsItem(u[i])
    <2>1. CASE i <= Len(s)
      BY <1>1, <1>2, <2>1 DEF AreItems
    <2>2. CASE ~(i <= Len(s))
      <3>1. i - Len(s) \in 1..Len(t) /\ u[i] = t[i - Len(s)]
        BY <1>1, <1>2, <2>2
      <3> QED BY <3>1 DEF AreItems
    <2> QED BY <2>1, <2>2
  <1> QED BY <1>2, <1>3 DEF AreItems, u

LEMMA OneItem ==
  ASSUME NEW x, IsItem(x)
  PROVE  AreItems(<<x>>) /\ Len(<<x>>) = 1
  <1> DEFINE s == <<x>>
  <1>1. IsSeq(s) /\ Len(s) = 1 /\ s[1] = x
    BY OneSeq
  <1> HIDE DEF s
  <1> QED BY <1>1 DEF AreItems, s

LEMMA MapItems ==
  ASSUME NEW n \in Nat, NEW s, s = [i \in 1..n |-> s[i]], \A i \in 1..n : IsItem(s[i])
  PROVE  AreItems(s) /\ Len(s) = n
  BY FunSeq DEF AreItems

LEMMA StringIsValue ==
  ASSUME NEW text, IsKnown(text)
  PROVE  IsValue(String(text)) /\ String(text).kind = "string"
  <1>1. IsItem(Item(<<>>, text))
    BY ItemIsItem, EmptyIsKnown
  <1>2. AreItems(<<Item(<<>>, text)>>) /\ Len(<<Item(<<>>, text)>>) = 1
    BY <1>1, OneItem
  <1> QED BY <1>2 DEF String, IsValue, Kinds

LEMMA ArrayIsValue ==
  ASSUME NEW texts, AreKnown(texts)
  PROVE  IsValue(Array(texts)) /\ Array(texts).kind = "array"
  <1> DEFINE items == [i \in DOMAIN texts |-> Item(<<>>, texts[i])]
  <1>1. DOMAIN texts = 1..Len(texts) /\ Len(texts) \in Nat
    BY SeqDomain DEF AreKnown
  <1>2. items = [i \in 1..Len(texts) |-> items[i]]
    BY <1>1
  <1>3. ASSUME NEW i \in 1..Len(texts) PROVE IsItem(items[i])
    BY <1>1, ItemIsItem, EmptyIsKnown DEF AreKnown
  <1>4. Array(texts) = [kind |-> "array", items |-> items]
    BY DEF Array
  <1> HIDE DEF items
  <1>5. AreItems(items)
    BY <1>1, <1>2, <1>3, MapItems
  <1> QED BY <1>4, <1>5 DEF IsValue, Kinds

LEMMA CopyItemKeeps ==
  ASSUME NEW s, AreItems(s), NEW x, IsItem(x)
  PROVE  AreItems(CopyItem(s, x))
  <1> DEFINE i == SelectInSeq(s, LAMBDA old : old.key = x.key)
  <1>1. CASE i = 0
    <2>1. CopyItem(s, x) = Append(s, x)
      BY <1>1 DEF CopyItem
    <2> QED BY <2>1, AppendItems
  <1>2. CASE i # 0
    <2> DEFINE t == [s EXCEPT ![i] = x]
    <2>1. CopyItem(s, x) = t
      BY <1>2 DEF CopyItem
    <2>2. DOMAIN s = 1..Len(s) /\ Len(s) \in Nat
      BY SeqDomain DEF AreItems
    <2> HIDE DEF i
    <2>3. t = [j \in 1..Len(s) |-> t[j]] /\ \A j \in 1..Len(s) : t[j] = IF j = i THEN x ELSE s[j]
      BY <2>2
    <2>4. \A j \in 1..Len(s) : IsItem(t[j])
      BY <2>3 DEF AreItems
    <2> HIDE DEF t
    <2>5. AreItems(t)
      BY <2>2, <2>3, <2>4, MapItems
    <2> QED BY <2>1, <2>5
  <1> QED BY <1>1, <1>2

LEMMA CopyItemsKeeps ==
  ASSUME NEW s, AreItems(s), NEW more, AreItems(more)
  PROVE  AreItems(CopyItems(s, more))
  <1>1. Len(more) \in Nat
    BY DEF AreItems, IsSeq
  <1>2. PICK f : /\ f[0] = s /\ CopyItems(s, more) = f[Len(more)]
                 /\ \A i \in 1..Len(more) : f[i] = CopyItem(f[i - 1], more[i])
    BY <1>1, CopyItemsSteps
  <1> DEFINE T == {k \in Nat : k <= Len(more) => AreItems(f[k])}
  <1>3. 0 \in T
    BY <1>2
  <1>4. ASSUME NEW k \in Nat, k \in T PROVE k + 1 \in T
    <2>1. CASE k + 1 <= Len(more)
      <3>1. k + 1 \in 1..Len(more) /\ k + 1 - 1 = k /\ AreItems(f[k])
        BY <1>1, <1>4, <2>1
      <3>2. f[k + 1] = CopyItem(f[k], more[k + 1]) /\ IsItem(more[k + 1])
        BY <1>2, <3>1 DEF AreItems
      <3>3. AreItems(f[k + 1])
        BY <3>1, <3>2, CopyItemKeeps
      <3> QED BY <3>3
    <2>2. CASE ~(k + 1 <= Len(more))
      BY <2>2
    <2> QED BY <2>1, <2>2
  <1>5. Nat \subseteq T
    <2> HIDE DEF T
    <2> QED BY <1>3, <1>4, Induction
  <1> QED BY <1>1, <1>2, <1>5

-----------------------------------------------------------------------------
(***************************************************************************)
(* One more value for a variable                                           *)
(***************************************************************************)
\* What name has after SetHelper, where it had something or not.
Merged(vs, name, v, new) ==
    /\ v.kind = "string" => new = v
    /\ v.kind = "array" =>
          IF name \notin DOMAIN vs THEN new = v
          ELSE IF vs[name].kind = "map" THEN new.kind = "map"
          ELSE new.kind = "array" /\ new.items = vs[name].items \o v.items
    /\ v.kind = "map" =>
          IF name \notin DOMAIN vs THEN new = v
          ELSE IF vs[name].kind = "map" THEN new.kind = "map" ELSE new = vs[name]

LEMMA SetHelperMerges ==
  ASSUME NEW vs, AreValues(vs), NEW name, NEW v, IsValue(v), v.kind \in Kinds
  PROVE  LET after == SetHelper(vs, name, v)
         IN  /\ DOMAIN after = DOMAIN vs \cup {name} /\ AreValues(after)
             /\ \A n \in DOMAIN vs \ {name} : after[n] = vs[n]
             /\ Merged(vs, name, v, after[name])
  <1> DEFINE after == SetHelper(vs, name, v)
             Result == /\ DOMAIN after = DOMAIN vs \cup {name}
                       /\ \A n \in DOMAIN vs \ {name} : after[n] = vs[n]
                       /\ IsValue(after[name]) /\ after[name].kind \in Kinds
                       /\ Merged(vs, name, v, after[name])
  <1> SUFFICES Result
    <2> HIDE DEF after
    <2>1. SUFFICES ASSUME Result PROVE AreValues(after)
      BY Zenon DEF after
    <2> SUFFICES ASSUME NEW n \in DOMAIN after
                 PROVE  IsValue(after[n]) /\ after[n].kind \in Kinds
      BY DEF AreValues
    <2>2. CASE n = name
      BY <2>1, <2>2
    <2>3. CASE n # name
      BY <2>1, <2>3 DEF AreValues
    <2> QED BY <2>2, <2>3
  <1>1. CASE v.kind = "string" \/ (v.kind \in {"array", "map"} /\ name \notin DOMAIN vs)
    <2>1. after = SetStringHelper(vs, name, v)
      BY <1>1 DEF SetHelper, SetArrayHelper, SetMapHelper, MapApplies
    <2>2. Result
      <3> DEFINE t == SetStringHelper(vs, name, v)
      <3>1. /\ DOMAIN t = DOMAIN vs \cup {name} /\ t[name] = v
            /\ \A n \in DOMAIN vs \ {name} : t[n] = vs[n]
        BY DEF SetStringHelper
      <3> HIDE DEF after, t
      <3>2. after = t
        BY <2>1 DEF t
      <3>3. /\ DOMAIN after = DOMAIN vs \cup {name} /\ after[name] = v
            /\ \A n \in DOMAIN vs \ {name} : after[n] = vs[n]
        BY <3>1, <3>2
      <3> QED BY <1>1, <3>3 DEF Merged
    <2> QED BY <2>2
  <1>2. CASE v.kind = "array" /\ name \in DOMAIN vs /\ vs[name].kind = "map"
    <2> DEFINE keys == [i \in DOMAIN v.items |-> Item(v.items[i].val, <<>>)]
               old  == vs[name]
               new  == [old EXCEPT !.items = CopyItems(@, keys)]
    <2>1. after = [vs EXCEPT ![name].items = CopyItems(@, keys)]
      BY <1>2 DEF SetHelper, SetArrayHelper
    <2>2. AreItems(keys)
      <3>1. DOMAIN v.items = 1..Len(v.items) /\ Len(v.items) \in Nat
        BY SeqDomain DEF IsValue, AreItems
      <3>2. keys = [i \in 1..Len(v.items) |-> keys[i]]
        BY <3>1
      <3>3. ASSUME NEW i \in 1..Len(v.items) PROVE IsItem(keys[i])
        <4>1. IsKnown(v.items[i].val)
          BY DEF IsValue, AreItems, IsItem
        <4> QED BY <3>1, <4>1, ItemIsItem, EmptyIsKnown
      <3> HIDE DEF keys
      <3> QED BY <3>1, <3>2, <3>3, MapItems
    <2> HIDE DEF keys
    <2>3. old = [kind |-> "map", items |-> old.items] /\ AreItems(old.items)
      BY <1>2 DEF AreValues, IsValue
    <2>4. AreItems(CopyItems(old.items, keys))
      BY <2>2, <2>3, CopyItemsKeeps
    <2>5. new = [kind |-> "map", items |-> CopyItems(old.items, keys)]
      <3> HIDE DEF old
      <3> QED BY <2>3
    <2>6. /\ DOMAIN after = DOMAIN vs \cup {name} /\ after[name] = new
          /\ \A n \in DOMAIN vs \ {name} : after[n] = vs[n]
      <3> HIDE DEF after
      <3> QED BY <1>2, <2>1
    <2> HIDE DEF old, new, after
    <2>7. IsValue(after[name]) /\ after[name].kind = "map"
      BY <2>4, <2>5, <2>6 DEF IsValue, Kinds
    <2>8. Merged(vs, name, v, after[name])
      BY <1>2, <2>7 DEF Merged
    <2> QED BY <2>6, <2>7, <2>8 DEF Kinds
  <1>3. CASE v.kind = "array" /\ name \in DOMAIN vs /\ vs[name].kind # "map"
    <2> DEFINE items == vs[name].items \o v.items
               new   == [kind |-> "array", items |-> items]
    <2>1. after = [vs EXCEPT ![name] = new]
      BY <1>3 DEF SetHelper, SetArrayHelper
    <2>2. AreItems(vs[name].items \o v.items)
      BY <1>3, ConcatItems DEF AreValues, IsValue
    <2> HIDE DEF after, items
    <2>3. /\ DOMAIN after = DOMAIN vs \cup {name} /\ after[name] = new
          /\ \A n \in DOMAIN vs \ {name} : after[n] = vs[n]
      BY <1>3, <2>1
    <2>4. IsValue(after[name]) /\ after[name].kind \in Kinds
      BY <2>2, <2>3 DEF IsValue, Kinds, items
    <2>5. /\ v.kind = "array" /\ name \in DOMAIN vs /\ vs[name].kind # "map"
          /\ after[name].kind = "array" /\ after[name].items = items
      BY <1>3, <2>3
    <2>6. Merged(vs, name, v, after[name])
      <3> HIDE DEF new
      <3> QED BY <2>5, Zenon DEF Merged, items
    <2> HIDE DEF new
    <2> QED BY <2>3, <2>4, <2>6
  <1>4. CASE v.kind = "map" /\ name \in DOMAIN vs /\ vs[name].kind = "map"
    <2> DEFINE old  == vs[name]
               new  == [old EXCEPT !.items = CopyItems(@, v.items)]
    <2>1. after = [vs EXCEPT ![name].items = CopyItems(@, v.items)]
      BY <1>4 DEF SetHelper, SetMapHelper, MapApplies
    <2>2. AreItems(v.items)
      BY DEF IsValue
    <2>3. old = [kind |-> "map", items |-> old.items] /\ AreItems(old.items)
      BY <1>4 DEF AreValues, IsValue
    <2>4. AreItems(CopyItems(old.items, v.items))
      BY <2>2, <2>3, CopyItemsKeeps
    <2>5. new = [kind |-> "map", items |-> CopyItems(old.items, v.items)]
      <3> HIDE DEF old
      <3> QED BY <2>3
    <2>6. /\ DOMAIN after = DOMAIN vs \cup {name} /\ after[name] = new
          /\ \A n \in DOMAIN vs \ {name} : after[n] = vs[n]
      <3> HIDE DEF after
      <3> QED BY <1>4, <2>1
    <2> HIDE DEF old, new, after
    <2>7. IsValue(after[name]) /\ after[name].kind = "map"
      BY <2>4, <2>5, <2>6 DEF IsValue, Kinds
    <2>8. Merged(vs, name, v, after[name])
      BY <1>4, <2>7 DEF Merged
    <2> QED BY <2>6, <2>7, <2>8 DEF Kinds
  <1>5. CASE v.kind = "map" /\ name \in DOMAIN vs /\ vs[name].kind # "map"
    <2>1. after = vs
      BY <1>5 DEF SetHelper, SetMapHelper, MapApplies
    <2> HIDE DEF after
    <2>2. Merged(vs, name, v, after[name])
      BY <1>5, <2>1 DEF Merged
    <2> QED BY <1>5, <2>1, <2>2 DEF AreValues
  <1> QED BY <1>1, <1>2, <1>3, <1>4, <1>5 DEF Kinds

-----------------------------------------------------------------------------
(***************************************************************************)
(* What was given for a variable                                           *)
(***************************************************************************)
LEMMA NoEvents == \A name : EventsOf(<<>>, name) = <<>>
  <1> SUFFICES ASSUME NEW name PROVE EventsOf(<<>>, name) = <<>>
    OBVIOUS
  <1> DEFINE none == <<>>
  <1>1. Len(none) \in Nat /\ Len(none) = 0
    BY EmptyIsSeq
  <1>2. PICK f : f[0] = <<>> /\ EventsOf(none, name) = f[Len(none)]
    BY <1>1, EventsOfSteps, Zenon
  <1> QED BY <1>1, <1>2

LEMMA EventsAppend ==
  ASSUME NEW history, IsSeq(history), NEW e, NEW name
  PROVE  EventsOf(Append(history, e), name) = EventOne(EventsOf(history, name), e, name)
  <1> DEFINE n == Len(history)
             t == Append(history, e)
  <1>1. n \in Nat /\ n + 1 \in Nat
    BY DEF IsSeq
  <1>2. Len(t) = n + 1 /\ t[n + 1] = e /\ \A i \in 1..n : t[i] = history[i]
    BY AppendSeq
  <1> HIDE DEF t
  <1>3. PICK f : /\ f[0] = <<>> /\ EventsOf(history, name) = f[n]
                 /\ \A i \in 1..n : f[i] = EventOne(f[i - 1], history[i], name)
    BY <1>1, EventsOfSteps
  <1>4. PICK g : /\ g[0] = <<>> /\ EventsOf(t, name) = g[n + 1]
                 /\ \A i \in 1..n + 1 : g[i] = EventOne(g[i - 1], t[i], name)
    <2>1. \E g : /\ g[0] = <<>> /\ EventsOf(t, name) = g[Len(t)]
                 /\ \A i \in 1..Len(t) : g[i] = EventOne(g[i - 1], t[i], name)
      <3>1. Len(t) \in Nat
        BY <1>1, <1>2
      <3> QED BY <3>1, EventsOfSteps, Zenon
    <2> QED BY <1>2, <2>1, Zenon
  <1> DEFINE T == {k \in Nat : k <= n => f[k] = g[k]}
  <1>5. 0 \in T
    BY <1>3, <1>4
  <1>6. ASSUME NEW k \in Nat, k \in T PROVE k + 1 \in T
    <2>1. CASE k + 1 <= n
      <3>1. k + 1 \in 1..n /\ k + 1 \in 1..n + 1 /\ k + 1 - 1 = k /\ f[k] = g[k]
        BY <1>1, <1>6, <2>1
      <3>2. f[k + 1] = EventOne(f[k], history[k + 1], name)
        BY <1>3, <3>1
      <3>3. g[k + 1] = EventOne(g[k], t[k + 1], name)
        BY <1>4, <3>1
      <3>4. f[k + 1] = g[k + 1]
        BY <1>2, <3>1, <3>2, <3>3
      <3> QED BY <3>4
    <2>2. CASE ~(k + 1 <= n)
      BY <2>2
    <2> QED BY <2>1, <2>2
  <1>7. Nat \subseteq T
    <2> HIDE DEF T
    <2> QED BY <1>5, <1>6, Induction
  <1>8. f[n] = g[n]
    BY <1>1, <1>7
  <1>9. g[n + 1] = EventOne(g[n], t[n + 1], name)
    <2>1. n + 1 \in 1..n + 1 /\ n + 1 - 1 = n
      BY <1>1
    <2> QED BY <1>4, <2>1
  <1>10. EventsOf(t, name) = EventOne(EventsOf(history, name), e, name)
    BY <1>2, <1>3, <1>4, <1>8, <1>9, Zenon
  <1> QED BY <1>10 DEF t

\* Everything given has a value.
AreEvents(s) == IsSeq(s) /\ \A i \in 1..Len(s) : IsValue(s[i].val)

LEMMA AppendEvents ==
  ASSUME NEW s, AreEvents(s), NEW e, IsValue(e.val)
  PROVE  AreEvents(Append(s, e))
  <1>1. IsSeq(s) /\ Len(s) \in Nat
    BY DEF AreEvents, IsSeq
  <1>2. /\ IsSeq(Append(s, e)) /\ Len(Append(s, e)) = Len(s) + 1
        /\ \A i \in 1..Len(s) : Append(s, e)[i] = s[i]
        /\ Append(s, e)[Len(s) + 1] = e
    BY <1>1, AppendSeq
  <1> DEFINE t == Append(s, e)
  <1> HIDE DEF t
  <1>3. ASSUME NEW i \in 1..Len(t) PROVE IsValue(t[i].val)
    <2>1. CASE i \in 1..Len(s)
      BY <1>2, <2>1 DEF AreEvents, t
    <2>2. CASE i = Len(s) + 1
      BY <1>2, <2>2 DEF t
    <2> QED BY <1>1, <1>2, <2>1, <2>2 DEF t
  <1> QED BY <1>2, <1>3 DEF AreEvents, t

LEMMA EventsAreEvents ==
  ASSUME NEW history, AreEvents(history), NEW name
  PROVE  AreEvents(EventsOf(history, name))
  <1> DEFINE n == Len(history)
  <1>1. n \in Nat
    BY DEF AreEvents, IsSeq
  <1>2. PICK f : /\ f[0] = <<>> /\ EventsOf(history, name) = f[n]
                 /\ \A i \in 1..n : f[i] = EventOne(f[i - 1], history[i], name)
    BY <1>1, EventsOfSteps
  <1> DEFINE T == {k \in Nat : k <= n => AreEvents(f[k])}
  <1>3. 0 \in T
    BY <1>2, EmptyIsSeq DEF AreEvents
  <1>4. ASSUME NEW k \in Nat, k \in T PROVE k + 1 \in T
    <2>1. CASE k + 1 <= n
      <3>1. k + 1 \in 1..n /\ k + 1 - 1 = k /\ AreEvents(f[k])
        BY <1>1, <1>4, <2>1
      <3>2. f[k + 1] = EventOne(f[k], history[k + 1], name) /\ IsValue(history[k + 1].val)
        BY <1>2, <3>1 DEF AreEvents
      <3>3. AreEvents(f[k + 1])
        BY <3>1, <3>2, AppendEvents DEF EventOne
      <3> QED BY <3>3
    <2>2. CASE ~(k + 1 <= n)
      BY <2>2
    <2> QED BY <2>1, <2>2
  <1>5. Nat \subseteq T
    <2> HIDE DEF T
    <2> QED BY <1>3, <1>4, Induction
  <1> QED BY <1>1, <1>2, <1>5

-----------------------------------------------------------------------------
Strings(events) == {i \in 1..Len(events) : events[i].val.kind = "string"}

Latest(events) == SelectLastInSeq(events, LAMBDA e : e.val.kind = "string")

\* What counts of the events of one name.
CurrentOf(events) ==
    SubSeq(events, IF Latest(events) = 0 THEN 1 ELSE Latest(events), Len(events))

LEMMA CurrentOfEvents == \A history, name : Current(history, name) = CurrentOf(EventsOf(history, name))
  BY DEF Current, CurrentOf, Latest

LEMMA LatestDef ==
  ASSUME NEW events
  PROVE  Latest(events) = IF Strings(events) # {} THEN Max(Strings(events)) ELSE 0
  BY DEF Latest, Strings, SelectLastInSeq

LEMMA GreatestIs ==
  ASSUME NEW S, S \subseteq Nat, NEW j \in S, \A i \in S : i <= j
  PROVE  Max(S) = j
  <1>1. \A i \in S : j >= i
    OBVIOUS
  <1>2. Max(S) \in S /\ \A i \in S : Max(S) >= i
    BY <1>1 DEF Max
  <1> DEFINE m == Max(S)
  <1> HIDE DEF m
  <1>3. m \in Nat /\ j \in Nat /\ m >= j /\ m <= j
    BY <1>2 DEF m
  <1>4. m = j
    BY <1>3
  <1> QED BY <1>4 DEF m

LEMMA GreatestNumber ==
  ASSUME NEW n \in Nat, NEW S, S \subseteq 1..n, S # {}
  PROVE  \E j \in S : \A i \in S : i <= j
  <1> DEFINE T == {n - i : i \in S}
  <1>1. T \subseteq Nat /\ T # {}
    <2>1. \A i \in S : n - i \in Nat
      OBVIOUS
    <2> QED BY <2>1
  <1>2. PICK x \in T : \A y \in T : x <= y
    <2> HIDE DEF T
    <2> QED BY <1>1, LeastNumber
  <1>3. PICK j \in S : x = n - j
    BY <1>2
  <1>4. ASSUME NEW i \in S PROVE i <= j
    <2>1. x <= n - i
      BY <1>2
    <2>2. i \in 1..n /\ j \in 1..n
      OBVIOUS
    <2> QED BY <1>3, <2>1, <2>2
  <1> QED BY <1>4

LEMMA LatestRange ==
  ASSUME NEW events, IsSeq(events)
  PROVE  \/ Strings(events) = {} /\ Latest(events) = 0
         \/ /\ Latest(events) \in Strings(events)
            /\ \A i \in Strings(events) : i <= Latest(events)
  <1>1. Len(events) \in Nat
    BY DEF IsSeq
  <1>2. CASE Strings(events) = {}
    BY <1>2, LatestDef
  <1>3. CASE Strings(events) # {}
    <2>1. Strings(events) \subseteq 1..Len(events) /\ Strings(events) \subseteq Nat
      BY <1>1 DEF Strings
    <2>2. PICK j \in Strings(events) : \A i \in Strings(events) : i <= j
      BY <1>1, <1>3, <2>1, GreatestNumber
    <2>3. Max(Strings(events)) = j
      BY <2>1, <2>2, GreatestIs
    <2> QED BY <1>3, <2>2, <2>3, LatestDef
  <1> QED BY <1>2, <1>3

LEMMA CurrentAfter ==
  ASSUME NEW events, IsSeq(events), NEW e
  PROVE  CurrentOf(Append(events, e)) =
            IF e.val.kind = "string" THEN <<e>> ELSE Append(CurrentOf(events), e)
  <1> DEFINE n == Len(events)
             t == Append(events, e)
  <1>1. n \in Nat
    BY DEF IsSeq
  <1>2. /\ IsSeq(t) /\ Len(t) = n + 1 /\ t[n + 1] = e
        /\ \A i \in 1..n : t[i] = events[i]
    BY AppendSeq
  <1> HIDE DEF t
  <1>3. Strings(t) = IF e.val.kind = "string" THEN Strings(events) \cup {n + 1} ELSE Strings(events)
    <2>1. \A i \in 1..n + 1 : i \in Strings(t) <=> t[i].val.kind = "string"
      BY <1>2 DEF Strings
    <2>2. \A i \in 1..n : i \in Strings(events) <=> events[i].val.kind = "string"
      BY DEF Strings
    <2>3. Strings(t) \subseteq 1..n + 1 /\ Strings(events) \subseteq 1..n
      BY <1>2 DEF Strings
    <2>4. \A i \in 1..n + 1 : i \in 1..n \/ i = n + 1
      BY <1>1
    <2>5. n + 1 \notin 1..n /\ n + 1 \in 1..n + 1 /\ 1..n \subseteq 1..n + 1
      BY <1>1
    <2> QED BY <1>2, <2>1, <2>2, <2>3, <2>4, <2>5
  <1>4. Strings(events) \subseteq 1..n
    BY DEF Strings
  <1>5. CASE e.val.kind = "string"
    <2>1. n + 1 \in Strings(t) /\ Strings(t) \subseteq Nat /\ \A i \in Strings(t) : i <= n + 1
      BY <1>1, <1>3, <1>4, <1>5
    <2>2. Latest(t) = n + 1
      BY <2>1, GreatestIs, LatestDef
    <2>3. CurrentOf(t) = SubSeq(t, n + 1, n + 1)
      <3>1. n + 1 # 0
        BY <1>1
      <3> QED BY <1>2, <2>2, <3>1, Zenon DEF CurrentOf
    <2> DEFINE u == SubSeq(t, n + 1, n + 1)
    <2>4. n + 1 \in 1..Len(t) + 1 /\ n + 1 \in n + 1 - 1..Len(t) /\ n + 1 - (n + 1) + 1 = 1
      BY <1>1, <1>2
    <2>5. IsSeq(u) /\ Len(u) = 1 /\ u[1] = t[n + 1]
      <3>1. /\ IsSeq(u) /\ Len(u) = n + 1 - (n + 1) + 1
            /\ \A i \in 1..n + 1 - (n + 1) + 1 : u[i] = t[n + 1 + i - 1]
        BY <1>2, <2>4, SubIsSeq
      <3>2. u[1] = t[n + 1 + 1 - 1] /\ n + 1 + 1 - 1 = n + 1
        BY <1>1, <2>4, <3>1
      <3> QED BY <2>4, <3>1, <3>2
    <2> HIDE DEF u
    <2>6. IsSeq(<<e>>) /\ Len(<<e>>) = 1 /\ <<e>>[1] = e
      BY OneSeq
    <2>7. u = <<e>>
      BY <1>2, <2>5, <2>6, SameSeq
    <2> QED BY <1>5, <2>3, <2>7 DEF u, t
  <1>6. CASE e.val.kind # "string"
    <2>1. Strings(t) = Strings(events) /\ Latest(t) = Latest(events)
      BY <1>3, <1>6, LatestDef
    <2> DEFINE m == IF Latest(events) = 0 THEN 1 ELSE Latest(events)
    <2>2. m \in 1..n + 1
      BY <1>1, <1>4, LatestRange
    <2>3. CurrentOf(t) = SubSeq(t, m, n + 1) /\ CurrentOf(events) = SubSeq(events, m, n)
      BY <1>2, <2>1 DEF CurrentOf
    <2> HIDE DEF m
    <2> DEFINE u == SubSeq(t, m, n + 1)
               w == SubSeq(events, m, n)
               z == Append(w, e)
    <2>4. /\ IsSeq(u) /\ Len(u) = n + 1 - m + 1
          /\ \A i \in 1..n + 1 - m + 1 : u[i] = t[m + i - 1]
      <3>1. m \in 1..Len(t) + 1 /\ n + 1 \in m - 1..Len(t)
        BY <1>1, <1>2, <2>2
      <3> QED BY <1>2, <3>1, SubIsSeq
    <2>5. /\ IsSeq(w) /\ Len(w) = n - m + 1
          /\ \A i \in 1..n - m + 1 : w[i] = events[m + i - 1]
      <3>1. m \in 1..Len(events) + 1 /\ n \in m - 1..Len(events)
        BY <1>1, <2>2
      <3> QED BY <3>1, SubIsSeq
    <2> HIDE DEF u, w
    <2>6. /\ IsSeq(z) /\ Len(z) = Len(w) + 1 /\ z[Len(w) + 1] = e
          /\ \A i \in 1..Len(w) : z[i] = w[i]
      BY <2>5, AppendSeq
    <2> HIDE DEF z
    <2>7. Len(z) = Len(u)
      BY <1>1, <2>2, <2>4, <2>5, <2>6
    <2>8. ASSUME NEW i \in 1..Len(u) PROVE u[i] = z[i]
      <3>1. CASE i \in 1..Len(w)
        <4>1. m + i - 1 \in 1..n /\ i \in 1..n + 1 - m + 1 /\ i \in 1..n - m + 1
          BY <1>1, <2>2, <2>5, <3>1
        <4> QED BY <1>2, <2>4, <2>5, <2>6, <3>1, <4>1
      <3>2. CASE i = Len(w) + 1
        <4>1. m + i - 1 = n + 1 /\ i \in 1..n + 1 - m + 1
          BY <1>1, <2>2, <2>5, <3>2
        <4> QED BY <1>2, <2>4, <2>6, <3>2, <4>1
      <3> QED BY <1>1, <2>2, <2>4, <2>5, <3>1, <3>2
    <2>9. u = z
      BY <2>4, <2>6, <2>7, <2>8, SameSeq
    <2> QED BY <1>6, <2>3, <2>9 DEF u, z, w, t
  <1> QED BY <1>5, <1>6

-----------------------------------------------------------------------------
(***************************************************************************)
(* What was given adds up.                                                 *)
(***************************************************************************)
ItemsOf(current) == [i \in DOMAIN current |-> current[i].val.items]
Total(current)   == FlattenSeq(ItemsOf(current))
HasMap(current)  == \E i \in 1..Len(current) : current[i].val.kind = "map"

\* The variables are what the history of flags says.
Accumulated(vs, history) ==
    \A name :
        LET current == Current(history, name)
        IN  /\ name \notin DOMAIN vs => current = <<>>
            /\ name \in DOMAIN vs /\ ~HasMap(current) => vs[name].items = Total(current)
            /\ name \in DOMAIN vs /\ vs[name].kind = "map" => HasMap(current)

LEMMA CurrentIsEvents ==
  ASSUME NEW history, AreEvents(history), NEW name
  PROVE  AreEvents(Current(history, name))
  <1> DEFINE events == EventsOf(history, name)
  <1>1. AreEvents(events)
    BY EventsAreEvents
  <1> HIDE DEF events
  <1> DEFINE n == Len(events)
             m == IF Latest(events) = 0 THEN 1 ELSE Latest(events)
             c == SubSeq(events, m, n)
  <1>2. IsSeq(events) /\ n \in Nat
    BY <1>1 DEF AreEvents, IsSeq
  <1>3. m \in 1..n + 1 /\ n \in m - 1..n
    <2>1. Latest(events) = 0 \/ Latest(events) \in 1..n
      BY <1>2, LatestRange DEF Strings
    <2> QED BY <1>2, <2>1
  <1>4. CurrentOf(events) = c
    BY Zenon DEF CurrentOf
  <1> HIDE DEF m
  <1>5. IsSeq(c) /\ Len(c) = n - m + 1 /\ \A i \in 1..n - m + 1 : c[i] = events[m + i - 1]
    BY <1>2, <1>3, SubIsSeq
  <1> HIDE DEF c
  <1>6. ASSUME NEW i \in 1..Len(c) PROVE IsValue(c[i].val)
    <2>1. m + i - 1 \in 1..n /\ c[i] = events[m + i - 1]
      BY <1>2, <1>3, <1>5
    <2> QED BY <1>1, <2>1 DEF AreEvents
  <1>7. AreEvents(c)
    BY <1>5, <1>6 DEF AreEvents
  <1> QED BY <1>4, <1>7, CurrentOfEvents DEF events

LEMMA ItemsAreSeqs ==
  ASSUME NEW s, AreEvents(s)
  PROVE  AreSeqs(ItemsOf(s)) /\ Len(ItemsOf(s)) = Len(s)
  <1>1. IsSeq(s) /\ DOMAIN s = 1..Len(s) /\ Len(s) \in Nat
    BY SeqDomain DEF AreEvents
  <1> DEFINE t == ItemsOf(s)
  <1>2. t = [i \in 1..Len(s) |-> t[i]] /\ \A i \in 1..Len(s) : t[i] = s[i].val.items
    BY <1>1 DEF ItemsOf
  <1> HIDE DEF t
  <1>3. IsSeq(t) /\ Len(t) = Len(s)
    BY <1>1, <1>2, FunSeq
  <1>4. \A i \in 1..Len(t) : IsSeq(t[i])
    BY <1>2, <1>3 DEF AreEvents, IsValue, AreItems
  <1> QED BY <1>3, <1>4 DEF AreSeqs, t

LEMMA TotalOne ==
  ASSUME NEW e
  PROVE  Total(<<e>>) = e.val.items
  <1> DEFINE s == <<e>>
  <1>1. IsSeq(s) /\ Len(s) = 1 /\ s[1] = e /\ DOMAIN s = 1..1
    BY OneSeq, SeqDomain
  <1> DEFINE t == ItemsOf(s)
  <1> HIDE DEF s
  <1>2. t = [i \in 1..1 |-> t[i]] /\ t[1] = e.val.items
    BY <1>1 DEF ItemsOf
  <1>3. IsSeq(t) /\ Len(t) = 1
    <2> HIDE DEF t
    <2> QED BY <1>2, FunSeq
  <1>4. IsSeq(<<e.val.items>>) /\ Len(<<e.val.items>>) = 1 /\ <<e.val.items>>[1] = e.val.items
    BY OneSeq
  <1> HIDE DEF t
  <1>5. t = <<e.val.items>>
    BY <1>2, <1>3, <1>4, SameSeq
  <1> QED BY <1>5, FlattenOne DEF Total, t, s

LEMMA TotalAppend ==
  ASSUME NEW s, AreEvents(s), NEW e, IsValue(e.val)
  PROVE  Total(Append(s, e)) = Total(s) \o e.val.items
  <1> DEFINE u == Append(s, e)
             t == ItemsOf(s)
             z == Append(t, e.val.items)
             w == ItemsOf(u)
  <1>1. IsSeq(s) /\ Len(s) \in Nat
    BY DEF AreEvents, IsSeq
  <1>2. /\ IsSeq(u) /\ Len(u) = Len(s) + 1 /\ u[Len(s) + 1] = e
        /\ \A i \in 1..Len(s) : u[i] = s[i]
    BY <1>1, AppendSeq
  <1>3. AreEvents(u)
    BY AppendEvents
  <1>4. AreSeqs(t) /\ Len(t) = Len(s)
    BY ItemsAreSeqs
  <1>5. AreSeqs(w) /\ Len(w) = Len(u)
    <2> HIDE DEF u
    <2> QED BY <1>3, ItemsAreSeqs
  <1> HIDE DEF u
  <1>6. DOMAIN s = 1..Len(s) /\ DOMAIN u = 1..Len(u)
    BY <1>1, <1>2, SeqDomain
  <1>7. \A i \in 1..Len(s) : t[i] = s[i].val.items
    BY <1>6 DEF ItemsOf
  <1>8. \A i \in 1..Len(u) : w[i] = u[i].val.items
    BY <1>6 DEF ItemsOf
  <1> HIDE DEF t, w
  <1>9. /\ IsSeq(z) /\ Len(z) = Len(t) + 1 /\ z[Len(t) + 1] = e.val.items
        /\ \A i \in 1..Len(t) : z[i] = t[i]
    BY <1>4, AppendSeq DEF AreSeqs
  <1> HIDE DEF z
  <1>10. ASSUME NEW i \in 1..Len(w) PROVE w[i] = z[i]
    <2>1. CASE i \in 1..Len(s)
      <3>1. i \in 1..Len(u) /\ i \in 1..Len(t)
        BY <1>1, <1>2, <1>4, <2>1
      <3> QED BY <1>2, <1>7, <1>8, <1>9, <2>1, <3>1
    <2>2. CASE i = Len(s) + 1
      BY <1>2, <1>4, <1>5, <1>8, <1>9, <2>2
    <2> QED BY <1>1, <1>2, <1>5, <2>1, <2>2
  <1>11. w = z
    BY <1>2, <1>4, <1>5, <1>9, <1>10, SameSeq DEF AreSeqs
  <1>12. IsSeq(e.val.items)
    BY DEF IsValue, AreItems
  <1>13. FlattenSeq(z) = FlattenSeq(t) \o e.val.items
    BY <1>4, <1>12, FlattenAppend DEF z
  <1> QED BY <1>11, <1>13 DEF Total, w, u, t

LEMMA MapAppended ==
  ASSUME NEW s, IsSeq(s), NEW e
  PROVE  HasMap(Append(s, e)) <=> HasMap(s) \/ e.val.kind = "map"
  <1> DEFINE t == Append(s, e)
  <1>1. Len(s) \in Nat
    BY DEF IsSeq
  <1>2. Len(t) = Len(s) + 1 /\ t[Len(s) + 1] = e /\ \A i \in 1..Len(s) : t[i] = s[i]
    BY AppendSeq
  <1> HIDE DEF t
  <1>3. ASSUME HasMap(t) PROVE HasMap(s) \/ e.val.kind = "map"
    <2>1. PICK i \in 1..Len(s) + 1 : t[i].val.kind = "map"
      BY <1>2, <1>3 DEF HasMap
    <2>2. i \in 1..Len(s) \/ i = Len(s) + 1
      BY <1>1
    <2> QED BY <1>2, <2>1, <2>2 DEF HasMap
  <1>4. ASSUME HasMap(s) PROVE HasMap(t)
    <2>1. PICK i \in 1..Len(s) : s[i].val.kind = "map"
      BY <1>4 DEF HasMap
    <2>2. i \in 1..Len(t) /\ t[i] = s[i]
      BY <1>1, <1>2
    <2> QED BY <2>1, <2>2 DEF HasMap
  <1>5. ASSUME e.val.kind = "map" PROVE HasMap(t)
    <2>1. Len(s) + 1 \in 1..Len(t)
      BY <1>1, <1>2
    <2> QED BY <1>2, <1>5, <2>1 DEF HasMap
  <1> QED BY <1>3, <1>4, <1>5 DEF t

\* One more flag: what it gives goes to what was given before.
LEMMA AccumulatedOne ==
  ASSUME NEW vs, AreValues(vs), NEW history, AreEvents(history), Accumulated(vs, history),
         NEW e, IsValue(e.val), e.val.kind \in Kinds
  PROVE  /\ AreValues(SetHelper(vs, e.key, e.val)) /\ AreEvents(Append(history, e))
         /\ Accumulated(SetHelper(vs, e.key, e.val), Append(history, e))
  <1> DEFINE after == SetHelper(vs, e.key, e.val)
             later == Append(history, e)
             new   == after[e.key]
  <1>1. /\ DOMAIN after = DOMAIN vs \cup {e.key} /\ AreValues(after)
        /\ \A n \in DOMAIN vs \ {e.key} : after[n] = vs[n]
        /\ Merged(vs, e.key, e.val, new)
    BY SetHelperMerges
  <1>2. AreEvents(later)
    BY AppendEvents
  <1> HIDE DEF after
  <1>3. IsSeq(history)
    BY DEF AreEvents
  <1>4. ASSUME NEW name, name # e.key PROVE Current(later, name) = Current(history, name)
    <2>1. EventsOf(later, name) = EventsOf(history, name)
      BY <1>3, <1>4, EventsAppend DEF EventOne
    <2> HIDE DEF later
    <2> QED BY <2>1, CurrentOfEvents
  <1> DEFINE old == Current(history, e.key)
             now == Current(later, e.key)
  <1>5. now = IF e.val.kind = "string" THEN <<e>> ELSE Append(old, e)
    <2> DEFINE events == EventsOf(history, e.key)
    <2>1. EventsOf(later, e.key) = Append(events, e)
      BY <1>3, EventsAppend DEF EventOne
    <2>2. IsSeq(events)
      BY EventsAreEvents DEF AreEvents
    <2> HIDE DEF later, events
    <2>3. CurrentOf(Append(events, e)) =
             IF e.val.kind = "string" THEN <<e>> ELSE Append(CurrentOf(events), e)
      BY <2>2, CurrentAfter
    <2> QED BY <2>1, <2>3, CurrentOfEvents DEF events
  <1>6. AreEvents(old) /\ IsSeq(old)
    BY CurrentIsEvents DEF AreEvents
  <1>7. /\ e.key \notin DOMAIN vs => old = <<>>
        /\ e.key \in DOMAIN vs /\ ~HasMap(old) => vs[e.key].items = Total(old)
        /\ e.key \in DOMAIN vs /\ vs[e.key].kind = "map" => HasMap(old)
    BY DEF Accumulated
  <1> HIDE DEF later, old, now, new
  <1>8. e.val.kind # "string" =>
           /\ HasMap(now) <=> HasMap(old) \/ e.val.kind = "map"
           /\ Total(now) = Total(old) \o e.val.items
    BY <1>5, <1>6, MapAppended, TotalAppend
  <1>9. (~HasMap(now) => new.items = Total(now)) /\ (new.kind = "map" => HasMap(now))
    <2>1. CASE e.val.kind = "string"
      <3>1. new = e.val /\ now = <<e>>
        BY <1>1, <1>5, <2>1 DEF Merged
      <3> QED BY <2>1, <3>1, TotalOne
    <2>2. CASE e.val.kind = "array" /\ e.key \notin DOMAIN vs
      <3>1. new = e.val
        BY <1>1, <2>2 DEF Merged
      <3>2. Total(old) \o e.val.items = e.val.items
        <4>1. ItemsOf(old) = <<>>
          <5>1. Len(ItemsOf(old)) = 0 /\ IsSeq(ItemsOf(old))
            BY <1>6, <1>7, <2>2, ItemsAreSeqs, EmptyIsSeq DEF AreSeqs
          <5> QED BY <5>1, NonemptySeq
        <4>2. Total(old) = <<>>
          BY <4>1, FlattenEmpty DEF Total
        <4>3. IsSeq(e.val.items)
          BY DEF IsValue, AreItems
        <4> QED BY <4>2, <4>3, ConcatEmpty
      <3> QED BY <1>8, <2>2, <3>1, <3>2
    <2>3. CASE e.val.kind = "array" /\ e.key \in DOMAIN vs /\ vs[e.key].kind = "map"
      BY <1>7, <1>8, <2>3
    <2>4. CASE e.val.kind = "array" /\ e.key \in DOMAIN vs /\ vs[e.key].kind # "map"
      <3>1. new.kind = "array" /\ new.items = vs[e.key].items \o e.val.items
        BY <1>1, <2>4, Zenon DEF Merged
      <3> QED BY <1>7, <1>8, <2>4, <3>1
    <2>5. CASE e.val.kind = "map"
      BY <1>8, <2>5
    <2> QED BY <2>1, <2>2, <2>3, <2>4, <2>5 DEF Kinds
  <1>10. ASSUME NEW name
         PROVE  LET current == Current(later, name)
                IN  /\ name \notin DOMAIN after => current = <<>>
                    /\ name \in DOMAIN after /\ ~HasMap(current) => after[name].items = Total(current)
                    /\ name \in DOMAIN after /\ after[name].kind = "map" => HasMap(current)
    <2>1. CASE name = e.key
      BY <1>1, <1>9, <2>1 DEF now, new
    <2>2. CASE name # e.key
      <3> DEFINE current == Current(history, name)
      <3>1. /\ name \notin DOMAIN vs => current = <<>>
            /\ name \in DOMAIN vs /\ ~HasMap(current) => vs[name].items = Total(current)
            /\ name \in DOMAIN vs /\ vs[name].kind = "map" => HasMap(current)
        BY DEF Accumulated
      <3> HIDE DEF current
      <3>2. Current(later, name) = current
        BY <1>4, <2>2 DEF current
      <3>3. name \in DOMAIN after <=> name \in DOMAIN vs
        BY <1>1, <2>2
      <3>4. name \in DOMAIN vs => after[name] = vs[name]
        BY <1>1, <2>2
      <3> QED BY <3>1, <3>2, <3>3, <3>4
    <2> QED BY <2>1, <2>2
  <1>11. Accumulated(after, later)
    BY <1>10 DEF Accumulated
  <1> QED BY <1>1, <1>2, <1>11 DEF after, later

-----------------------------------------------------------------------------
(***************************************************************************)
(* Several entries at once                                                 *)
(***************************************************************************)
LEMMA NextPrefix ==
  ASSUME NEW history, IsSeq(history), NEW entries, IsSeq(entries),
         NEW k \in Nat, k + 1 <= Len(entries)
  PROVE  history \o SubSeq(entries, 1, k + 1) =
            Append(history \o SubSeq(entries, 1, k), entries[k + 1])
  <1> DEFINE p == SubSeq(entries, 1, k)
             q == SubSeq(entries, 1, k + 1)
             s == history \o p
             t == history \o q
             u == Append(s, entries[k + 1])
             h == Len(history)
  <1>1. Len(entries) \in Nat /\ h \in Nat
    BY DEF IsSeq
  <1>2. IsSeq(p) /\ Len(p) = k /\ \A i \in 1..k : p[i] = entries[i]
    <2>1. 1 \in 1..Len(entries) + 1 /\ k \in 1 - 1..Len(entries) /\ k - 1 + 1 = k
      BY <1>1
    <2>2. /\ IsSeq(p) /\ Len(p) = k - 1 + 1
          /\ \A i \in 1..k - 1 + 1 : p[i] = entries[1 + i - 1]
      BY <2>1, SubIsSeq
    <2> HIDE DEF p
    <2>3. \A i \in 1..k : i \in 1..k - 1 + 1 /\ 1 + i - 1 = i
      BY <2>1
    <2> QED BY <2>1, <2>2, <2>3
  <1>3. IsSeq(q) /\ Len(q) = k + 1 /\ \A i \in 1..k + 1 : q[i] = entries[i]
    <2>1. 1 \in 1..Len(entries) + 1 /\ k + 1 \in 1 - 1..Len(entries) /\ k + 1 - 1 + 1 = k + 1
      BY <1>1
    <2>2. /\ IsSeq(q) /\ Len(q) = k + 1 - 1 + 1
          /\ \A i \in 1..k + 1 - 1 + 1 : q[i] = entries[1 + i - 1]
      BY <2>1, SubIsSeq
    <2> HIDE DEF q
    <2>3. \A i \in 1..k + 1 : i \in 1..k + 1 - 1 + 1 /\ 1 + i - 1 = i
      BY <2>1
    <2> QED BY <2>1, <2>2, <2>3
  <1> HIDE DEF p, q
  <1>4. /\ IsSeq(s) /\ Len(s) = h + k
        /\ \A i \in 1..Len(s) : s[i] = IF i <= h THEN history[i] ELSE p[i - h]
    BY <1>2, ConcatSeq
  <1>5. /\ IsSeq(t) /\ Len(t) = h + (k + 1)
        /\ \A i \in 1..Len(t) : t[i] = IF i <= h THEN history[i] ELSE q[i - h]
    <2>1. /\ IsSeq(t) /\ Len(t) = Len(history) + Len(q)
          /\ \A i \in 1..Len(t) : t[i] = IF i <= Len(history) THEN history[i] ELSE q[i - Len(history)]
      BY <1>3, ConcatSeq
    <2> HIDE DEF t
    <2> QED BY <1>3, <2>1
  <1> HIDE DEF s, t
  <1>6. /\ IsSeq(u) /\ Len(u) = Len(s) + 1 /\ u[Len(s) + 1] = entries[k + 1]
        /\ \A i \in 1..Len(s) : u[i] = s[i]
    BY <1>4, AppendSeq
  <1> HIDE DEF u, h
  <1>7. ASSUME NEW i \in 1..Len(t) PROVE t[i] = u[i]
    <2>1. CASE i <= h
      <3>1. i \in 1..Len(s)
        BY <1>1, <1>4, <2>1
      <3> QED BY <1>4, <1>5, <1>6, <2>1, <3>1
    <2>2. CASE h < i /\ i <= h + k
      <3>1. i \in 1..Len(s) /\ ~(i <= h) /\ i - h \in 1..k /\ i - h \in 1..k + 1
        BY <1>1, <1>4, <2>2
      <3> QED BY <1>2, <1>3, <1>4, <1>5, <1>6, <3>1
    <2>3. CASE i = h + k + 1
      <3>1. i = Len(s) + 1 /\ ~(i <= h) /\ i - h = k + 1 /\ k + 1 \in 1..k + 1
        BY <1>1, <1>4, <2>3
      <3> QED BY <1>3, <1>5, <1>6, <3>1
    <2> QED BY <1>1, <1>5, <2>1, <2>2, <2>3
  <1>8. Len(t) = Len(u)
    BY <1>1, <1>4, <1>5, <1>6
  <1>9. t = u
    BY <1>5, <1>6, <1>7, <1>8, SameSeq
  <1> QED BY <1>9 DEF t, u, s, p, q

LEMMA NoPrefix ==
  ASSUME NEW history, IsSeq(history), NEW entries, IsSeq(entries)
  PROVE  history \o SubSeq(entries, 1, 0) = history
  <1> DEFINE p == SubSeq(entries, 1, 0)
  <1>1. IsSeq(p) /\ Len(p) = 0 - 1 + 1
    <2>1. 1 \in 1..Len(entries) + 1 /\ 0 \in 1 - 1..Len(entries)
      BY DEF IsSeq
    <2> QED BY <2>1, SubIsSeq
  <1> HIDE DEF p
  <1>2. p = <<>>
    BY <1>1, NonemptySeq
  <1> QED BY <1>2, ConcatEmpty DEF p

LEMMA WholePrefix ==
  ASSUME NEW entries, IsSeq(entries)
  PROVE  SubSeq(entries, 1, Len(entries)) = entries
  <1> DEFINE n == Len(entries)
             p == SubSeq(entries, 1, n)
  <1>1. n \in Nat
    BY DEF IsSeq
  <1>2. 1 \in 1..n + 1 /\ n \in 1 - 1..n /\ n - 1 + 1 = n
    BY <1>1
  <1>3. IsSeq(p) /\ Len(p) = n - 1 + 1 /\ \A i \in 1..n - 1 + 1 : p[i] = entries[1 + i - 1]
    BY <1>2, SubIsSeq
  <1> HIDE DEF p
  <1>4. ASSUME NEW i \in 1..Len(p) PROVE p[i] = entries[i]
    BY <1>1, <1>2, <1>3, <1>4
  <1>5. p = entries
    BY <1>2, <1>3, <1>4, SameSeq
  <1> QED BY <1>5 DEF p

\* wig: each entry is added.
LEMMA AddAllAccumulates ==
  ASSUME NEW vs, AreValues(vs), NEW history, AreEvents(history), Accumulated(vs, history),
         NEW entries, AreEvents(entries), \A i \in 1..Len(entries) : entries[i].val.kind \in Kinds
  PROVE  /\ AreValues(AddAll(vs, entries)) /\ AreEvents(history \o entries)
         /\ Accumulated(AddAll(vs, entries), history \o entries)
  <1> DEFINE n == Len(entries)
             before(k) == history \o SubSeq(entries, 1, k)
             Good(variables, k) == /\ AreValues(variables) /\ AreEvents(before(k))
                                   /\ Accumulated(variables, before(k))
  <1>1. n \in Nat /\ IsSeq(entries) /\ IsSeq(history)
    BY DEF AreEvents, IsSeq
  <1>2. PICK f : /\ f[0] = vs /\ AddAll(vs, entries) = f[n]
                 /\ \A i \in 1..n : f[i] = SetHelper(f[i - 1], entries[i].key, entries[i].val)
    BY <1>1, AddAllSteps
  <1> DEFINE T == {k \in Nat : k <= n => Good(f[k], k)}
  <1>3. 0 \in T
    <2>1. before(0) = history
      BY <1>1, NoPrefix
    <2> QED BY <1>2, <2>1
  <1>4. ASSUME NEW k \in Nat, k \in T PROVE k + 1 \in T
    <2>1. CASE k + 1 <= n
      <3>1. k + 1 \in 1..n /\ k + 1 - 1 = k /\ k <= n
        BY <1>1, <2>1
      <3>2. Good(f[k], k)
        BY <1>4, <3>1
      <3>3. before(k + 1) = Append(before(k), entries[k + 1])
        BY <1>1, <2>1, NextPrefix
      <3>4. f[k + 1] = SetHelper(f[k], entries[k + 1].key, entries[k + 1].val)
        BY <1>2, <3>1
      <3>5. IsValue(entries[k + 1].val) /\ entries[k + 1].val.kind \in Kinds
        BY <3>1 DEF AreEvents
      <3> HIDE DEF before
      <3>6. Good(f[k + 1], k + 1)
        BY <3>2, <3>3, <3>4, <3>5, AccumulatedOne
      <3> QED BY <3>6
    <2>2. CASE ~(k + 1 <= n)
      BY <2>2
    <2> QED BY <2>1, <2>2
  <1>5. Nat \subseteq T
    <2> HIDE DEF T
    <2> QED BY <1>3, <1>4, Induction
  <1>6. Good(f[n], n)
    BY <1>1, <1>5
  <1>7. before(n) = history \o entries
    BY <1>1, WholePrefix
  <1> QED BY <1>2, <1>6, <1>7

\* rug: as long as no entry fails.
LEMMA UpdateAccumulates ==
  ASSUME NEW vs, AreValues(vs), NEW history, AreEvents(history), Accumulated(vs, history),
         NEW entries, AreEvents(entries)
  PROVE  LET update == Update(vs, entries)
         IN  /\ AreValues(update.vars) /\ update.outcome \in {"ok", "error", "panic"}
             /\ update.outcome = "ok" => Accumulated(update.vars, history \o entries)
  <1> DEFINE n == Len(entries)
             before(k) == history \o SubSeq(entries, 1, k)
             Good(r, k) == /\ r.outcome \in {"ok", "error", "panic"}
                           /\ AreValues(r.vars) /\ AreEvents(before(k))
                           /\ r.outcome = "ok" => Accumulated(r.vars, before(k))
  <1>1. n \in Nat /\ IsSeq(entries) /\ IsSeq(history)
    BY DEF AreEvents, IsSeq
  <1>2. PICK f : /\ f[0] = [vars |-> vs, outcome |-> "ok"] /\ Update(vs, entries) = f[n]
                 /\ \A i \in 1..n : f[i] = UpdateOne(f[i - 1], entries[i])
    BY <1>1, UpdateSteps
  <1> DEFINE T == {k \in Nat : k <= n => Good(f[k], k)}
  <1>3. 0 \in T
    <2>1. before(0) = history
      BY <1>1, NoPrefix
    <2>2. f[0].vars = vs /\ f[0].outcome = "ok"
      BY <1>2
    <2> HIDE DEF before
    <2> QED BY <2>1, <2>2
  <1>4. ASSUME NEW k \in Nat, k \in T PROVE k + 1 \in T
    <2>1. CASE k + 1 <= n
      <3> DEFINE r == f[k]
                 e == entries[k + 1]
                 next == f[k + 1]
      <3>1. k + 1 \in 1..n /\ k + 1 - 1 = k /\ k <= n
        BY <1>1, <2>1
      <3>2. Good(r, k)
        BY <1>4, <3>1
      <3>3. before(k + 1) = Append(before(k), e)
        BY <1>1, <2>1, NextPrefix
      <3>4. next = UpdateOne(r, e)
        BY <1>2, <3>1
      <3>5. IsValue(e.val)
        BY <3>1 DEF AreEvents
      <3> HIDE DEF before, r, e, next
      <3>6. AreEvents(before(k + 1))
        BY <3>2, <3>3, <3>5, AppendEvents
      <3>7. CASE r.outcome # "ok"
        <4>1. next = r
          BY <3>4, <3>7 DEF UpdateOne
        <4> QED BY <3>2, <3>6, <3>7, <4>1 DEF next
      <3>8. CASE r.outcome = "ok" /\ ~CanSet(e.val)
        <4>1. next.vars = r.vars /\ next.outcome = "panic"
          BY <3>4, <3>8 DEF UpdateOne
        <4> QED BY <3>2, <3>6, <4>1 DEF next
      <3>9. CASE r.outcome = "ok" /\ CanSet(e.val)
        <4>1. /\ next.vars = SetHelper(r.vars, e.key, e.val)
              /\ next.outcome \in {"ok", "error"}
          BY <3>4, <3>9 DEF UpdateOne
        <4>2. e.val.kind \in Kinds
          BY <3>9 DEF CanSet, Kinds
        <4>3. AreValues(next.vars) /\ Accumulated(next.vars, before(k + 1))
          BY <3>2, <3>3, <3>5, <3>9, <4>1, <4>2, AccumulatedOne
        <4> QED BY <3>6, <4>1, <4>3 DEF next
      <3> QED BY <3>7, <3>8, <3>9
    <2>2. CASE ~(k + 1 <= n)
      BY <2>2
    <2> QED BY <2>1, <2>2
  <1>5. Nat \subseteq T
    <2> HIDE DEF T
    <2> QED BY <1>3, <1>4, Induction
  <1>6. Good(f[n], n)
    BY <1>1, <1>5
  <1>7. before(n) = history \o entries
    BY <1>1, WholePrefix
  <1> QED BY <1>2, <1>6, <1>7

-----------------------------------------------------------------------------
(***************************************************************************)
(* What an occurrence of a flag reads                                      *)
(***************************************************************************)
IsVar(v) ==
    /\ v = [state |-> v.state, type |-> v.type, name |-> v.name, value |-> v.value, ok |-> v.ok]
    /\ v.state \in {"initial", "sawType", "sawName", "end"} /\ v.type \in Kinds
    /\ IsSeq(v.name) /\ IsValue(v.value)

LEMMA NewIsVar == IsVar(NewVarState)
  <1>1. IsValue(NilValue)
    BY NoItems DEF IsValue, NilValue, Kinds
  <1> QED BY <1>1, EmptyIsSeq DEF IsVar, NewVarState, Kinds

LEMMA ValueOfIsValue ==
  ASSUME NEW type \in Kinds, NEW text, IsKnown(text)
  PROVE  IsValue(ValueOf(type, text))
  <1>1. CASE type = "map"
    <2> DEFINE c == Cut(text, "=")
               x == Item(c.before, c.after)
    <2>1. IsKnown(c.before) /\ IsKnown(c.after)
      BY CutKnown
    <2>2. IsItem(x)
      <3> HIDE DEF c
      <3> QED BY <2>1, ItemIsItem
    <2>3. ValueOf(type, text) = [kind |-> "map", items |-> <<x>>]
      BY <1>1 DEF ValueOf
    <2> HIDE DEF x
    <2>4. AreItems(<<x>>)
      BY <2>2, OneItem
    <2> QED BY <2>3, <2>4 DEF IsValue, Kinds
  <1>2. CASE type = "string"
    <2>1. ValueOf(type, text) = String(text)
      BY <1>2 DEF ValueOf
    <2> QED BY <2>1, StringIsValue
  <1>3. CASE type = "array"
    <2>1. ValueOf(type, text) = Array(Split(text, ","))
      BY <1>3 DEF ValueOf
    <2> QED BY <2>1, ChunksAreKnown, ArrayIsValue
  <1> QED BY <1>1, <1>2, <1>3 DEF Kinds

LEMMA ParseNVPKeeps ==
  ASSUME NEW v, IsVar(v), NEW text, IsKnown(text)
  PROVE  IsVar(ParseNVP(v, text))
  <1> DEFINE c   == Cut(text, "=")
             new == ValueOf(v.type, c.after)
  <1>1. IsKnown(c.before) /\ IsKnown(c.after)
    BY CutKnown
  <1>2. ParseNVP(v, text) = [v EXCEPT !.name = c.before, !.value = new, !.state = "end"]
    BY DEF ParseNVP
  <1> HIDE DEF c
  <1>3. IsValue(new)
    BY <1>1, ValueOfIsValue DEF IsVar
  <1> HIDE DEF new
  <1>4. ParseNVP(v, text) = [state |-> "end", type |-> v.type, name |-> c.before,
                             value |-> new, ok |-> v.ok]
    BY <1>2 DEF IsVar
  <1> QED BY <1>1, <1>3, <1>4 DEF IsVar, IsKnown

LEMMA NextArgKeeps ==
  ASSUME NEW v, IsVar(v), NEW text, IsKnown(text)
  PROVE  IsVar(NextArg(v, text))
  <1> DEFINE w == NextArg(v, text)
  <1>1. CASE v.state = "initial" /\ IsInline(text)
    <2> DEFINE u == [v EXCEPT !.type = TypeNames[text[1]]]
               t == SubSeq(text, 3, Len(text))
    <2>1. Len(text) \in Nat /\ Len(text) >= 2 /\ text[1] \in DOMAIN TypeNames
      <3>1. IsType(<<text[1]>>) /\ Len(text) >= 2
        BY <1>1 DEF IsInline
      <3> QED BY <3>1, OneSeq DEF IsType, IsSeq, IsKnown
    <2>2. IsVar(u)
      <3>1. TypeNames[text[1]] \in Kinds
        BY <2>1, TypeNamesAssumption DEF Kinds
      <3>2. u = [state |-> v.state, type |-> TypeNames[text[1]], name |-> v.name,
                 value |-> v.value, ok |-> v.ok]
        BY DEF IsVar
      <3> HIDE DEF u
      <3> QED BY <3>1, <3>2 DEF IsVar
    <2>3. IsKnown(t)
      <3>1. 3 \in 1..Len(text) + 1 /\ Len(text) \in 3 - 1..Len(text)
        BY <2>1
      <3> QED BY <3>1, SubKnown
    <2>4. w = ParseNVP(u, t)
      BY <1>1 DEF NextArg
    <2> HIDE DEF u, t, w
    <2>5. IsVar(w)
      BY <2>2, <2>3, <2>4, ParseNVPKeeps
    <2> QED BY <2>5 DEF w
  <1>2. CASE v.state \in {"initial", "sawType"} /\ ~(v.state = "initial" /\ IsInline(text))
             /\ Contains(text, "=")
    <2>1. w = ParseNVP(v, text)
      BY <1>2 DEF NextArg
    <2> QED BY <2>1, ParseNVPKeeps
  <1>3. CASE v.state = "initial" /\ ~IsInline(text) /\ ~Contains(text, "=") /\ IsType(text)
    <2>1. TypeNames[text[1]] \in Kinds
      BY <1>3, TypeNamesAssumption DEF IsType, Kinds
    <2>2. w = [v EXCEPT !.type = TypeNames[text[1]], !.state = "sawType"]
      BY <1>3 DEF NextArg
    <2> HIDE DEF w
    <2>3. w = [state |-> "sawType", type |-> TypeNames[text[1]], name |-> v.name,
               value |-> v.value, ok |-> v.ok]
      BY <2>2 DEF IsVar
    <2>4. IsVar(w)
      BY <2>1, <2>3 DEF IsVar
    <2> QED BY <2>4 DEF w
  <1>4. CASE v.state = "initial" /\ ~IsInline(text) /\ ~Contains(text, "=") /\ ~IsType(text)
    <2>1. w = [v EXCEPT !.ok = FALSE]
      BY <1>4 DEF NextArg
    <2> HIDE DEF w
    <2>2. w = [state |-> v.state, type |-> v.type, name |-> v.name,
               value |-> v.value, ok |-> FALSE]
      BY <2>1 DEF IsVar
    <2>3. IsVar(w)
      BY <2>2 DEF IsVar
    <2> QED BY <2>3 DEF w
  <1>5. CASE v.state = "sawType" /\ ~Contains(text, "=")
    <2>1. w = [v EXCEPT !.name = text, !.state = "sawName"]
      BY <1>5 DEF NextArg
    <2> HIDE DEF w
    <2>2. w = [state |-> "sawName", type |-> v.type, name |-> text,
               value |-> v.value, ok |-> v.ok]
      BY <2>1 DEF IsVar
    <2>3. IsVar(w)
      BY <2>2 DEF IsVar, IsKnown
    <2> QED BY <2>3 DEF w
  <1>6. CASE v.state = "sawName"
    <2> DEFINE new == ValueOf(v.type, text)
    <2>1. w = [v EXCEPT !.value = new, !.state = "end"]
      BY <1>6 DEF NextArg
    <2>2. IsValue(new)
      BY ValueOfIsValue DEF IsVar
    <2> HIDE DEF w, new
    <2>3. w = [state |-> "end", type |-> v.type, name |-> v.name, value |-> new, ok |-> v.ok]
      BY <2>1 DEF IsVar
    <2>4. IsVar(w)
      BY <2>2, <2>3 DEF IsVar
    <2> QED BY <2>4 DEF w
  <1>7. CASE v.state = "end"
    <2>1. w = v
      BY <1>7 DEF NextArg
    <2> QED BY <2>1
  <1> QED BY <1>1, <1>2, <1>3, <1>4, <1>5, <1>6, <1>7 DEF IsVar

\* Whatever the arguments, an occurrence has a name, and a value or none.
LEMMA ReadVarIsVar ==
  ASSUME NEW args, AreKnown(args)
  PROVE  IsVar(ReadVar(args))
  <1>1. Len(args) \in Nat
    BY DEF AreKnown, IsSeq
  <1>2. PICK f : /\ f[0] = NewVarState /\ ReadVar(args) = f[Len(args)]
                 /\ \A i \in 1..Len(args) : f[i] = ReadOne(f[i - 1], args[i])
    BY <1>1, ReadVarSteps
  <1> DEFINE T == {k \in Nat : k <= Len(args) => IsVar(f[k])}
  <1>3. 0 \in T
    BY <1>2, NewIsVar
  <1>4. ASSUME NEW k \in Nat, k \in T PROVE k + 1 \in T
    <2>1. CASE k + 1 <= Len(args)
      <3>1. k + 1 \in 1..Len(args) /\ k + 1 - 1 = k /\ IsVar(f[k])
        BY <1>1, <1>4, <2>1
      <3>2. f[k + 1] = ReadOne(f[k], args[k + 1]) /\ IsKnown(args[k + 1])
        BY <1>2, <3>1 DEF AreKnown
      <3>3. IsVar(f[k + 1])
        BY <3>1, <3>2, NextArgKeeps DEF ReadOne
      <3> QED BY <3>3
    <2>2. CASE ~(k + 1 <= Len(args))
      BY <2>2
    <2> QED BY <2>1, <2>2
  <1>5. Nat \subseteq T
    <2> HIDE DEF T
    <2> QED BY <1>3, <1>4, Induction
  <1> QED BY <1>1, <1>2, <1>5

\* wig: what is not a map, an array or a string becomes text.
LEMMA NewVarValueIsValue ==
  ASSUME NEW v, IsValue(v)
  PROVE  IsValue(NewVarValue(v)) /\ NewVarValue(v).kind \in Kinds
  <1>1. CASE CanSet(v)
    BY <1>1 DEF NewVarValue, CanSet, Kinds
  <1>2. CASE ~CanSet(v)
    <2> DEFINE text == IF v.kind = "nil" THEN <<"<nil>">> ELSE v.items[1].val
    <2>1. NewVarValue(v) = String(text)
      BY <1>2 DEF NewVarValue
    <2>2. IsKnown(text)
      <3>1. CASE v.kind = "nil"
        <4>1. text = <<"<nil>">>
          BY <3>1
        <4>2. IsSeq(text) /\ Len(text) = 1 /\ text[1] = "<nil>"
          BY <4>1, OneSeq
        <4> HIDE DEF text
        <4> QED BY <4>2 DEF IsKnown, Tokens, Known
      <3>2. CASE v.kind = "other"
        <4>1. Len(v.items) = 1 /\ AreItems(v.items) /\ text = v.items[1].val
          BY <3>2 DEF IsValue
        <4>2. IsItem(v.items[1])
          BY <4>1 DEF AreItems
        <4> QED BY <4>1, <4>2 DEF IsItem
      <3> QED BY <1>2, <3>1, <3>2 DEF IsValue, CanSet, Kinds
    <2> HIDE DEF text
    <2> QED BY <2>1, <2>2, StringIsValue DEF Kinds
  <1> QED BY <1>1, <1>2

-----------------------------------------------------------------------------
(***************************************************************************)
(* What -t reads                                                           *)
(***************************************************************************)
\* The abbreviated syntax: a name and a value of a type that can be set.
LEMMA VarsSetIsValue ==
  ASSUME NEW text, IsKnown(text), VarsSet(text).ok
  PROVE  LET set == VarsSet(text)
         IN  IsValue(set.val) /\ set.val.kind \in Kinds
  <1> DEFINE cut     == Cut(text, "=")
             value   == cut.after
             inner   == Split(SubSeq(value, 2, Len(value) - 1), ",")
             pair(i) == Item(Cut(inner[i], ":").before, Cut(inner[i], ":").after)
             pairs   == [i \in DOMAIN inner |-> pair(i)]
             set     == VarsSet(text)
  <1> SUFFICES IsValue(set.val) /\ set.val.kind \in Kinds
    OBVIOUS
  <1>1. /\ (cut.found /\ value # <<>> /\ value[1] = "[") => Last(value) = "]"
        /\ (cut.found /\ value # <<>> /\ value[1] = "{") => Last(value) = "}"
    BY DEF VarsSet
  <1>2. set.val = IF ~cut.found THEN String(cut.before)
                  ELSE IF value # <<>> /\ value[1] = "[" THEN Array(inner)
                  ELSE IF value # <<>> /\ value[1] = "{"
                  THEN [kind |-> "map", items |-> CopyItems(<<>>, pairs)]
                  ELSE String(value)
    BY DEF VarsSet
  <1>3. IsKnown(cut.before) /\ IsKnown(value)
    BY CutKnown
  <1> HIDE DEF set, cut
  <1>4. ASSUME cut.found, value # <<>>, value[1] \in {"[", "{"} PROVE AreKnown(inner)
    <2>1. Len(value) \in Nat /\ Len(value) > 0
      BY <1>3, <1>4, NonemptySeq DEF IsSeq, IsKnown
    <2>2. Last(value) = value[Len(value)]
      BY DEF Last
    <2>3. Len(value) # 1
      BY <1>1, <1>4, <2>2
    <2>4. 2 \in 1..Len(value) + 1 /\ Len(value) - 1 \in 2 - 1..Len(value)
      <3> DEFINE n == Len(value)
      <3>1. n \in Nat /\ n > 0 /\ n # 1
        BY <2>1, <2>3
      <3> HIDE DEF n
      <3>2. 2 \in 1..n + 1 /\ n - 1 \in 2 - 1..n
        BY <3>1
      <3> QED BY <3>2 DEF n
    <2>5. IsKnown(SubSeq(value, 2, Len(value) - 1))
      BY <1>3, <2>4, SubKnown
    <2> QED BY <2>5, ChunksAreKnown
  <1>5. CASE ~cut.found
    BY <1>2, <1>3, <1>5, StringIsValue DEF Kinds
  <1>6. CASE cut.found /\ value # <<>> /\ value[1] = "["
    <2>1. set.val = Array(inner)
      BY <1>2, <1>6
    <2>2. AreKnown(inner)
      BY <1>4, <1>6
    <2> HIDE DEF inner
    <2> QED BY <2>1, <2>2, ArrayIsValue DEF Kinds
  <1>7. CASE cut.found /\ value # <<>> /\ value[1] = "{"
    <2>1. set.val = [kind |-> "map", items |-> CopyItems(<<>>, pairs)]
      BY <1>2, <1>7
    <2>2. AreKnown(inner)
      BY <1>4, <1>7
    <2> HIDE DEF inner
    <2>3. DOMAIN inner = 1..Len(inner) /\ Len(inner) \in Nat
      BY <2>2, SeqDomain DEF AreKnown
    <2>4. ASSUME NEW i \in 1..Len(inner) PROVE IsItem(pair(i))
      <3>1. IsKnown(inner[i])
        BY <2>2 DEF AreKnown
      <3>2. IsKnown(Cut(inner[i], ":").before) /\ IsKnown(Cut(inner[i], ":").after)
        BY <3>1, CutKnown
      <3> QED BY <3>2, ItemIsItem
    <2> HIDE DEF pair
    <2>5. pairs = [i \in 1..Len(inner) |-> pairs[i]] /\ \A i \in 1..Len(inner) : IsItem(pairs[i])
      BY <2>3, <2>4
    <2> HIDE DEF pairs
    <2>6. AreItems(CopyItems(<<>>, pairs))
      BY <2>3, <2>5, MapItems, NoItems, CopyItemsKeeps
    <2> QED BY <2>1, <2>6 DEF IsValue, Kinds
  <1>8. CASE cut.found /\ ~(value # <<>> /\ value[1] \in {"[", "{"})
    <2>1. set.val = String(value)
      BY <1>2, <1>8
    <2> HIDE DEF value
    <2> QED BY <1>3, <2>1, StringIsValue DEF Kinds
  <1> QED BY <1>5, <1>6, <1>7, <1>8

\* JSON: the entries of an object, in any order.
LEMMA ValuesOfJSON ==
  ASSUME NEW v \in JSONValues, v.kind \in {"string", "other"} => Len(v.items) = 1
  PROVE  IsValue(v) /\ v.kind # "nil"
  <1>1. /\ v.kind \in {"string", "array", "map", "other"}
        /\ v.items \in Seq([key : Texts, val : Texts])
        /\ v = [kind |-> v.kind, items |-> v.items]
    BY DEF JSONValues
  <1>2. IsSeq(v.items)
    BY <1>1, TypedSeq
  <1>3. ASSUME NEW j \in 1..Len(v.items) PROVE IsItem(v.items[j])
    <2> DEFINE x == v.items[j]
    <2>1. x \in [key : Texts, val : Texts]
      <3> DEFINE E == [key : Texts, val : Texts]
      <3>1. v.items \in Seq(E)
        BY <1>1
      <3> HIDE DEF E
      <3>2. v.items[j] \in E
        BY <1>3, <3>1
      <3> QED BY <3>2 DEF E
    <2> HIDE DEF x
    <2>2. x = [key |-> x.key, val |-> x.val] /\ x.key \in Texts /\ x.val \in Texts
      BY <2>1
    <2>3. IsItem(x)
      BY <2>2, TextIsKnown DEF IsItem
    <2> QED BY <2>3 DEF x
  <1> QED BY <1>1, <1>2, <1>3 DEF IsValue, AreItems, Kinds

LEMMA OrdersAreEvents ==
  ASSUME NEW entries \in ParamsArgs, NEW order \in SetToSeqs(ToSet(entries))
  PROVE  AreEvents(order) /\ \A i \in 1..Len(order) : order[i].val.kind # "nil"
  <1> DEFINE S == ToSet(entries)
             n == Cardinality(S)
             E == [key : Texts, val : JSONValues]
  <1>1. /\ entries \in Seq(E)
        /\ \A i \in DOMAIN entries :
              entries[i].val.kind \in {"string", "other"} => Len(entries[i].val.items) = 1
    BY ParamsArgsAssumption
  <1>2. IsSeq(entries) /\ DOMAIN entries = 1..Len(entries) /\ Len(entries) \in Nat
    BY <1>1, TypedSeq, SeqDomain
  <1>3. IsFiniteSet(S)
    <2>1. entries \in Surjection(1..Len(entries), S)
      BY <1>2 DEF Surjection, ToSet, IsSeq
    <2>2. IsFiniteSet(1..Len(entries))
      BY <1>2, FS_Interval
    <2> QED BY <2>1, <2>2, FS_Surjection
  <1>4. n \in Nat
    BY <1>3, FS_CardinalityType
  <1>5. order \in [1..n -> S]
    BY DEF SetToSeqs
  <1> HIDE DEF n
  <1>6. IsSeq(order) /\ Len(order) = n
    BY <1>4, <1>5, FunSeq
  <1>7. ASSUME NEW i \in 1..Len(order)
        PROVE  IsValue(order[i].val) /\ order[i].val.kind # "nil"
    <2>1. PICK j \in DOMAIN entries : order[i] = entries[j]
      BY <1>5, <1>6 DEF ToSet
    <2>2. entries[j] \in E
      <3> HIDE DEF E
      <3> QED BY <1>1, <1>2, <2>1
    <2>3. entries[j].val \in JSONValues
      BY <2>2
    <2> QED BY <1>1, <2>1, <2>3, ValuesOfJSON
  <1> QED BY <1>6, <1>7 DEF AreEvents

\* wig: each entry of an object as a new Var.
LEMMA AsVarsAreEvents ==
  ASSUME NEW entries, AreEvents(entries)
  PROVE  LET asVars == [i \in DOMAIN entries |-> Entry(entries[i].key, NewVarValue(entries[i].val))]
         IN  AreEvents(asVars) /\ \A i \in 1..Len(asVars) : asVars[i].val.kind \in Kinds
  <1> DEFINE asVars == [i \in DOMAIN entries |-> Entry(entries[i].key, NewVarValue(entries[i].val))]
  <1>1. DOMAIN entries = 1..Len(entries) /\ Len(entries) \in Nat
    BY SeqDomain DEF AreEvents
  <1>2. /\ asVars = [i \in 1..Len(entries) |-> asVars[i]]
        /\ \A i \in 1..Len(entries) : asVars[i].val = NewVarValue(entries[i].val)
    BY <1>1 DEF Entry
  <1> HIDE DEF asVars
  <1>3. IsSeq(asVars) /\ Len(asVars) = Len(entries)
    BY <1>1, <1>2, FunSeq
  <1>4. ASSUME NEW i \in 1..Len(asVars)
        PROVE  IsValue(asVars[i].val) /\ asVars[i].val.kind \in Kinds
    <2>1. IsValue(entries[i].val) /\ asVars[i].val = NewVarValue(entries[i].val)
      BY <1>2, <1>3 DEF AreEvents
    <2> QED BY <2>1, NewVarValueIsValue
  <1> QED BY <1>3, <1>4 DEF AreEvents, asVars

-----------------------------------------------------------------------------
(***************************************************************************)
(* Parsing a template                                                      *)
(***************************************************************************)
LEMMA ChunkOutcome ==
  ASSUME NEW chunk
  PROVE  ChunkParsed(chunk).outcome \in {"ok", "error", "panic"}
  BY DEF ChunkParsed

LEMMA TailIsSeq ==
  ASSUME NEW s, IsSeq(s), Len(s) > 0
  PROVE  IsSeq(Tail(s)) /\ Len(Tail(s)) = Len(s) - 1
  <1> DEFINE S == {s[i] : i \in 1..Len(s)}
  <1>1. s \in Seq(S) /\ s # <<>>
    BY SeqTyped, NonemptySeq
  <1> HIDE DEF S
  <1>2. Tail(s) \in Seq(S) /\ Len(Tail(s)) = Len(s) - 1
    BY <1>1
  <1> QED BY <1>2, TypedSeq

\* Parsing ends in one of three ways, and what is kept is the text or nothing.
LEMMA ParseOutcome ==
  ASSUME NEW raw, IsSeq(raw)
  PROVE  LET parsed == Parse(raw)
         IN  parsed.outcome \in {"ok", "error", "panic"} /\ IsSeq(parsed.raw)
  <1> DEFINE split  == Split(raw, "{")
             first  == [outcome |-> IF Contains(split[1], "}") THEN "error" ELSE "ok",
                        parts   |-> <<Literal(split[1])>>]
             rest   == Each(ChunkParsed, Tail(split))
             chunks == <<first>> \o rest
             Bad    == {i \in 1..Len(chunks) : chunks[i].outcome # "ok"}
             bad    == SelectInSeq(chunks, LAMBDA c : c.outcome # "ok")
  <1>1. IsSeq(split) /\ Len(split) > 0
    BY SplitChunks DEF Chunked
  <1>2. Parse(raw) = IF bad = 0
                     THEN [outcome |-> "ok", raw |-> raw,
                           parts   |-> FlattenSeq([i \in DOMAIN chunks |-> chunks[i].parts])]
                     ELSE [outcome |-> chunks[bad].outcome, raw |-> <<>>, parts |-> <<>>]
    BY DEF Parse
  <1>3. bad = IF Bad # {} THEN Min(Bad) ELSE 0
    BY DEF SelectInSeq
  <1> HIDE DEF bad
  <1>4. IsSeq(rest) /\ \A i \in 1..Len(rest) : rest[i].outcome \in {"ok", "error", "panic"}
    <2> DEFINE t == Tail(split)
    <2>1. IsSeq(t) /\ DOMAIN t = 1..Len(t) /\ Len(t) \in Nat
      BY <1>1, TailIsSeq, SeqDomain
    <2>2. rest = [i \in DOMAIN t |-> [text \in ToSet(t) |-> ChunkParsed(text)][t[i]]]
      BY DEF Each
    <2> HIDE DEF t, rest
    <2>3. rest = [i \in 1..Len(t) |-> rest[i]] /\ \A i \in 1..Len(t) : rest[i] = ChunkParsed(t[i])
      BY <2>1, <2>2 DEF ToSet
    <2>4. IsSeq(rest) /\ Len(rest) = Len(t)
      BY <2>1, <2>3, FunSeq
    <2> QED BY <2>3, <2>4, ChunkOutcome
  <1>5. first.outcome \in {"ok", "error", "panic"}
    OBVIOUS
  <1> HIDE DEF first, rest
  <1>6. IsSeq(chunks) /\ \A i \in 1..Len(chunks) : chunks[i].outcome \in {"ok", "error", "panic"}
    <2> DEFINE one == <<first>>
    <2>1. IsSeq(one) /\ Len(one) = 1 /\ one[1] = first
      BY OneSeq
    <2> HIDE DEF one
    <2>2. /\ IsSeq(one \o rest) /\ Len(one \o rest) = 1 + Len(rest)
          /\ \A i \in 1..Len(one \o rest) :
                (one \o rest)[i] = IF i <= 1 THEN one[i] ELSE rest[i - 1]
      BY <1>4, <2>1, ConcatSeq
    <2>3. chunks = one \o rest /\ Len(rest) \in Nat
      BY <1>4 DEF one, IsSeq
    <2> HIDE DEF chunks
    <2>4. ASSUME NEW i \in 1..Len(chunks) PROVE chunks[i].outcome \in {"ok", "error", "panic"}
      <3>1. CASE i = 1
        BY <1>5, <2>1, <2>2, <2>3, <3>1
      <3>2. CASE i # 1
        <4>1. i - 1 \in 1..Len(rest) /\ chunks[i] = rest[i - 1]
          BY <2>2, <2>3, <3>2
        <4> QED BY <1>4, <4>1
      <3> QED BY <3>1, <3>2
    <2> QED BY <2>2, <2>3, <2>4
  <1>7. CASE bad = 0
    BY <1>2, <1>7
  <1>8. CASE bad # 0
    <2>1. Bad # {} /\ bad = Min(Bad)
      BY <1>3, <1>8
    <2>2. bad \in 1..Len(chunks)
      <3>1. Bad \subseteq 1..Len(chunks) /\ Bad \subseteq Nat
        BY <1>6 DEF IsSeq
      <3> HIDE DEF Bad
      <3>2. PICK x \in Bad : \A y \in Bad : x <= y
        BY <2>1, <3>1, LeastNumber
      <3>3. Min(Bad) \in Bad
        BY <3>2 DEF Min
      <3> QED BY <2>1, <3>1, <3>3
    <2> HIDE DEF chunks
    <2>3. Parse(raw).outcome = chunks[bad].outcome /\ Parse(raw).raw = <<>>
      BY <1>2, <1>8
    <2> QED BY <1>6, <2>2, <2>3, EmptyIsSeq
  <1> QED BY <1>7, <1>8

-----------------------------------------------------------------------------
(***************************************************************************)
(* The recursive functions of expansion and of paths                       *)
(***************************************************************************)
JoinOne(acc, text, i, sep) == acc \o (IF i = 1 THEN <<>> ELSE <<sep>>) \o text

\* Joining, text by text.
IsJoin(texts, sep, size, f) ==
    f = [i \in 0..size |-> IF i = 0 THEN <<>> ELSE JoinOne(f[i - 1], texts[i], i, sep)]

LEMMA JoinExists ==
  ASSUME NEW texts, NEW sep, NEW size \in Nat
  PROVE  \E f : IsJoin(texts, sep, size, f)
  <1> DEFINE T == {k \in Nat : \E f : IsJoin(texts, sep, k, f)}
             Step(acc, i) == JoinOne(acc, texts[i], i, sep)
  <1>1. 0 \in T
    <2>1. IsJoin(texts, sep, 0, [i \in 0..0 |-> <<>>])
      BY DEF IsJoin
    <2> QED BY <2>1
  <1>2. ASSUME NEW k \in Nat, k \in T PROVE k + 1 \in T
    <2>1. PICK f : IsJoin(texts, sep, k, f)
      BY <1>2
    <2> DEFINE g == [i \in 0..k + 1 |-> IF i = k + 1 THEN Step(f[k], k + 1) ELSE f[i]]
    <2>2. \A i \in 0..k : f[i] = IF i = 0 THEN <<>> ELSE Step(f[i - 1], i)
      BY <2>1 DEF IsJoin
    <2> HIDE DEF Step
    <2>3. ASSUME NEW i \in 0..k + 1
          PROVE  g[i] = IF i = 0 THEN <<>> ELSE Step(g[i - 1], i)
      <3>1. CASE i = k + 1
        <4>1. g[i] = Step(f[k], k + 1) /\ i - 1 = k /\ i # 0 /\ g[k] = f[k]
          BY <3>1
        <4> QED BY <3>1, <4>1
      <3>2. CASE i # k + 1
        <4>1. i \in 0..k /\ g[i] = f[i] /\ (i # 0 => g[i - 1] = f[i - 1])
          BY <3>2
        <4> QED BY <2>2, <4>1
      <3> QED BY <3>1, <3>2
    <2>4. g = [i \in 0..k + 1 |-> g[i]]
      OBVIOUS
    <2> HIDE DEF g
    <2>5. g = [i \in 0..k + 1 |-> IF i = 0 THEN <<>> ELSE Step(g[i - 1], i)]
      BY <2>3, <2>4
    <2>6. IsJoin(texts, sep, k + 1, g)
      BY <2>5 DEF IsJoin, Step
    <2> QED BY <2>6
  <1>3. Nat \subseteq T
    <2> HIDE DEF T
    <2> QED BY <1>1, <1>2, Induction
  <1> QED BY <1>3

LEMMA JoinSteps ==
  ASSUME NEW texts, NEW sep, Len(texts) \in Nat
  PROVE  \E f : /\ f[0] = <<>> /\ Join(texts, sep) = f[Len(texts)]
                /\ \A i \in 1..Len(texts) : f[i] = JoinOne(f[i - 1], texts[i], i, sep)
  <1> DEFINE size == Len(texts)
             F == CHOOSE f : IsJoin(texts, sep, size, f)
  <1>1. Join(texts, sep) = F[size]
    BY DEF Join, IsJoin, JoinOne
  <1>2. IsJoin(texts, sep, size, F)
    BY JoinExists, Zenon
  <1> HIDE DEF F
  <1>3. \A i \in 0..size : F[i] = IF i = 0 THEN <<>> ELSE JoinOne(F[i - 1], texts[i], i, sep)
    BY <1>2 DEF IsJoin
  <1>4. F[0] = <<>> /\ \A i \in 1..size : F[i] = JoinOne(F[i - 1], texts[i], i, sep)
    BY <1>3
  <1> QED BY <1>1, <1>4

\* Expanding, term by term.
IsExpandTerms(p, values, size, f) ==
    f = [i \in 0..size |-> IF i = 0 THEN [text |-> <<>>, missing |-> <<>>, ok |-> TRUE] ELSE ExpandTerm(f[i - 1], p.terms[i], p.style, values)]

LEMMA ExpandTermsExists ==
  ASSUME NEW p, NEW values, NEW size \in Nat
  PROVE  \E f : IsExpandTerms(p, values, size, f)
  <1> DEFINE T == {k \in Nat : \E f : IsExpandTerms(p, values, k, f)}
             Step(acc, i) == ExpandTerm(acc, p.terms[i], p.style, values)
  <1>1. 0 \in T
    <2>1. IsExpandTerms(p, values, 0, [i \in 0..0 |-> [text |-> <<>>, missing |-> <<>>, ok |-> TRUE]])
      BY DEF IsExpandTerms
    <2> QED BY <2>1
  <1>2. ASSUME NEW k \in Nat, k \in T PROVE k + 1 \in T
    <2>1. PICK f : IsExpandTerms(p, values, k, f)
      BY <1>2
    <2> DEFINE g == [i \in 0..k + 1 |-> IF i = k + 1 THEN Step(f[k], k + 1) ELSE f[i]]
    <2>2. \A i \in 0..k : f[i] = IF i = 0 THEN [text |-> <<>>, missing |-> <<>>, ok |-> TRUE] ELSE Step(f[i - 1], i)
      BY <2>1 DEF IsExpandTerms
    <2> HIDE DEF Step
    <2>3. ASSUME NEW i \in 0..k + 1
          PROVE  g[i] = IF i = 0 THEN [text |-> <<>>, missing |-> <<>>, ok |-> TRUE] ELSE Step(g[i - 1], i)
      <3>1. CASE i = k + 1
        <4>1. g[i] = Step(f[k], k + 1) /\ i - 1 = k /\ i # 0 /\ g[k] = f[k]
          BY <3>1
        <4> QED BY <3>1, <4>1
      <3>2. CASE i # k + 1
        <4>1. i \in 0..k /\ g[i] = f[i] /\ (i # 0 => g[i - 1] = f[i - 1])
          BY <3>2
        <4> QED BY <2>2, <4>1
      <3> QED BY <3>1, <3>2
    <2>4. g = [i \in 0..k + 1 |-> g[i]]
      OBVIOUS
    <2> HIDE DEF g
    <2>5. g = [i \in 0..k + 1 |-> IF i = 0 THEN [text |-> <<>>, missing |-> <<>>, ok |-> TRUE] ELSE Step(g[i - 1], i)]
      BY <2>3, <2>4
    <2>6. IsExpandTerms(p, values, k + 1, g)
      BY <2>5 DEF IsExpandTerms, Step
    <2> QED BY <2>6
  <1>3. Nat \subseteq T
    <2> HIDE DEF T
    <2> QED BY <1>1, <1>2, Induction
  <1> QED BY <1>3

LEMMA ExpandTermsSteps ==
  ASSUME NEW p, NEW values, Len(p.terms) \in Nat
  PROVE  \E f : /\ f[0] = [text |-> <<>>, missing |-> <<>>, ok |-> TRUE] /\ ExpandTerms(p, values) = f[Len(p.terms)]
                /\ \A i \in 1..Len(p.terms) : f[i] = ExpandTerm(f[i - 1], p.terms[i], p.style, values)
  <1> DEFINE size == Len(p.terms)
             F == CHOOSE f : IsExpandTerms(p, values, size, f)
  <1>1. ExpandTerms(p, values) = F[size]
    BY DEF ExpandTerms, IsExpandTerms
  <1>2. IsExpandTerms(p, values, size, F)
    BY ExpandTermsExists, Zenon
  <1> HIDE DEF F
  <1>3. \A i \in 0..size : F[i] = IF i = 0 THEN [text |-> <<>>, missing |-> <<>>, ok |-> TRUE] ELSE ExpandTerm(F[i - 1], p.terms[i], p.style, values)
    BY <1>2 DEF IsExpandTerms
  <1>4. F[0] = [text |-> <<>>, missing |-> <<>>, ok |-> TRUE] /\ \A i \in 1..size : F[i] = ExpandTerm(F[i - 1], p.terms[i], p.style, values)
    BY <1>3
  <1> QED BY <1>1, <1>4

SlashOne(acc, text, i) ==
    IF text[i] = "/" /\ i > 1 /\ text[i - 1] = "/" THEN acc ELSE Append(acc, text[i])

\* Cleaning, token by token.
IsOneSlash(text, size, f) ==
    f = [i \in 0..size |-> IF i = 0 THEN <<>> ELSE SlashOne(f[i - 1], text, i)]

LEMMA OneSlashExists ==
  ASSUME NEW text, NEW size \in Nat
  PROVE  \E f : IsOneSlash(text, size, f)
  <1> DEFINE T == {k \in Nat : \E f : IsOneSlash(text, k, f)}
             Step(acc, i) == SlashOne(acc, text, i)
  <1>1. 0 \in T
    <2>1. IsOneSlash(text, 0, [i \in 0..0 |-> <<>>])
      BY DEF IsOneSlash
    <2> QED BY <2>1
  <1>2. ASSUME NEW k \in Nat, k \in T PROVE k + 1 \in T
    <2>1. PICK f : IsOneSlash(text, k, f)
      BY <1>2
    <2> DEFINE g == [i \in 0..k + 1 |-> IF i = k + 1 THEN Step(f[k], k + 1) ELSE f[i]]
    <2>2. \A i \in 0..k : f[i] = IF i = 0 THEN <<>> ELSE Step(f[i - 1], i)
      BY <2>1 DEF IsOneSlash
    <2> HIDE DEF Step
    <2>3. ASSUME NEW i \in 0..k + 1
          PROVE  g[i] = IF i = 0 THEN <<>> ELSE Step(g[i - 1], i)
      <3>1. CASE i = k + 1
        <4>1. g[i] = Step(f[k], k + 1) /\ i - 1 = k /\ i # 0 /\ g[k] = f[k]
          BY <3>1
        <4> QED BY <3>1, <4>1
      <3>2. CASE i # k + 1
        <4>1. i \in 0..k /\ g[i] = f[i] /\ (i # 0 => g[i - 1] = f[i - 1])
          BY <3>2
        <4> QED BY <2>2, <4>1
      <3> QED BY <3>1, <3>2
    <2>4. g = [i \in 0..k + 1 |-> g[i]]
      OBVIOUS
    <2> HIDE DEF g
    <2>5. g = [i \in 0..k + 1 |-> IF i = 0 THEN <<>> ELSE Step(g[i - 1], i)]
      BY <2>3, <2>4
    <2>6. IsOneSlash(text, k + 1, g)
      BY <2>5 DEF IsOneSlash, Step
    <2> QED BY <2>6
  <1>3. Nat \subseteq T
    <2> HIDE DEF T
    <2> QED BY <1>1, <1>2, Induction
  <1> QED BY <1>3

LEMMA OneSlashSteps ==
  ASSUME NEW text, Len(text) \in Nat
  PROVE  \E f : /\ f[0] = <<>> /\ OneSlash(text) = f[Len(text)]
                /\ \A i \in 1..Len(text) : f[i] = SlashOne(f[i - 1], text, i)
  <1> DEFINE size == Len(text)
             F == CHOOSE f : IsOneSlash(text, size, f)
  <1>1. OneSlash(text) = F[size]
    BY DEF OneSlash, IsOneSlash, SlashOne
  <1>2. IsOneSlash(text, size, F)
    BY OneSlashExists, Zenon
  <1> HIDE DEF F
  <1>3. \A i \in 0..size : F[i] = IF i = 0 THEN <<>> ELSE SlashOne(F[i - 1], text, i)
    BY <1>2 DEF IsOneSlash
  <1>4. F[0] = <<>> /\ \A i \in 1..size : F[i] = SlashOne(F[i - 1], text, i)
    BY <1>3
  <1> QED BY <1>1, <1>4

PathOne(acc, text) ==
    IF text = <<>> THEN acc ELSE acc \o (IF acc = <<>> THEN <<>> ELSE <<"/">>) \o text

\* Joining what is not empty, text by text.
IsJoinNonempty(texts, size, f) ==
    f = [i \in 0..size |-> IF i = 0 THEN <<>> ELSE PathOne(f[i - 1], texts[i])]

LEMMA JoinNonemptyExists ==
  ASSUME NEW texts, NEW size \in Nat
  PROVE  \E f : IsJoinNonempty(texts, size, f)
  <1> DEFINE T == {k \in Nat : \E f : IsJoinNonempty(texts, k, f)}
             Step(acc, i) == PathOne(acc, texts[i])
  <1>1. 0 \in T
    <2>1. IsJoinNonempty(texts, 0, [i \in 0..0 |-> <<>>])
      BY DEF IsJoinNonempty
    <2> QED BY <2>1
  <1>2. ASSUME NEW k \in Nat, k \in T PROVE k + 1 \in T
    <2>1. PICK f : IsJoinNonempty(texts, k, f)
      BY <1>2
    <2> DEFINE g == [i \in 0..k + 1 |-> IF i = k + 1 THEN Step(f[k], k + 1) ELSE f[i]]
    <2>2. \A i \in 0..k : f[i] = IF i = 0 THEN <<>> ELSE Step(f[i - 1], i)
      BY <2>1 DEF IsJoinNonempty
    <2> HIDE DEF Step
    <2>3. ASSUME NEW i \in 0..k + 1
          PROVE  g[i] = IF i = 0 THEN <<>> ELSE Step(g[i - 1], i)
      <3>1. CASE i = k + 1
        <4>1. g[i] = Step(f[k], k + 1) /\ i - 1 = k /\ i # 0 /\ g[k] = f[k]
          BY <3>1
        <4> QED BY <3>1, <4>1
      <3>2. CASE i # k + 1
        <4>1. i \in 0..k /\ g[i] = f[i] /\ (i # 0 => g[i - 1] = f[i - 1])
          BY <3>2
        <4> QED BY <2>2, <4>1
      <3> QED BY <3>1, <3>2
    <2>4. g = [i \in 0..k + 1 |-> g[i]]
      OBVIOUS
    <2> HIDE DEF g
    <2>5. g = [i \in 0..k + 1 |-> IF i = 0 THEN <<>> ELSE Step(g[i - 1], i)]
      BY <2>3, <2>4
    <2>6. IsJoinNonempty(texts, k + 1, g)
      BY <2>5 DEF IsJoinNonempty, Step
    <2> QED BY <2>6
  <1>3. Nat \subseteq T
    <2> HIDE DEF T
    <2> QED BY <1>1, <1>2, Induction
  <1> QED BY <1>3

LEMMA JoinNonemptySteps ==
  ASSUME NEW texts, Len(texts) \in Nat
  PROVE  \E f : /\ f[0] = <<>> /\ JoinNonempty(texts) = f[Len(texts)]
                /\ \A i \in 1..Len(texts) : f[i] = PathOne(f[i - 1], texts[i])
  <1> DEFINE size == Len(texts)
             F == CHOOSE f : IsJoinNonempty(texts, size, f)
  <1>1. JoinNonempty(texts) = F[size]
    BY DEF JoinNonempty, IsJoinNonempty, PathOne
  <1>2. IsJoinNonempty(texts, size, F)
    BY JoinNonemptyExists, Zenon
  <1> HIDE DEF F
  <1>3. \A i \in 0..size : F[i] = IF i = 0 THEN <<>> ELSE PathOne(F[i - 1], texts[i])
    BY <1>2 DEF IsJoinNonempty
  <1>4. F[0] = <<>> /\ \A i \in 1..size : F[i] = PathOne(F[i - 1], texts[i])
    BY <1>3
  <1> QED BY <1>1, <1>4

-----------------------------------------------------------------------------
(***************************************************************************)
(* Texts without an opening brace                                          *)
(***************************************************************************)
Brace        == "{"
IsClean(s)   == IsSeq(s) /\ Brace \notin Tokens(s)
AreClean(ss) == IsSeq(ss) /\ \A i \in 1..Len(ss) : IsClean(ss[i])

LEMMA CleanMeans ==
  ASSUME NEW s, IsSeq(s)
  PROVE  IsClean(s) <=> ~Contains(s, "{")
  BY DEF IsClean, Contains, Tokens, Brace

LEMMA CleanEmpty == IsClean(<<>>)
  BY EmptyIsSeq, NoTokens DEF IsClean

LEMMA CleanAppend ==
  ASSUME NEW s, IsClean(s), NEW e, e # Brace
  PROVE  IsClean(Append(s, e))
  BY AppendSeq, AppendTokens DEF IsClean

LEMMA CleanOne ==
  ASSUME NEW e, e # Brace
  PROVE  IsClean(<<e>>)
  <1> DEFINE s == <<e>>
  <1>1. IsSeq(s) /\ Len(s) = 1 /\ s[1] = e
    BY OneSeq
  <1> HIDE DEF s
  <1>2. IsClean(s)
    BY <1>1 DEF IsClean, Tokens
  <1> QED BY <1>2 DEF s

LEMMA CleanConcat ==
  ASSUME NEW s, IsClean(s), NEW t, IsClean(t)
  PROVE  IsClean(s \o t)
  BY ConcatSeq, ConcatTokens DEF IsClean

LEMMA CleanSub ==
  ASSUME NEW s, IsClean(s), NEW m \in 1..Len(s) + 1, NEW n \in m - 1..Len(s)
  PROVE  IsClean(SubSeq(s, m, n))
  BY SubIsSeq, SubTokens DEF IsClean

LEMMA CleanFront ==
  ASSUME NEW s, IsClean(s), s # <<>>
  PROVE  IsClean(Front(s))
  <1>1. Len(s) \in Nat /\ Len(s) > 0
    BY NonemptySeq DEF IsClean, IsSeq
  <1>2. 1 \in 1..Len(s) + 1 /\ Len(s) - 1 \in 1 - 1..Len(s)
    BY <1>1
  <1> QED BY <1>2, CleanSub DEF Front

LEMMA CleanTail ==
  ASSUME NEW s, IsClean(s), s # <<>>
  PROVE  IsClean(Tail(s))
  <1> DEFINE S == Tokens(s)
             t == Tail(s)
  <1>1. s \in Seq(S)
    BY SeqTyped DEF IsClean, Tokens
  <1> HIDE DEF S
  <1>2. t \in Seq(S)
    BY <1>1
  <1> HIDE DEF t
  <1>3. IsSeq(t) /\ \A i \in 1..Len(t) : t[i] \in S
    BY <1>2, TypedSeq
  <1>4. IsClean(t)
    BY <1>3 DEF IsClean, Tokens, S
  <1> QED BY <1>4 DEF t

LEMMA CleanChunks ==
  ASSUME NEW text, NEW sep, IsClean(text) \/ (IsSeq(text) /\ sep = Brace)
  PROVE  AreClean(Split(text, sep)) /\ Len(Split(text, sep)) > 0
  <1>1. Chunked(Split(text, sep), Tokens(text), sep)
    BY SplitChunks DEF IsClean
  <1> QED BY <1>1 DEF Chunked, AreClean, IsClean

\* From one index to the next.
LEMMA Stepwise ==
  ASSUME NEW n \in Nat, NEW T, 0 \in T, \A i \in 1..n : i - 1 \in T => i \in T
  PROVE  n \in T
  <1> DEFINE U == {k \in Nat : k <= n => k \in T}
  <1>1. 0 \in U
    OBVIOUS
  <1>2. ASSUME NEW k \in Nat, k \in U PROVE k + 1 \in U
    <2>1. CASE k + 1 <= n
      <3>1. k + 1 \in 1..n /\ k + 1 - 1 = k /\ k \in T
        BY <1>2, <2>1
      <3>2. k + 1 \in T
        BY <3>1
      <3> QED BY <3>2
    <2>2. CASE ~(k + 1 <= n)
      BY <2>2
    <2> QED BY <2>1, <2>2
  <1>3. Nat \subseteq U
    <2> HIDE DEF U
    <2> QED BY <1>1, <1>2, Induction
  <1> QED BY <1>3

\* Flattening adds nothing.
LEMMA FlattenTokens ==
  ASSUME NEW seqs, AreSeqs(seqs)
  PROVE  /\ IsSeq(FlattenSeq(seqs))
         /\ Tokens(FlattenSeq(seqs)) \subseteq UNION {Tokens(seqs[i]) : i \in 1..Len(seqs)}
  <1> DEFINE n == Len(seqs)
             U == UNION {Tokens(seqs[i]) : i \in 1..n}
  <1>1. n \in Nat
    BY DEF AreSeqs, IsSeq
  <1>2. CASE n = 0
    <2>1. seqs = <<>>
      BY <1>2, NonemptySeq DEF AreSeqs
    <2>2. FlattenSeq(seqs) = <<>>
      BY <2>1, FlattenEmpty
    <2> QED BY <2>2, EmptyIsSeq, NoTokens
  <1>3. CASE n # 0
    <2>1. PICK f : /\ f[1] = seqs[1] /\ FlattenSeq(seqs) = f[n]
                   /\ \A i \in Nat : 0 < i /\ i < n => f[i + 1] = f[i] \o seqs[i + 1]
      BY <1>1, <1>3, FlattenSteps, Zenon
    <2>2. \A i \in 1..n : IsSeq(seqs[i]) /\ Tokens(seqs[i]) \subseteq U
      BY DEF AreSeqs
    <2> HIDE DEF U
    <2> DEFINE T == {k \in Nat : k = 0 \/ (IsSeq(f[k]) /\ Tokens(f[k]) \subseteq U)}
    <2>3. 0 \in T
      OBVIOUS
    <2>4. ASSUME NEW k \in 1..n, k - 1 \in T PROVE k \in T
      <3>1. CASE k = 1
        <4>1. IsSeq(f[1]) /\ Tokens(f[1]) \subseteq U
          BY <2>1, <2>2, <3>1
        <4> QED BY <3>1, <4>1
      <3>2. CASE k # 1
        <4> DEFINE j == k - 1
        <4>1. j \in Nat /\ 0 < j /\ j < n /\ j + 1 = k /\ j # 0
          BY <1>1, <3>2
        <4>2. IsSeq(f[j]) /\ Tokens(f[j]) \subseteq U
          BY <2>4, <4>1
        <4>3. f[k] = f[j] \o seqs[k]
          <5> HIDE DEF j
          <5> QED BY <2>1, <4>1
        <4> HIDE DEF j
        <4>4. IsSeq(seqs[k]) /\ Tokens(seqs[k]) \subseteq U
          BY <2>2
        <4>5. IsSeq(f[k]) /\ Tokens(f[k]) \subseteq U
          BY <4>2, <4>3, <4>4, ConcatSeq, ConcatTokens
        <4> QED BY <1>1, <4>5
      <3> QED BY <3>1, <3>2
    <2>5. n \in T
      <3> HIDE DEF T
      <3> QED BY <1>1, <2>3, <2>4, Stepwise
    <2> QED BY <1>3, <2>1, <2>5 DEF U
  <1> QED BY <1>2, <1>3

LEMMA FlattenClean ==
  ASSUME NEW texts, AreClean(texts)
  PROVE  IsClean(FlattenSeq(texts))
  BY FlattenTokens DEF AreClean, AreSeqs, IsClean

-----------------------------------------------------------------------------
(***************************************************************************)
(* What Parse keeps of a template has no opening brace.                    *)
(***************************************************************************)
IsTerm(t)   == IsClean(t.name) /\ t.truncate \in Nat
IsStyle(s)  == IsClean(s.first) /\ s.sep # Brace /\ IsClean(s.ifemp)
IsPart(p)   == /\ IsClean(p.raw) /\ IsStyle(p.style)
               /\ IsSeq(p.terms) /\ \A i \in 1..Len(p.terms) : IsTerm(p.terms[i])
AreParts(s) == IsSeq(s) /\ \A i \in 1..Len(s) : IsPart(s[i])

LEMMA StylesAreStyles ==
  ASSUME NEW op \in Operators \cup {"none"}
  PROVE  IsStyle(Style[op])
  <1> DEFINE first == IF op \in {"none", "+"} THEN <<>> ELSE <<op>>
             sep   == IF op \in {"none", "+", "#"} THEN "," ELSE IF op = "?" THEN "&" ELSE op
             ifemp == IF op \in {"?", "&"} THEN <<"=">> ELSE <<>>
  <1>1. Style[op].first = first /\ Style[op].sep = sep /\ Style[op].ifemp = ifemp
    BY DEF Style
  <1>2. op # Brace /\ sep # Brace /\ "=" # Brace
    BY DEF Operators, Brace
  <1>3. IsClean(first)
    BY <1>2, CleanEmpty, CleanOne
  <1>4. IsClean(ifemp)
    BY <1>2, CleanEmpty, CleanOne
  <1> QED BY <1>1, <1>2, <1>3, <1>4 DEF IsStyle

LEMMA LiteralIsPart ==
  ASSUME NEW text, IsClean(text)
  PROVE  IsPart(Literal(text))
  <1>1. Literal(text).raw = text /\ Literal(text).terms = <<>> /\ Literal(text).style = Style["none"]
    BY DEF Literal
  <1> QED BY <1>1, EmptyIsSeq, StylesAreStyles DEF IsPart

LEMMA ParseTermIsTerm ==
  ASSUME NEW text, IsClean(text)
  PROVE  IsTerm(ParseTerm(text).term)
  <1> DEFINE explode == text # <<>> /\ Last(text) = "*"
             whole   == IF explode THEN Front(text) ELSE text
             split   == Split(whole, ":")
             number  == IF Len(split) = 2 THEN split[2] ELSE <<"0">>
             isInt   == Len(number) = 1 /\ number[1] \in DOMAIN Numbers
             cut     == IF isInt THEN Numbers[number[1]] ELSE 0
  <1>1. ParseTerm(text).term = [name |-> split[1], explode |-> explode, truncate |-> cut]
    BY DEF ParseTerm
  <1>2. IsClean(whole)
    BY CleanFront
  <1> HIDE DEF whole
  <1>3. AreClean(split) /\ Len(split) > 0
    BY <1>2, CleanChunks
  <1> HIDE DEF split
  <1>4. IsClean(split[1])
    BY <1>3 DEF AreClean, IsSeq
  <1>5. cut \in Nat
    <2> HIDE DEF number
    <2> QED BY NumbersAssumption
  <1> HIDE DEF cut, explode
  <1> QED BY <1>1, <1>4, <1>5 DEF IsTerm

LEMMA ParseExpressionIsPart ==
  ASSUME NEW text, IsClean(text), text # <<>>
  PROVE  IsPart(ParseExpression(text).part)
  <1> DEFINE op    == IF text[1] \in Operators THEN text[1] ELSE "none"
             rest  == IF op = "none" THEN text ELSE Tail(text)
             split == Split(rest, ",")
             made  == Each(ParseTerm, split)
             terms == [i \in DOMAIN made |-> made[i].term]
  <1>1. ParseExpression(text).part = [raw |-> <<>>, style |-> Style[op], terms |-> terms]
    BY DEF ParseExpression
  <1>2. IsStyle(Style[op])
    <2>1. op \in Operators \cup {"none"}
      OBVIOUS
    <2> HIDE DEF op
    <2> QED BY <2>1, StylesAreStyles
  <1> HIDE DEF op
  <1>3. IsClean(rest)
    BY CleanTail
  <1> HIDE DEF rest
  <1>4. AreClean(split)
    BY <1>3, CleanChunks
  <1>5. made = [i \in DOMAIN split |-> [chunk \in ToSet(split) |-> ParseTerm(chunk)][split[i]]]
    BY DEF Each
  <1> HIDE DEF split, made
  <1>6. DOMAIN split = 1..Len(split) /\ Len(split) \in Nat
    BY <1>4, SeqDomain DEF AreClean
  <1>7. DOMAIN made = 1..Len(split) /\ \A i \in 1..Len(split) : made[i] = ParseTerm(split[i])
    BY <1>5, <1>6 DEF ToSet
  <1>8. /\ terms = [i \in 1..Len(split) |-> terms[i]]
        /\ \A i \in 1..Len(split) : terms[i] = ParseTerm(split[i]).term
    BY <1>7
  <1> HIDE DEF terms
  <1>9. IsSeq(terms) /\ Len(terms) = Len(split)
    BY <1>6, <1>8, FunSeq
  <1>10. \A i \in 1..Len(terms) : IsTerm(terms[i])
    BY <1>4, <1>8, <1>9, ParseTermIsTerm DEF AreClean
  <1> QED BY <1>1, <1>2, <1>9, <1>10, CleanEmpty DEF IsPart

LEMMA OneIsParts ==
  ASSUME NEW p, IsPart(p)
  PROVE  AreParts(<<p>>)
  <1> DEFINE s == <<p>>
  <1>1. IsSeq(s) /\ Len(s) = 1 /\ s[1] = p
    BY OneSeq
  <1> HIDE DEF s
  <1>2. AreParts(s)
    BY <1>1 DEF AreParts
  <1> QED BY <1>2 DEF s

LEMMA ChunkIsParts ==
  ASSUME NEW chunk, IsClean(chunk), ChunkParsed(chunk).outcome = "ok"
  PROVE  AreParts(ChunkParsed(chunk).parts)
  <1> DEFINE subsplit == Split(chunk, "}")
             e == ParseExpression(subsplit[1])
             q == Literal(subsplit[2])
             s == <<e.part, q>>
  <1>1. AreClean(subsplit)
    BY CleanChunks
  <1>2. Len(subsplit) = 2 /\ subsplit[1] # <<>> /\ ChunkParsed(chunk).parts = s
    BY DEF ChunkParsed
  <1> HIDE DEF subsplit
  <1>3. IsClean(subsplit[1]) /\ IsClean(subsplit[2])
    BY <1>1, <1>2 DEF AreClean
  <1>4. IsPart(e.part) /\ IsPart(q)
    BY <1>2, <1>3, ParseExpressionIsPart, LiteralIsPart
  <1> HIDE DEF e, q
  <1>5. IsSeq(s) /\ Len(s) = 2 /\ s[1] = e.part /\ s[2] = q
    BY DEF IsSeq
  <1> HIDE DEF s
  <1>6. AreParts(s)
    BY <1>4, <1>5 DEF AreParts
  <1> QED BY <1>2, <1>6

\* The parts of a template that Parse accepted.
LEMMA ParsedParts ==
  ASSUME NEW raw, IsSeq(raw), Parse(raw).outcome = "ok"
  PROVE  AreParts(Parse(raw).parts)
  <1> DEFINE split  == Split(raw, "{")
             first  == [outcome |-> IF Contains(split[1], "}") THEN "error" ELSE "ok",
                        parts   |-> <<Literal(split[1])>>]
             tail   == Tail(split)
             rest   == Each(ChunkParsed, tail)
             chunks == <<first>> \o rest
             Bad    == {i \in 1..Len(chunks) : chunks[i].outcome # "ok"}
             bad    == SelectInSeq(chunks, LAMBDA c : c.outcome # "ok")
             pieces == [i \in DOMAIN chunks |-> chunks[i].parts]
             Good(c) == c.outcome = "ok" => AreParts(c.parts)
  <1>1. AreClean(split) /\ Len(split) > 0 /\ Len(split) \in Nat
    BY CleanChunks DEF AreClean, IsSeq, Brace
  <1>2. Parse(raw) = IF bad = 0
                     THEN [outcome |-> "ok", raw |-> raw, parts |-> FlattenSeq(pieces)]
                     ELSE [outcome |-> chunks[bad].outcome, raw |-> <<>>, parts |-> <<>>]
    BY DEF Parse
  <1>3. bad = IF Bad # {} THEN Min(Bad) ELSE 0
    BY DEF SelectInSeq
  <1> HIDE DEF bad, split
  <1>4. Good(first)
    <2>1. IsClean(split[1])
      BY <1>1 DEF AreClean
    <2>2. AreParts(<<Literal(split[1])>>)
      BY <2>1, LiteralIsPart, OneIsParts
    <2> QED BY <2>2
  <1>5. IsSeq(tail) /\ Len(tail) = Len(split) - 1 /\ \A i \in 1..Len(tail) : IsClean(tail[i])
    <2>1. IsSeq(split)
      BY <1>1 DEF AreClean
    <2>2. IsSeq(tail) /\ Len(tail) = Len(split) - 1
      BY <1>1, <2>1, TailIsSeq
    <2> DEFINE S == {x \in Tokens(split) : IsClean(x)}
    <2>3. split \in Seq(S) /\ split # <<>>
      <3>1. split \in Seq({split[i] : i \in 1..Len(split)}) /\ split # <<>>
        BY <1>1, <2>1, SeqTyped, NonemptySeq
      <3>2. {split[i] : i \in 1..Len(split)} = S
        BY <1>1 DEF AreClean, Tokens
      <3> QED BY <3>1, <3>2
    <2> HIDE DEF S
    <2>4. tail \in Seq(S)
      BY <2>3
    <2> HIDE DEF tail
    <2>5. \A i \in 1..Len(tail) : tail[i] \in S
      BY <2>4
    <2> QED BY <2>2, <2>5 DEF S
  <1>6. IsSeq(rest) /\ \A i \in 1..Len(rest) : Good(rest[i])
    <2>1. DOMAIN tail = 1..Len(tail) /\ Len(tail) \in Nat
      BY <1>5, SeqDomain
    <2>2. rest = [i \in DOMAIN tail |-> [text \in ToSet(tail) |-> ChunkParsed(text)][tail[i]]]
      BY DEF Each
    <2> HIDE DEF tail, rest
    <2>3. rest = [i \in 1..Len(tail) |-> rest[i]] /\ \A i \in 1..Len(tail) : rest[i] = ChunkParsed(tail[i])
      BY <2>1, <2>2 DEF ToSet
    <2>4. IsSeq(rest) /\ Len(rest) = Len(tail)
      BY <2>1, <2>3, FunSeq
    <2>5. ASSUME NEW i \in 1..Len(rest) PROVE Good(rest[i])
      <3>1. IsClean(tail[i]) /\ rest[i] = ChunkParsed(tail[i])
        BY <1>5, <2>3, <2>4
      <3> QED BY <3>1, ChunkIsParts
    <2> QED BY <2>4, <2>5
  <1> HIDE DEF first, rest, Good
  <1>7. IsSeq(chunks) /\ \A i \in 1..Len(chunks) : Good(chunks[i])
    <2> DEFINE one == <<first>>
    <2>1. IsSeq(one) /\ Len(one) = 1 /\ one[1] = first
      BY OneSeq
    <2> HIDE DEF one
    <2>2. /\ IsSeq(one \o rest) /\ Len(one \o rest) = 1 + Len(rest)
          /\ \A i \in 1..Len(one \o rest) :
                (one \o rest)[i] = IF i <= 1 THEN one[i] ELSE rest[i - 1]
      BY <1>6, <2>1, ConcatSeq
    <2>3. chunks = one \o rest /\ Len(rest) \in Nat
      BY <1>6 DEF one, IsSeq
    <2> HIDE DEF chunks
    <2>4. ASSUME NEW i \in 1..Len(chunks) PROVE Good(chunks[i])
      <3>1. CASE i = 1
        BY <1>4, <2>1, <2>2, <2>3, <3>1
      <3>2. CASE i # 1
        <4>1. i - 1 \in 1..Len(rest) /\ chunks[i] = rest[i - 1]
          BY <2>2, <2>3, <3>2
        <4> QED BY <1>6, <4>1
      <3> QED BY <3>1, <3>2
    <2> QED BY <2>2, <2>3, <2>4
  <1> HIDE DEF chunks
  <1>8. bad = 0 /\ Bad = {}
    <2>1. Bad \subseteq 1..Len(chunks) /\ Bad \subseteq Nat /\ \A i \in Bad : chunks[i].outcome # "ok" /\ i # 0
      BY <1>7 DEF IsSeq
    <2>2. ASSUME Bad # {} PROVE FALSE
      <3> HIDE DEF Bad
      <3>1. PICK x \in Bad : \A y \in Bad : x <= y
        BY <2>1, <2>2, LeastNumber
      <3>2. Min(Bad) \in Bad
        BY <3>1 DEF Min
      <3>3. bad \in Bad
        BY <1>3, <2>2, <3>2
      <3>4. Parse(raw).outcome = chunks[bad].outcome
        BY <1>2, <2>1, <3>3
      <3> QED BY <2>1, <3>3, <3>4
    <2> QED BY <1>3, <2>2
  <1>9. DOMAIN chunks = 1..Len(chunks) /\ Len(chunks) \in Nat
    BY <1>7, SeqDomain
  <1>10. \A i \in 1..Len(chunks) : AreParts(chunks[i].parts)
    BY <1>7, <1>8 DEF Good
  <1>11. pieces = [i \in 1..Len(chunks) |-> pieces[i]] /\ \A i \in 1..Len(chunks) : pieces[i] = chunks[i].parts
    BY <1>9
  <1> HIDE DEF pieces
  <1>12. IsSeq(pieces) /\ Len(pieces) = Len(chunks)
    BY <1>9, <1>11, FunSeq
  <1>13. \A i \in 1..Len(pieces) : AreParts(pieces[i])
    BY <1>10, <1>11, <1>12
  <1>14. AreSeqs(pieces)
    BY <1>12, <1>13 DEF AreSeqs, AreParts
  <1> DEFINE flat == FlattenSeq(pieces)
  <1>15. IsSeq(flat) /\ Tokens(flat) \subseteq UNION {Tokens(pieces[i]) : i \in 1..Len(pieces)}
    BY <1>14, FlattenTokens
  <1>16. Parse(raw).parts = flat
    BY <1>2, <1>8
  <1> HIDE DEF flat
  <1>17. ASSUME NEW j \in 1..Len(flat) PROVE IsPart(flat[j])
    <2>1. flat[j] \in Tokens(flat)
      BY DEF Tokens
    <2>2. PICK i \in 1..Len(pieces) : flat[j] \in Tokens(pieces[i])
      BY <1>15, <2>1
    <2> QED BY <1>13, <2>2 DEF AreParts, Tokens
  <1> QED BY <1>15, <1>16, <1>17 DEF AreParts

-----------------------------------------------------------------------------
(***************************************************************************)
(* Expansion writes no opening brace: values are escaped.                  *)
(***************************************************************************)
LEMMA EscapeClean ==
  ASSUME NEW text, IsKnown(text), NEW allowReserved
  PROVE  IsClean(Escape(text, allowReserved))
  <1> DEFINE keep(i) == text[i] \in Unreserved \/ (allowReserved /\ text[i] \in Reserved)
             s == Escape(text, allowReserved)
  <1>1. IsSeq(text) /\ DOMAIN text = 1..Len(text) /\ Len(text) \in Nat
    BY SeqDomain DEF IsKnown
  <1>2. s = [i \in 1..Len(text) |-> IF keep(i) THEN text[i] ELSE "%" \o text[i]]
    BY <1>1 DEF Escape
  <1>3. \A i \in 1..Len(text) : keep(i) => text[i] \in Unreserved \cup Reserved
    OBVIOUS
  <1> HIDE DEF keep, s
  <1>4. s = [i \in 1..Len(text) |-> s[i]]
    BY <1>2
  <1>5. IsSeq(s) /\ Len(s) = Len(text)
    BY <1>1, <1>4, FunSeq
  <1>6. ASSUME NEW i \in 1..Len(text) PROVE s[i] # Brace
    <2>1. CASE keep(i)
      <3>1. s[i] = text[i] /\ text[i] \in Unreserved \cup Reserved
        BY <1>2, <1>3, <2>1
      <3>2. Brace \notin Unreserved \cup Reserved
        BY EscapeAssumption DEF Brace
      <3> QED BY <3>1, <3>2
    <2>2. CASE ~keep(i)
      <3>1. s[i] = "%" \o text[i]
        BY <1>2, <2>2
      <3>2. text[i] \in Chars \cup {"<nil>"}
        BY DEF IsKnown, Tokens, Known
      <3>3. "%" \o text[i] # Brace
        BY <3>2, EscapedAssumption, Zenon DEF Brace
      <3> QED BY <3>1, <3>3
    <2> QED BY <2>1, <2>2
  <1>7. IsClean(s)
    BY <1>5, <1>6 DEF IsClean, Tokens
  <1> QED BY <1>7 DEF s

LEMMA TruncateKnown ==
  ASSUME NEW term, IsTerm(term), NEW text, IsKnown(text)
  PROVE  IsKnown(Truncate(term, text))
  <1>1. CASE term.truncate > 0 /\ Len(text) > term.truncate
    <2>1. Len(text) \in Nat /\ term.truncate \in Nat
      BY DEF IsKnown, IsSeq, IsTerm
    <2>2. 1 \in 1..Len(text) + 1 /\ term.truncate \in 1 - 1..Len(text)
      BY <1>1, <2>1
    <2>3. Truncate(term, text) = SubSeq(text, 1, term.truncate)
      BY <1>1 DEF Truncate
    <2> QED BY <2>2, <2>3, SubKnown
  <1>2. CASE ~(term.truncate > 0 /\ Len(text) > term.truncate)
    BY <1>2 DEF Truncate
  <1> QED BY <1>1, <1>2

LEMMA NameTextClean ==
  ASSUME NEW style, IsStyle(style), NEW term, IsTerm(term), NEW empty
  PROVE  IsClean(NameText(style, term, empty))
  <1> DEFINE mark == IF empty THEN style.ifemp ELSE <<"=">>
  <1>1. "=" # Brace
    BY DEF Brace
  <1>2. IsClean(mark)
    BY <1>1, CleanOne DEF IsStyle
  <1>3. NameText(style, term, empty) = IF style.named THEN term.name \o mark ELSE <<>>
    BY DEF NameText
  <1> HIDE DEF mark
  <1>4. IsClean(term.name \o mark)
    BY <1>2, CleanConcat DEF IsTerm
  <1> QED BY <1>3, <1>4, CleanEmpty

LEMMA ExpandStringClean ==
  ASSUME NEW style, IsStyle(style), NEW term, IsTerm(term), NEW text, IsKnown(text)
  PROVE  IsClean(ExpandString(style, term, text))
  <1> DEFINE s == Truncate(term, text)
             name == NameText(style, term, s = <<>>)
             escaped == Escape(s, style.allowReserved)
  <1>1. IsKnown(s)
    BY TruncateKnown
  <1>2. ExpandString(style, term, text) = name \o escaped
    BY DEF ExpandString
  <1> HIDE DEF s
  <1>3. IsClean(name) /\ IsClean(escaped)
    BY <1>1, NameTextClean, EscapeClean
  <1> HIDE DEF name, escaped
  <1> QED BY <1>2, <1>3, CleanConcat

LEMMA ExpandItemClean ==
  ASSUME NEW style, IsStyle(style), NEW term, IsTerm(term), NEW kind, NEW item, IsItem(item)
  PROVE  IsClean(ExpandItem(style, term, kind, item))
  <1> DEFINE out == ExpandItem(style, term, kind, item)
  <1>1. IsKnown(item.key) /\ IsKnown(item.val)
    BY DEF IsItem
  <1>2. CASE kind = "map"
    <2> DEFINE key  == Escape(item.key, style.allowReserved)
               mark == <<IF term.explode THEN "=" ELSE ",">>
               val  == Escape(item.val, style.allowReserved)
    <2>1. out = key \o mark \o val
      BY <1>2 DEF ExpandItem
    <2>2. (IF term.explode THEN "=" ELSE ",") # Brace
      BY DEF Brace
    <2>3. IsClean(key) /\ IsClean(mark) /\ IsClean(val)
      BY <1>1, <2>2, EscapeClean, CleanOne
    <2> HIDE DEF key, mark, val
    <2>4. IsClean(key \o mark)
      BY <2>3, CleanConcat
    <2> QED BY <2>1, <2>3, <2>4, CleanConcat
  <1>3. CASE kind # "map" /\ term.explode
    <2>1. out = ExpandString(style, term, item.val)
      BY <1>3 DEF ExpandItem
    <2> QED BY <1>1, <2>1, ExpandStringClean
  <1>4. CASE kind # "map" /\ ~term.explode
    <2>1. out = Escape(Truncate(term, item.val), style.allowReserved)
      BY <1>4 DEF ExpandItem
    <2> QED BY <1>1, <2>1, TruncateKnown, EscapeClean
  <1> QED BY <1>2, <1>3, <1>4

LEMMA JoinClean ==
  ASSUME NEW texts, AreClean(texts), NEW sep, sep # Brace
  PROVE  IsClean(Join(texts, sep))
  <1>1. Len(texts) \in Nat
    BY DEF AreClean, IsSeq
  <1>2. PICK f : /\ f[0] = <<>> /\ Join(texts, sep) = f[Len(texts)]
                 /\ \A i \in 1..Len(texts) : f[i] = JoinOne(f[i - 1], texts[i], i, sep)
    BY <1>1, JoinSteps
  <1> DEFINE T == {k \in Nat : IsClean(f[k])}
  <1>3. 0 \in T
    BY <1>2, CleanEmpty
  <1>4. ASSUME NEW i \in 1..Len(texts), i - 1 \in T PROVE i \in T
    <2> DEFINE mark == IF i = 1 THEN <<>> ELSE <<sep>>
               old  == f[i - 1]
    <2>1. IsClean(mark) /\ IsClean(texts[i]) /\ IsClean(old) /\ i \in Nat
      BY <1>1, <1>4, CleanEmpty, CleanOne DEF AreClean
    <2>2. f[i] = old \o mark \o texts[i]
      BY <1>2 DEF JoinOne
    <2> HIDE DEF mark, old
    <2>3. IsClean(old \o mark)
      BY <2>1, CleanConcat
    <2>4. IsClean(f[i])
      BY <2>1, <2>2, <2>3, CleanConcat
    <2> QED BY <2>1, <2>4
  <1>5. Len(texts) \in T
    <2> HIDE DEF T
    <2> QED BY <1>1, <1>3, <1>4, Stepwise
  <1> QED BY <1>2, <1>5

LEMMA ExpandValueClean ==
  ASSUME NEW style, IsStyle(style), NEW term, IsTerm(term), NEW v, AreItems(v.items),
         v.kind = "string" => Len(v.items) = 1
  PROVE  IsClean(ExpandValue(style, term, v))
  <1> DEFINE out == ExpandValue(style, term, v)
  <1>1. CASE v.kind = "string"
    <2>1. IsItem(v.items[1])
      BY <1>1 DEF AreItems
    <2>2. IsKnown(v.items[1].val)
      BY <2>1 DEF IsItem
    <2>3. out = ExpandString(style, term, v.items[1].val)
      BY <1>1 DEF ExpandValue
    <2> QED BY <2>2, <2>3, ExpandStringClean
  <1>2. CASE v.kind # "string" /\ v.items = <<>>
    <2>1. out = <<>>
      BY <1>2 DEF ExpandValue
    <2> QED BY <2>1, CleanEmpty
  <1>3. CASE v.kind # "string" /\ v.items # <<>>
    <2> DEFINE name  == IF term.explode THEN <<>> ELSE NameText(style, term, FALSE)
               sep   == IF term.explode THEN style.sep ELSE ","
               each  == [i \in DOMAIN v.items |-> ExpandItem(style, term, v.kind, v.items[i])]
    <2>1. out = name \o Join(each, sep)
      BY <1>3 DEF ExpandValue
    <2>2. IsClean(name) /\ sep # Brace
      <3>1. "," # Brace
        BY DEF Brace
      <3> QED BY <3>1, CleanEmpty, NameTextClean DEF IsStyle
    <2>3. AreClean(each)
      <3>1. DOMAIN v.items = 1..Len(v.items) /\ Len(v.items) \in Nat
        BY SeqDomain DEF AreItems
      <3>2. \A i \in 1..Len(v.items) : IsClean(ExpandItem(style, term, v.kind, v.items[i]))
        BY ExpandItemClean DEF AreItems
      <3>3. each = [i \in 1..Len(v.items) |-> each[i]] /\ \A i \in 1..Len(v.items) : IsClean(each[i])
        BY <3>1, <3>2
      <3> HIDE DEF each
      <3>4. IsSeq(each) /\ Len(each) = Len(v.items)
        BY <3>1, <3>3, FunSeq
      <3> QED BY <3>3, <3>4 DEF AreClean
    <2> HIDE DEF name, sep, each
    <2>4. IsClean(Join(each, sep))
      BY <2>2, <2>3, JoinClean
    <2> QED BY <2>1, <2>2, <2>4, CleanConcat
  <1> QED BY <1>1, <1>2, <1>3

\* Values in which maps may have their items in any order.
AreOrdered(values) == \A n \in DOMAIN values :
                         /\ AreItems(values[n].items)
                         /\ values[n].kind = "string" => Len(values[n].items) = 1

IsAcc(acc) == /\ acc = [text |-> acc.text, missing |-> acc.missing, ok |-> acc.ok]
              /\ IsClean(acc.text)

LEMMA ExpandTermClean ==
  ASSUME NEW acc, IsAcc(acc), NEW term, IsTerm(term), NEW style, IsStyle(style),
         NEW values, AreOrdered(values)
  PROVE  IsAcc(ExpandTerm(acc, term, style, values))
  <1> DEFINE new == ExpandTerm(acc, term, style, values)
  <1>1. CASE term.name \notin DOMAIN values
    <2> DEFINE missing == Append(acc.missing, term)
    <2>1. new = [acc EXCEPT !.missing = missing]
      BY <1>1 DEF ExpandTerm
    <2> HIDE DEF missing, new
    <2>2. new = [text |-> acc.text, missing |-> missing, ok |-> acc.ok]
      BY <2>1 DEF IsAcc
    <2>3. IsAcc(new)
      BY <2>2 DEF IsAcc
    <2> QED BY <2>3 DEF new
  <1>2. CASE term.name \in DOMAIN values
    <2> DEFINE v    == values[term.name]
               mark == IF acc.text = <<>> THEN <<>> ELSE <<style.sep>>
               more == ExpandValue(style, term, v)
               ok   == acc.ok /\ ~(v.kind = "map" /\ term.truncate > 0)
               text == acc.text \o mark \o more
    <2>1. new = [acc EXCEPT !.text = text, !.ok = ok]
      BY <1>2, Zenon DEF ExpandTerm
    <2>2. IsClean(more)
      BY <1>2, ExpandValueClean DEF AreOrdered
    <2>3. IsClean(mark) /\ IsClean(acc.text)
      BY CleanEmpty, CleanOne DEF IsAcc, IsStyle
    <2> HIDE DEF v, mark, more, ok
    <2>4. IsClean(text)
      <3>1. IsClean(acc.text \o mark)
        BY <2>3, CleanConcat
      <3> QED BY <2>2, <3>1, CleanConcat
    <2> HIDE DEF text, new
    <2>5. new = [text |-> text, missing |-> acc.missing, ok |-> ok]
      BY <2>1 DEF IsAcc
    <2>6. IsAcc(new)
      BY <2>4, <2>5 DEF IsAcc
    <2> QED BY <2>6 DEF new
  <1> QED BY <1>1, <1>2

LEMMA ExpandPartClean ==
  ASSUME NEW p, IsPart(p), NEW values, AreOrdered(values)
  PROVE  IsClean(ExpandPart(p, values).text)
  <1> DEFINE n == Len(p.terms)
             all == ExpandTerms(p, values)
             none == [text |-> <<>>, missing |-> <<>>, ok |-> TRUE]
  <1>1. n \in Nat
    BY DEF IsPart, IsSeq
  <1>2. PICK f : /\ f[0] = none /\ all = f[n]
                 /\ \A i \in 1..n : f[i] = ExpandTerm(f[i - 1], p.terms[i], p.style, values)
    BY <1>1, ExpandTermsSteps
  <1> DEFINE T == {k \in Nat : IsAcc(f[k])}
  <1>3. 0 \in T
    <2>1. none = [text |-> none.text, missing |-> none.missing, ok |-> none.ok] /\ none.text = <<>>
      OBVIOUS
    <2> HIDE DEF none
    <2> QED BY <1>2, <2>1, CleanEmpty DEF IsAcc
  <1>4. ASSUME NEW i \in 1..n, i - 1 \in T PROVE i \in T
    <2>1. IsAcc(f[i - 1]) /\ i \in Nat
      BY <1>1, <1>4
    <2>2. IsTerm(p.terms[i]) /\ IsStyle(p.style)
      BY DEF IsPart
    <2>3. IsAcc(f[i])
      BY <1>2, <2>1, <2>2, ExpandTermClean
    <2> QED BY <2>1, <2>3
  <1>5. IsAcc(all)
    <2>1. n \in T
      <3> HIDE DEF T
      <3> QED BY <1>1, <1>3, <1>4, Stepwise
    <2> QED BY <1>2, <2>1
  <1> HIDE DEF all
  <1>6. CASE p.raw # <<>>
    <2>1. ExpandPart(p, values).text = p.raw
      BY <1>6 DEF ExpandPart
    <2> QED BY <2>1 DEF IsPart
  <1>7. CASE p.raw = <<>>
    <2> DEFINE text == IF all.text = <<>> THEN <<>> ELSE p.style.first \o all.text
    <2>1. ExpandPart(p, values) = [all EXCEPT !.text = text]
      BY <1>7 DEF ExpandPart, all
    <2>2. IsClean(text)
      BY <1>5, CleanEmpty, CleanConcat DEF IsAcc, IsPart, IsStyle
    <2> HIDE DEF text
    <2>3. ExpandPart(p, values).text = text
      BY <1>5, <2>1 DEF IsAcc
    <2> QED BY <2>2, <2>3
  <1> QED BY <1>6, <1>7

\* No expression is left, whatever the values.
LEMMA ExpandClean ==
  ASSUME NEW t, AreParts(t.parts), NEW values, AreOrdered(values)
  PROVE  IsClean(Expand(t, values).text)
  <1> DEFINE ids   == DOMAIN t.parts
             done  == [i \in ids |-> ExpandPart(t.parts[i], values)]
             texts == [i \in DOMAIN done |-> done[i].text]
  <1>1. Expand(t, values).text = FlattenSeq(texts)
    BY DEF Expand
  <1>2. ids = 1..Len(t.parts) /\ Len(t.parts) \in Nat
    BY SeqDomain DEF AreParts
  <1> HIDE DEF ids
  <1>3. texts = [i \in ids |-> texts[i]] /\ \A i \in ids : texts[i] = ExpandPart(t.parts[i], values).text
    OBVIOUS
  <1> HIDE DEF texts
  <1>4. \A i \in 1..Len(t.parts) : IsClean(texts[i])
    BY <1>2, <1>3, ExpandPartClean DEF AreParts
  <1>5. IsSeq(texts) /\ Len(texts) = Len(t.parts)
    BY <1>2, <1>3, FunSeq
  <1>6. AreClean(texts)
    BY <1>4, <1>5 DEF AreClean
  <1> QED BY <1>1, <1>6, FlattenClean

LEMMA OrdersAreItems ==
  ASSUME NEW s, AreItems(s), NEW order \in SetToSeqs(ToSet(s))
  PROVE  AreItems(order)
  <1> DEFINE S == ToSet(s)
             n == Cardinality(S)
  <1>1. IsSeq(s) /\ DOMAIN s = 1..Len(s) /\ Len(s) \in Nat
    BY SeqDomain DEF AreItems
  <1>2. IsFiniteSet(S)
    <2>1. s \in Surjection(1..Len(s), S)
      BY <1>1 DEF Surjection, ToSet, IsSeq
    <2>2. IsFiniteSet(1..Len(s))
      BY <1>1, FS_Interval
    <2> QED BY <2>1, <2>2, FS_Surjection
  <1>3. n \in Nat
    BY <1>2, FS_CardinalityType
  <1>4. order \in [1..n -> S]
    BY DEF SetToSeqs
  <1> HIDE DEF n
  <1>5. IsSeq(order) /\ Len(order) = n
    BY <1>3, <1>4, FunSeq
  <1>6. \A x \in S : IsItem(x)
    BY <1>1 DEF AreItems, ToSet
  <1>7. \A i \in 1..Len(order) : IsItem(order[i])
    BY <1>4, <1>5, <1>6
  <1> QED BY <1>5, <1>7 DEF AreItems

LEMMA IterationsAreOrdered ==
  ASSUME NEW vs, AreValues(vs), NEW values \in Iterations(vs)
  PROVE  AreOrdered(values)
  <1>1. /\ DOMAIN values = DOMAIN vs
        /\ \A n \in DOMAIN vs :
              /\ values[n].kind = vs[n].kind
              /\ IF vs[n].kind = "map" THEN values[n].items \in SetToSeqs(ToSet(vs[n].items))
                 ELSE values[n].items = vs[n].items
    BY DEF Iterations
  <1> SUFFICES ASSUME NEW n \in DOMAIN vs
               PROVE  /\ AreItems(values[n].items)
                      /\ values[n].kind = "string" => Len(values[n].items) = 1
    BY <1>1 DEF AreOrdered
  <1>2. AreItems(vs[n].items) /\ (vs[n].kind = "string" => Len(vs[n].items) = 1)
    BY DEF AreValues, IsValue
  <1>3. CASE vs[n].kind = "map"
    BY <1>1, <1>2, <1>3, OrdersAreItems
  <1>4. CASE vs[n].kind # "map"
    BY <1>1, <1>2, <1>4
  <1> QED BY <1>3, <1>4

-----------------------------------------------------------------------------
(***************************************************************************)
(* Paths                                                                   *)
(***************************************************************************)
LEMMA OneSlashTokens ==
  ASSUME NEW text, IsSeq(text)
  PROVE  IsSeq(OneSlash(text)) /\ Tokens(OneSlash(text)) \subseteq Tokens(text)
  <1> DEFINE n == Len(text)
  <1>1. n \in Nat
    BY DEF IsSeq
  <1>2. PICK f : /\ f[0] = <<>> /\ OneSlash(text) = f[n]
                 /\ \A i \in 1..n : f[i] = SlashOne(f[i - 1], text, i)
    BY <1>1, OneSlashSteps
  <1> DEFINE T == {k \in Nat : IsSeq(f[k]) /\ Tokens(f[k]) \subseteq Tokens(text)}
  <1>3. 0 \in T
    BY <1>2, EmptyIsSeq, NoTokens
  <1>4. ASSUME NEW i \in 1..n, i - 1 \in T PROVE i \in T
    <2> DEFINE old == f[i - 1]
    <2>1. IsSeq(old) /\ Tokens(old) \subseteq Tokens(text) /\ i \in Nat /\ text[i] \in Tokens(text)
      <3>1. IsSeq(old) /\ Tokens(old) \subseteq Tokens(text)
        BY <1>4
      <3>2. text[i] \in Tokens(text)
        <4> HIDE DEF T, old
        <4> QED BY DEF Tokens
      <3> QED BY <1>1, <3>1, <3>2
    <2>2. f[i] = old \/ f[i] = Append(old, text[i])
      BY <1>2 DEF SlashOne
    <2> HIDE DEF old
    <2>3. IsSeq(f[i]) /\ Tokens(f[i]) \subseteq Tokens(text)
      <3>1. CASE f[i] = old
        BY <2>1, <3>1
      <3>2. CASE f[i] = Append(old, text[i])
        BY <2>1, <3>2, AppendSeq, AppendTokens
      <3> QED BY <2>2, <3>1, <3>2
    <2> QED BY <2>1, <2>3
  <1>5. n \in T
    <2> HIDE DEF T
    <2> QED BY <1>1, <1>3, <1>4, Stepwise
  <1> QED BY <1>2, <1>5

\* u.JoinPath adds slashes only.
LEMMA JoinPathClean ==
  ASSUME NEW u, IsClean(u)
  PROVE  IsClean(JoinPath(u))
  <1> DEFINE Q         == {i \in 1..Len(u) : u[i] \in {"?", "#"}}
             query     == SelectInSeq(u, LAMBDA t : t \in {"?", "#"})
             whole     == IF query = 0 THEN u ELSE SubSeq(u, 1, query - 1)
             S         == {i \in 4..Len(whole) : whole[i] = "/"}
             found     == SelectInSubSeq(whole, 4, Len(whole), LAMBDA t : t = "/")
             slash     == IF LooksLikeURL(u) THEN found ELSE 1
             authority == IF slash = 0 THEN whole ELSE SubSeq(whole, 1, slash - 1)
             path      == IF slash = 0 THEN <<"/">> ELSE OneSlash(SubSeq(whole, slash, Len(whole)))
             rest      == IF query = 0 THEN <<>> ELSE SubSeq(u, query, Len(u))
  <1>1. JoinPath(u) = authority \o path \o rest
    BY DEF JoinPath
  <1>2. Len(u) \in Nat
    BY DEF IsClean, IsSeq
  <1>3. query = 0 \/ query \in 1..Len(u)
    <2>1. query = IF Q # {} THEN Min(Q) ELSE 0
      BY DEF SelectInSeq
    <2>2. Q \subseteq 1..Len(u) /\ Q \subseteq Nat
      BY <1>2
    <2> HIDE DEF Q, query
    <2>3. ASSUME Q # {} PROVE Min(Q) \in Q
      <3>1. PICK x \in Q : \A y \in Q : x <= y
        BY <2>2, <2>3, LeastNumber
      <3> QED BY <3>1 DEF Min
    <2> QED BY <2>1, <2>2, <2>3
  <1> HIDE DEF query
  <1>4. IsClean(whole)
    <2>1. CASE query = 0
      BY <2>1
    <2>2. CASE query \in 1..Len(u)
      <3>1. 1 \in 1..Len(u) + 1 /\ query - 1 \in 1 - 1..Len(u) /\ query # 0
        BY <1>2, <2>2
      <3> QED BY <3>1, CleanSub
    <2> QED BY <1>3, <2>1, <2>2
  <1>5. IsClean(rest)
    <2>1. CASE query = 0
      BY <2>1, CleanEmpty
    <2>2. CASE query \in 1..Len(u)
      <3>1. query \in 1..Len(u) + 1 /\ Len(u) \in query - 1..Len(u) /\ query # 0
        BY <1>2, <2>2
      <3> QED BY <3>1, CleanSub
    <2> QED BY <1>3, <2>1, <2>2
  <1> HIDE DEF whole, rest
  <1>6. Len(whole) \in Nat
    BY <1>4 DEF IsClean, IsSeq
  <1>7. slash = 0 \/ slash \in 1..Len(whole) + 1
    <2>1. found = IF S # {} THEN Min(S) ELSE 0
      BY DEF SelectInSubSeq
    <2>2. S \subseteq 1..Len(whole) /\ S \subseteq Nat
      BY <1>6
    <2> HIDE DEF S, found
    <2>3. ASSUME S # {} PROVE Min(S) \in S
      <3>1. PICK x \in S : \A y \in S : x <= y
        BY <2>2, <2>3, LeastNumber
      <3> QED BY <3>1 DEF Min
    <2>4. found = 0 \/ found \in 1..Len(whole) + 1
      <3>1. CASE S = {}
        BY <2>1, <3>1
      <3>2. CASE S # {}
        <4>1. found \in 1..Len(whole)
          BY <2>1, <2>2, <2>3, <3>2
        <4> QED BY <1>6, <4>1
      <3> QED BY <3>1, <3>2
    <2>5. CASE LooksLikeURL(u)
      BY <2>4, <2>5
    <2>6. CASE ~LooksLikeURL(u)
      <3>1. 1 \in 1..Len(whole) + 1
        BY <1>6
      <3> QED BY <2>6, <3>1
    <2> QED BY <2>5, <2>6
  <1> HIDE DEF slash
  <1>8. IsClean(authority) /\ IsClean(path)
    <2>1. CASE slash = 0
      <3>1. "/" # Brace
        BY DEF Brace
      <3> QED BY <1>4, <2>1, <3>1, CleanOne
    <2>2. CASE slash \in 1..Len(whole) + 1 /\ slash # 0
      <3>1. /\ 1 \in 1..Len(whole) + 1 /\ slash - 1 \in 1 - 1..Len(whole)
            /\ slash \in 1..Len(whole) + 1 /\ Len(whole) \in slash - 1..Len(whole)
        BY <1>6, <2>2
      <3>2. IsClean(SubSeq(whole, 1, slash - 1)) /\ IsClean(SubSeq(whole, slash, Len(whole)))
        BY <1>4, <3>1, CleanSub
      <3>3. IsClean(OneSlash(SubSeq(whole, slash, Len(whole))))
        BY <3>2, OneSlashTokens DEF IsClean
      <3> QED BY <2>2, <3>2, <3>3
    <2> QED BY <1>7, <2>1, <2>2
  <1> HIDE DEF authority, path
  <1>9. IsClean(authority \o path)
    BY <1>8, CleanConcat
  <1> QED BY <1>1, <1>5, <1>9, CleanConcat

LEMMA JoinNonemptyIsSeq ==
  ASSUME NEW texts, AreSeqs(texts)
  PROVE  IsSeq(JoinNonempty(texts))
  <1> DEFINE n == Len(texts)
  <1>1. n \in Nat
    BY DEF AreSeqs, IsSeq
  <1>2. PICK f : /\ f[0] = <<>> /\ JoinNonempty(texts) = f[n]
                 /\ \A i \in 1..n : f[i] = PathOne(f[i - 1], texts[i])
    BY <1>1, JoinNonemptySteps
  <1> DEFINE T == {k \in Nat : IsSeq(f[k])}
  <1>3. 0 \in T
    BY <1>2, EmptyIsSeq
  <1>4. ASSUME NEW i \in 1..n, i - 1 \in T PROVE i \in T
    <2> DEFINE old == f[i - 1]
               mark == IF old = <<>> THEN <<>> ELSE <<"/">>
    <2>1. IsSeq(old) /\ IsSeq(texts[i]) /\ i \in Nat /\ IsSeq(mark)
      BY <1>1, <1>4, EmptyIsSeq, OneSeq DEF AreSeqs
    <2>2. f[i] = old \/ f[i] = old \o mark \o texts[i]
      BY <1>2 DEF PathOne
    <2> HIDE DEF mark, old
    <2>3. IsSeq(old \o mark)
      BY <2>1, ConcatSeq
    <2>4. IsSeq(old \o mark \o texts[i])
      BY <2>1, <2>3, ConcatSeq
    <2> QED BY <2>1, <2>2, <2>4
  <1>5. n \in T
    <2> HIDE DEF T
    <2> QED BY <1>1, <1>3, <1>4, Stepwise
  <1> QED BY <1>2, <1>5

LEMMA PathJoinIsSeq ==
  ASSUME NEW texts, AreSeqs(texts)
  PROVE  IsSeq(PathJoin(texts))
  <1> DEFINE path == OneSlash(JoinNonempty(texts))
  <1>1. IsSeq(path)
    BY JoinNonemptyIsSeq, OneSlashTokens
  <1>2. PathJoin(texts) = IF Len(path) > 1 /\ Last(path) = "/" THEN Front(path) ELSE path
    BY DEF PathJoin
  <1> HIDE DEF path
  <1>3. ASSUME Len(path) > 1 PROVE IsSeq(Front(path))
    <2>1. Len(path) \in Nat
      BY <1>1 DEF IsSeq
    <2>2. 1 \in 1..Len(path) + 1 /\ Len(path) - 1 \in 1 - 1..Len(path)
      BY <1>3, <2>1
    <2> QED BY <1>1, <2>2, SubIsSeq DEF Front
  <1> QED BY <1>1, <1>2, <1>3

LEMMA FixupIsSeq ==
  ASSUME NEW addr, IsSeq(addr)
  PROVE  IsSeq(FixupAddress(addr))
  <1> DEFINE local == <<"http:", "/", "/", "localhost">>
             http  == <<"http:", "/", "/">>
  <1>1. IsSeq(local) /\ IsSeq(http)
    BY DEF IsSeq
  <1>2. FixupAddress(addr) \in {local \o addr, addr, http \o addr}
    BY DEF FixupAddress
  <1> HIDE DEF local, http
  <1>3. IsSeq(local \o addr) /\ IsSeq(http \o addr)
    BY <1>1, ConcatSeq
  <1> QED BY <1>2, <1>3

LEMMA ResolveURLIsSeq ==
  ASSUME NEW from, IsSeq(from), NEW prefix, AreSeqs(prefix)
  PROVE  IsSeq(ResolveURL(from, prefix))
  <1> DEFINE absolute == prefix # <<>> /\ LooksLikeURL(prefix[1])
             start    == IF absolute THEN prefix[1] ELSE from
             rest     == IF absolute THEN Tail(prefix) ELSE prefix
             mark     == IF start # <<>> /\ rest # <<>> THEN <<"/">> ELSE <<>>
             path     == PathJoin(rest)
  <1>1. ResolveURL(from, prefix) = start \o mark \o path
    BY DEF ResolveURL
  <1>2. ASSUME prefix # <<>> PROVE IsSeq(prefix[1]) /\ AreSeqs(Tail(prefix))
    <2>1. IsSeq(prefix) /\ Len(prefix) \in Nat /\ Len(prefix) > 0
      BY <1>2, NonemptySeq DEF AreSeqs, IsSeq
    <2> DEFINE S == {x \in Tokens(prefix) : IsSeq(x)}
               t == Tail(prefix)
    <2>2. prefix \in Seq(S)
      <3>1. prefix \in Seq({prefix[i] : i \in 1..Len(prefix)})
        BY <2>1, SeqTyped
      <3>2. {prefix[i] : i \in 1..Len(prefix)} = S
        BY DEF AreSeqs, Tokens
      <3> QED BY <3>1, <3>2
    <2> HIDE DEF S
    <2>3. t \in Seq(S)
      BY <1>2, <2>2
    <2> HIDE DEF t
    <2>4. IsSeq(t) /\ \A i \in 1..Len(t) : t[i] \in S
      BY <2>3, TypedSeq
    <2>5. AreSeqs(t)
      BY <2>4 DEF AreSeqs, S
    <2> QED BY <2>1, <2>5 DEF AreSeqs, t
  <1>3. IsSeq(start) /\ AreSeqs(rest)
    BY <1>2
  <1> HIDE DEF start, rest
  <1>4. IsSeq(mark) /\ IsSeq(path)
    BY <1>3, OneSeq, EmptyIsSeq, PathJoinIsSeq
  <1> HIDE DEF mark, path
  <1>5. IsSeq(start \o mark)
    BY <1>3, <1>4, ConcatSeq
  <1> QED BY <1>1, <1>4, <1>5, ConcatSeq

\* Every location is a text.
LEMMA ResolveAllAreSeqs ==
  ASSUME NEW us, AreSeqs(us), NEW i \in 1..Len(us)
  PROVE  IsSeq(ResolveAll(us)[i])
  <1>1. IsSeq(us) /\ DOMAIN us = 1..Len(us) /\ Len(us) \in Nat
    BY SeqDomain DEF AreSeqs
  <1> DEFINE one   == <<us[1]>>
             first == ResolveURL(<<>>, one)
             more  == SubSeq(us, 2, i)
             next  == ResolveURL(FixupAddress(us[1]), more)
  <1>2. ResolveAll(us)[i] = FixupAddress(IF i = 1 THEN first ELSE next)
    BY <1>1 DEF ResolveAll
  <1>3. IsSeq(us[1])
    BY <1>1 DEF AreSeqs
  <1>4. IsSeq(first)
    <2>1. IsSeq(one) /\ Len(one) = 1 /\ one[1] = us[1]
      BY OneSeq
    <2> HIDE DEF one
    <2>2. AreSeqs(one)
      BY <1>3, <2>1 DEF AreSeqs
    <2> QED BY <2>2, EmptyIsSeq, ResolveURLIsSeq
  <1>5. i # 1 => IsSeq(next)
    <2> SUFFICES ASSUME i # 1 PROVE IsSeq(next)
      OBVIOUS
    <2>1. 2 \in 1..Len(us) + 1 /\ i \in 2 - 1..Len(us)
      BY <1>1
    <2>2. /\ IsSeq(more) /\ Len(more) = i - 2 + 1
          /\ \A j \in 1..i - 2 + 1 : more[j] = us[2 + j - 1]
      BY <1>1, <2>1, SubIsSeq
    <2> HIDE DEF more
    <2>3. ASSUME NEW j \in 1..Len(more) PROVE IsSeq(more[j])
      <3>1. 2 + j - 1 \in 1..Len(us) /\ more[j] = us[2 + j - 1]
        BY <1>1, <2>2
      <3> QED BY <3>1 DEF AreSeqs
    <2>4. AreSeqs(more)
      BY <2>2, <2>3 DEF AreSeqs
    <2> QED BY <1>3, <2>4, FixupIsSeq, ResolveURLIsSeq
  <1> HIDE DEF first, next
  <1> QED BY <1>2, <1>4, <1>5, FixupIsSeq

-----------------------------------------------------------------------------
(***************************************************************************)
(* The inductive invariant                                                 *)
(*                                                                         *)
(* It adds to the properties what the operators rely on: that values and   *)
(* texts are sequences, that no list outgrows the one it is made from,     *)
(* that the variables are what the whole history of flags says, also where *)
(* a map makes OccurrencesAccumulate say nothing, and that the locations   *)
(* are templates from the moment on that they are resolved, as there is no *)
(* flag after it that could add the first variable.                        *)
(***************************************************************************)
Phases   == {"flags", "fetching", "done", "failed", "panicked"}
Outcomes == {"ok", "error", "panic"}
Stopped  == {"failed", "panicked"}

AreGiven(s) == AreEvents(s) /\ \A i \in 1..Len(s) : s[i].val.kind # "nil"

Control == program \in {"rug", "wig"} /\ phase \in Phases /\ count \in 0..MaxFlags

Variables == /\ AreValues(vars) /\ AreGiven(given)
             /\ phase \notin Stopped => Accumulated(vars, given)

Templates == template.outcome \in Outcomes \cup {"unset"} /\ IsSeq(template.raw) /\ partial \in BOOLEAN

Requests == /\ IsSeq(urls) /\ Len(urls) <= count
            /\ IsSeq(locations) /\ Len(locations) <= Len(urls)
            /\ phase = "flags" => Len(locations) = 0
            /\ IsSeq(requested) /\ Len(requested) <= Len(locations)

Expanded == /\ \A i \in 1..Len(urls) : IsSeq(urls[i])
            /\ \A i \in 1..Len(locations) :
                  IsSeq(locations[i].text) /\ locations[i].template = (vars # NoVars)
            /\ vars # NoVars => \A i \in 1..Len(requested) : IsClean(requested[i])

IInv == Control /\ Variables /\ Templates /\ Requests /\ Expanded

LEMMA NothingAccumulated == Accumulated(NoVars, <<>>)
  <1> DEFINE none == <<>>
  <1>1. IsSeq(none) /\ Len(none) = 0 /\ DOMAIN none = {}
    BY EmptyIsSeq, SeqDomain
  <1>2. \A name : Current(none, name) = <<>>
    <2> SUFFICES ASSUME NEW name PROVE Current(none, name) = <<>>
      OBVIOUS
    <2>1. Current(none, name) = CurrentOf(none)
      BY NoEvents, CurrentOfEvents
    <2> DEFINE m == IF Latest(none) = 0 THEN 1 ELSE Latest(none)
    <2>2. CurrentOf(none) = SubSeq(none, m, Len(none))
      BY Zenon DEF CurrentOf
    <2>3. m = 1
      <3>1. Strings(none) = {}
        BY <1>1 DEF Strings
      <3> HIDE DEF none
      <3>2. Latest(none) = 0
        BY <3>1, LatestDef
      <3> QED BY <3>2
    <2> HIDE DEF none, m
    <2> DEFINE s == SubSeq(none, 1, 0)
    <2>4. IsSeq(s) /\ Len(s) = 0 - 1 + 1
      <3>1. 1 \in 1..Len(none) + 1 /\ 0 \in 1 - 1..Len(none)
        BY <1>1
      <3> QED BY <1>1, <3>1, SubIsSeq
    <2>5. CurrentOf(none) = s
      BY <1>1, <2>2, <2>3
    <2> HIDE DEF s
    <2>6. s = <<>>
      BY <2>4, NonemptySeq
    <2> QED BY <2>1, <2>5, <2>6
  <1> HIDE DEF none
  <1>3. Accumulated(none, none)
    BY <1>1, <1>2 DEF Accumulated
  <1> QED BY <1>3 DEF none, NoVars

\* Nothing was given.
LEMMA InitInv == Init => IInv
  <1> SUFFICES ASSUME Init PROVE IInv
    OBVIOUS
  <1>1. Control
    BY MaxFlagsAssumption DEF Init, Control, Phases
  <1>2. Variables
    <2>1. vars = <<>> /\ given = <<>>
      BY DEF Init, NoVars
    <2>2. Accumulated(vars, given)
      BY <2>1, NothingAccumulated DEF NoVars
    <2>3. AreValues(vars) /\ AreGiven(given)
      BY <2>1, EmptyIsSeq, SeqDomain DEF AreValues, AreGiven, AreEvents
    <2> QED BY <2>2, <2>3 DEF Variables
  <1>3. Templates
    BY EmptyIsSeq DEF Init, Templates, Outcomes, NoTemplate
  <1>4. Requests
    BY EmptyIsSeq DEF Init, Requests
  <1>5. Expanded
    <2>1. urls = <<>> /\ locations = <<>> /\ vars = NoVars
      BY DEF Init
    <2>2. Len(urls) = 0 /\ Len(locations) = 0
      BY <2>1, EmptyIsSeq
    <2> QED BY <2>1, <2>2 DEF Expanded
  <1> QED BY <1>1, <1>2, <1>3, <1>4, <1>5 DEF IInv

LEMMA AppendGiven ==
  ASSUME NEW s, AreGiven(s), NEW e, IsValue(e.val), e.val.kind # "nil"
  PROVE  AreGiven(Append(s, e))
  <1> DEFINE t == Append(s, e)
  <1>1. AreEvents(t) /\ IsSeq(s) /\ Len(s) \in Nat
    BY AppendEvents DEF AreGiven, AreEvents, IsSeq
  <1>2. Len(t) = Len(s) + 1 /\ t[Len(s) + 1] = e /\ \A i \in 1..Len(s) : t[i] = s[i]
    BY <1>1, AppendSeq
  <1> HIDE DEF t
  <1>3. ASSUME NEW i \in 1..Len(t) PROVE t[i].val.kind # "nil"
    <2>1. i \in 1..Len(s) \/ i = Len(s) + 1
      BY <1>1, <1>2
    <2> QED BY <1>2, <2>1 DEF AreGiven
  <1> QED BY <1>1, <1>3 DEF AreGiven, t

LEMMA ConcatGiven ==
  ASSUME NEW s, AreGiven(s), NEW t, AreGiven(t)
  PROVE  AreGiven(s \o t)
  <1> DEFINE u == s \o t
  <1>1. IsSeq(s) /\ Len(s) \in Nat /\ IsSeq(t) /\ Len(t) \in Nat
    BY DEF AreGiven, AreEvents, IsSeq
  <1>2. /\ IsSeq(u) /\ Len(u) = Len(s) + Len(t)
        /\ \A i \in 1..Len(u) : u[i] = IF i <= Len(s) THEN s[i] ELSE t[i - Len(s)]
    BY <1>1, ConcatSeq
  <1> HIDE DEF u
  <1>3. ASSUME NEW i \in 1..Len(u) PROVE IsValue(u[i].val) /\ u[i].val.kind # "nil"
    <2>1. CASE i <= Len(s)
      BY <1>1, <1>2, <2>1 DEF AreGiven, AreEvents
    <2>2. CASE ~(i <= Len(s))
      <3>1. i - Len(s) \in 1..Len(t) /\ u[i] = t[i - Len(s)]
        BY <1>1, <1>2, <2>2
      <3> QED BY <3>1 DEF AreGiven, AreEvents
    <2> QED BY <2>1, <2>2
  <1> QED BY <1>2, <1>3 DEF AreGiven, AreEvents, u

\* A flag counts, whatever comes of it.
LEMMA FlagCounts ==
  ASSUME IInv, NEW next \in Phases, Flag(next)
  PROVE  /\ phase = "flags" /\ Accumulated(vars, given)
         /\ Control' /\ phase' = next /\ count' = count + 1
  <1>1. phase = "flags" /\ phase' = next /\ count' = count + 1 /\ program' = program /\ count < MaxFlags
    BY DEF Flag
  <1>2. Control'
    BY <1>1, MaxFlagsAssumption DEF IInv, Control
  <1> QED BY <1>1, <1>2 DEF IInv, Variables, Stopped

LEMMA TemplatesSame ==
  ASSUME IInv, UNCHANGED rugVars
  PROVE  Templates'
  BY DEF IInv, Templates, rugVars

\* The locations stay as they are while flags are read and afterwards.
LEMMA RequestsSame ==
  ASSUME IInv, UNCHANGED wigVars, count' \in {count, count + 1}, phase' = "flags" => phase = "flags"
  PROVE  Requests'
  <1>1. count \in Nat /\ Len(urls) \in Nat
    BY MaxFlagsAssumption DEF IInv, Control, Requests, IsSeq
  <1> QED BY <1>1 DEF IInv, Requests, wigVars

\* No flag follows the locations, so that the first variable comes before them.
LEMMA ExpandedSame ==
  ASSUME IInv, UNCHANGED wigVars, phase = "flags" \/ UNCHANGED vars
  PROVE  Expanded'
  <1>1. CASE phase = "flags"
    <2>1. /\ UNCHANGED <<urls, locations, requested>>
          /\ Len(locations) = 0 /\ Len(requested) \in Nat /\ Len(requested) <= Len(locations)
      BY <1>1 DEF IInv, Requests, IsSeq, wigVars
    <2>2. Len(requested) = 0
      BY <2>1
    <2> QED BY <2>1, <2>2 DEF IInv, Expanded
  <1>2. CASE UNCHANGED vars
    BY <1>2 DEF IInv, Expanded, wigVars
  <1> QED BY <1>1, <1>2

LEMMA VariablesSame ==
  ASSUME IInv, UNCHANGED <<vars, given>>, phase' \notin Stopped => phase \notin Stopped
  PROVE  Variables'
  BY DEF IInv, Variables

-----------------------------------------------------------------------------
(***************************************************************************)
(* Flags for variables                                                     *)
(***************************************************************************)
LEMMA SetURITemplateVarInv ==
  ASSUME IInv, NEW args \in ParamArgs, SetURITemplateVar(args)
  PROVE  IInv'
  <1> DEFINE v     == ReadVar(args)
             value == IF program = "wig" THEN NewVarValue(v.value) ELSE v.value
  <1>1. AreKnown(args)
    <2>1. args \in Seq(Texts)
      BY TextsAssumption
    <2>2. IsSeq(args) /\ \A i \in 1..Len(args) : args[i] \in Texts
      BY <2>1, TypedSeq
    <2> QED BY <2>2, TextIsKnown DEF AreKnown
  <1>2. IsVar(v)
    BY <1>1, ReadVarIsVar
  <1>3. /\ IF ~v.ok THEN Flag("failed") /\ UNCHANGED <<vars, given>>
           ELSE IF ~CanSet(value) THEN Flag("panicked") /\ UNCHANGED <<vars, given>>
           ELSE /\ Flag("flags")
                /\ vars'  = SetHelper(vars, v.name, value)
                /\ given' = Append(given, Entry(v.name, value))
        /\ UNCHANGED rugVars /\ UNCHANGED wigVars
    BY DEF SetURITemplateVar
  <1> HIDE DEF v
  <1>4. IsValue(value)
    BY <1>2, NewVarValueIsValue DEF IsVar
  <1> HIDE DEF value
  <1>5. CASE ~v.ok
    <2>1. Flag("failed") /\ UNCHANGED <<vars, given>>
      BY <1>3, <1>5
    <2>2. Control' /\ phase' = "failed" /\ count' = count + 1
      BY <2>1, FlagCounts DEF Phases
    <2> QED BY <1>3, <2>1, <2>2, TemplatesSame, RequestsSame, ExpandedSame, VariablesSame DEF IInv, Stopped
  <1>6. CASE v.ok /\ ~CanSet(value)
    <2>1. Flag("panicked") /\ UNCHANGED <<vars, given>>
      BY <1>3, <1>6
    <2>2. Control' /\ phase' = "panicked" /\ count' = count + 1
      BY <2>1, FlagCounts DEF Phases
    <2> QED BY <1>3, <2>1, <2>2, TemplatesSame, RequestsSame, ExpandedSame, VariablesSame DEF IInv, Stopped
  <1>7. CASE v.ok /\ CanSet(value)
    <2> DEFINE e == Entry(v.name, value)
    <2>1. Flag("flags") /\ vars' = SetHelper(vars, v.name, value) /\ given' = Append(given, e)
      BY <1>3, <1>7
    <2>2. /\ Control' /\ phase = "flags" /\ phase' = "flags" /\ count' = count + 1
          /\ Accumulated(vars, given)
      BY <2>1, FlagCounts DEF Phases
    <2>3. e.key = v.name /\ e.val = value
      BY DEF Entry
    <2> HIDE DEF e
    <2>4. value.kind \in Kinds
      BY <1>7 DEF CanSet, Kinds
    <2>5. AreValues(vars) /\ AreGiven(given) /\ AreEvents(given)
      BY DEF IInv, Variables, AreGiven
    <2>6. AreValues(vars') /\ Accumulated(vars', given')
      <3>1. /\ AreValues(SetHelper(vars, e.key, e.val))
            /\ Accumulated(SetHelper(vars, e.key, e.val), Append(given, e))
        BY <1>4, <2>2, <2>3, <2>4, <2>5, AccumulatedOne
      <3> QED BY <2>1, <2>3, <3>1
    <2>7. AreGiven(given')
      <3>1. IsValue(e.val) /\ e.val.kind # "nil"
        BY <1>4, <2>3, <2>4 DEF Kinds
      <3> QED BY <2>1, <2>5, <3>1, AppendGiven
    <2>8. Variables'
      BY <2>6, <2>7 DEF Variables
    <2> QED BY <1>3, <2>2, <2>8, TemplatesSame, RequestsSame, ExpandedSame DEF IInv
  <1> QED BY <1>5, <1>6, <1>7

LEMMA SetURITemplateVarsInv ==
  ASSUME IInv, NEW entries, AreGiven(entries), SetURITemplateVars(entries)
  PROVE  IInv'
  <1> DEFINE asVars == [i \in DOMAIN entries |-> Entry(entries[i].key, NewVarValue(entries[i].val))]
             update == Update(vars, entries)
  <1>1. /\ IF program = "wig"
           THEN /\ Flag("flags")
                /\ vars'  = AddAll(vars, asVars)
                /\ given' = given \o asVars
           ELSE /\ Flag(CASE update.outcome = "ok"    -> "flags"
                          [] update.outcome = "error" -> "failed"
                          [] update.outcome = "panic" -> "panicked")
                /\ vars'  = update.vars
                /\ given' = given \o entries
        /\ UNCHANGED rugVars /\ UNCHANGED wigVars
    BY DEF SetURITemplateVars
  <1>2. AreValues(vars) /\ AreGiven(given) /\ AreEvents(given) /\ AreEvents(entries)
    BY DEF IInv, Variables, AreGiven
  <1>3. CASE program = "wig"
    <2>1. AreEvents(asVars) /\ \A i \in 1..Len(asVars) : asVars[i].val.kind \in Kinds
      BY <1>2, AsVarsAreEvents
    <2>2. Flag("flags") /\ vars' = AddAll(vars, asVars) /\ given' = given \o asVars
      BY <1>1, <1>3
    <2> HIDE DEF asVars
    <2>3. /\ Control' /\ phase = "flags" /\ phase' = "flags" /\ count' = count + 1
          /\ Accumulated(vars, given)
      BY <2>2, FlagCounts DEF Phases
    <2>4. AreValues(vars') /\ Accumulated(vars', given')
      BY <1>2, <2>1, <2>2, <2>3, AddAllAccumulates
    <2>5. AreGiven(given')
      <3>1. AreGiven(asVars)
        BY <2>1 DEF AreGiven, Kinds
      <3> QED BY <1>2, <2>2, <3>1, ConcatGiven
    <2>6. Variables'
      BY <2>4, <2>5 DEF Variables
    <2> QED BY <1>1, <2>3, <2>6, TemplatesSame, RequestsSame, ExpandedSame DEF IInv
  <1>4. CASE program # "wig"
    <2> DEFINE next == CASE update.outcome = "ok"    -> "flags"
                         [] update.outcome = "error" -> "failed"
                         [] update.outcome = "panic" -> "panicked"
    <2>1. Flag(next) /\ vars' = update.vars /\ given' = given \o entries
      BY <1>1, <1>4
    <2>2. phase = "flags"
      BY <2>1 DEF Flag
    <2>3. Accumulated(vars, given)
      BY <2>2 DEF IInv, Variables, Stopped
    <2>4. /\ AreValues(update.vars) /\ update.outcome \in {"ok", "error", "panic"}
          /\ update.outcome = "ok" => Accumulated(update.vars, given \o entries)
      BY <1>2, <2>3, UpdateAccumulates
    <2> HIDE DEF update
    <2>5. next \in Phases /\ (next \notin Stopped => update.outcome = "ok")
      BY <2>4 DEF Phases, Stopped
    <2> HIDE DEF next
    <2>6. Control' /\ phase' = next /\ count' = count + 1
      BY <2>1, <2>5, FlagCounts
    <2>7. AreGiven(given')
      BY <1>2, <2>1, ConcatGiven
    <2>8. Variables'
      BY <2>1, <2>4, <2>5, <2>6, <2>7 DEF Variables
    <2> QED BY <1>1, <2>2, <2>6, <2>8, TemplatesSame, RequestsSame, ExpandedSame DEF IInv
  <1> QED BY <1>3, <1>4

LEMMA ParamFlagInv ==
  ASSUME IInv, ParamFlag
  PROVE  IInv'
  BY SetURITemplateVarInv DEF ParamFlag

LEMMA ParamsFlagInv ==
  ASSUME IInv, ParamsFlag
  PROVE  IInv'
  <1>1. PICK entries \in ParamsArgs :
           \E order \in SetToSeqs(ToSet(entries)) : SetURITemplateVars(order)
    BY DEF ParamsFlag
  <1>2. PICK order \in SetToSeqs(ToSet(entries)) : SetURITemplateVars(order)
    BY <1>1
  <1>3. AreGiven(order)
    BY OrdersAreEvents DEF AreGiven
  <1> QED BY <1>2, <1>3, SetURITemplateVarsInv

LEMMA ParamsTextFlagInv ==
  ASSUME IInv, ParamsTextFlag
  PROVE  IInv'
  <1>1. PICK text \in ParamsTexts :
           \/ VarsSet(text).ok /\ SetURITemplateVars(<<Entry(VarsSet(text).key, VarsSet(text).val)>>)
           \/ /\ ~VarsSet(text).ok /\ Flag("failed")
              /\ UNCHANGED <<vars, given>> /\ UNCHANGED rugVars /\ UNCHANGED wigVars
    BY DEF ParamsTextFlag
  <1> DEFINE set == VarsSet(text)
             e   == Entry(set.key, set.val)
             one == <<e>>
  <1>2. CASE set.ok /\ SetURITemplateVars(one)
    <2>1. IsKnown(text)
      BY TextsAssumption, TextIsKnown
    <2>2. IsValue(set.val) /\ set.val.kind \in Kinds
      BY <1>2, <2>1, VarsSetIsValue
    <2>3. e.val = set.val
      BY DEF Entry
    <2> HIDE DEF set, e
    <2>4. IsSeq(one) /\ Len(one) = 1 /\ one[1] = e
      BY OneSeq
    <2> HIDE DEF one
    <2>5. AreGiven(one)
      BY <2>2, <2>3, <2>4 DEF AreGiven, AreEvents, Kinds
    <2> QED BY <1>2, <2>5, SetURITemplateVarsInv
  <1>3. CASE /\ ~set.ok /\ Flag("failed")
             /\ UNCHANGED <<vars, given>> /\ UNCHANGED rugVars /\ UNCHANGED wigVars
    <2>1. Control' /\ phase' = "failed" /\ count' = count + 1
      BY <1>3, FlagCounts DEF Phases
    <2> QED BY <1>3, <2>1, TemplatesSame, RequestsSame, ExpandedSame, VariablesSame DEF IInv, Stopped
  <1> QED BY <1>1, <1>2, <1>3

-----------------------------------------------------------------------------
(***************************************************************************)
(* The steps of rug                                                        *)
(***************************************************************************)
LEMMA TemplateArgInv ==
  ASSUME IInv, TemplateArg
  PROVE  IInv'
  <1>1. PICK arg \in TemplateArgs :
          /\ template' = Parse(template.raw \o arg)
          /\ Flag(CASE template'.outcome = "ok"    -> "flags"
                    [] template'.outcome = "error" -> "failed"
                    [] template'.outcome = "panic" -> "panicked")
    BY DEF TemplateArg
  <1>2. UNCHANGED <<vars, given, partial, printed>> /\ UNCHANGED wigVars
    BY DEF TemplateArg
  <1> DEFINE raw  == template.raw \o arg
             next == CASE template'.outcome = "ok"    -> "flags"
                       [] template'.outcome = "error" -> "failed"
                       [] template'.outcome = "panic" -> "panicked"
  <1>3. IsSeq(raw)
    <2>1. IsSeq(arg) /\ IsSeq(template.raw)
      BY TextsAssumption, TextIsKnown DEF IInv, Templates, IsKnown
    <2> QED BY <2>1, ConcatSeq
  <1> HIDE DEF raw
  <1>4. template'.outcome \in {"ok", "error", "panic"} /\ IsSeq(template'.raw)
    <2>1. template' = Parse(raw)
      BY <1>1 DEF raw
    <2> QED BY <1>3, <2>1, ParseOutcome
  <1>5. Flag(next) /\ next \in Phases
    BY <1>1, <1>4 DEF Phases
  <1> HIDE DEF next
  <1>6. phase = "flags" /\ Control' /\ count' = count + 1
    BY <1>5, FlagCounts
  <1>7. Templates'
    BY <1>2, <1>4 DEF IInv, Templates, Outcomes
  <1>8. Requests' /\ Expanded' /\ Variables'
    BY <1>2, <1>6, RequestsSame, ExpandedSame, VariablesSame DEF Stopped
  <1> QED BY <1>6, <1>7, <1>8 DEF IInv

LEMMA PartialFlagInv ==
  ASSUME IInv, PartialFlag
  PROVE  IInv'
  <1>1. /\ Flag("flags") /\ partial' = TRUE
        /\ UNCHANGED <<vars, given, template, printed>> /\ UNCHANGED wigVars
    BY DEF PartialFlag
  <1>2. phase = "flags" /\ Control' /\ count' = count + 1
    BY <1>1, FlagCounts DEF Phases
  <1>3. Templates'
    BY <1>1 DEF IInv, Templates
  <1>4. Requests' /\ Expanded' /\ Variables'
    BY <1>1, <1>2, RequestsSame, ExpandedSame, VariablesSame DEF Stopped
  <1> QED BY <1>2, <1>3, <1>4 DEF IInv

LEMMA ExpandAndPrintInv ==
  ASSUME IInv, ExpandAndPrint
  PROVE  IInv'
  <1>1. /\ phase = "flags" /\ phase' = IF printed'.ok THEN "done" ELSE "failed"
        /\ UNCHANGED <<program, count, vars, given, template, partial>> /\ UNCHANGED wigVars
    BY DEF ExpandAndPrint
  <1>2. phase' \in {"done", "failed"}
    BY <1>1
  <1>3. Control' /\ Templates'
    BY <1>1, <1>2 DEF IInv, Control, Templates, Phases
  <1>4. Requests' /\ Expanded' /\ Variables'
    BY <1>1, <1>2, RequestsSame, ExpandedSame, VariablesSame DEF Stopped
  <1> QED BY <1>3, <1>4 DEF IInv

-----------------------------------------------------------------------------
(***************************************************************************)
(* The steps of wig                                                        *)
(***************************************************************************)
LEMMA URLArgInv ==
  ASSUME IInv, URLArg
  PROVE  IInv'
  <1>1. /\ Flag("flags")
        /\ UNCHANGED <<vars, given, base, locations, requested>> /\ UNCHANGED rugVars
    BY DEF URLArg
  <1>2. PICK u \in UrlArgs : urls' = Append(urls, u)
    BY DEF URLArg
  <1>3. phase = "flags" /\ Control' /\ count' = count + 1
    BY <1>1, FlagCounts DEF Phases
  <1>4. Requests'
    <2>1. IsSeq(urls) /\ Len(urls) \in Nat /\ Len(locations) \in Nat /\ count \in Nat
      BY MaxFlagsAssumption DEF IInv, Requests, Control, IsSeq
    <2>2. IsSeq(urls') /\ Len(urls') = Len(urls) + 1
      BY <1>2, <2>1, AppendSeq
    <2> QED BY <1>1, <1>3, <2>1, <2>2 DEF IInv, Requests
  <1>5. Templates' /\ Variables'
    BY <1>1, <1>3, TemplatesSame, VariablesSame DEF Stopped
  <1>6. Expanded'
    <2>1. IsSeq(urls) /\ Len(urls) \in Nat
      BY DEF IInv, Requests, IsSeq
    <2>2. Len(locations) = 0 /\ Len(requested) \in Nat /\ Len(requested) <= Len(locations)
      BY <1>3 DEF IInv, Requests, IsSeq
    <2>3. Len(requested) = 0
      BY <2>2
    <2>4. urls' = Append(urls, u)
      BY <1>2
    <2>5. IsSeq(u)
      BY TextsAssumption, TextIsKnown DEF IsKnown
    <2>6. Len(urls') = Len(urls) + 1 /\ urls'[Len(urls) + 1] = u /\ \A i \in 1..Len(urls) : urls'[i] = urls[i]
      BY <2>1, <2>4, AppendSeq
    <2>7. ASSUME NEW i \in 1..Len(urls') PROVE IsSeq(urls'[i])
      <3>1. i \in 1..Len(urls) \/ i = Len(urls) + 1
        BY <2>1, <2>6
      <3> QED BY <2>5, <2>6, <3>1 DEF IInv, Expanded
    <2> QED BY <1>1, <2>2, <2>3, <2>7 DEF Expanded
  <1> QED BY <1>3, <1>4, <1>5, <1>6 DEF IInv

LEMMA SetBaseURLInv ==
  ASSUME IInv, SetBaseURL
  PROVE  IInv'
  <1>1. UNCHANGED <<vars, given, urls, locations, requested>> /\ UNCHANGED rugVars
    BY DEF SetBaseURL
  <1>2. PICK next \in {"failed", "flags"} : Flag(next)
    BY DEF SetBaseURL
  <1>3. phase = "flags" /\ Control' /\ count' = count + 1
    BY <1>2, FlagCounts DEF Phases
  <1>4. Requests'
    <2>1. Len(urls) \in Nat /\ count \in Nat
      BY MaxFlagsAssumption DEF IInv, Requests, Control, IsSeq
    <2> QED BY <1>1, <1>3, <2>1 DEF IInv, Requests
  <1>5. Templates' /\ Variables'
    BY <1>1, <1>3, TemplatesSame, VariablesSame DEF Stopped
  <1>6. Expanded'
    BY <1>1 DEF IInv, Expanded
  <1> QED BY <1>3, <1>4, <1>5, <1>6 DEF IInv

LEMMA ResolveInv ==
  ASSUME IInv, Resolve
  PROVE  IInv'
  <1>1. /\ phase = "flags" /\ phase' = "fetching"
        /\ locations' = [i \in DOMAIN urls |->
                           [text |-> ResolveAll(urls)[i], template |-> vars # NoVars]]
        /\ UNCHANGED <<program, count, vars, given, urls, base, requested>> /\ UNCHANGED rugVars
    BY DEF Resolve
  <1>2. Control'
    BY <1>1 DEF IInv, Control, Phases
  <1>3. Requests'
    <2>1. IsSeq(urls) /\ Len(urls) \in Nat /\ Len(requested) \in Nat /\ Len(requested) <= 0
      BY <1>1 DEF IInv, Requests, IsSeq
    <2> DEFINE made == [i \in DOMAIN urls |-> [text |-> ResolveAll(urls)[i], template |-> vars # NoVars]]
    <2>2. made = [i \in DOMAIN urls |-> made[i]]
      OBVIOUS
    <2>3. locations' = made
      BY <1>1
    <2> HIDE DEF made
    <2>4. IsSeq(made) /\ Len(made) = Len(urls)
      BY <2>1, <2>2, MapSeq
    <2> QED BY <1>1, <2>1, <2>3, <2>4 DEF IInv, Requests
  <1>4. Templates' /\ Variables'
    BY <1>1, TemplatesSame, VariablesSame DEF Stopped
  <1>5. Expanded'
    <2>1. Len(requested) \in Nat /\ Len(requested) <= 0
      BY <1>1 DEF IInv, Requests, IsSeq
    <2>2. Len(requested) = 0
      BY <2>1
    <2>3. AreSeqs(urls) /\ DOMAIN urls = 1..Len(urls) /\ Len(urls) \in Nat
      BY SeqDomain DEF IInv, Requests, Expanded, AreSeqs, IsSeq
    <2>4. ASSUME NEW i \in 1..Len(urls) PROVE IsSeq(ResolveAll(urls)[i])
      BY <2>3, ResolveAllAreSeqs
    <2> DEFINE made == [i \in DOMAIN urls |-> [text |-> ResolveAll(urls)[i], template |-> vars # NoVars]]
    <2>5. locations' = made
      BY <1>1
    <2>6. \A i \in 1..Len(urls) :
             made[i].text = ResolveAll(urls)[i] /\ made[i].template = (vars # NoVars)
      BY <2>3
    <2>7. Len(made) = Len(urls)
      <3>1. made = [i \in 1..Len(urls) |-> made[i]]
        BY <2>3
      <3> HIDE DEF made
      <3> QED BY <2>3, <3>1, MapSeq
    <2> HIDE DEF made
    <2>8. \A i \in 1..Len(locations') :
             IsSeq(locations'[i].text) /\ locations'[i].template = (vars # NoVars)
      BY <2>4, <2>5, <2>6, <2>7
    <2>9. UNCHANGED <<urls, vars, requested>>
      BY <1>1
    <2>10. \A i \in 1..Len(urls) : IsSeq(urls[i])
      BY DEF IInv, Expanded
    <2> QED BY <2>2, <2>8, <2>9, <2>10 DEF Expanded
  <1> QED BY <1>2, <1>3, <1>4, <1>5 DEF IInv

\* What is requested once there are variables went through Expand.
LEMMA RequestIsClean ==
  ASSUME IInv, FetchURL, vars # NoVars, NEW url, requested' = Append(requested, url)
  PROVE  IsClean(url)
  <1>1. IsSeq(requested) /\ Len(requested) \in Nat /\ IsSeq(locations) /\ Len(locations) \in Nat
    BY DEF IInv, Requests, IsSeq
  <1>2. requested' # requested /\ \A other : requested' = Append(requested, other) => other = url
    <2>1. Len(requested') = Len(requested) + 1 /\ requested'[Len(requested) + 1] = url
      BY <1>1, AppendSeq
    <2>2. ASSUME NEW other, requested' = Append(requested, other) PROVE other = url
      BY <1>1, <2>1, <2>2, AppendSeq
    <2> QED BY <1>1, <2>1, <2>2
  <1> DEFINE l == locations[Len(requested) + 1]
             parsed == Parse(l.text)
  <1>3. Len(requested) + 1 \in 1..Len(locations)
    BY <1>1 DEF FetchURL
  <1>4. IsSeq(l.text) /\ l.template = TRUE
    BY <1>3 DEF IInv, Expanded
  <1>5. PICK values \in Iterations(vars) :
           parsed.outcome = "ok" /\ url = JoinPath(Expand(parsed, values).text)
    <2> HIDE DEF l, parsed
    <2>1. /\ parsed.outcome = "ok"
          /\ \E values \in Iterations(vars) :
                requested' = Append(requested, JoinPath(Expand(parsed, values).text))
      BY <1>2, <1>4 DEF FetchURL, l, parsed
    <2> QED BY <1>2, <2>1
  <1>6. AreParts(parsed.parts)
    BY <1>4, <1>5, ParsedParts
  <1> HIDE DEF l, parsed
  <1>7. AreOrdered(values)
    BY IterationsAreOrdered DEF IInv, Variables
  <1>8. IsClean(Expand(parsed, values).text)
    BY <1>6, <1>7, ExpandClean
  <1> QED BY <1>5, <1>8, JoinPathClean

LEMMA FetchURLInv ==
  ASSUME IInv, FetchURL
  PROVE  IInv'
  <1>1. /\ phase = "fetching" /\ Len(requested) < Len(locations)
        /\ UNCHANGED <<program, count, vars, given, urls, base, locations>> /\ UNCHANGED rugVars
    BY DEF FetchURL
  <1>2. \/ phase' \in Stopped /\ UNCHANGED requested
        \/ UNCHANGED phase /\ \E url : requested' = Append(requested, url)
    BY DEF FetchURL, Stopped
  <1>3. phase' \in {"fetching", "failed", "panicked"}
    BY <1>1, <1>2 DEF Stopped
  <1>4. Control'
    BY <1>1, <1>3 DEF IInv, Control, Phases
  <1>5. Requests'
    <2>1. IsSeq(requested) /\ Len(requested) \in Nat /\ Len(locations) \in Nat
      BY DEF IInv, Requests, IsSeq
    <2>2. IsSeq(requested') /\ Len(requested') <= Len(locations)
      <3>1. CASE UNCHANGED requested
        BY <1>1, <2>1, <3>1
      <3>2. CASE \E url : requested' = Append(requested, url)
        <4>1. PICK url : requested' = Append(requested, url)
          BY <3>2
        <4>2. IsSeq(requested') /\ Len(requested') = Len(requested) + 1
          BY <2>1, <4>1, AppendSeq
        <4> QED BY <1>1, <2>1, <4>2
      <3> QED BY <1>2, <3>1, <3>2
    <2> QED BY <1>1, <1>3, <2>2 DEF IInv, Requests
  <1>6. Templates' /\ Variables'
    BY <1>1, <1>3, TemplatesSame, VariablesSame DEF Stopped
  <1>7. Expanded'
    <2>1. ASSUME vars # NoVars, NEW url, requested' = Append(requested, url) PROVE IsClean(url)
      BY <1>1, <2>1, RequestIsClean
    <2>2. ASSUME vars # NoVars, NEW i \in 1..Len(requested') PROVE IsClean(requested'[i])
      <3>1. \A k \in 1..Len(requested) : IsClean(requested[k])
        BY <2>2 DEF IInv, Expanded
      <3>2. CASE UNCHANGED requested
        BY <2>2, <3>1, <3>2
      <3>3. CASE \E url : requested' = Append(requested, url)
        <4>1. PICK url : requested' = Append(requested, url)
          BY <3>3
        <4>2. IsSeq(requested) /\ Len(requested) \in Nat
          BY DEF IInv, Requests, IsSeq
        <4>3. /\ Len(requested') = Len(requested) + 1 /\ requested'[Len(requested) + 1] = url
              /\ \A k \in 1..Len(requested) : requested'[k] = requested[k]
          BY <4>1, <4>2, AppendSeq
        <4>4. i \in 1..Len(requested) \/ i = Len(requested) + 1
          BY <2>2, <4>2, <4>3
        <4> QED BY <2>1, <2>2, <3>1, <4>1, <4>3, <4>4
      <3> QED BY <1>2, <3>2, <3>3
    <2> QED BY <1>1, <2>2 DEF IInv, Expanded
  <1> QED BY <1>4, <1>5, <1>6, <1>7 DEF IInv

LEMMA AllFetchedInv ==
  ASSUME IInv, AllFetched
  PROVE  IInv'
  <1>1. /\ phase = "fetching" /\ phase' = "done"
        /\ UNCHANGED <<program, count, vars, given>> /\ UNCHANGED rugVars /\ UNCHANGED wigVars
    BY DEF AllFetched
  <1>2. Control'
    BY <1>1 DEF IInv, Control, Phases
  <1>3. Templates' /\ Requests' /\ Expanded' /\ Variables'
    BY <1>1, TemplatesSame, RequestsSame, ExpandedSame, VariablesSame DEF Stopped
  <1> QED BY <1>2, <1>3 DEF IInv

-----------------------------------------------------------------------------
(***************************************************************************)
(* The results                                                             *)
(***************************************************************************)
LEMMA Inductive == IInv /\ [Next]_allVars => IInv'
  <1> SUFFICES ASSUME IInv, [Next]_allVars PROVE IInv'
    OBVIOUS
  <1>1. CASE UNCHANGED allVars
    BY <1>1 DEF allVars, IInv, Control, Variables, Templates, Requests, Expanded
  <1>2. CASE ParamFlag
    BY <1>2, ParamFlagInv
  <1>3. CASE ParamsFlag
    BY <1>3, ParamsFlagInv
  <1>4. CASE ParamsTextFlag
    BY <1>4, ParamsTextFlagInv
  <1>5. CASE TemplateArg
    BY <1>5, TemplateArgInv
  <1>6. CASE PartialFlag
    BY <1>6, PartialFlagInv
  <1>7. CASE ExpandAndPrint
    BY <1>7, ExpandAndPrintInv
  <1>8. CASE URLArg
    BY <1>8, URLArgInv
  <1>9. CASE SetBaseURL
    BY <1>9, SetBaseURLInv
  <1>10. CASE Resolve
    BY <1>10, ResolveInv
  <1>11. CASE FetchURL
    BY <1>11, FetchURLInv
  <1>12. CASE AllFetched
    BY <1>12, AllFetchedInv
  <1> QED BY <1>1, <1>2, <1>3, <1>4, <1>5, <1>6, <1>7, <1>8, <1>9, <1>10, <1>11, <1>12 DEF Next

\* What follows holds in every state of every command line of both programs.
THEOREM Invariance == Spec => []IInv
  <1>1. Init => IInv
    BY InitInv
  <1>2. IInv /\ [Next]_allVars => IInv'
    BY Inductive
  <1> QED BY <1>1, <1>2, PTL DEF Spec

\* Every variable holds a string, an array or a map, a string has one item,
\* and no list of locations outgrows the arguments it came from.
THEOREM TypeCorrect == Spec => []TypeOK
  <1>1. IInv => TypeOK
    <2> SUFFICES ASSUME IInv PROVE TypeOK
      OBVIOUS
    <2>1. /\ program \in {"rug", "wig"}
          /\ phase \in {"flags", "fetching", "done", "failed", "panicked"}
          /\ count \in 0..MaxFlags
      BY DEF IInv, Control, Phases
    <2>2. \A name \in DOMAIN vars : CanSet(vars[name])
      BY DEF IInv, Variables, AreValues, Kinds, CanSet
    <2>3. \A name \in DOMAIN vars : vars[name].kind = "string" => Len(vars[name].items) = 1
      BY DEF IInv, Variables, AreValues, IsValue
    <2>4. \A i \in DOMAIN given : given[i].val.kind \in {"string", "array", "map", "other"}
      <3>1. DOMAIN given = 1..Len(given)
        BY SeqDomain DEF IInv, Variables, AreGiven, AreEvents
      <3> QED BY <3>1 DEF IInv, Variables, AreGiven, AreEvents, IsValue, Kinds
    <2>5. template.outcome \in {"unset", "ok", "error", "panic"} /\ partial \in BOOLEAN
      BY DEF IInv, Templates, Outcomes
    <2>6. Len(urls) <= MaxFlags
      <3>1. Len(urls) \in Nat /\ Len(urls) <= count /\ count \in 0..MaxFlags
        BY <2>1 DEF IInv, Requests, IsSeq
      <3> QED BY <3>1, MaxFlagsAssumption
    <2>7. Len(locations) <= Len(urls) /\ Len(requested) <= Len(locations)
      BY DEF IInv, Requests
    <2> QED BY <2>1, <2>2, <2>3, <2>4, <2>5, <2>6, <2>7 DEF TypeOK
  <1> QED BY <1>1, Invariance, PTL

\* Repeated flags for a variable extend each other: in both programs, with -T
\* and -t in any order and however often, what a variable holds is all that was
\* given for it from the latest string on, in the order of the flags.
THEOREM OccurrencesSafety == Spec => []OccurrencesAccumulate
  <1>1. IInv => OccurrencesAccumulate
    <2> SUFFICES ASSUME IInv, phase \notin {"failed", "panicked"}, NEW name \in DOMAIN vars,
                        \A i \in DOMAIN Current(given, name) :
                            Current(given, name)[i].val.kind # "map"
                 PROVE  vars[name].items =
                           FlattenSeq([i \in DOMAIN Current(given, name) |->
                                          Current(given, name)[i].val.items])
      BY DEF OccurrencesAccumulate
    <2> DEFINE current == Current(given, name)
    <2>1. Accumulated(vars, given) /\ AreEvents(given)
      BY DEF IInv, Variables, Stopped, AreGiven
    <2>2. DOMAIN current = 1..Len(current)
      <3>1. IsSeq(current)
        BY <2>1, CurrentIsEvents DEF AreEvents
      <3> QED BY <3>1, SeqDomain
    <2>3. ~HasMap(current)
      BY <2>2 DEF HasMap
    <2>4. vars[name].items = Total(current)
      BY <2>1, <2>3 DEF Accumulated
    <2> QED BY <2>4 DEF Total, ItemsOf
  <1> QED BY <1>1, Invariance, PTL

\* As soon as there is a variable, no request of wig carries an expression:
\* whatever the locations and the values are, a literal, an escaped value and
\* what path joining adds hold no opening brace.
THEOREM ExpandSafety == Spec => []TemplatesExpand
  <1>1. IInv => TemplatesExpand
    <2> SUFFICES ASSUME IInv, vars # NoVars, NEW i \in DOMAIN requested
                 PROVE  ~Contains(requested[i], "{")
      BY DEF TemplatesExpand
    <2>1. i \in 1..Len(requested)
      BY SeqDomain DEF IInv, Requests
    <2>2. IsClean(requested[i])
      BY <2>1 DEF IInv, Expanded
    <2> QED BY <2>2, CleanMeans DEF IsClean
  <1> QED BY <1>1, Invariance, PTL
=============================================================================
