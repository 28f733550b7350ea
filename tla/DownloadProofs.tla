---------------------------- MODULE DownloadProofs ----------------------------
(***************************************************************************)
(* The safety of Download, for every set of configurations and of paths    *)
(* and every number of responses.                                          *)
(***************************************************************************)
EXTENDS Download, SequenceTheorems, WellFoundedInduction, TLAPS

(***************************************************************************)
(* Induction over the natural numbers, as a fact about sets: a set that    *)
(* lacks a number lacks a least one.                                       *)
(***************************************************************************)
Less == OpToRel(<, Nat)

LEMMA LeastNumber ==
  ASSUME NEW T, T \subseteq Nat, T # {}
  PROVE  \E x \in T : \A y \in T : x <= y
  <1>1. IsWellFoundedOn(Less, Nat)
    BY NatLessThanWellFounded, Zenon DEF Less
  <1>2. \A i, j \in Nat : <<i, j>> \in Less <=> i < j
    BY Zenon DEF Less, OpToRel
  <1>3. PICK x \in T : \A y \in T : <<y, x>> \notin Less
    BY <1>1, WFMin
  <1>4. \A y \in T : x \in Nat /\ y \in Nat /\ ~(y < x)
    BY <1>2, <1>3
  <1>5. \A y \in T : x <= y
    BY <1>4
  <1> QED BY <1>5

LEMMA Induction ==
  ASSUME NEW T, 0 \in T, \A k \in Nat : k \in T => k + 1 \in T
  PROVE  Nat \subseteq T
  <1> SUFFICES ASSUME Nat \ T # {} PROVE FALSE
    OBVIOUS
  <1>1. PICK x \in Nat \ T : \A y \in Nat \ T : x <= y
    BY LeastNumber
  <1>2. x - 1 \in Nat
    BY <1>1
  <1> QED BY <1>1, <1>2

\* A recursion that goes through so many steps has a result.
IsResult(f, last, V, base, step) ==
    f \in [0..last -> V] /\ f[0] = base /\ \A i \in 1..last : f[i] = step[i][f[i - 1]]

LEMMA Recursion ==
  ASSUME NEW last \in Nat, NEW V, NEW base \in V, NEW step \in [1..last -> [V -> V]]
  PROVE  \E f : IsResult(f, last, V, base, step)
  <1> DEFINE Upto(k) == \E f : IsResult(f, k, V, base, step)
  <1> DEFINE T == {k \in Nat : k <= last => Upto(k)}
  <1>1. 0 \in T
    <2>1. [i \in 0..0 |-> base] \in [0..0 -> V] /\ [i \in 0..0 |-> base][0] = base
      OBVIOUS
    <2>2. \A i \in 1..0 : FALSE
      OBVIOUS
    <2>3. IsResult([i \in 0..0 |-> base], 0, V, base, step)
      BY <2>1, <2>2 DEF IsResult
    <2> QED BY <2>3
  <1>2. ASSUME NEW k \in Nat, k \in T PROVE k + 1 \in T
    <2> SUFFICES ASSUME k + 1 <= last PROVE Upto(k + 1)
      OBVIOUS
    <2>1. PICK f : IsResult(f, k, V, base, step)
      BY <1>2
    <2>2. /\ f \in [0..k -> V] /\ f[0] = base
          /\ \A i \in 1..k : f[i] = step[i][f[i - 1]]
      BY <2>1 DEF IsResult
    <2>3. step[k + 1][f[k]] \in V
      BY <2>2
    <2> DEFINE g == [i \in 0..k + 1 |-> IF i = k + 1 THEN step[k + 1][f[k]] ELSE f[i]]
    <2>4. g \in [0..k + 1 -> V] /\ g[0] = base
      BY <2>2, <2>3
    <2>5. \A i \in 1..k + 1 : g[i] = step[i][g[i - 1]]
      BY <2>2
    <2>6. IsResult(g, k + 1, V, base, step)
      <3> HIDE DEF g
      <3> QED BY <2>4, <2>5 DEF IsResult
    <2> QED BY <2>6
  <1>3. last \in T
    <2> HIDE DEF T
    <2> QED BY <1>1, <1>2, Induction
  <1> QED BY <1>3

-----------------------------------------------------------------------------
(***************************************************************************)
(* Join                                                                    *)
(***************************************************************************)
IsJoined(c, f) ==
    f = [i \in 0..Len(c) |->
            IF i = 0 THEN <<>>
            ELSE IF c[i] = Empty THEN f[i - 1]
            ELSE Append(f[i - 1], c[i])]

LEMMA JoinUpToDef ==
  ASSUME NEW c \in Seq(Names)
  PROVE  IsJoined(c, JoinUpTo(c))
  <1>1. JoinUpTo(c) = CHOOSE f : IsJoined(c, f)
    BY DEF JoinUpTo, IsJoined
  <1>2. \E f : IsJoined(c, f)
    <2> DEFINE step == [i \in 1..Len(c) |-> [v \in Seq(Names) |->
                           IF c[i] = Empty THEN v ELSE Append(v, c[i])]]
    <2>1. step \in [1..Len(c) -> [Seq(Names) -> Seq(Names)]]
      <3>1. \A i \in 1..Len(c) : c[i] \in Names
        BY ElementOfSeq
      <3>2. \A i \in 1..Len(c), v \in Seq(Names) :
               (IF c[i] = Empty THEN v ELSE Append(v, c[i])) \in Seq(Names)
        BY <3>1
      <3> QED BY <3>2, Zenon
    <2>2. Len(c) \in Nat
      BY LenProperties
    <2> HIDE DEF step
    <2>3. PICK f : IsResult(f, Len(c), Seq(Names), <<>>, step)
      <3>1. <<>> \in Seq(Names)
        BY EmptySeq
      <3> QED BY <2>1, <2>2, <3>1, Recursion
    <2>4. /\ f[0] = <<>>
          /\ \A i \in 1..Len(c) : /\ i - 1 \in 0..Len(c) /\ f[i - 1] \in Seq(Names)
                                  /\ f[i] = step[i][f[i - 1]]
      <3>1. f \in [0..Len(c) -> Seq(Names)]
        BY <2>3, Zenon DEF IsResult
      <3>2. f[0] = <<>> /\ \A i \in 1..Len(c) : f[i] = step[i][f[i - 1]]
        BY <2>3, Zenon DEF IsResult
      <3>3. \A i \in 1..Len(c) : i - 1 \in 0..Len(c)
        BY <2>2
      <3>4. \A i \in 1..Len(c) : f[i - 1] \in Seq(Names)
        BY <3>1, <3>3, Zenon
      <3> QED BY <3>2, <3>3, <3>4, Zenon
    <2>5. \A i \in 1..Len(c) : f[i] = IF c[i] = Empty THEN f[i - 1] ELSE Append(f[i - 1], c[i])
      BY <2>4 DEF step
    <2>6. f = [i \in 0..Len(c) |-> f[i]]
      BY <2>3 DEF IsResult
    <2>7. \A i \in 0..Len(c) : i = 0 \/ i \in 1..Len(c)
      BY <2>2
    <2>8. IsJoined(c, f)
      BY <2>4, <2>5, <2>6, <2>7 DEF IsJoined
    <2> QED BY <2>8
  <1> QED BY <1>1, <1>2, Zenon

\* What is joined of the first i components, from what is of one less.
LEMMA JoinUpToStep ==
  ASSUME NEW c \in Seq(Names)
  PROVE  /\ JoinUpTo(c)[0] = <<>>
         /\ \A i \in 1..Len(c) :
               JoinUpTo(c)[i] = IF c[i] = Empty THEN JoinUpTo(c)[i - 1]
                                ELSE Append(JoinUpTo(c)[i - 1], c[i])
  <1>1. Len(c) \in Nat
    BY LenProperties
  <1>2. JoinUpTo(c) = [i \in 0..Len(c) |->
                          IF i = 0 THEN <<>>
                          ELSE IF c[i] = Empty THEN JoinUpTo(c)[i - 1]
                          ELSE Append(JoinUpTo(c)[i - 1], c[i])]
    BY JoinUpToDef DEF IsJoined
  <1>3. /\ 0 \in 0..Len(c)
        /\ \A i \in 1..Len(c) : i \in 0..Len(c) /\ i # 0
    BY <1>1
  <1> HIDE DEF JoinUpTo
  <1> QED BY <1>2, <1>3

\* Two sequences that begin alike are joined alike so far.
LEMMA JoinUpToSame ==
  ASSUME NEW c \in Seq(Names), NEW d \in Seq(Names), NEW last \in 0..Len(c), last <= Len(d),
         \A i \in 1..last : c[i] = d[i]
  PROVE  JoinUpTo(c)[last] = JoinUpTo(d)[last]
  <1> DEFINE T == {k \in Nat : k <= last => JoinUpTo(c)[k] = JoinUpTo(d)[k]}
  <1>0. Len(c) \in Nat /\ Len(d) \in Nat
    BY LenProperties
  <1>1. 0 \in T
    BY JoinUpToStep
  <1>2. ASSUME NEW k \in Nat, k \in T PROVE k + 1 \in T
    <2> SUFFICES ASSUME k + 1 <= last PROVE JoinUpTo(c)[k + 1] = JoinUpTo(d)[k + 1]
      OBVIOUS
    <2>1. k + 1 \in 1..Len(c) /\ k + 1 \in 1..Len(d) /\ k + 1 \in 1..last /\ k = (k + 1) - 1
      BY <1>0
    <2>2. JoinUpTo(c)[k] = JoinUpTo(d)[k]
      BY <1>2, <2>1
    <2> QED BY <2>1, <2>2, JoinUpToStep
  <1>3. last \in T
    <2> HIDE DEF T
    <2> QED BY <1>0, <1>1, <1>2, Induction
  <1> QED BY <1>3

LEMMA JoinAppend ==
  ASSUME NEW c \in Seq(Names), NEW e \in Names
  PROVE  Join(Append(c, e)) = IF e = Empty THEN Join(c) ELSE Append(Join(c), e)
  <1> DEFINE d == Append(c, e)
  <1>1. /\ d \in Seq(Names) /\ Len(d) = Len(c) + 1 /\ d[Len(c) + 1] = e /\ Len(c) \in Nat
        /\ \A i \in 1..Len(c) : d[i] = c[i]
    BY AppendProperties, LenProperties
  <1> HIDE DEF d
  <1>2. JoinUpTo(d)[Len(c)] = JoinUpTo(c)[Len(c)]
    BY <1>1, JoinUpToSame
  <1>3. Len(c) + 1 \in 1..Len(d) /\ (Len(c) + 1) - 1 = Len(c)
    BY <1>1
  <1>4. JoinUpTo(d)[Len(d)] = IF e = Empty THEN JoinUpTo(c)[Len(c)]
                              ELSE Append(JoinUpTo(c)[Len(c)], e)
    BY <1>1, <1>2, <1>3, JoinUpToStep
  <1> QED BY <1>4 DEF Join, d

\* What is joined is a sequence of names.
LEMMA JoinSeq ==
  ASSUME NEW c \in Seq(Names)
  PROVE  Join(c) \in Seq(Names)
  <1> DEFINE T == {k \in Nat : k <= Len(c) => JoinUpTo(c)[k] \in Seq(Names)}
  <1>0. Len(c) \in Nat /\ \A i \in 1..Len(c) : c[i] \in Names
    BY LenProperties, ElementOfSeq
  <1>1. 0 \in T
    BY JoinUpToStep, EmptySeq
  <1>2. ASSUME NEW k \in Nat, k \in T PROVE k + 1 \in T
    <2> SUFFICES ASSUME k + 1 <= Len(c) PROVE JoinUpTo(c)[k + 1] \in Seq(Names)
      OBVIOUS
    <2>1. k + 1 \in 1..Len(c) /\ k = (k + 1) - 1 /\ k <= Len(c)
      BY <1>0
    <2>2. JoinUpTo(c)[k] \in Seq(Names) /\ c[k + 1] \in Names
      BY <1>0, <1>2, <2>1
    <2>3. Append(JoinUpTo(c)[k], c[k + 1]) \in Seq(Names)
      BY <2>2, AppendProperties
    <2> QED BY <2>1, <2>2, <2>3, JoinUpToStep
  <1>3. Len(c) \in T
    <2> HIDE DEF T
    <2> QED BY <1>0, <1>1, <1>2, Induction
  <1> QED BY <1>0, <1>3 DEF Join

-----------------------------------------------------------------------------
(***************************************************************************)
(* Strip                                                                   *)
(***************************************************************************)
LEMMA FrontAndLast ==
  ASSUME NEW p \in Seq(Names), p # <<>>
  PROVE  /\ Len(p) \in Nat \ {0}
         /\ Last(p) = p[Len(p)] /\ Last(p) \in Names
         /\ Front(p) \in Seq(Names) /\ Len(Front(p)) = Len(p) - 1
         /\ \A i \in 1..Len(p) - 1 : Front(p)[i] = p[i]
  <1>1. Len(p) \in Nat \ {0}
    BY EmptySeq
  <1>2. \A i \in 1..Len(p) : p[i] \in Names
    BY ElementOfSeq
  <1> DEFINE last == Len(p) - 1
             front == SubSeq(p, 1, last)
  <1>3. last \in Nat /\ \A i \in 1..last : p[i] \in Names
    BY <1>1, <1>2
  <1> HIDE DEF last
  <1>4. front \in Seq(Names) /\ Len(front) = last /\ \A i \in 1..last : front[i] = p[i]
    BY <1>3
  <1>5. front = Front(p)
    BY DEF last, Front
  <1> QED BY <1>1, <1>2, <1>4, <1>5 DEF last, Last

\* A longer subsequence is a shorter one and an element.
LEMMA SubSeqAppend ==
  ASSUME NEW c \in Seq(Names), NEW k \in Nat, NEW last \in Nat, k < last, last <= Len(c)
  PROVE  /\ SubSeq(c, k + 1, last) = Append(SubSeq(c, k + 1, last - 1), c[last])
         /\ SubSeq(c, k + 1, last - 1) \in Seq(Names)
  <1>1. Len(c) \in Nat /\ \A i \in 1..Len(c) : c[i] \in Names
    BY LenProperties, ElementOfSeq
  <1>2. \A i \in k + 1..last : c[i] \in Names
    BY <1>1
  <1> DEFINE long  == SubSeq(c, k + 1, last)
             short == SubSeq(c, k + 1, last - 1)
             more  == Append(short, c[last])
  <1>3. /\ long \in Seq(Names) /\ Len(long) = last - k
        /\ \A i \in 1..last - k : long[i] = c[k + i]
    BY <1>1, <1>2
  <1>4. /\ short \in Seq(Names) /\ Len(short) = last - 1 - k
        /\ \A i \in 1..last - 1 - k : short[i] = c[k + i]
    BY <1>1, <1>2
  <1>5. c[last] \in Names
    BY <1>1
  <1> HIDE DEF short
  <1>6. /\ more \in Seq(Names) /\ Len(more) = last - k /\ more[last - k] = c[last]
        /\ \A i \in 1..last - 1 - k : more[i] = short[i]
    BY <1>4, <1>5
  <1> HIDE DEF long, more
  <1>7. \A i \in 1..last - k : long[i] = more[i]
    <2> SUFFICES ASSUME NEW i \in 1..last - k PROVE long[i] = more[i]
      OBVIOUS
    <2>1. long[i] = c[k + i]
      BY <1>3
    <2>2. CASE i = last - k
      BY <1>6, <2>1, <2>2
    <2>3. CASE i # last - k
      <3>1. i \in 1..last - 1 - k
        BY <2>3
      <3> QED BY <1>4, <1>6, <2>1, <3>1
    <2> QED BY <2>2, <2>3
  <1>8. long = more
    BY <1>3, <1>6, <1>7, SeqEqual
  <1> QED BY <1>4, <1>8 DEF long, short, more

\* The empty component at the end of the directories makes no difference.
LEMMA JoinRest ==
  ASSUME NEW p \in Seq(Names), p # <<>>, NEW k \in 0..Len(p) - 1
  PROVE  LET dirs == Append(Front(p), Empty)
         IN  Join(Append(SubSeq(dirs, k + 1, Len(dirs)), Last(p)))
                = Join(SubSeq(p, k + 1, Len(p)))
  <1> DEFINE len  == Len(p)
             dirs == Append(Front(p), Empty)
             rest == SubSeq(p, k + 1, len - 1)
  <1>1. len \in Nat \ {0} /\ Last(p) = p[len] /\ Last(p) \in Names
    BY FrontAndLast
  <1>2. /\ dirs \in Seq(Names) /\ Len(dirs) = len /\ dirs[len] = Empty
        /\ \A i \in 1..len - 1 : dirs[i] = p[i]
    <2> DEFINE front == Front(p)
    <2>1. front \in Seq(Names) /\ Len(front) = len - 1 /\ \A i \in 1..len - 1 : front[i] = p[i]
      BY FrontAndLast
    <2> HIDE DEF front
    <2>2. /\ Append(front, Empty) \in Seq(Names) /\ Len(Append(front, Empty)) = len
          /\ Append(front, Empty)[len] = Empty
          /\ \A i \in 1..len - 1 : Append(front, Empty)[i] = front[i]
      BY <1>1, <2>1, EmptyAssumption
    <2> QED BY <2>1, <2>2 DEF front
  <1> HIDE DEF dirs
  <1>3. /\ SubSeq(p, k + 1, len) = Append(rest, Last(p)) /\ rest \in Seq(Names)
        /\ SubSeq(dirs, k + 1, len) = Append(SubSeq(dirs, k + 1, len - 1), Empty)
    <2>1. k \in Nat /\ len \in Nat /\ k < len /\ len <= len
      BY <1>1
    <2>2. SubSeq(p, k + 1, len) = Append(rest, p[len]) /\ rest \in Seq(Names)
      BY <2>1, SubSeqAppend
    <2>3. SubSeq(dirs, k + 1, len) = Append(SubSeq(dirs, k + 1, len - 1), dirs[len])
      BY <1>2, <2>1, SubSeqAppend
    <2> QED BY <1>1, <1>2, <2>2, <2>3
  <1>4. SubSeq(dirs, k + 1, len - 1) = rest
    BY <1>1, <1>2
  <1>5. Append(rest, Empty) \in Seq(Names)
    BY <1>3, EmptyAssumption, AppendProperties
  <1>6. Join(Append(Append(rest, Empty), Last(p))) = Join(Append(rest, Last(p)))
    BY <1>1, <1>3, <1>5, EmptyAssumption, JoinAppend
  <1> QED BY <1>2, <1>3, <1>4, <1>6 DEF dirs

\* Of a path that is stripped whole the file is left.
LEMMA JoinLast ==
  ASSUME NEW p \in Seq(Names), p # <<>>
  PROVE  Append(<<>>, Last(p)) = SubSeq(p, Len(p), Len(p))
  <1>1. Len(p) \in Nat \ {0} /\ Last(p) = p[Len(p)]
    BY FrontAndLast
  <1>2. SubSeq(p, (Len(p) - 1) + 1, Len(p))
           = Append(SubSeq(p, (Len(p) - 1) + 1, Len(p) - 1), p[Len(p)])
    BY <1>1, SubSeqAppend
  <1>3. SubSeq(p, Len(p), Len(p) - 1) = <<>>
    BY <1>1, SubSeqEmpty
  <1>4. (Len(p) - 1) + 1 = Len(p)
    BY <1>1
  <1> QED BY <1>1, <1>2, <1>3, <1>4

LEMMA SmallerOfTwo ==
  ASSUME NEW a \in Int, NEW b \in Int
  PROVE  /\ Min({a, b}) = IF a <= b THEN a ELSE b
         /\ Max({a, b}) = IF a <= b THEN b ELSE a
  <1>1. ASSUME a <= b
        PROVE  Min({a, b}) = a /\ Max({a, b}) = b
    <2>1. \A x : (x \in {a, b} /\ \A y \in {a, b} : x <= y) <=> x = a
      BY <1>1
    <2>2. \A x : (x \in {a, b} /\ \A y \in {a, b} : x >= y) <=> x = b
      BY <1>1
    <2> QED BY <2>1, <2>2 DEF Min, Max
  <1>2. ASSUME ~(a <= b)
        PROVE  Min({a, b}) = b /\ Max({a, b}) = a
    <2>1. \A x : (x \in {a, b} /\ \A y \in {a, b} : x <= y) <=> x = b
      BY <1>2
    <2>2. \A x : (x \in {a, b} /\ \A y \in {a, b} : x >= y) <=> x = a
      BY <1>2
    <2> QED BY <2>1, <2>2 DEF Min, Max
  <1> QED BY <1>1, <1>2

\* A path that ends in a file names that file: only empty components are lost.
LEMMA NamedIsJoined ==
  ASSUME NEW p \in Seq(Names), p # <<>>
  PROVE  /\ Last(Named(p)) = Last(p)
         /\ Last(p) # Empty => Named(p) = Join(p)
  <1>1. /\ Len(p) \in Nat \ {0} /\ Last(p) = p[Len(p)] /\ Last(p) \in Names
        /\ Front(p) \in Seq(Names)
    BY FrontAndLast
  <1>2. Front(p) = SubSeq(p, 1, Len(p) - 1)
    BY DEF Front
  <1>3. SubSeq(p, 0 + 1, Len(p)) = Append(SubSeq(p, 0 + 1, Len(p) - 1), p[Len(p)])
    <2>1. 0 \in Nat /\ Len(p) \in Nat /\ 0 < Len(p) /\ Len(p) <= Len(p)
      BY <1>1
    <2> QED BY <2>1, SubSeqAppend
  <1>4. p = Append(Front(p), Last(p))
    <2>1. SubSeq(p, 1, Len(p)) = p
      BY SubSeqFull
    <2> QED BY <1>1, <1>2, <1>3, <2>1
  <1>5. Join(Front(p)) \in Seq(Names)
    BY <1>1, JoinSeq
  <1>6. Last(Named(p)) = Last(p)
    <2> DEFINE joined == Join(Front(p))
               file   == Last(p)
    <2>1. joined \in Seq(Names) /\ file \in Names
      BY <1>1, <1>5
    <2> HIDE DEF joined, file
    <2>2. Last(Append(joined, file)) = file
      BY <2>1 DEF Last
    <2> QED BY <2>2 DEF joined, file, Named
  <1>7. ASSUME Last(p) # Empty PROVE Named(p) = Join(p)
    BY <1>1, <1>4, <1>7, JoinAppend DEF Named
  <1> QED BY <1>6, <1>7

\* How many directories a count strips of a path with so many.
Stripped(count, dirs) ==
    IF count >= 0 THEN Min({count, dirs}) ELSE Max({0, dirs + 1 + count})

\* stripComponents.FileName names what is left after the leading directories,
\* for a path that ends in a file, or any path when something is stripped.
LEMMA StripIsLeading ==
  ASSUME NEW p \in Paths, NEW count \in Int, count = 0 => Last(p) # Empty
  PROVE  Strip(p, count) = Join(SubSeq(p, Stripped(count, Len(p) - 1) + 1, Len(p)))
  <1> DEFINE len  == Len(p)
             dirs == Append(Front(p), Empty)
  <1>1. p \in Seq(Names) /\ p # <<>>
    BY PathsAssumption
  <1>2. len \in Nat /\ len >= 1
    BY <1>1, FrontAndLast
  <1>3. Len(dirs) = len /\ dirs \in Seq(Names)
    <2>1. Front(p) \in Seq(Names) /\ Len(Front(p)) = len - 1
      BY <1>1, FrontAndLast
    <2> QED BY <1>2, <2>1, EmptyAssumption, AppendProperties
  <1> DEFINE kept == IF count > len THEN <<>>
                     ELSE IF count < -len THEN dirs
                     ELSE IF count < 0 THEN SubSeq(dirs, ((len + count) % len) + 1, len)
                     ELSE SubSeq(dirs, count + 1, len)
  <1>4. Strip(p, count) = IF count = 0 THEN Named(p) ELSE Join(Append(kept, Last(p)))
    BY <1>3 DEF Strip
  <1>5. ASSUME NEW k \in 0..len - 1
        PROVE  Join(Append(SubSeq(dirs, k + 1, len), Last(p))) = Join(SubSeq(p, k + 1, len))
    BY <1>1, <1>3, JoinRest
  <1>6. Append(<<>>, Last(p)) = SubSeq(p, len, len)
    BY <1>1, JoinLast
  <1>7. dirs = SubSeq(dirs, 1, len)
    BY <1>3, SubSeqFull
  <1>8. Stripped(count, len - 1) = IF count >= 0
                                   THEN IF count <= len - 1 THEN count ELSE len - 1
                                   ELSE IF 0 <= len + count THEN len + count ELSE 0
    <2> HIDE DEF len
    <2>1. len - 1 \in Int /\ len + count \in Int /\ (len - 1) + 1 + count = len + count
      BY <1>2
    <2>2. Min({count, len - 1}) = IF count <= len - 1 THEN count ELSE len - 1
      BY <2>1, SmallerOfTwo
    <2>3. Max({0, len + count}) = IF 0 <= len + count THEN len + count ELSE 0
      <3>1. 0 \in Int
        OBVIOUS
      <3> QED BY <2>1, <3>1, SmallerOfTwo, Zenon
    <2> QED BY <2>1, <2>2, <2>3 DEF Stripped
  <1> HIDE DEF len, dirs
  <1>a. CASE count = 0
    <2>1. Named(p) = Join(p)
      BY <1>1, <1>a, NamedIsJoined
    <2>2. SubSeq(p, 0 + 1, len) = p
      BY <1>1, <1>2, SubSeqFull DEF len
    <2>3. Stripped(count, len - 1) = 0
      BY <1>2, <1>8, <1>a
    <2> QED BY <1>4, <1>a, <2>1, <2>2, <2>3 DEF len
  <1>b. CASE count > 0 /\ count <= len - 1
    <2>1. Stripped(count, len - 1) = count /\ count \in 0..len - 1
      BY <1>2, <1>8, <1>b
    <2>2. kept = SubSeq(dirs, count + 1, len)
      BY <1>2, <1>b
    <2> QED BY <1>4, <1>5, <1>b, <2>1, <2>2 DEF len
  <1>c. CASE count >= len
    <2>1. Stripped(count, len - 1) = len - 1 /\ (len - 1) + 1 = len
      BY <1>2, <1>8, <1>c
    <2>2. kept = <<>>
      <3>1. CASE count = len
        <4>1. SubSeq(dirs, count + 1, len) = <<>>
          BY <1>2, <3>1, SubSeqEmpty
        <4> QED BY <1>2, <3>1, <4>1
      <3>2. CASE count > len
        BY <3>2
      <3> QED BY <1>2, <1>c, <3>1, <3>2
    <2>3. count # 0
      BY <1>2, <1>c
    <2> HIDE DEF kept
    <2> QED BY <1>4, <1>6, <2>1, <2>2, <2>3 DEF len
  <1>d. CASE count < 0 /\ count >= -len
    <2>1. /\ Stripped(count, len - 1) = len + count /\ len + count \in 0..len - 1
      BY <1>2, <1>8, <1>d
    <2>2. (len + count) % len = len + count
      BY <1>2, <2>1
    <2>3. kept = SubSeq(dirs, (len + count) + 1, len)
      BY <1>2, <1>d, <2>2
    <2> QED BY <1>4, <1>5, <1>d, <2>1, <2>3 DEF len
  <1>e. CASE count < -len
    <2>1. Stripped(count, len - 1) = 0 /\ 0 \in 0..len - 1 /\ count # 0
      BY <1>2, <1>8, <1>e
    <2>2. kept = SubSeq(dirs, 0 + 1, len)
      BY <1>2, <1>7, <1>e
    <2> QED BY <1>4, <1>5, <2>1, <2>2 DEF len
  <1> QED BY <1>2, <1>a, <1>b, <1>c, <1>d, <1>e

-----------------------------------------------------------------------------
(***************************************************************************)
(* The middleware                                                          *)
(***************************************************************************)
Wrapped == [strip : BOOLEAN, checks : Nat, panics : BOOLEAN]

IsApplied(f) ==
    f = [i \in 0..Len(opts.middleware) |->
            IF i = 0 THEN Plain ELSE Apply(f[i - 1], opts.middleware[i])]

LEMMA ApplyWrapped ==
  ASSUME NEW d \in Wrapped, NEW middleware
  PROVE  /\ Apply(d, middleware) \in Wrapped
         /\ Apply(d, middleware).checks = IF middleware = "integrity" THEN d.checks + 1
                                          ELSE d.checks
         /\ Apply(d, middleware).strip => d.strip \/ opts.downloader = "requestPath"
  <1> DEFINE isPath == opts.downloader = "requestPath"
  <1>0. d.checks \in Nat
    BY DEF Wrapped
  <1>1. CASE middleware = "integrity"
    <2>1. Apply(d, middleware) = [d EXCEPT !.checks = d.checks + 1]
      BY <1>1 DEF Apply
    <2> QED BY <1>0, <1>1, <2>1 DEF Wrapped
  <1>2. CASE /\ middleware # "integrity"
             /\ opts.downloader \in {"requestFile", "requestPath"} /\ ~d.strip /\ d.checks = 0
    <2>1. PICK strips \in BOOLEAN : strips <=> isPath
      OBVIOUS
    <2>2. strips = isPath
      BY <2>1, Zenon
    <2>3. Apply(d, middleware) = [d EXCEPT !.strip = strips]
      BY <1>2, <2>2, Zenon DEF Apply
    <2> QED BY <1>2, <2>1, <2>3 DEF Wrapped
  <1>3. CASE /\ middleware # "integrity"
             /\ ~(opts.downloader \in {"requestFile", "requestPath"} /\ ~d.strip /\ d.checks = 0)
    <2>1. Apply(d, middleware) = [d EXCEPT !.panics = TRUE]
      BY <1>3, Zenon DEF Apply
    <2> QED BY <1>3, <2>1 DEF Wrapped
  <1> QED BY <1>1, <1>2, <1>3, Zenon

LEMMA AppliedDef ==
  ASSUME Len(opts.middleware) \in Nat
  PROVE  IsApplied(Applied)
  <1> DEFINE len == Len(opts.middleware)
  <1>1. Applied = CHOOSE f : IsApplied(f)
    BY DEF Applied, IsApplied
  <1>2. \E f : IsApplied(f)
    <2> DEFINE step == [i \in 1..len |-> [d \in Wrapped |-> Apply(d, opts.middleware[i])]]
    <2>1. step \in [1..len -> [Wrapped -> Wrapped]]
      BY ApplyWrapped, Zenon
    <2>2. Plain \in Wrapped
      BY DEF Plain, Wrapped
    <2> HIDE DEF step
    <2>3. PICK f : IsResult(f, len, Wrapped, Plain, step)
      BY <2>1, <2>2, Recursion
    <2>4. /\ f = [i \in 0..len |-> f[i]] /\ f \in [0..len -> Wrapped] /\ f[0] = Plain
          /\ \A i \in 1..len : f[i] = step[i][f[i - 1]]
      BY <2>3, Zenon DEF IsResult
    <2>5. \A i \in 1..len : i - 1 \in 0..len
      OBVIOUS
    <2>6. \A i \in 1..len : f[i] = Apply(f[i - 1], opts.middleware[i])
      BY <2>4, <2>5, Zenon DEF step
    <2>7. \A i \in 0..len : i = 0 \/ i \in 1..len
      OBVIOUS
    <2>8. IsApplied(f)
      BY <2>4, <2>6, <2>7 DEF IsApplied
    <2> QED BY <2>8
  <1> QED BY <1>1, <1>2, Zenon

\* What the middleware makes of the downloader: it strips only a request
\* path, and checks when one of the middleware does.
LEMMA ActualMiddleware ==
  ASSUME opts \in Options
  PROVE  /\ Actual \in Wrapped
         /\ Actual.strip => opts.downloader = "requestPath"
         /\ "integrity" \in ToSet(opts.middleware) => Actual.checks > 0
  <1> DEFINE len == Len(opts.middleware)
  <1>1. opts.middleware \in Seq({"integrity", "strip"})
    BY OptionsAssumption DEF IsOptions
  <1>2. len \in Nat /\ DOMAIN opts.middleware = 1..len
    BY <1>1, LenProperties
  <1>3. IsApplied(Applied)
    BY <1>2, AppliedDef
  <1> DEFINE Good(k) == /\ Applied[k] \in Wrapped
                        /\ Applied[k].strip => opts.downloader = "requestPath"
                        /\ (\E i \in 1..k : opts.middleware[i] = "integrity")
                              => Applied[k].checks > 0
             T == {k \in Nat : k <= len => Good(k)}
  <1>4. /\ Applied[0] = Plain
        /\ \A i \in 1..len : Applied[i] = Apply(Applied[i - 1], opts.middleware[i])
    <2>1. 0 \in 0..len /\ \A i \in 1..len : i \in 0..len /\ i # 0
      BY <1>2
    <2> DEFINE A == Applied
    <2>2. A = [i \in 0..len |-> IF i = 0 THEN Plain ELSE Apply(A[i - 1], opts.middleware[i])]
      BY <1>3, Zenon DEF IsApplied
    <2> HIDE DEF A
    <2>3. A[0] = Plain /\ \A i \in 1..len : A[i] = Apply(A[i - 1], opts.middleware[i])
      BY <2>1, <2>2
    <2> QED BY <2>3 DEF A
  <1>5. 0 \in T
    <2>1. Plain \in Wrapped /\ ~Plain.strip /\ Applied[0] = Plain
      BY <1>4 DEF Plain, Wrapped
    <2>2. \A i \in 1..0 : FALSE
      OBVIOUS
    <2> QED BY <2>1, <2>2, Zenon
  <1>6. ASSUME NEW k \in Nat, k \in T PROVE k + 1 \in T
    <2> SUFFICES ASSUME k + 1 <= len PROVE Good(k + 1)
      OBVIOUS
    <2> DEFINE d == Applied[k]
    <2>1. k + 1 \in 1..len /\ (k + 1) - 1 = k /\ k <= len
      BY <1>2
    <2>2. Good(k)
      BY <1>6, <2>1
    <2>3. Applied[k + 1] = Apply(d, opts.middleware[k + 1])
      BY <1>4, <2>1
    <2>4. /\ Applied[k + 1] \in Wrapped
          /\ Applied[k + 1].checks = IF opts.middleware[k + 1] = "integrity"
                                     THEN d.checks + 1 ELSE d.checks
          /\ Applied[k + 1].strip => d.strip \/ opts.downloader = "requestPath"
      BY <2>2, <2>3, ApplyWrapped
    <2>5. d.checks \in Nat
      BY <2>2 DEF Wrapped
    <2>6. \A i \in 1..k + 1 : i = k + 1 \/ i \in 1..k
      OBVIOUS
    <2>7. (\E i \in 1..k + 1 : opts.middleware[i] = "integrity") => Applied[k + 1].checks > 0
      BY <2>2, <2>4, <2>5, <2>6
    <2> QED BY <2>2, <2>4, <2>7
  <1>7. len \in T
    <2> HIDE DEF T
    <2> QED BY <1>2, <1>5, <1>6, Induction
  <1>8. Good(len)
    BY <1>2, <1>7
  <1> QED BY <1>2, <1>8 DEF Actual, ToSet

-----------------------------------------------------------------------------
(***************************************************************************)
(* The inductive invariant.  What the properties leave out: a response has *)
(* a number and a path once it is open, the output that is open is the     *)
(* file of the current index, and the files of the downloads that are done *)
(* are those of earlier indices.                                           *)
(***************************************************************************)
FileOf(i) == IF i = 0 THEN <<"file">> ELSE <<"file", Suffix[i]>>

Writing == {"hash", "headers", "body", "close"}

OpenInv ==
    /\ pc # "idle" => n \in 1..MaxResponses /\ path \in Paths
    /\ pc = "open" => index < n - 1
    /\ name \in DOMAIN files \cup {<<>>}

NumberedInv ==
    opts.downloader = "file" =>
        /\ pc \in Writing => index >= 0 /\ name = FileOf(index)
        /\ pc = "close" => files[name] = Content(opts.headers, "whole")
        /\ \A d \in done : \E i \in 0..index :
              d.file = FileOf(i) /\ (pc \in Writing => i < index)

NamedInv ==
    pc = "hash" /\ opts.downloader = "requestPath" =>
        name = FileName(path, index) /\ name # <<>> /\ Last(name) # Empty

IInv ==
    /\ TypeOK
    /\ OpenInv
    /\ NumberedInv
    /\ NamedInv
    /\ VerifiedOnSuccess
    /\ DownloadsKept

-----------------------------------------------------------------------------
LEMMA FileOfInjective ==
  ASSUME NEW i \in 0..MaxResponses, NEW j \in 0..MaxResponses, FileOf(i) = FileOf(j)
  PROVE  i = j
  <1>1. Len(<<"file">>) = 1 /\ \A s : Len(<<"file", s>>) = 2 /\ <<"file", s>>[2] = s
    OBVIOUS
  <1>2. CASE i = 0 \/ j = 0
    BY <1>1, <1>2 DEF FileOf
  <1>3. CASE i # 0 /\ j # 0
    <2>1. i \in 1..MaxResponses /\ j \in 1..MaxResponses
      BY <1>3, BoundAssumption
    <2>2. <<"file", Suffix[i]>> = <<"file", Suffix[j]>>
      BY <1>3 DEF FileOf
    <2>3. Suffix[i] = Suffix[j]
      BY <1>1, <2>2
    <2> QED BY <2>1, <2>3, SuffixAssumption
  <1> QED BY <1>2, <1>3

LEMMA FileOfIsFile == \A i : FileOf(i) # <<>>
  <1>1. <<"file">> # <<>> /\ \A s : <<"file", s>> # <<>>
    OBVIOUS
  <1> QED BY <1>1, Zenon DEF FileOf

\* What the file system holds after a write.
LEMMA HoldingFile ==
  ASSUME NEW file, NEW content
  PROVE  /\ DOMAIN Holding(file, content) = DOMAIN files \cup {file}
         /\ Holding(file, content)[file] = content
         /\ \A f \in DOMAIN files : f # file => Holding(file, content)[f] = files[f]
  BY DEF Holding

\* A write puts what it writes in the file that is open, and nothing else.
LEMMA PutFile ==
  ASSUME TypeOK, OpenInv, pc # "idle",
         NEW headers \in BOOLEAN, NEW part \in {"none", "some", "whole"},
         Put(headers, part), n' = n
  PROVE  /\ DOMAIN files' = DOMAIN files
         /\ \A f \in DOMAIN files : f # <<>> /\ files'[f] \in Contents
         /\ name # <<>> => files'[name] = Content(headers, part)
         /\ \A f \in DOMAIN files : f # name => files'[f] = files[f]
  <1>1. n \in 1..n /\ \A f \in DOMAIN files : f # <<>> /\ files[f] \in Contents
    BY BoundAssumption DEF TypeOK, OpenInv
  <1>2. Content(headers, part) \in Contents
    BY <1>1 DEF Content, Contents
  <1>3. CASE name = <<>>
    BY <1>1, <1>3, Zenon DEF Put
  <1>4. CASE name # <<>>
    <2>1. name \in DOMAIN files
      BY <1>4 DEF OpenInv
    <2>2. files' = Holding(name, Content(headers, part))
      BY <1>4, Zenon DEF Put
    <2>3. DOMAIN files' = DOMAIN files \cup {name}
      BY <2>2, HoldingFile, Zenon
    <2>4. files'[name] = Content(headers, part)
      BY <2>2, HoldingFile, Zenon
    <2>5. \A f \in DOMAIN files : f # name => files'[f] = files[f]
      BY <2>2 DEF Holding
    <2>6. DOMAIN files' = DOMAIN files
      BY <2>1, <2>3
    <2>7. \A f \in DOMAIN files : f # <<>> /\ files'[f] \in Contents
      BY <1>1, <1>2, <2>4, <2>5, Zenon
    <2> QED BY <2>4, <2>5, <2>6, <2>7
  <1> QED BY <1>3, <1>4

LEMMA InitIInv == Init => IInv
  <1> SUFFICES ASSUME Init PROVE IInv
    OBVIOUS
  <1>1. MaxResponses \in Nat /\ DOMAIN files = {}
    BY BoundAssumption DEF Init
  <1>2. TypeOK
    BY <1>1 DEF Init, TypeOK
  <1>3. OpenInv /\ NumberedInv /\ NamedInv
    BY <1>1 DEF Init, OpenInv, NumberedInv, NamedInv, Writing
  <1>4. VerifiedOnSuccess /\ DownloadsKept
    BY DEF Init, VerifiedOnSuccess, DownloadsKept
  <1> QED BY <1>2, <1>3, <1>4 DEF IInv

\* The part of the type invariant that does not concern the file system.
LEMMA CountersStay ==
  ASSUME TypeOK, n' \in n..MaxResponses
  PROVE  /\ n' \in 0..MaxResponses /\ n \in 0..MaxResponses
         /\ 1..n \subseteq 1..n' /\ -1..n - 1 \subseteq -1..n' - 1
         /\ \A c \in Contents : c \in Contents'
  <1>1. n \in 0..MaxResponses /\ MaxResponses \in Nat
    BY BoundAssumption DEF TypeOK
  <1> DEFINE m == n'
  <1>0. m \in Int /\ n <= m /\ m <= MaxResponses
    BY <1>1
  <1> HIDE DEF m
  <1>2. 1..n \subseteq 1..m /\ -1..n - 1 \subseteq -1..m - 1 /\ m \in 0..MaxResponses
    BY <1>0, <1>1
  <1>3. \A c \in Contents : c \in Contents'
    BY <1>2 DEF Contents, m
  <1> QED BY <1>1, <1>2, <1>3 DEF m

\* The downloader depends on the configuration only.
LEMMA SameOptions ==
  ASSUME opts' = opts
  PROVE  /\ Actual' = Actual
         /\ path' = path => FileName(path, index)' = FileName(path, index')
  BY DEF FileName, Actual, Applied, Apply, Strip

LEMMA StutterStep == IInv /\ UNCHANGED vars => IInv'
  <1> SUFFICES ASSUME IInv, UNCHANGED vars PROVE IInv'
    OBVIOUS
  <1>1. TypeOK' /\ OpenInv'
    BY DEF IInv, vars, TypeOK, Contents, OpenInv
  <1>2. NumberedInv' /\ DownloadsKept'
    BY DEF IInv, vars, NumberedInv, Writing, FileOf, Content, DownloadsKept
  <1>3. NamedInv'
    BY SameOptions DEF IInv, vars, NamedInv
  <1>4. VerifiedOnSuccess'
    BY DEF IInv, vars, VerifiedOnSuccess
  <1> QED BY <1>1, <1>2, <1>3, <1>4 DEF IInv

LEMMA ActualDownloaderStep == IInv /\ ActualDownloader => IInv'
  <1> SUFFICES ASSUME IInv, ActualDownloader PROVE IInv'
    OBVIOUS
  <1>1. /\ TypeOK /\ OpenInv /\ NumberedInv /\ NamedInv /\ VerifiedOnSuccess /\ DownloadsKept
    BY DEF IInv
  <1>2. /\ pc = "idle" /\ n < MaxResponses /\ n' = n + 1 /\ path' \in Paths /\ name' = <<>>
        /\ pc' \in {"panicked", "open"}
        /\ opts' = opts /\ index' = index /\ files' = files /\ genuine' = genuine
        /\ done' = done /\ refused' = refused
    BY DEF ActualDownloader, Goto
  <1>3. n \in 0..MaxResponses /\ MaxResponses \in Nat /\ n' \in n..MaxResponses /\ n' \in 1..MaxResponses
    BY <1>1, <1>2, BoundAssumption DEF TypeOK
  <1>4. TypeOK'
    <2>1. opts' \in Options /\ pc' \in {"idle", "open", "hash", "headers", "body", "close", "panicked"}
      BY <1>1, <1>2 DEF TypeOK
    <2>2. n' \in 0..MaxResponses /\ index' \in -1..n' - 1 /\ path' \in Paths \cup {<<>>}
      BY <1>1, <1>2, <1>3, CountersStay DEF TypeOK
    <2>3. genuine' \subseteq 1..n' /\ refused' \subseteq 1..n'
      BY <1>1, <1>2, <1>3, CountersStay DEF TypeOK
    <2>4. \A f \in DOMAIN files' : f # <<>> /\ files'[f] \in Contents'
      BY <1>1, <1>2, <1>3, CountersStay DEF TypeOK
    <2>5. \A d \in done' : d.response \in 1..n' /\ d.file \in DOMAIN files' \cup {<<>>}
      BY <1>1, <1>2, <1>3, CountersStay DEF TypeOK
    <2> QED BY <2>1, <2>2, <2>3, <2>4, <2>5 DEF TypeOK
  <1>5. OpenInv'
    <2>1. index < n' - 1
      BY <1>1, <1>2, <1>3 DEF TypeOK
    <2> QED BY <1>2, <1>3, <2>1 DEF OpenInv
  <1>6. NumberedInv' /\ NamedInv' /\ VerifiedOnSuccess' /\ DownloadsKept'
    <2>1. NumberedInv'
      BY <1>1, <1>2 DEF NumberedInv, Writing, FileOf
    <2>2. NamedInv' /\ VerifiedOnSuccess' /\ DownloadsKept'
      BY <1>1, <1>2 DEF NamedInv, VerifiedOnSuccess, DownloadsKept
    <2> QED BY <2>1, <2>2
  <1> QED BY <1>4, <1>5, <1>6 DEF IInv

LEMMA OpenStdoutStep == IInv /\ OpenStdout => IInv'
  <1> SUFFICES ASSUME IInv, OpenStdout PROVE IInv'
    OBVIOUS
  <1>1. /\ TypeOK /\ OpenInv /\ NumberedInv /\ NamedInv /\ VerifiedOnSuccess /\ DownloadsKept
    BY DEF IInv
  <1>2. /\ pc = "open" /\ opts.downloader = "stdout" /\ pc' = "hash"
        /\ opts' = opts /\ n' = n /\ index' = index /\ path' = path /\ name' = name
        /\ files' = files /\ genuine' = genuine /\ done' = done /\ refused' = refused
    BY DEF OpenStdout, Goto
  <1>3. TypeOK' /\ OpenInv'
    BY <1>1, <1>2 DEF TypeOK, Contents, OpenInv
  <1>4. NumberedInv' /\ NamedInv'
    BY <1>2 DEF NumberedInv, NamedInv
  <1>5. VerifiedOnSuccess' /\ DownloadsKept'
    BY <1>1, <1>2 DEF VerifiedOnSuccess, DownloadsKept
  <1> QED BY <1>3, <1>4, <1>5 DEF IInv

LEMMA OpenFileStep == IInv /\ OpenFile => IInv'
  <1> SUFFICES ASSUME IInv, OpenFile PROVE IInv'
    OBVIOUS
  <1> DEFINE file == FileName(path, NextIndex)
  <1>1. /\ TypeOK /\ OpenInv /\ NumberedInv /\ NamedInv /\ VerifiedOnSuccess /\ DownloadsKept
    BY DEF IInv
  <1>2. /\ pc = "open" /\ opts.downloader # "stdout" /\ index' = NextIndex
        /\ opts' = opts /\ n' = n /\ path' = path /\ genuine' = genuine
        /\ done' = done /\ refused' = refused
        /\ \/ pc' = "idle" /\ name' = name /\ files' = files
           \/ /\ pc' = "hash" /\ file # <<>> /\ Last(file) # Empty
              /\ name' = file /\ files' = Holding(file, Content(FALSE, "none"))
    BY DEF OpenFile, Goto, Fail
  <1>3. /\ n \in 1..MaxResponses /\ index \in -1..n - 2 /\ path \in Paths
        /\ index' \in {index, index + 1} /\ MaxResponses \in Nat
        /\ opts.downloader = "file" => index' = index + 1
    BY <1>1, <1>2, BoundAssumption DEF TypeOK, OpenInv, NextIndex
  <1>4. index' \in -1..n - 1
    BY <1>3
  <1>5. Content(FALSE, "none") \in Contents
    BY <1>3 DEF Content, Contents
  <1>6. /\ opts' \in Options
        /\ pc' \in {"idle", "open", "hash", "headers", "body", "close", "panicked"}
        /\ n' \in 0..MaxResponses /\ index' \in -1..n' - 1
        /\ path' \in Paths \cup {<<>>}
        /\ genuine' \subseteq 1..n' /\ refused' \subseteq 1..n'
    BY <1>1, <1>2, <1>4 DEF TypeOK
  <1>7. VerifiedOnSuccess'
    BY <1>1, <1>2 DEF VerifiedOnSuccess
  <1>8. Contents' = Contents
    BY <1>2 DEF Contents
  <1>9. \A i \in 0..index : opts.downloader = "file" => FileOf(index') # FileOf(i) /\ i < index'
    <2>1. \A i \in 0..index : i \in 0..MaxResponses /\ i < index + 1
      BY <1>3
    <2>2. 0 <= index => index + 1 \in 0..MaxResponses
      BY <1>3
    <2>3. \A i \in 0..index : index + 1 \in 0..MaxResponses
      BY <1>3, <2>2
    <2> QED BY <1>3, <2>1, <2>3, FileOfInjective
  <1>10. \A i \in 0..index : i \in 0..index'
    BY <1>3
  <1>a. CASE pc' = "idle" /\ name' = name /\ files' = files
    <2>1. /\ \A f \in DOMAIN files' : f # <<>> /\ files'[f] \in Contents'
          /\ \A d \in done' : d.response \in 1..n' /\ d.file \in DOMAIN files' \cup {<<>>}
      BY <1>1, <1>2, <1>8, <1>a DEF TypeOK
    <2>2. OpenInv'
      BY <1>1, <1>a DEF OpenInv
    <2>3. NumberedInv'
      BY <1>1, <1>2, <1>10, <1>a DEF NumberedInv, Writing, FileOf
    <2>4. NamedInv' /\ DownloadsKept'
      BY <1>1, <1>2, <1>a DEF NamedInv, DownloadsKept
    <2> QED BY <1>6, <1>7, <2>1, <2>2, <2>3, <2>4 DEF IInv, TypeOK
  <1>b. CASE /\ pc' = "hash" /\ file # <<>> /\ Last(file) # Empty
             /\ name' = file /\ files' = Holding(file, Content(FALSE, "none"))
    <2>1. /\ DOMAIN files' = DOMAIN files \cup {file}
          /\ files'[file] = Content(FALSE, "none")
      BY <1>b, HoldingFile, Zenon
    <2>2. \A f \in DOMAIN files : f # file => files'[f] = files[f]
      BY <1>b DEF Holding
    <2>3. \A f \in DOMAIN files' : f # <<>> /\ files'[f] \in Contents'
      <3> SUFFICES ASSUME NEW f \in DOMAIN files' PROVE f # <<>> /\ files'[f] \in Contents
        BY <1>8
      <3>1. CASE f = file
        BY <1>5, <1>b, <2>1, <3>1, Zenon
      <3>2. CASE f # file
        <4>1. f \in DOMAIN files
          BY <2>1, <3>2, Zenon
        <4> QED BY <1>1, <2>2, <3>2, <4>1 DEF TypeOK
      <3> QED BY <3>1, <3>2
    <2>4. \A d \in done' : d.response \in 1..n' /\ d.file \in DOMAIN files' \cup {<<>>}
      BY <1>1, <1>2, <2>1 DEF TypeOK
    <2>5. OpenInv'
      BY <1>2, <1>3, <1>b, <2>1 DEF OpenInv
    <2>6. opts.downloader = "file" =>
             /\ index' >= 0 /\ name' = FileOf(index')
             /\ \A d \in done : \E i \in 0..index : d.file = FileOf(i)
      <3> SUFFICES ASSUME opts.downloader = "file"
                   PROVE  /\ index' >= 0 /\ name' = FileOf(index')
                          /\ \A d \in done : \E i \in 0..index : d.file = FileOf(i)
        OBVIOUS
      <3>1. index' >= 0
        BY <1>3
      <3>2. name' = FileOf(index')
        BY <1>2, <1>b DEF FileOf, FileName
      <3> QED BY <1>1, <3>1, <3>2 DEF NumberedInv
    <2>7. NumberedInv'
      <3>1. FileOf(index)' = FileOf(index') /\ \A i : FileOf(i)' = FileOf(i)
        BY DEF FileOf
      <3> SUFFICES ASSUME opts.downloader = "file"
                   PROVE  /\ index' >= 0 /\ name' = FileOf(index')
                          /\ \A d \in done : \E i \in 0..index' : d.file = FileOf(i) /\ i < index'
        BY <1>2, <1>b, <3>1 DEF NumberedInv
      <3>2. \A d \in done : \E i \in 0..index : d.file = FileOf(i)
        BY <2>6
      <3> QED BY <1>9, <1>10, <2>6, <3>2, Zenon
    <2>8. NamedInv'
      <3>1. FileName(path, index)' = file
        BY <1>2, SameOptions
      <3> QED BY <1>b, <3>1 DEF NamedInv
    <2>9. DownloadsKept'
      <3> SUFFICES ASSUME opts.downloader = "file", NEW d \in done
                   PROVE  files'[d.file] = [response |-> d.response, headers |-> opts.headers,
                                            part |-> "whole"]
        BY <1>2 DEF DownloadsKept
      <3>1. PICK i \in 0..index : d.file = FileOf(i)
        BY <2>6
      <3>2. d.file # file /\ d.file # <<>>
        BY <1>9, <1>b, <2>6, <3>1, FileOfIsFile
      <3>3. d.file \in DOMAIN files
        BY <1>1, <3>2 DEF TypeOK
      <3> QED BY <1>1, <2>2, <3>2, <3>3 DEF DownloadsKept
    <2> QED BY <1>6, <1>7, <2>3, <2>4, <2>5, <2>7, <2>8, <2>9 DEF IInv, TypeOK
  <1> QED BY <1>2, <1>a, <1>b

LEMMA StartHashStep == IInv /\ StartHash => IInv'
  <1> SUFFICES ASSUME IInv, StartHash PROVE IInv'
    OBVIOUS
  <1>1. /\ TypeOK /\ OpenInv /\ NumberedInv /\ NamedInv /\ VerifiedOnSuccess /\ DownloadsKept
    BY DEF IInv
  <1>2. /\ pc = "hash" /\ pc' \in {"idle", "headers"}
        /\ opts' = opts /\ n' = n /\ index' = index /\ path' = path /\ name' = name
        /\ files' = files /\ genuine' = genuine /\ done' = done /\ refused' = refused
    BY DEF StartHash, Fail, Goto
  <1>3. TypeOK' /\ OpenInv'
    BY <1>1, <1>2 DEF TypeOK, Contents, OpenInv
  <1>4. NumberedInv' /\ NamedInv'
    BY <1>1, <1>2 DEF NumberedInv, Writing, FileOf, NamedInv
  <1>5. VerifiedOnSuccess' /\ DownloadsKept'
    BY <1>1, <1>2 DEF VerifiedOnSuccess, DownloadsKept
  <1> QED BY <1>3, <1>4, <1>5 DEF IInv

\* Of the downloads that are done no file is the one that is written.
LEMMA OthersKept ==
  ASSUME TypeOK, NumberedInv, DownloadsKept, pc \in Writing,
         opts' = opts, done' = done,
         \A f \in DOMAIN files : f # name => files'[f] = files[f]
  PROVE  DownloadsKept'
  <1> SUFFICES ASSUME opts.downloader = "file", NEW d \in done
               PROVE  files'[d.file] = [response |-> d.response, headers |-> opts.headers,
                                        part |-> "whole"]
    BY DEF DownloadsKept
  <1>1. PICK i \in 0..index : d.file = FileOf(i) /\ i < index
    BY DEF NumberedInv
  <1>2. name = FileOf(index) /\ index >= 0
    BY DEF NumberedInv
  <1>3. i \in 0..MaxResponses /\ index \in 0..MaxResponses /\ i # index
    BY <1>1, <1>2, BoundAssumption DEF TypeOK
  <1>4. d.file # name /\ d.file # <<>>
    BY <1>1, <1>2, <1>3, FileOfInjective, FileOfIsFile
  <1>5. d.file \in DOMAIN files
    BY <1>4 DEF TypeOK
  <1> QED BY <1>4, <1>5 DEF DownloadsKept

LEMMA WriteHeadersStep == IInv /\ WriteHeaders => IInv'
  <1> SUFFICES ASSUME IInv, WriteHeaders PROVE IInv'
    OBVIOUS
  <1>1. /\ TypeOK /\ OpenInv /\ NumberedInv /\ NamedInv /\ VerifiedOnSuccess /\ DownloadsKept
    BY DEF IInv
  <1>2. /\ pc = "headers" /\ pc' \in {"idle", "body"}
        /\ opts' = opts /\ n' = n /\ index' = index /\ path' = path /\ name' = name
        /\ genuine' = genuine /\ done' = done /\ refused' = refused
        /\ Put(TRUE, "none") \/ files' = files
    BY DEF WriteHeaders, Fail, Goto
  <1>3. /\ DOMAIN files' = DOMAIN files
        /\ \A f \in DOMAIN files : f # <<>> /\ files'[f] \in Contents
        /\ \A f \in DOMAIN files : f # name => files'[f] = files[f]
    <2>1. CASE Put(TRUE, "none")
      BY <1>1, <1>2, <2>1, PutFile, Zenon
    <2>2. CASE files' = files
      BY <1>1, <2>2 DEF TypeOK
    <2> QED BY <1>2, <2>1, <2>2
  <1>4. Contents' = Contents
    BY <1>2 DEF Contents
  <1>5. TypeOK' /\ OpenInv'
    BY <1>1, <1>2, <1>3, <1>4 DEF TypeOK, OpenInv
  <1>6. NumberedInv' /\ NamedInv'
    BY <1>1, <1>2 DEF NumberedInv, Writing, FileOf, NamedInv
  <1>7. VerifiedOnSuccess'
    BY <1>1, <1>2 DEF VerifiedOnSuccess
  <1>8. DownloadsKept'
    BY <1>1, <1>2, <1>3, OthersKept DEF Writing
  <1> QED BY <1>5, <1>6, <1>7, <1>8 DEF IInv

LEMMA WriteBodyStep == IInv /\ WriteBody => IInv'
  <1> SUFFICES ASSUME IInv, WriteBody PROVE IInv'
    OBVIOUS
  <1>1. /\ TypeOK /\ OpenInv /\ NumberedInv /\ NamedInv /\ VerifiedOnSuccess /\ DownloadsKept
    BY DEF IInv
  <1>2. /\ pc = "body"
        /\ opts' = opts /\ n' = n /\ index' = index /\ path' = path /\ name' = name
        /\ done' = done /\ refused' = refused
        /\ \/ Put(opts.headers, "whole") /\ genuine' \in {genuine, genuine \cup {n}} /\ pc' = "close"
           \/ Put(opts.headers, "some") /\ genuine' = genuine /\ pc' = "idle"
    BY DEF WriteBody, Fail, Goto
  <1>3. opts.headers \in BOOLEAN /\ n \in 1..n
    BY <1>1, <1>2, OptionsAssumption, BoundAssumption DEF TypeOK, OpenInv, IsOptions
  <1>4. /\ DOMAIN files' = DOMAIN files
        /\ \A f \in DOMAIN files : f # <<>> /\ files'[f] \in Contents
        /\ \A f \in DOMAIN files : f # name => files'[f] = files[f]
        /\ pc' = "close" /\ name # <<>> => files'[name] = Content(opts.headers, "whole")
    <2>1. CASE Put(opts.headers, "whole")
      BY <1>1, <1>2, <1>3, <2>1, PutFile
    <2>2. CASE Put(opts.headers, "some") /\ pc' = "idle"
      BY <1>1, <1>2, <1>3, <2>2, PutFile
    <2> QED BY <1>2, <2>1, <2>2
  <1>5. Contents' = Contents
    BY <1>2 DEF Contents
  <1>6. genuine \subseteq genuine' /\ genuine' \subseteq 1..n
    BY <1>1, <1>2, <1>3 DEF TypeOK
  <1>7. TypeOK' /\ OpenInv'
    BY <1>1, <1>2, <1>4, <1>5, <1>6 DEF TypeOK, OpenInv
  <1>8. NumberedInv'
    <2>1. opts.downloader = "file" => name # <<>>
      BY <1>1, <1>2, FileOfIsFile DEF NumberedInv, Writing
    <2>2. Content(opts.headers, "whole")' = Content(opts.headers, "whole")
      BY <1>2 DEF Content
    <2> QED BY <1>1, <1>2, <1>4, <2>1, <2>2 DEF NumberedInv, Writing, FileOf
  <1>9. NamedInv' /\ VerifiedOnSuccess'
    BY <1>1, <1>2, <1>6 DEF NamedInv, VerifiedOnSuccess
  <1>10. DownloadsKept'
    BY <1>1, <1>2, <1>4, OthersKept DEF Writing
  <1> QED BY <1>7, <1>8, <1>9, <1>10 DEF IInv

LEMMA CloseStep == IInv /\ Close => IInv'
  <1> SUFFICES ASSUME IInv, Close PROVE IInv'
    OBVIOUS
  <1> DEFINE d0 == [response |-> n, file |-> name]
  <1>1. /\ TypeOK /\ OpenInv /\ NumberedInv /\ NamedInv /\ VerifiedOnSuccess /\ DownloadsKept
    BY DEF IInv
  <1>2. /\ pc = "close" /\ pc' = "idle"
        /\ opts' = opts /\ n' = n /\ index' = index /\ path' = path /\ name' = name
        /\ files' = files /\ genuine' = genuine
        /\ done' = done \/ (done' = done \cup {d0} /\ (Actual.checks > 0 => DigestMatches))
        /\ refused' \in {refused, refused \cup {n}}
    BY Zenon DEF Close, Goto, Succeed
  <1>3. n \in 1..n /\ name \in DOMAIN files \cup {<<>>}
    BY <1>1, <1>2, BoundAssumption DEF OpenInv
  <1>4. TypeOK' /\ OpenInv'
    <2>1. \A d \in done' : d.response \in 1..n /\ d.file \in DOMAIN files \cup {<<>>}
      BY <1>1, <1>2, <1>3 DEF TypeOK
    <2>2. refused' \subseteq 1..n
      BY <1>1, <1>2, <1>3 DEF TypeOK
    <2> QED BY <1>1, <1>2, <2>1, <2>2 DEF TypeOK, Contents, OpenInv
  <1>5. NumberedInv'
    <2> SUFFICES ASSUME opts.downloader = "file", NEW d \in done'
                 PROVE  \E i \in 0..index : d.file = FileOf(i)
      BY <1>2 DEF NumberedInv, Writing, FileOf
    <2>1. CASE d \in done
      BY <1>1, <2>1 DEF NumberedInv
    <2>2. CASE d = d0
      <3>1. index >= 0 /\ name = FileOf(index) /\ index \in 0..index
        BY <1>1, <1>2 DEF NumberedInv, Writing, TypeOK
      <3> QED BY <2>2, <3>1
    <2> QED BY <1>2, <2>1, <2>2
  <1>6. NamedInv'
    BY <1>2 DEF NamedInv
  <1>7. VerifiedOnSuccess'
    <2> SUFFICES ASSUME "integrity" \in ToSet(opts.middleware), NEW d \in done'
                 PROVE  d.response \in genuine
      BY <1>2 DEF VerifiedOnSuccess
    <2>1. Actual.checks > 0
      BY <1>1, ActualMiddleware DEF TypeOK
    <2>2. CASE d \in done
      BY <1>1, <2>2 DEF VerifiedOnSuccess
    <2>3. CASE d \notin done
      BY <1>2, <2>1, <2>3 DEF DigestMatches
    <2> QED BY <2>2, <2>3
  <1>8. DownloadsKept'
    <2> SUFFICES ASSUME opts.downloader = "file", NEW d \in done'
                 PROVE  files[d.file] = [response |-> d.response, headers |-> opts.headers,
                                         part |-> "whole"]
      BY <1>2 DEF DownloadsKept
    <2>1. CASE d \in done
      BY <1>1, <2>1 DEF DownloadsKept
    <2>2. CASE d = d0
      BY <1>1, <1>2, <2>2 DEF NumberedInv, Content
    <2> QED BY <1>2, <2>1, <2>2
  <1> QED BY <1>4, <1>5, <1>6, <1>7, <1>8 DEF IInv

-----------------------------------------------------------------------------
\* Under Spec the inductive invariant holds in every state.
THEOREM Inductive == Spec => []IInv
  <1>1. IInv /\ [Next]_vars => IInv'
    BY ActualDownloaderStep, OpenStdoutStep, OpenFileStep, StartHashStep, WriteHeadersStep,
       WriteBodyStep, CloseStep, StutterStep DEF Next
  <1> QED BY InitIInv, <1>1, PTL DEF Spec

\* Every variable holds a value of its type.
THEOREM TypeCorrect == Spec => []TypeOK
  <1>1. IInv => TypeOK
    BY DEF IInv
  <1> QED BY Inductive, <1>1, PTL

\* However many times SetIntegrity is used, and in whatever order with
\* SetStripComponents, a download that succeeded has the expected digest.
THEOREM OnlyVerifiedSucceed == Spec => []VerifiedOnSuccess
  <1>1. IInv => VerifiedOnSuccess
    BY DEF IInv
  <1> QED BY Inductive, <1>1, PTL

\* No download touches the file of an earlier one that succeeded, for every
\* number of responses of which any may fail at any step: NewFileDownloader
\* numbers the files of successive downloads.
THEOREM NoneOverwritten == Spec => []DownloadsKept
  <1>1. IInv => DownloadsKept
    BY DEF IInv
  <1> QED BY Inductive, <1>1, PTL

\* For a path of any length, a count that is not negative strips so many
\* leading elements, as WithStripComponents documents, and a count of -2 or
\* less all but one less than that many.  Nothing is said of -1.
THEOREM LeadingStripped == Spec => []StripsLeading
  <1>1. IInv => StripsLeading
    <2> SUFFICES ASSUME IInv, pc = "hash", Actual.strip, opts.count # -1
                 PROVE  name = Join(SubSeq(path, Stripped(opts.count, Len(path) - 1) + 1, Len(path)))
      BY Zenon DEF StripsLeading, Stripped
    <2>1. opts \in Options /\ path \in Paths
      BY DEF IInv, TypeOK, OpenInv
    <2>2. opts.downloader = "requestPath" /\ opts.count \in Int
      BY <2>1, ActualMiddleware, OptionsAssumption DEF IsOptions
    <2>3. name = FileName(path, index) /\ name # <<>> /\ Last(name) # Empty
      BY <2>2 DEF IInv, NamedInv
    <2>4. name = Strip(path, opts.count)
      BY <2>2, <2>3 DEF FileName
    <2>5. opts.count = 0 => Last(path) # Empty
      <3>1. path \in Seq(Names) /\ path # <<>>
        BY <2>1, PathsAssumption
      <3>2. Last(Named(path)) = Last(path)
        BY <3>1, NamedIsJoined
      <3> QED BY <2>3, <2>4, <3>2 DEF Strip
    <2> QED BY <2>1, <2>2, <2>4, <2>5, StripIsLeading
  <1> QED BY Inductive, <1>1, PTL
=============================================================================
