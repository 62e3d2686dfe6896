------------------------- MODULE ModelContextProofs -------------------------
(***************************************************************************)
(* RequestAccepted and ContextReplays of ModelContext, for any number of   *)
(* messages, replies and turns, any compaction setting and any shapes of   *)
(* replies.                                                                *)
(*                                                                         *)
(* The context is what a loop over the whole log makes of it, and so are   *)
(* the blocks of a kind and the reconciled reply.  Each loop gets one      *)
(* lemma: one more element is one more turn of the loop.  With it a step   *)
(* that records an entry changes the rebuilt context as LoadEvent does,    *)
(* and the invariant compares that change with the brain's.                *)
(***************************************************************************)
EXTENDS ModelContext, FiniteSetTheorems, SequenceTheorems, WellFoundedInduction, TLAPS

-----------------------------------------------------------------------------
(* Induction on numbers, as a fact about sets of them.                     *)

LEMMA LeastNumber ==
  ASSUME NEW S, S \subseteq Nat, S # {}
  PROVE  \E n \in S : \A m \in S : ~(m < n)
<1> DEFINE R == OpToRel(<, Nat)
<1>1. IsWellFoundedOn(R, Nat)
  BY NatLessThanWellFounded, Zenon
<1> HIDE DEF R
<1>2. PICK n \in S : \A m \in S : ~(<<m, n>> \in R)
  BY <1>1, WFMin
<1>3. QED
  BY <1>2 DEF R, OpToRel

LEMMA NumbersByInduction ==
  ASSUME NEW S, 0 \in S, \A n \in Nat : n \in S => n + 1 \in S
  PROVE  Nat \subseteq S
<1> DEFINE T == Nat \ S
<1> SUFFICES ASSUME T # {} PROVE FALSE
  OBVIOUS
<1>1. PICK n \in T : \A m \in T : ~(m < n)
  <2> HIDE DEF T
  <2>1. T \subseteq Nat
    BY DEF T
  <2>2. QED
    BY <2>1, LeastNumber
<1>2. n # 0 /\ n \in Nat /\ n - 1 \in Nat
  OBVIOUS
<1>3. n - 1 \in S
  BY <1>1, <1>2
<1>4. QED
  BY <1>2, <1>3

LEMMA SequencesByInduction ==
  ASSUME NEW A, NEW S, <<>> \in S, \A s \in Seq(A), e \in A : s \in S => Append(s, e) \in S
  PROVE  Seq(A) \subseteq S
<1> DEFINE N == {n \in Nat : \A s \in Seq(A) : Len(s) = n => s \in S}
<1>1. 0 \in N
  BY EmptySeq
<1>2. ASSUME NEW n \in Nat, n \in N PROVE n + 1 \in N
  <2> SUFFICES ASSUME NEW s \in Seq(A), Len(s) = n + 1 PROVE s \in S
    OBVIOUS
  <2> DEFINE t == SubSeq(s, 1, n)
  <2>1. t \in Seq(A) /\ Len(t) = n /\ s[n + 1] \in A /\ s = Append(t, s[n + 1])
    OBVIOUS
  <2>2. t \in S
    BY <1>2, <2>1
  <2> HIDE DEF t
  <2>3. QED
    BY <2>1, <2>2
<1>3. Nat \subseteq N
  <2> HIDE DEF N
  <2>1. QED
    BY <1>1, <1>2, NumbersByInduction
<1>4. QED
  BY <1>3

-----------------------------------------------------------------------------
(* The blocks of some kinds.                                               *)
KindLoop(f, s, kinds, n) ==
  f = [i \in 0..n |-> IF i = 0 THEN <<>> ELSE Keep(f[i - 1], s[i], kinds)]

LEMMA KindLoopExists ==
  ASSUME NEW s, NEW kinds, NEW n \in Nat
  PROVE  \E f : KindLoop(f, s, kinds, n)
<1> DEFINE S == {m \in Nat : \E f : KindLoop(f, s, kinds, m)}
<1>1. 0 \in S
  <2>1. KindLoop([i \in 0..0 |-> <<>>], s, kinds, 0)
    BY DEF KindLoop
  <2>2. QED
    BY <2>1
<1>2. ASSUME NEW m \in Nat, m \in S PROVE m + 1 \in S
  <2>1. PICK f : KindLoop(f, s, kinds, m)
    BY <1>2
  <2> DEFINE g == [i \in 0..(m + 1) |-> IF i = m + 1 THEN Keep(f[m], s[m + 1], kinds) ELSE f[i]]
  <2>2. ASSUME NEW i \in 0..(m + 1)
        PROVE  g[i] = IF i = 0 THEN <<>> ELSE Keep(g[i - 1], s[i], kinds)
    BY <2>1 DEF KindLoop
  <2>3. KindLoop(g, s, kinds, m + 1)
    BY <2>2 DEF KindLoop
  <2>4. QED
    BY <2>3
<1>3. Nat \subseteq S
  <2> HIDE DEF S
  <2>1. QED
    BY <1>1, <1>2, NumbersByInduction
<1>4. QED
  BY <1>3

LEMMA KindLoopPrefix ==
  ASSUME NEW s, NEW t, NEW kinds, NEW n \in Nat, NEW m \in Nat, n <= m, \A i \in 1..n : s[i] = t[i],
         NEW f, KindLoop(f, s, kinds, n), NEW g, KindLoop(g, t, kinds, m)
  PROVE  f[n] = g[n]
<1> DEFINE S == {i \in Nat : i <= n => f[i] = g[i]}
<1>1. 0 \in S
  BY DEF KindLoop
<1>2. ASSUME NEW i \in Nat, i \in S PROVE i + 1 \in S
  BY <1>2 DEF KindLoop
<1>3. Nat \subseteq S
  <2> HIDE DEF S
  <2>1. QED
    BY <1>1, <1>2, NumbersByInduction
<1>4. QED
  BY <1>3

LEMMA KindUnrolled ==
  ASSUME NEW s, NEW kinds, Len(s) \in Nat
  PROVE  \E f : KindLoop(f, s, kinds, Len(s)) /\ OfKind(s, kinds) = f[Len(s)]
<1> DEFINE f == CHOOSE f : KindLoop(f, s, kinds, Len(s))
<1>1. KindLoop(f, s, kinds, Len(s))
  BY KindLoopExists
<1>2. OfKind(s, kinds) = f[Len(s)]
  BY DEF OfKind, KindLoop
<1>3. QED
  BY <1>1, <1>2

LEMMA KindNothing == \A kinds : OfKind(<<>>, kinds) = <<>>
<1> SUFFICES ASSUME NEW kinds PROVE OfKind(<<>>, kinds) = <<>>
  OBVIOUS
<1>1. Len(<<>>) = 0
  OBVIOUS
<1>2. PICK f : KindLoop(f, <<>>, kinds, 0) /\ OfKind(<<>>, kinds) = f[0]
  BY <1>1, KindUnrolled
<1>3. QED
  BY <1>2 DEF KindLoop

LEMMA KindOneMore ==
  ASSUME NEW A, NEW s \in Seq(A), NEW e \in A, NEW kinds
  PROVE  OfKind(Append(s, e), kinds) = Keep(OfKind(s, kinds), e, kinds)
<1> DEFINE n == Len(s)
           t == Append(s, e)
<1>1. n \in Nat /\ Len(t) = n + 1 /\ t[n + 1] = e /\ \A i \in 1..n : s[i] = t[i]
  OBVIOUS
<1> HIDE DEF t
<1>2. PICK f : KindLoop(f, s, kinds, n) /\ OfKind(s, kinds) = f[n]
  BY <1>1, KindUnrolled
<1>3. PICK g : KindLoop(g, t, kinds, n + 1) /\ OfKind(t, kinds) = g[n + 1]
  BY <1>1, KindUnrolled
<1>4. f[n] = g[n]
  <2> HIDE DEF n
  <2>1. QED
    BY <1>1, <1>2, <1>3, KindLoopPrefix
<1>5. g[n + 1] = Keep(g[n], t[n + 1], kinds)
  BY <1>1, <1>3 DEF KindLoop
<1>6. QED
  BY <1>1, <1>2, <1>3, <1>4, <1>5 DEF t

-----------------------------------------------------------------------------
(* The turns without what hooks told the model.                            *)
BareLoop(f, s, n) ==
  f = [i \in 0..n |-> IF i = 0 THEN <<>> ELSE AddBare(f[i - 1], s[i])]

LEMMA BareLoopExists ==
  ASSUME NEW s, NEW n \in Nat
  PROVE  \E f : BareLoop(f, s, n)
<1> DEFINE S == {m \in Nat : \E f : BareLoop(f, s, m)}
<1>1. 0 \in S
  <2>1. BareLoop([i \in 0..0 |-> <<>>], s, 0)
    BY DEF BareLoop
  <2>2. QED
    BY <2>1
<1>2. ASSUME NEW m \in Nat, m \in S PROVE m + 1 \in S
  <2>1. PICK f : BareLoop(f, s, m)
    BY <1>2
  <2> DEFINE g == [i \in 0..(m + 1) |-> IF i = m + 1 THEN AddBare(f[m], s[m + 1]) ELSE f[i]]
  <2>2. ASSUME NEW i \in 0..(m + 1)
        PROVE  g[i] = IF i = 0 THEN <<>> ELSE AddBare(g[i - 1], s[i])
    BY <2>1 DEF BareLoop
  <2>3. BareLoop(g, s, m + 1)
    BY <2>2 DEF BareLoop
  <2>4. QED
    BY <2>3
<1>3. Nat \subseteq S
  <2> HIDE DEF S
  <2>1. QED
    BY <1>1, <1>2, NumbersByInduction
<1>4. QED
  BY <1>3

LEMMA BareLoopPrefix ==
  ASSUME NEW s, NEW t, NEW n \in Nat, NEW m \in Nat, n <= m, \A i \in 1..n : s[i] = t[i],
         NEW f, BareLoop(f, s, n), NEW g, BareLoop(g, t, m)
  PROVE  f[n] = g[n]
<1> DEFINE S == {i \in Nat : i <= n => f[i] = g[i]}
<1>1. 0 \in S
  BY DEF BareLoop
<1>2. ASSUME NEW i \in Nat, i \in S PROVE i + 1 \in S
  BY <1>2 DEF BareLoop
<1>3. Nat \subseteq S
  <2> HIDE DEF S
  <2>1. QED
    BY <1>1, <1>2, NumbersByInduction
<1>4. QED
  BY <1>3

LEMMA BareUnrolled ==
  ASSUME NEW s, Len(s) \in Nat
  PROVE  \E f : BareLoop(f, s, Len(s)) /\ Bare(s) = f[Len(s)]
<1> DEFINE f == CHOOSE f : BareLoop(f, s, Len(s))
<1>1. BareLoop(f, s, Len(s))
  BY BareLoopExists
<1>2. Bare(s) = f[Len(s)]
  BY DEF Bare, BareLoop
<1>3. QED
  BY <1>1, <1>2

LEMMA BareNothing == Bare(<<>>) = <<>>
<1> SUFFICES Bare(<<>>) = <<>>
  OBVIOUS
<1>1. Len(<<>>) = 0
  OBVIOUS
<1>2. PICK f : BareLoop(f, <<>>, 0) /\ Bare(<<>>) = f[0]
  BY <1>1, BareUnrolled
<1>3. QED
  BY <1>2 DEF BareLoop

LEMMA BareOneMore ==
  ASSUME NEW A, NEW s \in Seq(A), NEW e \in A
  PROVE  Bare(Append(s, e)) = AddBare(Bare(s), e)
<1> DEFINE n == Len(s)
           t == Append(s, e)
<1>1. n \in Nat /\ Len(t) = n + 1 /\ t[n + 1] = e /\ \A i \in 1..n : s[i] = t[i]
  OBVIOUS
<1> HIDE DEF t
<1>2. PICK f : BareLoop(f, s, n) /\ Bare(s) = f[n]
  BY <1>1, BareUnrolled
<1>3. PICK g : BareLoop(g, t, n + 1) /\ Bare(t) = g[n + 1]
  BY <1>1, BareUnrolled
<1>4. f[n] = g[n]
  <2> HIDE DEF n
  <2>1. QED
    BY <1>1, <1>2, <1>3, BareLoopPrefix
<1>5. g[n + 1] = AddBare(g[n], t[n + 1])
  BY <1>1, <1>3 DEF BareLoop
<1>6. QED
  BY <1>1, <1>2, <1>3, <1>4, <1>5 DEF t

-----------------------------------------------------------------------------
(* The context that entries make.                                          *)
LoadLoop(f, s, cursor, n) ==
  f = [i \in 0..n |-> IF i = 0 THEN NoContext ELSE LoadEvent(f[i - 1], s[i], i > cursor)]

LEMMA LoadLoopExists ==
  ASSUME NEW s, NEW cursor, NEW n \in Nat
  PROVE  \E f : LoadLoop(f, s, cursor, n)
<1> DEFINE S == {m \in Nat : \E f : LoadLoop(f, s, cursor, m)}
<1>1. 0 \in S
  <2>1. LoadLoop([i \in 0..0 |-> NoContext], s, cursor, 0)
    BY DEF LoadLoop
  <2>2. QED
    BY <2>1
<1>2. ASSUME NEW m \in Nat, m \in S PROVE m + 1 \in S
  <2>1. PICK f : LoadLoop(f, s, cursor, m)
    BY <1>2
  <2> DEFINE g == [i \in 0..(m + 1) |-> IF i = m + 1 THEN LoadEvent(f[m], s[m + 1], m + 1 > cursor) ELSE f[i]]
  <2>2. ASSUME NEW i \in 0..(m + 1)
        PROVE  g[i] = IF i = 0 THEN NoContext ELSE LoadEvent(g[i - 1], s[i], i > cursor)
    BY <2>1 DEF LoadLoop
  <2>3. LoadLoop(g, s, cursor, m + 1)
    BY <2>2 DEF LoadLoop
  <2>4. QED
    BY <2>3
<1>3. Nat \subseteq S
  <2> HIDE DEF S
  <2>1. QED
    BY <1>1, <1>2, NumbersByInduction
<1>4. QED
  BY <1>3

LEMMA LoadLoopPrefix ==
  ASSUME NEW s, NEW t, NEW cursor, NEW n \in Nat, NEW m \in Nat, n <= m, \A i \in 1..n : s[i] = t[i],
         NEW f, LoadLoop(f, s, cursor, n), NEW g, LoadLoop(g, t, cursor, m)
  PROVE  f[n] = g[n]
<1> DEFINE S == {i \in Nat : i <= n => f[i] = g[i]}
<1>1. 0 \in S
  BY DEF LoadLoop
<1>2. ASSUME NEW i \in Nat, i \in S PROVE i + 1 \in S
  BY <1>2 DEF LoadLoop
<1>3. Nat \subseteq S
  <2> HIDE DEF S
  <2>1. QED
    BY <1>1, <1>2, NumbersByInduction
<1>4. QED
  BY <1>3

LEMMA LoadUnrolled ==
  ASSUME NEW s, NEW cursor, Len(s) \in Nat
  PROVE  \E f : LoadLoop(f, s, cursor, Len(s)) /\ LoadAfter(s, cursor) = f[Len(s)]
<1> DEFINE f == CHOOSE f : LoadLoop(f, s, cursor, Len(s))
<1>1. LoadLoop(f, s, cursor, Len(s))
  BY LoadLoopExists
<1>2. LoadAfter(s, cursor) = f[Len(s)]
  BY DEF LoadAfter, LoadLoop
<1>3. QED
  BY <1>1, <1>2

LEMMA LoadNothing == \A cursor : LoadAfter(<<>>, cursor) = NoContext
<1> SUFFICES ASSUME NEW cursor PROVE LoadAfter(<<>>, cursor) = NoContext
  OBVIOUS
<1>1. Len(<<>>) = 0
  OBVIOUS
<1>2. PICK f : LoadLoop(f, <<>>, cursor, 0) /\ LoadAfter(<<>>, cursor) = f[0]
  BY <1>1, LoadUnrolled
<1>3. QED
  BY <1>2 DEF LoadLoop

LEMMA LoadOneMore ==
  ASSUME NEW A, NEW s \in Seq(A), NEW e \in A, NEW cursor
  PROVE  LoadAfter(Append(s, e), cursor) = LoadEvent(LoadAfter(s, cursor), e, Len(s) + 1 > cursor)
<1> DEFINE n == Len(s)
           t == Append(s, e)
<1>1. n \in Nat /\ Len(t) = n + 1 /\ t[n + 1] = e /\ \A i \in 1..n : s[i] = t[i]
  OBVIOUS
<1> HIDE DEF t
<1>2. PICK f : LoadLoop(f, s, cursor, n) /\ LoadAfter(s, cursor) = f[n]
  BY <1>1, LoadUnrolled
<1>3. PICK g : LoadLoop(g, t, cursor, n + 1) /\ LoadAfter(t, cursor) = g[n + 1]
  BY <1>1, LoadUnrolled
<1>4. f[n] = g[n]
  <2> HIDE DEF n
  <2>1. QED
    BY <1>1, <1>2, <1>3, LoadLoopPrefix
<1>5. g[n + 1] = LoadEvent(g[n], t[n + 1], n + 1 > cursor)
  BY <1>1, <1>3 DEF LoadLoop
<1>6. QED
  BY <1>1, <1>2, <1>3, <1>4, <1>5 DEF t

-----------------------------------------------------------------------------
(* The places of a reply, filled.                                          *)
PlaceLoop(f, s, parts, n) ==
  f = [i \in 0..n |-> IF i = 0 THEN [placed |-> <<>>, left |-> parts] ELSE Place(f[i - 1], s[i])]

LEMMA PlaceLoopExists ==
  ASSUME NEW s, NEW parts, NEW n \in Nat
  PROVE  \E f : PlaceLoop(f, s, parts, n)
<1> DEFINE S == {m \in Nat : \E f : PlaceLoop(f, s, parts, m)}
<1>1. 0 \in S
  <2>1. PlaceLoop([i \in 0..0 |-> [placed |-> <<>>, left |-> parts]], s, parts, 0)
    BY DEF PlaceLoop
  <2>2. QED
    BY <2>1
<1>2. ASSUME NEW m \in Nat, m \in S PROVE m + 1 \in S
  <2>1. PICK f : PlaceLoop(f, s, parts, m)
    BY <1>2
  <2> DEFINE g == [i \in 0..(m + 1) |-> IF i = m + 1 THEN Place(f[m], s[m + 1]) ELSE f[i]]
  <2>2. ASSUME NEW i \in 0..(m + 1)
        PROVE  g[i] = IF i = 0 THEN [placed |-> <<>>, left |-> parts] ELSE Place(g[i - 1], s[i])
    BY <2>1 DEF PlaceLoop
  <2>3. PlaceLoop(g, s, parts, m + 1)
    BY <2>2 DEF PlaceLoop
  <2>4. QED
    BY <2>3
<1>3. Nat \subseteq S
  <2> HIDE DEF S
  <2>1. QED
    BY <1>1, <1>2, NumbersByInduction
<1>4. QED
  BY <1>3

LEMMA PlaceLoopPrefix ==
  ASSUME NEW s, NEW t, NEW parts, NEW n \in Nat, NEW m \in Nat, n <= m, \A i \in 1..n : s[i] = t[i],
         NEW f, PlaceLoop(f, s, parts, n), NEW g, PlaceLoop(g, t, parts, m)
  PROVE  f[n] = g[n]
<1> DEFINE S == {i \in Nat : i <= n => f[i] = g[i]}
<1>1. 0 \in S
  BY DEF PlaceLoop
<1>2. ASSUME NEW i \in Nat, i \in S PROVE i + 1 \in S
  BY <1>2 DEF PlaceLoop
<1>3. Nat \subseteq S
  <2> HIDE DEF S
  <2>1. QED
    BY <1>1, <1>2, NumbersByInduction
<1>4. QED
  BY <1>3

LEMMA PlaceUnrolled ==
  ASSUME NEW s, NEW parts, Len(s) \in Nat
  PROVE  \E f : PlaceLoop(f, s, parts, Len(s)) /\ AllPlaced(s, parts) = f[Len(s)]
<1> DEFINE f == CHOOSE f : PlaceLoop(f, s, parts, Len(s))
<1>1. PlaceLoop(f, s, parts, Len(s))
  BY PlaceLoopExists
<1>2. AllPlaced(s, parts) = f[Len(s)]
  BY DEF AllPlaced, PlaceLoop
<1>3. QED
  BY <1>1, <1>2

LEMMA PlaceNothing == \A parts : AllPlaced(<<>>, parts) = [placed |-> <<>>, left |-> parts]
<1> SUFFICES ASSUME NEW parts PROVE AllPlaced(<<>>, parts) = [placed |-> <<>>, left |-> parts]
  OBVIOUS
<1>1. Len(<<>>) = 0
  OBVIOUS
<1>2. PICK f : PlaceLoop(f, <<>>, parts, 0) /\ AllPlaced(<<>>, parts) = f[0]
  BY <1>1, PlaceUnrolled
<1>3. QED
  BY <1>2 DEF PlaceLoop

LEMMA PlaceOneMore ==
  ASSUME NEW A, NEW s \in Seq(A), NEW e \in A, NEW parts
  PROVE  AllPlaced(Append(s, e), parts) = Place(AllPlaced(s, parts), e)
<1> DEFINE n == Len(s)
           t == Append(s, e)
<1>1. n \in Nat /\ Len(t) = n + 1 /\ t[n + 1] = e /\ \A i \in 1..n : s[i] = t[i]
  OBVIOUS
<1> HIDE DEF t
<1>2. PICK f : PlaceLoop(f, s, parts, n) /\ AllPlaced(s, parts) = f[n]
  BY <1>1, PlaceUnrolled
<1>3. PICK g : PlaceLoop(g, t, parts, n + 1) /\ AllPlaced(t, parts) = g[n + 1]
  BY <1>1, PlaceUnrolled
<1>4. f[n] = g[n]
  <2> HIDE DEF n
  <2>1. QED
    BY <1>1, <1>2, <1>3, PlaceLoopPrefix
<1>5. g[n + 1] = Place(g[n], t[n + 1])
  BY <1>1, <1>3 DEF PlaceLoop
<1>6. QED
  BY <1>1, <1>2, <1>3, <1>4, <1>5 DEF t

-----------------------------------------------------------------------------
(* What the blocks of some kinds are.                                      *)

LEMMA SmallerSeq ==
  ASSUME NEW A, NEW B \in SUBSET A
  PROVE  Seq(B) \subseteq Seq(A)
OBVIOUS

LEMMA KindBlocks ==
  ASSUME NEW A, NEW kinds, NEW s \in Seq(A)
  PROVE  OfKind(s, kinds) \in Seq({b \in A : b.kind \in kinds})
<1> DEFINE B == {b \in A : b.kind \in kinds}
           S == {t \in Seq(A) : OfKind(t, kinds) \in Seq(B)}
<1>1. <<>> \in S
  <2> HIDE DEF B
  <2>1. <<>> \in Seq(A) /\ <<>> \in Seq(B)
    OBVIOUS
  <2>2. QED
    BY <2>1, KindNothing
<1>2. ASSUME NEW t \in Seq(A), NEW e \in A, t \in S PROVE Append(t, e) \in S
  <2>1. OfKind(Append(t, e), kinds) = Keep(OfKind(t, kinds), e, kinds)
    BY KindOneMore
  <2>2. OfKind(t, kinds) \in Seq(B)
    BY <1>2
  <2> HIDE DEF B
  <2>3. Append(t, e) \in Seq(A) /\ \A u \in Seq(B) : Keep(u, e, kinds) \in Seq(B)
    BY DEF B, Keep
  <2>4. QED
    BY <2>1, <2>2, <2>3
<1>3. Seq(A) \subseteq S
  <2> HIDE DEF S
  <2>1. QED
    BY <1>1, <1>2, SequencesByInduction
<1>4. QED
  BY <1>3

LEMMA KindAll ==
  ASSUME NEW A, NEW kinds, \A b \in A : b.kind \in kinds, NEW s \in Seq(A)
  PROVE  OfKind(s, kinds) = s
<1> DEFINE S == {t \in Seq(A) : OfKind(t, kinds) = t}
<1>1. <<>> \in S
  BY KindNothing
<1>2. ASSUME NEW t \in Seq(A), NEW e \in A, t \in S PROVE Append(t, e) \in S
  <2>1. OfKind(Append(t, e), kinds) = Keep(OfKind(t, kinds), e, kinds)
    BY KindOneMore
  <2>2. QED
    BY <1>2, <2>1 DEF Keep
<1>3. Seq(A) \subseteq S
  <2> HIDE DEF S
  <2>1. QED
    BY <1>1, <1>2, SequencesByInduction
<1>4. QED
  BY <1>3

LEMMA KindNone ==
  ASSUME NEW A, NEW kinds, \A b \in A : b.kind \notin kinds, NEW s \in Seq(A)
  PROVE  OfKind(s, kinds) = <<>>
<1> DEFINE S == {t \in Seq(A) : OfKind(t, kinds) = <<>>}
<1>1. <<>> \in S
  BY KindNothing
<1>2. ASSUME NEW t \in Seq(A), NEW e \in A, t \in S PROVE Append(t, e) \in S
  <2>1. OfKind(Append(t, e), kinds) = Keep(OfKind(t, kinds), e, kinds)
    BY KindOneMore
  <2>2. QED
    BY <1>2, <2>1 DEF Keep
<1>3. Seq(A) \subseteq S
  <2> HIDE DEF S
  <2>1. QED
    BY <1>1, <1>2, SequencesByInduction
<1>4. QED
  BY <1>3

(* None is left out of them: if there is none, no block has such a kind.   *)
LEMMA KindEmpty ==
  ASSUME NEW A, NEW kinds, NEW s \in Seq(A), OfKind(s, kinds) = <<>>
  PROVE  s \in Seq({b \in A : b.kind \notin kinds})
<1> DEFINE B == {b \in A : b.kind \notin kinds}
           S == {t \in Seq(A) : OfKind(t, kinds) = <<>> => t \in Seq(B)}
<1>1. <<>> \in S
  OBVIOUS
<1>2. ASSUME NEW t \in Seq(A), NEW e \in A, t \in S PROVE Append(t, e) \in S
  <2>1. OfKind(Append(t, e), kinds) = Keep(OfKind(t, kinds), e, kinds)
    BY KindOneMore
  <2>2. OfKind(t, kinds) \in Seq({b \in A : b.kind \in kinds})
    BY KindBlocks
  <2>3. ASSUME OfKind(Append(t, e), kinds) = <<>> PROVE Append(t, e) \in Seq(B)
    <3>1. e.kind \notin kinds /\ OfKind(t, kinds) = <<>>
      BY <2>1, <2>2, <2>3 DEF Keep
    <3>2. t \in Seq(B) /\ e \in B
      BY <1>2, <3>1
    <3> HIDE DEF B
    <3>3. QED
      BY <3>2
  <2>4. QED
    BY <2>3
<1>3. Seq(A) \subseteq S
  <2> HIDE DEF S
  <2>1. QED
    BY <1>1, <1>2, SequencesByInduction
<1>4. QED
  BY <1>3

LEMMA KindConcat ==
  ASSUME NEW A, NEW kinds, NEW s \in Seq(A), NEW u \in Seq(A)
  PROVE  OfKind(s \o u, kinds) = OfKind(s, kinds) \o OfKind(u, kinds)
<1> DEFINE S == {t \in Seq(A) : OfKind(s \o t, kinds) = OfKind(s, kinds) \o OfKind(t, kinds)}
<1>0. OfKind(s, kinds) \in Seq({b \in A : b.kind \in kinds})
  BY KindBlocks
<1>1. <<>> \in S
  <2>1. s \o <<>> = s
    OBVIOUS
  <2>2. OfKind(s, kinds) \o <<>> = OfKind(s, kinds)
    BY <1>0
  <2>3. OfKind(s \o <<>>, kinds) = OfKind(s, kinds) \o OfKind(<<>>, kinds)
    BY <2>1, <2>2, KindNothing
  <2>4. QED
    BY <2>3
<1>2. ASSUME NEW t \in Seq(A), NEW e \in A, t \in S PROVE Append(t, e) \in S
  <2>1. OfKind(Append(t, e), kinds) = Keep(OfKind(t, kinds), e, kinds)
    BY KindOneMore
  <2>2. s \o Append(t, e) = Append(s \o t, e) /\ s \o t \in Seq(A)
    OBVIOUS
  <2>3. OfKind(Append(s \o t, e), kinds) = Keep(OfKind(s \o t, kinds), e, kinds)
    BY <2>2, KindOneMore
  <2>4. OfKind(t, kinds) \in Seq({b \in A : b.kind \in kinds})
    BY KindBlocks
  <2> DEFINE v == OfKind(s, kinds)
             w == OfKind(t, kinds)
             B == {b \in A : b.kind \in kinds}
  <2> HIDE DEF v, w, B
  <2>5. v \o Keep(w, e, kinds) = Keep(v \o w, e, kinds)
    <3>1. v \in Seq(B) /\ w \in Seq(B)
      BY <1>0, <2>4 DEF v, w, B
    <3>2. CASE e.kind \in kinds
      <4>1. e \in B
        BY <3>2 DEF B
      <4>2. v \o Append(w, e) = Append(v \o w, e)
        BY <3>1, <4>1
      <4>3. QED
        BY <3>2, <4>2 DEF Keep
    <3>3. CASE e.kind \notin kinds
      BY <3>3 DEF Keep
    <3>4. QED
      BY <3>2, <3>3
  <2>6. OfKind(s \o t, kinds) = v \o w
    BY <1>2 DEF v, w
  <2>7. OfKind(s \o Append(t, e), kinds) = v \o Keep(w, e, kinds)
    BY <2>2, <2>3, <2>5, <2>6
  <2>8. OfKind(s \o Append(t, e), kinds) = OfKind(s, kinds) \o OfKind(Append(t, e), kinds)
    BY <2>1, <2>7 DEF v, w
  <2>9. Append(t, e) \in Seq(A)
    OBVIOUS
  <2>10. QED
    BY <2>8, <2>9
<1>3. Seq(A) \subseteq S
  <2> HIDE DEF S
  <2>1. QED
    BY <1>1, <1>2, SequencesByInduction
<1>4. QED
  BY <1>3

LEMMA KindWithin ==
  ASSUME NEW A, NEW kinds, NEW some \in SUBSET kinds, NEW s \in Seq(A)
  PROVE  OfKind(OfKind(s, kinds), some) = OfKind(s, some)
<1> DEFINE S == {t \in Seq(A) : OfKind(OfKind(t, kinds), some) = OfKind(t, some)}
<1>1. <<>> \in S
  BY KindNothing
<1>2. ASSUME NEW t \in Seq(A), NEW e \in A, t \in S PROVE Append(t, e) \in S
  <2>1. /\ OfKind(Append(t, e), kinds) = Keep(OfKind(t, kinds), e, kinds)
        /\ OfKind(Append(t, e), some) = Keep(OfKind(t, some), e, some)
    BY KindOneMore
  <2>2. OfKind(t, kinds) \in Seq(A)
    BY KindBlocks, SmallerSeq
  <2> DEFINE u == OfKind(t, kinds)
  <2> HIDE DEF u
  <2>3. OfKind(Append(u, e), some) = Keep(OfKind(u, some), e, some)
    BY <2>2, KindOneMore DEF u
  <2>4. OfKind(u, some) = OfKind(t, some)
    BY <1>2 DEF u
  <2>5. OfKind(OfKind(Append(t, e), kinds), some) = OfKind(Append(t, e), some)
    BY <2>1, <2>3, <2>4 DEF Keep, u
  <2>6. Append(t, e) \in Seq(A)
    OBVIOUS
  <2>7. QED
    BY <2>5, <2>6
<1>3. Seq(A) \subseteq S
  <2> HIDE DEF S
  <2>1. QED
    BY <1>1, <1>2, SequencesByInduction
<1>4. QED
  BY <1>3

-----------------------------------------------------------------------------
(* What filling the places of a reply leaves and keeps.                    *)

LEMMA PlaceType ==
  ASSUME NEW A, NEW parts \in Seq(A), NEW s \in Seq(A)
  PROVE  AllPlaced(s, parts) \in [placed : Seq(A), left : Seq(A)]
<1> DEFINE S == {t \in Seq(A) : AllPlaced(t, parts) \in [placed : Seq(A), left : Seq(A)]}
<1>1. <<>> \in S
  <2>1. <<>> \in Seq(A) /\ [placed |-> <<>>, left |-> parts] \in [placed : Seq(A), left : Seq(A)]
    OBVIOUS
  <2>2. QED
    BY <2>1, PlaceNothing
<1>2. ASSUME NEW t \in Seq(A), NEW e \in A, t \in S PROVE Append(t, e) \in S
  <2>1. AllPlaced(Append(t, e), parts) = Place(AllPlaced(t, parts), e)
    BY PlaceOneMore
  <2>2. ASSUME NEW acc \in [placed : Seq(A), left : Seq(A)]
        PROVE  Place(acc, e) \in [placed : Seq(A), left : Seq(A)]
    <3> DEFINE placed == acc.placed
               left == acc.left
    <3>1. acc = [placed |-> placed, left |-> left] /\ placed \in Seq(A) /\ left \in Seq(A)
      OBVIOUS
    <3>2. \/ Place(acc, e) = acc
          \/ Place(acc, e) = [placed |-> Append(placed, e), left |-> left]
          \/ left # <<>> /\ Place(acc, e) = [placed |-> Append(placed, Head(left)), left |-> Tail(left)]
      BY DEF Place
    <3> HIDE DEF placed, left
    <3>3. Append(placed, e) \in Seq(A)
      BY <3>1
    <3>4. ASSUME left # <<>> PROVE Append(placed, Head(left)) \in Seq(A) /\ Tail(left) \in Seq(A)
      <4>1. Head(left) \in A /\ Tail(left) \in Seq(A)
        BY <3>1, <3>4, HeadTailProperties
      <4>2. QED
        BY <3>1, <4>1
    <3>5. CASE left # <<>> /\ Place(acc, e) = [placed |-> Append(placed, Head(left)), left |-> Tail(left)]
      <4>1. Append(placed, Head(left)) \in Seq(A) /\ Tail(left) \in Seq(A)
        BY <3>4, <3>5
      <4>2. [placed |-> Append(placed, Head(left)), left |-> Tail(left)] \in [placed : Seq(A), left : Seq(A)]
        BY <4>1
      <4>3. QED
        BY <3>5, <4>2
    <3>6. CASE Place(acc, e) = [placed |-> Append(placed, e), left |-> left]
      <4>1. [placed |-> Append(placed, e), left |-> left] \in [placed : Seq(A), left : Seq(A)]
        BY <3>1, <3>3
      <4>2. QED
        BY <3>6, <4>1
    <3>7. QED
      BY <3>2, <3>5, <3>6
  <2>3. QED
    BY <1>2, <2>1, <2>2
<1>3. Seq(A) \subseteq S
  <2> HIDE DEF S
  <2>1. QED
    BY <1>1, <1>2, SequencesByInduction
<1>4. QED
  BY <1>3

(* A place that is no item's moves a part, at most.                        *)
LEMMA PlaceMoves ==
  ASSUME NEW A, NEW acc \in [placed : Seq(A), left : Seq(A)], NEW e, e.kind # "item"
  PROVE  Place(acc, e).placed \o Place(acc, e).left = acc.placed \o acc.left
<1>1. CASE acc.left = <<>>
  BY <1>1 DEF Place
<1>2. CASE acc.left # <<>>
  <2> DEFINE placed == acc.placed
             left == acc.left
  <2>1. Place(acc, e).placed = Append(placed, Head(left)) /\ Place(acc, e).left = Tail(left)
    BY <1>2 DEF Place
  <2>2. placed \in Seq(A) /\ left \in Seq(A) /\ left # <<>>
    BY <1>2
  <2> HIDE DEF placed, left
  <2>3. Append(placed, Head(left)) \o Tail(left) = placed \o left
    BY <2>2
  <2>4. QED
    BY <2>1, <2>3 DEF placed, left
<1>3. QED
  BY <1>1, <1>2

(* The parts keep their order, between the opaque items.                   *)
LEMMA ReconciledKind ==
  ASSUME NEW A, NEW kinds, "item" \notin kinds, NEW parts \in Seq(A), NEW s \in Seq(A)
  PROVE  OfKind(Reconciled(s, parts), kinds) = OfKind(parts, kinds)
<1> DEFINE Whole(t) == AllPlaced(t, parts).placed \o AllPlaced(t, parts).left
           S == {t \in Seq(A) : OfKind(Whole(t), kinds) = OfKind(parts, kinds)}
<1>1. <<>> \in S
  <2>1. AllPlaced(<<>>, parts) = [placed |-> <<>>, left |-> parts]
    BY PlaceNothing, Zenon
  <2>2. Whole(<<>>) = parts
    <3>1. AllPlaced(<<>>, parts).placed = <<>> /\ AllPlaced(<<>>, parts).left = parts
      BY <2>1
    <3>2. <<>> \o parts = parts
      OBVIOUS
    <3>3. QED
      BY <3>1, <3>2, Zenon
  <2> HIDE DEF Whole
  <2>3. QED
    BY <2>2
<1>2. ASSUME NEW t \in Seq(A), NEW e \in A, t \in S PROVE Append(t, e) \in S
  <2> DEFINE acc == AllPlaced(t, parts)
             more == Place(acc, e)
  <2>1. AllPlaced(Append(t, e), parts) = more
    BY PlaceOneMore
  <2>2. acc \in [placed : Seq(A), left : Seq(A)]
    BY PlaceType
  <2> HIDE DEF acc
  <2>3. OfKind(more.placed \o more.left, kinds) = OfKind(acc.placed \o acc.left, kinds)
    <3>1. CASE e.kind = "item"
      <4>1. more.placed = Append(acc.placed, e) /\ more.left = acc.left
        BY <2>2, <3>1 DEF Place
      <4>2. OfKind(Append(acc.placed, e), kinds) = OfKind(acc.placed, kinds)
        BY <2>2, <3>1, KindOneMore DEF Keep
      <4> HIDE DEF more
      <4>3. more.placed \in Seq(A) /\ more.left \in Seq(A)
        BY <2>2, <4>1
      <4>4. /\ OfKind(more.placed \o more.left, kinds) = OfKind(more.placed, kinds) \o OfKind(more.left, kinds)
            /\ OfKind(acc.placed \o acc.left, kinds) = OfKind(acc.placed, kinds) \o OfKind(acc.left, kinds)
        BY <2>2, <4>3, KindConcat
      <4>5. QED
        BY <4>1, <4>2, <4>4
    <3>2. CASE e.kind # "item"
      BY <2>2, <3>2, PlaceMoves
    <3>3. QED
      BY <3>1, <3>2
  <2>4. QED
    BY <1>2, <2>1, <2>3 DEF acc
<1>3. Seq(A) \subseteq S
  <2> HIDE DEF S
  <2>1. QED
    BY <1>1, <1>2, SequencesByInduction
<1>4. QED
  BY <1>3 DEF Reconciled

-----------------------------------------------------------------------------
(* What the values are.                                                    *)
Blocks   == [kind : Kinds, of : Nat \X Nat]
Contents == Seq(Blocks)
Turns    == [role : {"user", "assistant"}, content : Contents]

Entry ==
       [type : {"input.accepted", "input.admitted"}, m : 1..Messages]
  \cup [type : {"input.prepared"}, m : 1..Messages, input : Turns]
  \cup [type : {"model.completed", "assistant.output.committed", "tool.outcome.recorded"},
        m : 1..Messages, content : Contents]
  \cup [type : {"context.compacted"}, context : Seq(Turns)]

LEMMA EntryFields ==
  ASSUME NEW e \in Entry
  PROVE  /\ e.type \in {"input.accepted", "input.admitted", "input.prepared", "model.completed",
                        "assistant.output.committed", "tool.outcome.recorded", "context.compacted"}
         /\ e.type # "context.compacted" => e.m \in 1..Messages
         /\ e.type = "context.compacted" => e.context \in Seq(Turns)
         /\ e.type = "input.prepared" => e.input \in Turns
         /\ e.type \in {"model.completed", "assistant.output.committed", "tool.outcome.recorded"}
              => e.content \in Contents
BY DEF Entry

(* Blanks after the last opaque item take no place of a part that the      *)
(* replay gives another one.                                               *)
LEMMA SameReconciled ==
  ASSUME NEW parts \in Contents, NEW reply \in Contents, BlanksLast(reply)
  PROVE  CommittedContent(parts, reply) = Reconciled(reply, parts)
<1> DEFINE W(t) == Without(t, "blank")
           Full(t) == \A i \in DOMAIN t : t[i].kind # "blank"
           S == {t \in Contents :
                   BlanksLast(t) => /\ Full(t) => AllPlaced(t, parts) = AllPlaced(W(t), parts)
                                    /\ Reconciled(t, parts) = Reconciled(W(t), parts)}
<1>1. <<>> \in S
  <2>1. W(<<>>) = <<>>
    BY KindNothing DEF Without
  <2>2. <<>> \in Contents
    BY DEF Contents
  <2> HIDE DEF W, Full
  <2>3. QED
    BY <2>1, <2>2
<1>2. ASSUME NEW t \in Contents, NEW e \in Blocks, t \in S PROVE Append(t, e) \in S
  <2> DEFINE u == Append(t, e)
  <2>1. u \in Contents /\ t \in Seq(Blocks) /\ u \in Seq(Blocks)
    BY DEF Contents
  <2>2. /\ Len(u) = Len(t) + 1 /\ Len(t) \in Nat /\ u[Len(t) + 1] = e
        /\ \A i \in DOMAIN t : i \in DOMAIN u /\ i < Len(t) + 1 /\ u[i] = t[i] /\ Len(t) + 1 \in DOMAIN u
    BY <2>1
  <2>3. AllPlaced(u, parts) = Place(AllPlaced(t, parts), e)
    BY <2>1, PlaceOneMore
  <2>4. W(u) = Keep(W(t), e, Kinds \ {"blank"}) /\ W(t) \in Seq(Blocks)
    <3>1. OfKind(t, Kinds \ {"blank"}) \in Seq({b \in Blocks : b.kind \in Kinds \ {"blank"}})
      BY <2>1, KindBlocks
    <3>2. OfKind(t, Kinds \ {"blank"}) \in Seq(Blocks)
      <4> DEFINE B == {b \in Blocks : b.kind \in Kinds \ {"blank"}}
      <4>1. B \in SUBSET Blocks
        OBVIOUS
      <4> HIDE DEF B
      <4>2. Seq(B) \subseteq Seq(Blocks)
        BY <4>1, SmallerSeq
      <4>3. QED
        BY <3>1, <4>2 DEF B
    <3>3. OfKind(u, Kinds \ {"blank"}) = Keep(OfKind(t, Kinds \ {"blank"}), e, Kinds \ {"blank"})
      BY <2>1, KindOneMore
    <3>4. QED
      BY <3>2, <3>3 DEF Without
  <2>5. e.kind \in Kinds
    BY DEF Blocks
  <2>6. /\ AllPlaced(t, parts) \in [placed : Seq(Blocks), left : Seq(Blocks)]
        /\ AllPlaced(W(t), parts) \in [placed : Seq(Blocks), left : Seq(Blocks)]
    BY <2>1, <2>4, PlaceType DEF Contents
  <2> HIDE DEF u, W
  <2> SUFFICES ASSUME BlanksLast(u)
               PROVE  /\ Full(u) => AllPlaced(u, parts) = AllPlaced(W(u), parts)
                      /\ Reconciled(u, parts) = Reconciled(W(u), parts)
    BY <2>1 DEF u
  <2>7. BlanksLast(t)
    BY <2>2 DEF BlanksLast
  <2>8. /\ Full(t) => AllPlaced(t, parts) = AllPlaced(W(t), parts)
        /\ Reconciled(t, parts) = Reconciled(W(t), parts)
    BY <1>2, <2>7
  <2>9. CASE e.kind = "blank"
    <3>1. W(u) = W(t)
      BY <2>4, <2>9 DEF Keep
    <3>2. Reconciled(u, parts) = Reconciled(t, parts)
      BY <2>3, <2>6, <2>9, PlaceMoves DEF Reconciled
    <3>3. ~Full(u)
      <4>1. Len(t) + 1 \in DOMAIN u /\ u[Len(t) + 1].kind = "blank"
        BY <2>1, <2>2, <2>9 DEF u
      <4>2. QED
        BY <4>1
    <3> HIDE DEF Full
    <3>4. QED
      BY <2>8, <3>1, <3>2, <3>3
  <2>10. CASE e.kind # "blank"
    <3>1. W(u) = Append(W(t), e)
      BY <2>4, <2>5, <2>10 DEF Keep
    <3>2. AllPlaced(W(u), parts) = Place(AllPlaced(W(t), parts), e)
      BY <2>4, <3>1, PlaceOneMore
    <3>3. Full(u) => Full(t)
      BY <2>2
    <3>4. CASE Full(t)
      <4> HIDE DEF Full
      <4>1. AllPlaced(u, parts) = AllPlaced(W(u), parts)
        BY <2>3, <2>8, <3>2, <3>4
      <4>2. QED
        BY <4>1 DEF Reconciled
    <3>5. CASE ~Full(t)
      <4>1. e.kind # "item"
        BY <2>2, <3>5 DEF BlanksLast
      <4> HIDE DEF Full
      <4>2. /\ Reconciled(u, parts) = Reconciled(t, parts)
            /\ Reconciled(W(u), parts) = Reconciled(W(t), parts)
        BY <2>3, <2>6, <3>2, <4>1, PlaceMoves DEF Reconciled
      <4>3. QED
        BY <2>8, <3>3, <3>5, <4>2
    <3>6. QED
      BY <3>4, <3>5
  <2>11. QED
    BY <2>9, <2>10
<1>3. Seq(Blocks) \subseteq S
  <2> HIDE DEF S
  <2>1. QED
    BY <1>1, <1>2, SequencesByInduction DEF Contents
<1>4. QED
  BY <1>3 DEF CommittedContent, Contents

-----------------------------------------------------------------------------
(* The cursor of the last compaction, and the context after it.            *)

Cursors(entries) == {i \in DOMAIN entries : entries[i].type = "context.compacted"}
Latest(places) == IF places = {} THEN 0 ELSE CHOOSE i \in places : \A j \in places : j <= i

LEMMA CursorIs == \A entries : CompactionCursor(entries) = Latest(Cursors(entries))
BY Zenon DEF CompactionCursor, Latest, Cursors

LEMMA CursorNothing == CompactionCursor(<<>>) = 0
BY DEF CompactionCursor

LEMMA CursorKept ==
  ASSUME NEW s \in Seq(Entry), NEW e \in Entry, e.type # "context.compacted"
  PROVE  CompactionCursor(Append(s, e)) = CompactionCursor(s)
<1> DEFINE t == Append(s, e)
<1>1. {i \in DOMAIN t : t[i].type = "context.compacted"} = {i \in DOMAIN s : s[i].type = "context.compacted"}
  <2>1. DOMAIN t = 1..(Len(s) + 1) /\ DOMAIN s = 1..Len(s) /\ Len(s) \in Nat
    OBVIOUS
  <2>2. t[Len(s) + 1] = e /\ \A i \in 1..Len(s) : t[i] = s[i]
    OBVIOUS
  <2> HIDE DEF t
  <2>3. QED
    BY <2>1, <2>2
<1>2. Cursors(t) = Cursors(s)
  BY <1>1 DEF Cursors
<1>3. QED
  BY <1>2, CursorIs

LEMMA CursorMoved ==
  ASSUME NEW s \in Seq(Entry), NEW e \in Entry, e.type = "context.compacted"
  PROVE  CompactionCursor(Append(s, e)) = Len(s) + 1
<1> DEFINE t == Append(s, e)
           cursors == {i \in DOMAIN t : t[i].type = "context.compacted"}
<1>1. DOMAIN t = 1..(Len(s) + 1) /\ Len(s) \in Nat /\ t[Len(s) + 1] = e
  OBVIOUS
<1> HIDE DEF t
<1>2. Len(s) + 1 \in cursors /\ \A i \in cursors : i \in Nat /\ i <= Len(s) + 1
  BY <1>1
<1>3. CompactionCursor(t) = IF cursors = {} THEN 0 ELSE CHOOSE i \in cursors : \A j \in cursors : j <= i
  BY DEF CompactionCursor
<1> HIDE DEF cursors
<1>4. cursors # {}
  BY <1>2
<1>5. \A i \in cursors : (\A j \in cursors : j <= i) => i = Len(s) + 1
  BY <1>1, <1>2
<1>6. (CHOOSE i \in cursors : \A j \in cursors : j <= i) = Len(s) + 1
  BY <1>2, <1>5
<1>7. QED
  BY <1>3, <1>4, <1>6 DEF t

LEMMA CursorInside ==
  ASSUME NEW s \in Seq(Entry)
  PROVE  CompactionCursor(s) \in 0..Len(s)
<1> DEFINE S == {t \in Seq(Entry) : CompactionCursor(t) \in 0..Len(t)}
<1>1. <<>> \in S
  BY CursorNothing
<1>2. ASSUME NEW t \in Seq(Entry), NEW e \in Entry, t \in S PROVE Append(t, e) \in S
  <2>1. Append(t, e) \in Seq(Entry) /\ Len(Append(t, e)) = Len(t) + 1 /\ Len(t) \in Nat
    OBVIOUS
  <2>2. CompactionCursor(Append(t, e)) \in {CompactionCursor(t), Len(t) + 1}
    BY CursorKept, CursorMoved
  <2>3. CompactionCursor(t) \in 0..Len(t)
    BY <1>2
  <2>4. QED
    BY <2>1, <2>2, <2>3
<1>3. Seq(Entry) \subseteq S
  <2> HIDE DEF S
  <2>1. QED
    BY <1>1, <1>2, SequencesByInduction
<1>4. QED
  BY <1>3

LEMMA CursorFound ==
  ASSUME NEW s \in Seq(Entry)
  PROVE  CompactionCursor(s) = 0 \/ CompactionCursor(s) \in Cursors(s)
<1> DEFINE S == {t \in Seq(Entry) : CompactionCursor(t) = 0 \/ CompactionCursor(t) \in Cursors(t)}
<1>1. <<>> \in S
  BY CursorNothing
<1>2. ASSUME NEW t \in Seq(Entry), NEW e \in Entry, t \in S PROVE Append(t, e) \in S
  <2> DEFINE u == Append(t, e)
  <2>1. u \in Seq(Entry) /\ DOMAIN u = 1..(Len(t) + 1) /\ Len(t) \in Nat /\ DOMAIN t = 1..Len(t)
    OBVIOUS
  <2>2. u[Len(t) + 1] = e /\ \A i \in 1..Len(t) : u[i] = t[i]
    OBVIOUS
  <2>3. CASE e.type = "context.compacted"
    <3>1. CompactionCursor(u) = Len(t) + 1
      BY <2>3, CursorMoved
    <3> HIDE DEF u
    <3>2. Len(t) + 1 \in Cursors(u)
      BY <2>1, <2>2, <2>3 DEF Cursors
    <3>3. QED
      BY <2>1, <3>1, <3>2 DEF u
  <2>4. CASE e.type # "context.compacted"
    <3>1. CompactionCursor(u) = CompactionCursor(t)
      BY <2>4, CursorKept
    <3> HIDE DEF u
    <3>2. Cursors(t) \subseteq Cursors(u)
      BY <2>1, <2>2 DEF Cursors
    <3>3. QED
      BY <1>2, <2>1, <3>1, <3>2 DEF u
  <2>5. QED
    BY <2>3, <2>4
<1>3. Seq(Entry) \subseteq S
  <2> HIDE DEF S
  <2>1. QED
    BY <1>1, <1>2, SequencesByInduction
<1>4. QED
  BY <1>3

LEMMA EntryAdds ==
  ASSUME NEW s \in Seq(Entry), NEW e \in Entry, e.type # "context.compacted"
  PROVE  /\ Loaded(Append(s, e)) = LoadEvent(Loaded(s), e, TRUE)
         /\ CompactedBefore(Append(s, e)) = CompactedBefore(s)
<1> DEFINE t == Append(s, e)
           c == CompactionCursor(s)
<1>1. CompactionCursor(t) = c
  BY CursorKept
<1>2. c \in 0..Len(s) /\ Len(s) \in Nat
  BY CursorInside
<1>3. LoadAfter(t, c) = LoadEvent(LoadAfter(s, c), e, Len(s) + 1 > c)
  BY LoadOneMore
<1>4. \A i \in 1..Len(s) : t[i] = s[i]
  OBVIOUS
<1> HIDE DEF t, c
<1>5. (Len(s) + 1 > c) = TRUE
  BY <1>2
<1>6. Loaded(t) = LoadEvent(Loaded(s), e, TRUE)
  BY <1>1, <1>3, <1>5 DEF Loaded, c
<1>7. CompactedBefore(t) = CompactedBefore(s)
  <2>1. c = 0 \/ t[c] = s[c]
    BY <1>2, <1>4
  <2>2. /\ CompactedBefore(t) = (IF c = 0 THEN <<>> ELSE t[c].context)
        /\ CompactedBefore(s) = (IF c = 0 THEN <<>> ELSE s[c].context)
    BY <1>1 DEF CompactedBefore, c
  <2>3. QED
    BY <2>1, <2>2
<1>8. QED
  BY <1>6, <1>7 DEF t

-----------------------------------------------------------------------------
(* What the entries give, whatever they are.                               *)
Readings == [ok : BOOLEAN, accepted : SUBSET (1..Messages), admitted : SUBSET (1..Messages),
             tail : Seq(Turns), index : [1..Messages -> Nat], models : [1..Messages -> Seq(Contents)]]

LEMMA ReadingFields ==
  ASSUME NEW r \in Readings
  PROVE  /\ r.ok \in BOOLEAN /\ r.accepted \in SUBSET (1..Messages) /\ r.admitted \in SUBSET (1..Messages)
         /\ r.tail \in Seq(Turns) /\ r.index \in [1..Messages -> Nat]
         /\ r.models \in [1..Messages -> Seq(Contents)]
BY DEF Readings

LEMMA NoReading == NoContext \in Readings
BY DEF NoContext, Readings

LEMMA InputTurnTyped == \A m \in 1..Messages : InputTurn(m) \in Turns
<1> SUFFICES ASSUME NEW m \in 1..Messages PROVE InputTurn(m) \in Turns
  OBVIOUS
<1>1. Block("text", m, 0) \in Blocks
  BY ContextAssumption DEF Block, Blocks, Kinds
<1>2. <<Block("text", m, 0)>> \in Contents
  BY <1>1 DEF Contents
<1>3. QED
  BY <1>2 DEF InputTurn, Turn, Turns

LEMMA KindContents ==
  ASSUME NEW content \in Contents, NEW kinds
  PROVE  OfKind(content, kinds) \in Contents
<1> DEFINE B == {b \in Blocks : b.kind \in kinds}
<1>1. OfKind(content, kinds) \in Seq(B)
  BY KindBlocks DEF Contents
<1>2. B \in SUBSET Blocks
  OBVIOUS
<1> HIDE DEF B
<1>3. QED
  BY <1>1, <1>2, SmallerSeq DEF Contents

LEMMA ReconciledTyped ==
  ASSUME NEW original \in Contents, NEW parts \in Contents
  PROVE  Reconciled(original, parts) \in Contents
<1>1. AllPlaced(original, parts) \in [placed : Seq(Blocks), left : Seq(Blocks)]
  BY PlaceType DEF Contents
<1>2. QED
  BY <1>1 DEF Reconciled, Contents

LEMMA CommittedTyped ==
  ASSUME NEW parts \in Contents, NEW model \in Contents
  PROVE  CommittedContent(parts, model) \in Contents
BY KindContents, ReconciledTyped DEF CommittedContent, Without

LEMMA SeqUpdated ==
  ASSUME NEW A, NEW s \in Seq(A), NEW k, NEW x, k \in DOMAIN s => x \in A
  PROVE  [s EXCEPT ![k] = x] \in Seq(A)
<1> DEFINE n == Len(s)
<1>1. n \in Nat /\ s \in [1..n -> A]
  BY LenProperties
<1> HIDE DEF n
<1>2. [s EXCEPT ![k] = x] \in [1..n -> A]
  BY <1>1
<1>3. QED
  BY <1>1, <1>2

LEMMA AdmittedTyped ==
  ASSUME NEW r \in Readings, NEW e \in Entry, NEW later \in BOOLEAN, e.m \in 1..Messages
  PROVE  LoadAdmitted(r, e, later) \in Readings
<1> DEFINE known == [r EXCEPT !.ok = @ /\ e.m \in r.accepted /\ e.m \notin r.admitted,
                              !.admitted = @ \cup {e.m}]
           tail == Append(known.tail, InputTurn(e.m))
           index == [known.index EXCEPT ![e.m] = Len(r.tail) + 1]
<1>1. known \in Readings
  BY DEF Readings
<1>2. tail \in Seq(Turns) /\ index \in [1..Messages -> Nat]
  BY <1>1, ReadingFields, InputTurnTyped
<1>3. LoadAdmitted(r, e, later) = IF ~later THEN known ELSE [known EXCEPT !.tail = tail, !.index = index]
  BY DEF LoadAdmitted
<1> HIDE DEF known, tail, index
<1>4. [known EXCEPT !.tail = tail, !.index = index] \in Readings
  BY <1>1, <1>2 DEF Readings
<1>5. QED
  BY <1>1, <1>3, <1>4

LEMMA PreparedTyped ==
  ASSUME NEW r \in Readings, NEW e \in Entry, e.m \in 1..Messages, e.input \in Turns
  PROVE  LoadPrepared(r, e) \in Readings
<1> DEFINE tail == [r.tail EXCEPT ![r.index[e.m]] = e.input]
<1>1. tail \in Seq(Turns)
  <2>1. r.tail \in Seq(Turns)
    BY ReadingFields
  <2>2. QED
    BY <2>1, SeqUpdated
<1>2. LoadPrepared(r, e) \in {[r EXCEPT !.ok = FALSE], [r EXCEPT !.tail = tail]}
  BY DEF LoadPrepared
<1> HIDE DEF tail
<1>3. [r EXCEPT !.ok = FALSE] \in Readings /\ [r EXCEPT !.tail = tail] \in Readings
  BY <1>1 DEF Readings
<1>4. QED
  BY <1>2, <1>3

LEMMA CompletedTyped ==
  ASSUME NEW r \in Readings, NEW e \in Entry, e.m \in 1..Messages, e.content \in Contents
  PROVE  [r EXCEPT !.models[e.m] = Append(@, e.content)] \in Readings
<1> DEFINE models == [r.models EXCEPT ![e.m] = Append(@, e.content)]
<1>1. models \in [1..Messages -> Seq(Contents)]
  <2>1. r.models \in [1..Messages -> Seq(Contents)]
    BY ReadingFields
  <2>2. r.models[e.m] \in Seq(Contents)
    BY <2>1
  <2> HIDE DEF models
  <2>3. Append(r.models[e.m], e.content) \in Seq(Contents)
    BY <2>2
  <2>4. QED
    BY <2>1, <2>3 DEF models
<1>2. [r EXCEPT !.models[e.m] = Append(@, e.content)] = [r EXCEPT !.models = models]
  BY DEF Readings
<1> HIDE DEF models
<1>3. [r EXCEPT !.models = models] \in Readings
  BY <1>1 DEF Readings
<1>4. QED
  BY <1>2, <1>3

LEMMA CommittedReadingTyped ==
  ASSUME NEW r \in Readings, NEW e \in Entry, e.m \in 1..Messages, e.content \in Contents
  PROVE  LoadCommitted(r, e) \in Readings
<1> DEFINE plain == Append(r.tail, Turn("assistant", e.content))
           whole == Append(r.tail, Turn("assistant", CommittedContent(e.content, Head(r.models[e.m]))))
           models == [r.models EXCEPT ![e.m] = Tail(@)]
<1>1. r.tail \in Seq(Turns) /\ r.models \in [1..Messages -> Seq(Contents)]
  BY ReadingFields
<1>2. plain \in Seq(Turns)
  BY <1>1 DEF Turn, Turns
<1>3. CASE r.models[e.m] = <<>>
  <2>1. LoadCommitted(r, e) = [r EXCEPT !.tail = plain]
    BY <1>3 DEF LoadCommitted
  <2> HIDE DEF plain
  <2>2. QED
    BY <1>2, <2>1 DEF Readings
<1>4. CASE r.models[e.m] # <<>>
  <2>1. LoadCommitted(r, e) = [r EXCEPT !.tail = whole, !.models = models]
    BY <1>4 DEF LoadCommitted
  <2>2. r.models[e.m] \in Seq(Contents)
    BY <1>1
  <2>3. Head(r.models[e.m]) \in Contents /\ Tail(r.models[e.m]) \in Seq(Contents)
    BY <1>4, <2>2, HeadTailProperties
  <2>4. CommittedContent(e.content, Head(r.models[e.m])) \in Contents
    BY <2>3, CommittedTyped
  <2>5. Turn("assistant", CommittedContent(e.content, Head(r.models[e.m]))) \in Turns
    BY <2>4 DEF Turn, Turns
  <2>6. whole \in Seq(Turns)
    BY <1>1, <2>5
  <2>7. models \in [1..Messages -> Seq(Contents)]
    BY <1>1, <2>3
  <2> HIDE DEF whole, models
  <2>8. QED
    BY <2>1, <2>6, <2>7 DEF Readings
<1>5. QED
  BY <1>3, <1>4

LEMMA OutcomeTyped ==
  ASSUME NEW r \in Readings, NEW e \in Entry, e.content \in Contents
  PROVE  LoadOutcome(r, e) \in Readings
<1> DEFINE apart == Append(r.tail, Turn("user", e.content))
           joined == [r.tail EXCEPT ![Len(r.tail)].content = @ \o e.content]
<1>1. r.tail \in Seq(Turns)
  BY ReadingFields
<1>2. apart \in Seq(Turns)
  BY <1>1 DEF Turn, Turns
<1>3. joined \in Seq(Turns)
  <2> DEFINE last == r.tail[Len(r.tail)]
             longer == [last EXCEPT !.content = @ \o e.content]
  <2>1. ASSUME last \in Turns PROVE longer \in Turns
    <3>1. last.content \o e.content \in Contents
      <4>1. last.content \in Contents
        BY <2>1 DEF Turns
      <4> HIDE DEF last
      <4>2. QED
        BY <4>1 DEF Contents
    <3>2. longer = [last EXCEPT !.content = last.content \o e.content]
      OBVIOUS
    <3> HIDE DEF last, longer
    <3>3. QED
      BY <2>1, <3>1, <3>2 DEF Turns
  <2>2. Len(r.tail) \in DOMAIN r.tail => last \in Turns
    BY <1>1
  <2>3. joined = [r.tail EXCEPT ![Len(r.tail)] = longer]
    OBVIOUS
  <2> HIDE DEF last, longer
  <2>4. QED
    BY <1>1, <2>1, <2>2, <2>3, SeqUpdated
<1>4. LoadOutcome(r, e) \in {[r EXCEPT !.tail = joined], [r EXCEPT !.tail = apart]}
  BY DEF LoadOutcome
<1> HIDE DEF apart, joined
<1>5. [r EXCEPT !.tail = joined] \in Readings /\ [r EXCEPT !.tail = apart] \in Readings
  BY <1>2, <1>3 DEF Readings
<1>6. QED
  BY <1>4, <1>5

LEMMA EventTyped ==
  ASSUME NEW r \in Readings, NEW e \in Entry, NEW later \in BOOLEAN
  PROVE  LoadEvent(r, e, later) \in Readings
<1>1. CASE e.type = "input.accepted"
  <2>1. e.m \in 1..Messages
    BY <1>1, EntryFields
  <2>2. [r EXCEPT !.accepted = @ \cup {e.m}] \in Readings
    BY <2>1 DEF Readings
  <2>3. LoadEvent(r, e, later) = [r EXCEPT !.accepted = @ \cup {e.m}]
    BY <1>1 DEF LoadEvent
  <2>4. QED
    BY <2>2, <2>3
<1>2. CASE e.type = "input.admitted"
  BY <1>2, EntryFields, AdmittedTyped DEF LoadEvent
<1>3. CASE e.type = "input.prepared"
  BY <1>3, EntryFields, PreparedTyped DEF LoadEvent
<1>4. CASE e.type = "model.completed"
  <2>1. [r EXCEPT !.models[e.m] = Append(@, e.content)] \in Readings
    BY <1>4, EntryFields, CompletedTyped
  <2>2. LoadEvent(r, e, later) \in {r, [r EXCEPT !.models[e.m] = Append(@, e.content)]}
    BY <1>4 DEF LoadEvent
  <2>3. QED
    BY <2>1, <2>2
<1>5. CASE e.type = "assistant.output.committed"
  BY <1>5, EntryFields, CommittedReadingTyped DEF LoadEvent
<1>6. CASE e.type = "tool.outcome.recorded"
  BY <1>6, EntryFields, OutcomeTyped DEF LoadEvent
<1>7. CASE e.type = "context.compacted"
  BY <1>7 DEF LoadEvent
<1>8. QED
  BY <1>1, <1>2, <1>3, <1>4, <1>5, <1>6, <1>7, EntryFields

LEMMA LoadTyped ==
  ASSUME NEW s \in Seq(Entry), NEW cursor \in Nat
  PROVE  LoadAfter(s, cursor) \in Readings
<1> DEFINE S == {t \in Seq(Entry) : LoadAfter(t, cursor) \in Readings}
<1>1. <<>> \in S
  BY LoadNothing, NoReading
<1>2. ASSUME NEW t \in Seq(Entry), NEW e \in Entry, t \in S PROVE Append(t, e) \in S
  <2>1. LoadAfter(Append(t, e), cursor) = LoadEvent(LoadAfter(t, cursor), e, Len(t) + 1 > cursor)
    BY LoadOneMore
  <2>2. LoadAfter(t, cursor) \in Readings /\ (Len(t) + 1 > cursor) \in BOOLEAN
    BY <1>2
  <2>3. LoadAfter(Append(t, e), cursor) \in Readings
    BY <2>1, <2>2, EventTyped
  <2>4. Append(t, e) \in Seq(Entry)
    OBVIOUS
  <2>5. QED
    BY <2>3, <2>4
<1>3. Seq(Entry) \subseteq S
  <2> HIDE DEF S
  <2>1. QED
    BY <1>1, <1>2, SequencesByInduction
<1>4. QED
  BY <1>3

LEMMA LoadedTyped ==
  ASSUME NEW s \in Seq(Entry)
  PROVE  /\ Loaded(s) \in Readings
         /\ CompactedBefore(s) \in Seq(Turns)
         /\ Context(s) \in Seq(Turns)
<1>1. CompactionCursor(s) \in 0..Len(s) /\ CompactionCursor(s) \in Nat
  BY CursorInside
<1>2. Loaded(s) \in Readings
  BY <1>1, LoadTyped DEF Loaded
<1>3. CompactedBefore(s) \in Seq(Turns)
  <2> DEFINE c == CompactionCursor(s)
  <2>1. CASE c = 0
    BY <2>1 DEF CompactedBefore
  <2>2. CASE c # 0
    <3>1. c \in Cursors(s)
      BY <2>2, CursorFound
    <3>2. s[c] \in Entry /\ s[c].type = "context.compacted"
      BY <3>1 DEF Cursors
    <3>3. s[c].context \in Seq(Turns)
      BY <3>2, EntryFields
    <3>4. QED
      BY <2>2, <3>3 DEF CompactedBefore
  <2>3. QED
    BY <2>1, <2>2
<1>4. QED
  BY <1>2, <1>3, ReadingFields DEF Context

-----------------------------------------------------------------------------
(* Which messages were admitted does not depend on the cursor; everything  *)
(* else an entry at or before the cursor leaves alone.                     *)
LEMMA EventAdmits ==
  ASSUME NEW r \in Readings, NEW e \in Entry, NEW later \in BOOLEAN
  PROVE  LoadEvent(r, e, later).admitted = IF e.type = "input.admitted" THEN r.admitted \cup {e.m} ELSE r.admitted
<1>1. CASE e.type = "input.accepted"
  BY <1>1 DEF LoadEvent, Readings
<1>2. CASE e.type = "input.admitted"
  BY <1>2 DEF LoadEvent, LoadAdmitted, Readings
<1>3. CASE e.type = "input.prepared"
  BY <1>3 DEF LoadEvent, LoadPrepared, Readings
<1>4. CASE e.type = "model.completed"
  BY <1>4 DEF LoadEvent, Readings
<1>5. CASE e.type = "assistant.output.committed"
  BY <1>5 DEF LoadEvent, LoadCommitted, Readings
<1>6. CASE e.type = "tool.outcome.recorded"
  BY <1>6 DEF LoadEvent, LoadOutcome, Readings
<1>7. CASE e.type = "context.compacted"
  BY <1>7 DEF LoadEvent
<1>8. QED
  BY <1>1, <1>2, <1>3, <1>4, <1>5, <1>6, <1>7, EntryFields

LEMMA AdmittedAlike ==
  ASSUME NEW s \in Seq(Entry), NEW c \in Nat, NEW d \in Nat
  PROVE  LoadAfter(s, c).admitted = LoadAfter(s, d).admitted
<1> DEFINE S == {t \in Seq(Entry) : LoadAfter(t, c).admitted = LoadAfter(t, d).admitted}
<1>1. <<>> \in S
  BY LoadNothing
<1>2. ASSUME NEW t \in Seq(Entry), NEW e \in Entry, t \in S PROVE Append(t, e) \in S
  <2>1. /\ LoadAfter(Append(t, e), c) = LoadEvent(LoadAfter(t, c), e, Len(t) + 1 > c)
        /\ LoadAfter(Append(t, e), d) = LoadEvent(LoadAfter(t, d), e, Len(t) + 1 > d)
    BY LoadOneMore
  <2>2. LoadAfter(t, c) \in Readings /\ LoadAfter(t, d) \in Readings
    BY LoadTyped
  <2>3. LoadAfter(t, c).admitted = LoadAfter(t, d).admitted
    BY <1>2
  <2>4. (Len(t) + 1 > c) \in BOOLEAN /\ (Len(t) + 1 > d) \in BOOLEAN
    OBVIOUS
  <2>5. LoadAfter(Append(t, e), c).admitted = LoadAfter(Append(t, e), d).admitted
    <3> DEFINE a == LoadAfter(t, c)
               b == LoadAfter(t, d)
               later == Len(t) + 1 > c
               also == Len(t) + 1 > d
    <3> HIDE DEF a, b, later, also
    <3>1. a \in Readings /\ b \in Readings /\ later \in BOOLEAN /\ also \in BOOLEAN /\ a.admitted = b.admitted
      BY <2>2, <2>3, <2>4 DEF a, b, later, also
    <3>2. /\ LoadEvent(a, e, later).admitted = IF e.type = "input.admitted" THEN a.admitted \cup {e.m} ELSE a.admitted
          /\ LoadEvent(b, e, also).admitted = IF e.type = "input.admitted" THEN b.admitted \cup {e.m} ELSE b.admitted
      <4>1. LoadEvent(a, e, later).admitted = IF e.type = "input.admitted" THEN a.admitted \cup {e.m} ELSE a.admitted
        BY <3>1, EventAdmits, Zenon
      <4>2. LoadEvent(b, e, also).admitted = IF e.type = "input.admitted" THEN b.admitted \cup {e.m} ELSE b.admitted
        BY <3>1, EventAdmits, Zenon
      <4>3. QED
        BY <4>1, <4>2
    <3>3. LoadEvent(a, e, later).admitted = LoadEvent(b, e, also).admitted
      BY <3>1, <3>2
    <3>4. QED
      BY <2>1, <3>3 DEF a, b, later, also
  <2>6. Append(t, e) \in Seq(Entry)
    OBVIOUS
  <2>7. QED
    BY <2>5, <2>6
<1>3. Seq(Entry) \subseteq S
  <2> HIDE DEF S
  <2>1. QED
    BY <1>1, <1>2, SequencesByInduction
<1>4. QED
  BY <1>3

NothingLater(r) ==
  /\ r.tail = <<>>
  /\ \A m \in 1..Messages : r.models[m] = <<>>

LEMMA EventBefore ==
  ASSUME NEW r \in Readings, NEW e \in Entry, NothingLater(r)
  PROVE  NothingLater(LoadEvent(r, e, FALSE))
<1>1. LoadEvent(r, e, FALSE).tail = r.tail /\ LoadEvent(r, e, FALSE).models = r.models
  <2>1. CASE e.type = "input.accepted"
    BY <2>1 DEF LoadEvent, Readings
  <2>2. CASE e.type = "input.admitted"
    BY <2>2 DEF LoadEvent, LoadAdmitted, Readings
  <2>3. CASE e.type \notin {"input.accepted", "input.admitted"}
    BY <2>3 DEF LoadEvent
  <2>4. QED
    BY <2>1, <2>2, <2>3
<1>2. QED
  BY <1>1 DEF NothingLater

LEMMA BeforeCursor ==
  ASSUME NEW s \in Seq(Entry), NEW c \in Nat, Len(s) <= c
  PROVE  NothingLater(LoadAfter(s, c))
<1> DEFINE S == {t \in Seq(Entry) : Len(t) <= c => NothingLater(LoadAfter(t, c))}
<1>1. <<>> \in S
  <2>1. NothingLater(NoContext)
    BY DEF NothingLater, NoContext
  <2>2. QED
    BY <2>1, LoadNothing
<1>2. ASSUME NEW t \in Seq(Entry), NEW e \in Entry, t \in S PROVE Append(t, e) \in S
  <2>1. LoadAfter(Append(t, e), c) = LoadEvent(LoadAfter(t, c), e, Len(t) + 1 > c)
    BY LoadOneMore
  <2>2. LoadAfter(t, c) \in Readings
    BY LoadTyped
  <2>3. Append(t, e) \in Seq(Entry) /\ Len(Append(t, e)) = Len(t) + 1 /\ Len(t) \in Nat
    OBVIOUS
  <2>4. ASSUME Len(t) + 1 <= c PROVE NothingLater(LoadAfter(Append(t, e), c))
    <3>1. (Len(t) + 1 > c) = FALSE /\ Len(t) <= c
      BY <2>3, <2>4
    <3>2. NothingLater(LoadAfter(t, c))
      BY <1>2, <3>1
    <3>3. LoadAfter(Append(t, e), c) = LoadEvent(LoadAfter(t, c), e, FALSE)
      BY <2>1, <3>1
    <3>4. QED
      BY <2>2, <3>2, <3>3, EventBefore
  <2>5. QED
    BY <2>3, <2>4
<1>3. Seq(Entry) \subseteq S
  <2> HIDE DEF S
  <2>1. QED
    BY <1>1, <1>2, SequencesByInduction
<1>4. QED
  BY <1>3

LEMMA AppendBehind ==
  ASSUME NEW A, NEW front \in Seq(A), NEW tail \in Seq(A), NEW x \in A
  PROVE  front \o Append(tail, x) = Append(front \o tail, x)
OBVIOUS

-----------------------------------------------------------------------------
(* What each entry does to the context of the conversation.                *)
Models(s)    == Loaded(s).models
AdmittedBy(s) == Loaded(s).admitted

LEMMA CompactedReads ==
  ASSUME NEW s \in Seq(Entry), NEW context \in Seq(Turns)
  PROVE  LET t == Append(s, Compacted(context))
         IN /\ Context(t) = context
            /\ AdmittedBy(t) = AdmittedBy(s)
            /\ \A m \in 1..Messages : Models(t)[m] = <<>>
<1> DEFINE e == Compacted(context)
           t == Append(s, e)
<1>1. e \in Entry /\ e.type = "context.compacted" /\ e.context = context
  BY DEF Compacted, Entry
<1>2. CompactionCursor(t) = Len(s) + 1
  BY <1>1, CursorMoved
<1>3. t \in Seq(Entry) /\ Len(t) = Len(s) + 1 /\ Len(s) \in Nat /\ t[Len(s) + 1] = e
  BY <1>1
<1>4. CompactionCursor(s) \in Nat
  BY CursorInside
<1>5. LoadAfter(t, Len(s) + 1) = LoadEvent(LoadAfter(s, Len(s) + 1), e, Len(s) + 1 > Len(s) + 1)
  BY <1>1, LoadOneMore
<1>6. LoadEvent(LoadAfter(s, Len(s) + 1), e, Len(s) + 1 > Len(s) + 1) = LoadAfter(s, Len(s) + 1)
  BY <1>1 DEF LoadEvent
<1> HIDE DEF t, e
<1>7. CompactedBefore(t) = context
  BY <1>1, <1>2, <1>3 DEF CompactedBefore
<1>8. Loaded(t) = LoadAfter(t, Len(s) + 1)
  BY <1>2 DEF Loaded
<1>9. NothingLater(Loaded(t))
  BY <1>3, <1>8, BeforeCursor
<1>10. Context(t) = context
  BY <1>7, <1>9 DEF Context, NothingLater
<1>11. AdmittedBy(t) = AdmittedBy(s)
  <2>1. LoadAfter(s, Len(s) + 1).admitted = LoadAfter(s, CompactionCursor(s)).admitted
    BY <1>3, <1>4, AdmittedAlike
  <2>2. QED
    BY <1>5, <1>6, <1>8, <2>1 DEF AdmittedBy, Loaded
<1>12. QED
  BY <1>9, <1>10, <1>11 DEF t, e, NothingLater, Models

LEMMA AcceptedReads ==
  ASSUME NEW s \in Seq(Entry), NEW m \in 1..Messages
  PROVE  LET t == Append(s, Accepted(m))
         IN /\ Context(t) = Context(s)
            /\ Loaded(t).tail = Loaded(s).tail /\ Loaded(t).index = Loaded(s).index
            /\ AdmittedBy(t) = AdmittedBy(s)
            /\ Models(t) = Models(s)
<1> DEFINE e == Accepted(m)
           t == Append(s, e)
<1>1. e \in Entry /\ e.type = "input.accepted" /\ e.m = m
  BY DEF Accepted, Entry
<1>2. Loaded(t) = LoadEvent(Loaded(s), e, TRUE) /\ CompactedBefore(t) = CompactedBefore(s)
  BY <1>1, EntryAdds
<1>3. Loaded(s) \in Readings
  BY LoadedTyped
<1> HIDE DEF t, e
<1>4. Loaded(t) = [Loaded(s) EXCEPT !.accepted = @ \cup {m}]
  BY <1>1, <1>2 DEF LoadEvent
<1>5. /\ Loaded(t).tail = Loaded(s).tail /\ Loaded(t).index = Loaded(s).index
      /\ Loaded(t).admitted = Loaded(s).admitted /\ Loaded(t).models = Loaded(s).models
  BY <1>3, <1>4 DEF Readings
<1>6. QED
  BY <1>2, <1>5 DEF t, e, Context, AdmittedBy, Models

LEMMA AdmittedReads ==
  ASSUME NEW s \in Seq(Entry), NEW m \in 1..Messages
  PROVE  LET t == Append(s, Admitted(m))
         IN /\ Context(t) = Append(Context(s), InputTurn(m))
            /\ Loaded(t).tail = Append(Loaded(s).tail, InputTurn(m))
            /\ Loaded(t).index[m] = Len(Loaded(s).tail) + 1
            /\ AdmittedBy(t) = AdmittedBy(s) \cup {m}
            /\ Models(t) = Models(s)
<1> DEFINE e == Admitted(m)
           t == Append(s, e)
<1>1. e \in Entry /\ e.type = "input.admitted" /\ e.m = m
  BY DEF Admitted, Entry
<1>2. Loaded(t) = LoadEvent(Loaded(s), e, TRUE) /\ CompactedBefore(t) = CompactedBefore(s)
  BY <1>1, EntryAdds
<1>3. Loaded(s) \in Readings /\ CompactedBefore(s) \in Seq(Turns)
  BY LoadedTyped
<1>4. Loaded(s).tail \in Seq(Turns) /\ InputTurn(m) \in Turns /\ Loaded(s).index \in [1..Messages -> Nat]
  BY <1>3, ReadingFields, InputTurnTyped
<1> HIDE DEF t, e
<1>5. Loaded(t) = LoadAdmitted(Loaded(s), e, TRUE)
  BY <1>1, <1>2 DEF LoadEvent
<1>6. /\ Loaded(t).tail = Append(Loaded(s).tail, InputTurn(m))
      /\ Loaded(t).index = [Loaded(s).index EXCEPT ![m] = Len(Loaded(s).tail) + 1]
      /\ Loaded(t).admitted = Loaded(s).admitted \cup {m}
      /\ Loaded(t).models = Loaded(s).models
  BY <1>1, <1>3, <1>5 DEF Readings, LoadAdmitted
<1>7. Context(t) = Append(Context(s), InputTurn(m))
  <2>1. CompactedBefore(s) \o Append(Loaded(s).tail, InputTurn(m)) = Append(CompactedBefore(s) \o Loaded(s).tail, InputTurn(m))
    BY <1>3, <1>4, AppendBehind
  <2>2. QED
    BY <1>2, <1>6, <2>1 DEF Context
<1>8. Loaded(t).index[m] = Len(Loaded(s).tail) + 1
  BY <1>4, <1>6
<1>9. QED
  BY <1>6, <1>7, <1>8 DEF t, e, AdmittedBy, Models

LEMMA LastReplaced ==
  ASSUME NEW A, NEW front \in Seq(A), NEW tail \in Seq(A), NEW base \in Seq(A), NEW old \in A, NEW new \in A,
         tail # <<>>, front \o tail = Append(base, old)
  PROVE  front \o [tail EXCEPT ![Len(tail)] = new] = Append(base, new)
<1> DEFINE other == [tail EXCEPT ![Len(tail)] = new]
<1>1. Len(tail) \in 1..Len(tail) /\ Len(tail) \in Nat /\ Len(front) \in Nat /\ Len(base) \in Nat
  OBVIOUS
<1>2. other \in Seq(A) /\ Len(other) = Len(tail) /\ \A j \in 1..Len(tail) : other[j] = IF j = Len(tail) THEN new ELSE tail[j]
  BY <1>1, ExceptSeq
<1> HIDE DEF other
<1>3. Len(front \o tail) = Len(front) + Len(tail) /\ Len(Append(base, old)) = Len(base) + 1
  OBVIOUS
<1>4. Len(front) + Len(tail) = Len(base) + 1
  BY <1>3
<1>5. /\ Len(front \o other) = Len(base) + 1 /\ Len(Append(base, new)) = Len(base) + 1
      /\ \A j \in 1..(Len(base) + 1) :
           /\ (front \o other)[j] = IF j <= Len(front) THEN front[j] ELSE other[j - Len(front)]
           /\ (front \o tail)[j] = IF j <= Len(front) THEN front[j] ELSE tail[j - Len(front)]
           /\ Append(base, new)[j] = IF j = Len(base) + 1 THEN new ELSE base[j]
           /\ Append(base, old)[j] = IF j = Len(base) + 1 THEN old ELSE base[j]
  <2>1. /\ Len(front \o other) = Len(front) + Len(tail)
        /\ \A j \in 1..(Len(front) + Len(tail)) :
             (front \o other)[j] = IF j <= Len(front) THEN front[j] ELSE other[j - Len(front)]
    <3>1. other \in Seq(A) /\ Len(other) = Len(tail)
      BY <1>2
    <3>2. /\ Len(front \o other) = Len(front) + Len(other)
          /\ \A j \in 1..(Len(front) + Len(other)) :
               (front \o other)[j] = IF j <= Len(front) THEN front[j] ELSE other[j - Len(front)]
      BY <3>1, ConcatProperties
    <3>3. QED
      BY <3>1, <3>2
  <2>2. \A j \in 1..(Len(front) + Len(tail)) :
             (front \o tail)[j] = IF j <= Len(front) THEN front[j] ELSE tail[j - Len(front)]
    BY ConcatProperties
  <2>3. /\ Len(Append(base, new)) = Len(base) + 1
        /\ \A j \in 1..(Len(base) + 1) :
             /\ Append(base, new)[j] = IF j = Len(base) + 1 THEN new ELSE base[j]
             /\ Append(base, old)[j] = IF j = Len(base) + 1 THEN old ELSE base[j]
    OBVIOUS
  <2>4. QED
    BY <1>4, <2>1, <2>2, <2>3
<1>6. ASSUME NEW j \in 1..(Len(base) + 1) PROVE (front \o other)[j] = Append(base, new)[j]
  <2>1. (front \o tail)[j] = Append(base, old)[j]
    OBVIOUS
  <2>2. j - Len(front) = Len(tail) <=> j = Len(base) + 1
    BY <1>1, <1>4
  <2>3. j > Len(front) => j - Len(front) \in 1..Len(tail)
    BY <1>1, <1>4
  <2>4. j = Len(base) + 1 => j > Len(front)
    BY <1>1, <1>4
  <2> DEFINE k == j - Len(front)
             left == (front \o other)[j]
             right == Append(base, new)[j]
  <2>5. /\ left = IF j <= Len(front) THEN front[j] ELSE other[k]
        /\ right = IF j = Len(base) + 1 THEN new ELSE base[j]
        /\ (IF j <= Len(front) THEN front[j] ELSE tail[k]) = IF j = Len(base) + 1 THEN old ELSE base[j]
    BY <1>5, <2>1
  <2>6. j > Len(front) => other[k] = IF k = Len(tail) THEN new ELSE tail[k]
    BY <1>2, <2>3
  <2>7. j \in Nat /\ Len(front) \in Nat
    BY <1>1
  <2>8. k = Len(tail) <=> j = Len(base) + 1
    BY <2>2
  <2> HIDE DEF k, left, right
  <2>9. left = right
    BY <2>4, <2>5, <2>6, <2>7, <2>8
  <2>10. QED
    BY <2>9 DEF left, right
<1>7. front \o other \in Seq(A) /\ Append(base, new) \in Seq(A) /\ Len(Append(base, new)) = Len(base) + 1
  BY <1>2
<1>8. front \o other = Append(base, new)
  BY <1>5, <1>6, <1>7, SeqEqual
<1>9. QED
  BY <1>8 DEF other

LEMMA PreparedReads ==
  ASSUME NEW s \in Seq(Entry), NEW m \in 1..Messages, NEW input \in Turns, NEW base \in Seq(Turns),
         Loaded(s).tail # <<>>, Loaded(s).index[m] = Len(Loaded(s).tail),
         Context(s) = Append(base, InputTurn(m))
  PROVE  LET t == Append(s, Prepared(m, input))
         IN /\ Context(t) = Append(base, input)
            /\ AdmittedBy(t) = AdmittedBy(s)
            /\ Models(t) = Models(s)
<1> DEFINE e == Prepared(m, input)
           t == Append(s, e)
           n == Len(Loaded(s).tail)
<1>1. e \in Entry /\ e.type = "input.prepared" /\ e.m = m /\ e.input = input
  BY DEF Prepared, Entry
<1>2. Loaded(t) = LoadEvent(Loaded(s), e, TRUE) /\ CompactedBefore(t) = CompactedBefore(s)
  BY <1>1, EntryAdds
<1>3. Loaded(s) \in Readings /\ CompactedBefore(s) \in Seq(Turns)
  BY LoadedTyped
<1>4. Loaded(s).tail \in Seq(Turns) /\ InputTurn(m) \in Turns
  BY <1>3, ReadingFields, InputTurnTyped
<1>5. n \in Nat /\ n # 0
  BY <1>4
<1> HIDE DEF t, e, n
<1>6. Loaded(t) = [Loaded(s) EXCEPT !.tail[n] = input]
  BY <1>1, <1>2, <1>5 DEF LoadEvent, LoadPrepared, n
<1>7. /\ Loaded(t).tail = [Loaded(s).tail EXCEPT ![n] = input]
      /\ Loaded(t).admitted = Loaded(s).admitted
      /\ Loaded(t).models = Loaded(s).models
  BY <1>3, <1>6 DEF Readings
<1>8. Context(t) = Append(base, input)
  <2> DEFINE front == CompactedBefore(s)
             tail == Loaded(s).tail
  <2>1. front \o tail = Append(base, InputTurn(m)) /\ Context(t) = front \o [tail EXCEPT ![n] = input]
    BY <1>2, <1>7 DEF Context
  <2>2. front \in Seq(Turns) /\ tail \in Seq(Turns) /\ n = Len(tail)
    BY <1>3, <1>4 DEF n
  <2> HIDE DEF front, tail
  <2>3. QED
    BY <1>4, <1>5, <2>1, <2>2, LastReplaced
<1>9. QED
  BY <1>7, <1>8 DEF t, e, AdmittedBy, Models

LEMMA CompletedReads ==
  ASSUME NEW s \in Seq(Entry), NEW m \in 1..Messages, NEW reply \in Contents
  PROVE  LET t == Append(s, Completed(m, reply))
         IN /\ Context(t) = Context(s)
            /\ AdmittedBy(t) = AdmittedBy(s)
            /\ Models(t) = [Models(s) EXCEPT ![m] = Append(@, reply)]
<1> DEFINE e == Completed(m, reply)
           t == Append(s, e)
<1>1. e \in Entry /\ e.type = "model.completed" /\ e.m = m /\ e.content = reply
  BY DEF Completed, Entry
<1>2. Loaded(t) = LoadEvent(Loaded(s), e, TRUE) /\ CompactedBefore(t) = CompactedBefore(s)
  BY <1>1, EntryAdds
<1>3. Loaded(s) \in Readings
  BY LoadedTyped
<1> HIDE DEF t, e
<1>4. Loaded(t) = [Loaded(s) EXCEPT !.models[m] = Append(@, reply)]
  BY <1>1, <1>2 DEF LoadEvent
<1>5. /\ Loaded(t).tail = Loaded(s).tail /\ Loaded(t).admitted = Loaded(s).admitted
      /\ Loaded(t).models = [Loaded(s).models EXCEPT ![m] = Append(@, reply)]
  BY <1>3, <1>4 DEF Readings
<1>6. QED
  BY <1>2, <1>5 DEF t, e, Context, AdmittedBy, Models

(* The content a committed message gets.                                   *)
Told(s, m, parts) ==
  IF Models(s)[m] = <<>> THEN parts ELSE CommittedContent(parts, Head(Models(s)[m]))

LEMMA CommittedReads ==
  ASSUME NEW s \in Seq(Entry), NEW m \in 1..Messages, NEW parts \in Contents, m \in AdmittedBy(s)
  PROVE  LET t == Append(s, Committed(m, parts))
         IN /\ Told(s, m, parts) \in Contents
            /\ Context(t) = Append(Context(s), Turn("assistant", Told(s, m, parts)))
            /\ AdmittedBy(t) = AdmittedBy(s)
            /\ Models(t) = IF Models(s)[m] = <<>> THEN Models(s) ELSE [Models(s) EXCEPT ![m] = Tail(@)]
<1> DEFINE e == Committed(m, parts)
           t == Append(s, e)
           told == Told(s, m, parts)
<1>1. e \in Entry /\ e.type = "assistant.output.committed" /\ e.m = m /\ e.content = parts
  BY DEF Committed, Entry
<1>2. Loaded(t) = LoadEvent(Loaded(s), e, TRUE) /\ CompactedBefore(t) = CompactedBefore(s)
  BY <1>1, EntryAdds
<1>3. Loaded(s) \in Readings /\ CompactedBefore(s) \in Seq(Turns)
  BY LoadedTyped
<1>4. Loaded(s).tail \in Seq(Turns) /\ Loaded(s).models \in [1..Messages -> Seq(Contents)]
  BY <1>3, ReadingFields
<1> HIDE DEF t, e
<1>5. Loaded(t) = LoadCommitted(Loaded(s), e)
  BY <1>1, <1>2 DEF LoadEvent, AdmittedBy
<1>6. told \in Contents
  <2>1. Models(s)[m] \in Seq(Contents)
    BY <1>4 DEF Models
  <2>2. Models(s)[m] # <<>> => Head(Models(s)[m]) \in Contents
    BY <2>1, HeadTailProperties
  <2>3. QED
    BY <2>2, CommittedTyped DEF Told
<1>7. /\ Loaded(t).tail = Append(Loaded(s).tail, Turn("assistant", told))
      /\ Loaded(t).admitted = Loaded(s).admitted
      /\ Loaded(t).models = IF Loaded(s).models[m] = <<>> THEN Loaded(s).models
                            ELSE [Loaded(s).models EXCEPT ![m] = Tail(@)]
  <2>1. CASE Loaded(s).models[m] = <<>>
    <3>1. Loaded(t) = [Loaded(s) EXCEPT !.tail = Append(@, Turn("assistant", parts))] /\ told = parts
      BY <1>1, <1>5, <2>1 DEF LoadCommitted, Told, Models
    <3> HIDE DEF told
    <3>2. QED
      BY <1>3, <2>1, <3>1 DEF Readings
  <2>2. CASE Loaded(s).models[m] # <<>>
    <3>1. /\ Loaded(t) = [Loaded(s) EXCEPT !.tail = Append(@, Turn("assistant", told)), !.models[m] = Tail(@)]
      BY <1>1, <1>5, <2>2 DEF LoadCommitted, Told, Models
    <3> HIDE DEF told
    <3>2. QED
      BY <1>3, <2>2, <3>1 DEF Readings
  <2>3. QED
    BY <2>1, <2>2
<1>8. Turn("assistant", told) \in Turns
  BY <1>6 DEF Turn, Turns
<1> HIDE DEF told
<1>9. Context(t) = Append(Context(s), Turn("assistant", told))
  <2>1. CompactedBefore(s) \o Append(Loaded(s).tail, Turn("assistant", told)) = Append(CompactedBefore(s) \o Loaded(s).tail, Turn("assistant", told))
    BY <1>3, <1>4, <1>8, AppendBehind
  <2>2. QED
    BY <1>2, <1>7, <2>1 DEF Context
<1>10. QED
  BY <1>6, <1>7, <1>9 DEF t, e, told, AdmittedBy, Models

-----------------------------------------------------------------------------
(* Results join the turn of results they follow.                           *)
LEMMA LastBehind ==
  ASSUME NEW A, NEW front \in Seq(A), NEW tail \in Seq(A), tail # <<>>
  PROVE  Last(front \o tail) = Last(tail)
<1>1. Len(tail) \in Nat /\ Len(tail) # 0 /\ Len(front) \in Nat
  OBVIOUS
<1>2. Len(front \o tail) = Len(front) + Len(tail) /\ (front \o tail)[Len(front) + Len(tail)] = tail[Len(tail)]
  BY <1>1
<1>3. QED
  BY <1>2 DEF Last

LEMMA LastAppended ==
  ASSUME NEW A, NEW s \in Seq(A), NEW e \in A
  PROVE  Last(Append(s, e)) = e /\ Front(Append(s, e)) = s /\ Append(s, e) # <<>>
<1>1. Len(Append(s, e)) = Len(s) + 1 /\ Len(s) \in Nat /\ Append(s, e)[Len(s) + 1] = e
  OBVIOUS
<1>2. SubSeq(Append(s, e), 1, Len(s)) = s
  OBVIOUS
<1>3. Last(Append(s, e)) = e
  BY <1>1 DEF Last
<1>4. Front(Append(s, e)) = s
  <2>1. Len(Append(s, e)) - 1 = Len(s)
    BY <1>1
  <2>2. QED
    BY <1>2, <2>1 DEF Front
<1>5. QED
  BY <1>1, <1>3, <1>4

LEMMA ResultJoins ==
  ASSUME NEW s \in Seq(Entry), NEW m \in AdmittedBy(s), NEW result \in Blocks,
         NEW base \in Seq(Turns), NEW done \in Contents,
         done # <<>>, done[1].kind \in ResultKinds,
         Loaded(s).tail # <<>>, Context(s) = Append(base, Turn("user", done))
  PROVE  LET t == Append(s, Outcome(m, result))
         IN /\ Context(t) = Append(base, Turn("user", Append(done, result)))
            /\ Loaded(t).tail # <<>>
            /\ AdmittedBy(t) = AdmittedBy(s)
            /\ Models(t) = Models(s)
<1> DEFINE e == Outcome(m, result)
           t == Append(s, e)
           n == Len(Loaded(s).tail)
           old == Turn("user", done)
           new == Turn("user", Append(done, result))
<1>1. Loaded(s) \in Readings /\ CompactedBefore(s) \in Seq(Turns)
  BY LoadedTyped
<1>2. Loaded(s).tail \in Seq(Turns) /\ m \in 1..Messages
  BY <1>1, ReadingFields DEF AdmittedBy
<1>3. e \in Entry /\ e.type = "tool.outcome.recorded" /\ e.m = m /\ e.content = <<result>>
  <2>1. <<result>> \in Contents
    BY DEF Contents
  <2>2. QED
    BY <1>2, <2>1 DEF Outcome, Entry
<1>4. Loaded(t) = LoadEvent(Loaded(s), e, TRUE) /\ CompactedBefore(t) = CompactedBefore(s)
  BY <1>3, EntryAdds
<1>5. old \in Turns /\ new \in Turns
  BY DEF Turn, Turns, Contents
<1>6. n \in Nat /\ n # 0
  BY <1>2
<1> HIDE DEF t, e, old, new
<1>7. Last(Loaded(s).tail) = old
  <2>1. Last(CompactedBefore(s) \o Loaded(s).tail) = Last(Loaded(s).tail)
    BY <1>1, <1>2, LastBehind
  <2>2. Last(Append(base, old)) = old
    BY <1>5, LastAppended
  <2>3. QED
    BY <2>1, <2>2 DEF Context, old
<1>8. Loaded(s).tail[n] = old
  BY <1>7 DEF Last
<1>9. Loaded(t) = LoadOutcome(Loaded(s), e)
  BY <1>3, <1>4 DEF LoadEvent, AdmittedBy
<1>10. old.content = done /\ [old EXCEPT !.content = @ \o <<result>>] = new
  <2>1. done \o <<result>> = Append(done, result)
    BY DEF Contents
  <2> DEFINE more == Append(done, result)
  <2>2. old = [role |-> "user", content |-> done] /\ new = [role |-> "user", content |-> more]
    BY DEF old, new, Turn
  <2> HIDE DEF more
  <2>3. [old EXCEPT !.content = @ \o <<result>>] = [role |-> "user", content |-> old.content \o <<result>>]
    <3>1. \A x : [old EXCEPT !.content = x] = [role |-> "user", content |-> x]
      BY <2>2
    <3>2. [old EXCEPT !.content = @ \o <<result>>] = [old EXCEPT !.content = old.content \o <<result>>]
      OBVIOUS
    <3>3. QED
      BY <3>1, <3>2, Zenon
  <2>4. old.content = done
    BY <2>2
  <2>5. QED
    BY <2>1, <2>2, <2>3, <2>4 DEF more
<1>11. LoadOutcome(Loaded(s), e) = [Loaded(s) EXCEPT !.tail[n].content = @ \o <<result>>]
  BY <1>3, <1>7, <1>10 DEF LoadOutcome
<1>12. Loaded(t).tail = [Loaded(s).tail EXCEPT ![n].content = @ \o <<result>>]
       /\ Loaded(t).admitted = Loaded(s).admitted /\ Loaded(t).models = Loaded(s).models
  BY <1>1, <1>9, <1>11 DEF Readings
<1>13. [Loaded(s).tail EXCEPT ![n].content = @ \o <<result>>] = [Loaded(s).tail EXCEPT ![n] = new]
  BY <1>8, <1>10
<1>14. Context(t) = Append(base, new)
  <2>1. CompactedBefore(s) \o [Loaded(s).tail EXCEPT ![n] = new] = Append(base, new)
    BY <1>1, <1>2, <1>5, LastReplaced DEF Context, old
  <2>2. QED
    BY <1>4, <1>12, <1>13, <2>1 DEF Context
<1>15. Loaded(t).tail # <<>>
  <2>1. [Loaded(s).tail EXCEPT ![n] = new] # <<>>
    <3>1. Len([Loaded(s).tail EXCEPT ![n] = new]) = n
      BY <1>2, <1>5, <1>6, ExceptSeq
    <3>2. QED
      BY <1>6, <3>1
  <2>2. QED
    BY <1>12, <1>13, <2>1
<1>16. QED
  BY <1>12, <1>14, <1>15 DEF t, e, new, AdmittedBy, Models

LEMMA ResultApart ==
  ASSUME NEW s \in Seq(Entry), NEW m \in AdmittedBy(s), NEW result \in Blocks,
         Context(s) # <<>>, Last(Context(s)).content[1].kind \notin ResultKinds
  PROVE  LET t == Append(s, Outcome(m, result))
         IN /\ Context(t) = Append(Context(s), Turn("user", <<result>>))
            /\ Loaded(t).tail # <<>>
            /\ AdmittedBy(t) = AdmittedBy(s)
            /\ Models(t) = Models(s)
<1> DEFINE e == Outcome(m, result)
           t == Append(s, e)
           new == Turn("user", <<result>>)
<1>1. Loaded(s) \in Readings /\ CompactedBefore(s) \in Seq(Turns)
  BY LoadedTyped
<1>2. Loaded(s).tail \in Seq(Turns) /\ m \in 1..Messages
  BY <1>1, ReadingFields DEF AdmittedBy
<1>3. e \in Entry /\ e.type = "tool.outcome.recorded" /\ e.m = m /\ e.content = <<result>>
  <2>1. <<result>> \in Contents
    BY DEF Contents
  <2>2. QED
    BY <1>2, <2>1 DEF Outcome, Entry
<1>4. Loaded(t) = LoadEvent(Loaded(s), e, TRUE) /\ CompactedBefore(t) = CompactedBefore(s)
  BY <1>3, EntryAdds
<1>5. new \in Turns
  BY DEF Turn, Turns, Contents
<1> HIDE DEF t, e
<1>6. ~(Loaded(s).tail # <<>> /\ Last(Loaded(s).tail).content[1].kind \in ResultKinds)
  <2>1. ASSUME Loaded(s).tail # <<>>
        PROVE  Last(CompactedBefore(s) \o Loaded(s).tail) = Last(Loaded(s).tail)
    BY <1>1, <1>2, <2>1, LastBehind
  <2>2. QED
    BY <2>1 DEF Context
<1>7. Loaded(t) = LoadOutcome(Loaded(s), e)
  BY <1>3, <1>4 DEF LoadEvent, AdmittedBy
<1>8. LoadOutcome(Loaded(s), e) = [Loaded(s) EXCEPT !.tail = Append(@, new)]
  BY <1>3, <1>6 DEF LoadOutcome
<1> HIDE DEF new
<1>9. Loaded(t).tail = Append(Loaded(s).tail, new)
      /\ Loaded(t).admitted = Loaded(s).admitted /\ Loaded(t).models = Loaded(s).models
  BY <1>1, <1>7, <1>8 DEF Readings
<1>10. Context(t) = Append(Context(s), new) /\ Loaded(t).tail # <<>>
  <2>1. CompactedBefore(s) \o Append(Loaded(s).tail, new) = Append(CompactedBefore(s) \o Loaded(s).tail, new)
    BY <1>1, <1>2, <1>5, AppendBehind
  <2>2. Append(Loaded(s).tail, new) # <<>>
    BY <1>2
  <2>3. QED
    BY <1>4, <1>9, <2>1, <2>2 DEF Context
<1>11. QED
  BY <1>9, <1>10 DEF t, e, new, AdmittedBy, Models

(* The context of a run: base, and the turn of the results so far.         *)
Telling(s, base, done) ==
  IF done = <<>> THEN Context(s) = base
  ELSE Loaded(s).tail # <<>> /\ Context(s) = Append(base, Turn("user", done))

Results == Seq({b \in Blocks : b.kind \in ResultKinds})

(* Whose last turn is no result.                                           *)
Waiting(base) == base # <<>> /\ Last(base).content[1].kind \notin ResultKinds

LEMMA ResultTyped ==
  ASSUME NEW done \in Results
  PROVE  done \in Contents /\ (done # <<>> => done[1].kind \in ResultKinds)
<1> DEFINE B == {b \in Blocks : b.kind \in ResultKinds}
<1>1. B \in SUBSET Blocks
  OBVIOUS
<1>2. done # <<>> => done[1] \in B
  BY DEF Results
<1>3. done \in Seq(B)
  BY DEF Results
<1> HIDE DEF B
<1>4. done \in Contents
  BY <1>1, <1>3, SmallerSeq DEF Contents
<1>5. QED
  BY <1>2, <1>4 DEF B

LEMMA OutcomeReads ==
  ASSUME NEW s \in Seq(Entry), NEW m \in AdmittedBy(s), NEW result \in Blocks, result.kind \in ResultKinds,
         NEW base \in Seq(Turns), NEW done \in Results, Telling(s, base, done), Waiting(base)
  PROVE  LET t == Append(s, Outcome(m, result))
         IN /\ t \in Seq(Entry)
            /\ Append(done, result) \in Results
            /\ Telling(t, base, Append(done, result))
            /\ AdmittedBy(t) = AdmittedBy(s)
            /\ Models(t) = Models(s)
<1> DEFINE t == Append(s, Outcome(m, result))
<1>1. t \in Seq(Entry)
  <2>1. <<result>> \in Contents
    BY DEF Contents
  <2>2. m \in 1..Messages
    BY LoadedTyped, ReadingFields DEF AdmittedBy
  <2>3. Outcome(m, result) \in Entry
    BY <2>1, <2>2 DEF Outcome, Entry
  <2>4. QED
    BY <2>3
<1>2. Append(done, result) \in Results /\ Append(done, result) # <<>>
  BY DEF Results
<1>3. CASE done = <<>>
  <2>1. Context(s) = base
    BY <1>3 DEF Telling
  <2>2. /\ Context(t) = Append(base, Turn("user", <<result>>)) /\ Loaded(t).tail # <<>>
        /\ AdmittedBy(t) = AdmittedBy(s) /\ Models(t) = Models(s)
    BY <2>1, ResultApart DEF Waiting
  <2>3. Append(done, result) = <<result>>
    BY <1>3
  <2> HIDE DEF t
  <2>4. Telling(t, base, Append(done, result))
    BY <1>2, <2>2, <2>3 DEF Telling
  <2>5. QED
    BY <1>1, <1>2, <2>2, <2>4 DEF t
<1>4. CASE done # <<>>
  <2>1. Loaded(s).tail # <<>> /\ Context(s) = Append(base, Turn("user", done))
    BY <1>4 DEF Telling
  <2>2. done \in Contents /\ done[1].kind \in ResultKinds
    BY <1>4, ResultTyped
  <2>3. /\ Context(t) = Append(base, Turn("user", Append(done, result))) /\ Loaded(t).tail # <<>>
        /\ AdmittedBy(t) = AdmittedBy(s) /\ Models(t) = Models(s)
    BY <1>4, <2>1, <2>2, ResultJoins
  <2> HIDE DEF t
  <2>4. Telling(t, base, Append(done, result))
    BY <1>2, <2>3 DEF Telling
  <2>5. QED
    BY <1>1, <1>2, <2>3, <2>4 DEF t
<1>5. QED
  BY <1>3, <1>4

(* Any number of them.                                                     *)
Outcomes(m, results) == [i \in DOMAIN results |-> Outcome(m, results[i])]

OutcomesTold(s, m, base, done, results) ==
  LET t == s \o Outcomes(m, results)
  IN /\ t \in Seq(Entry)
     /\ done \o results \in Results
     /\ Telling(t, base, done \o results)
     /\ AdmittedBy(t) = AdmittedBy(s)
     /\ Models(t) = Models(s)

LEMMA OutcomesAppended ==
  ASSUME NEW m, NEW A, NEW results \in Seq(A), NEW r \in A
  PROVE  Outcomes(m, Append(results, r)) = Append(Outcomes(m, results), Outcome(m, r))
BY DEF Outcomes

LEMMA OutcomesRead ==
  ASSUME NEW s \in Seq(Entry), NEW m \in AdmittedBy(s),
         NEW base \in Seq(Turns), NEW done \in Results, Telling(s, base, done), Waiting(base),
         NEW results \in Results
  PROVE  OutcomesTold(s, m, base, done, results)
<1> DEFINE B == {b \in Blocks : b.kind \in ResultKinds}
           S == {rs \in Seq(B) : OutcomesTold(s, m, base, done, rs)}
<1>1. <<>> \in S
  <2>1. Outcomes(m, <<>>) = <<>>
    BY DEF Outcomes
  <2>2. s \o <<>> = s /\ done \o <<>> = done
    BY DEF Results
  <2> HIDE DEF B
  <2>3. <<>> \in Seq(B)
    OBVIOUS
  <2>4. OutcomesTold(s, m, base, done, <<>>)
    BY <2>1, <2>2 DEF OutcomesTold
  <2>5. QED
    BY <2>3, <2>4
<1>2. ASSUME NEW rs \in Seq(B), NEW r \in B, rs \in S PROVE Append(rs, r) \in S
  <2> DEFINE t == s \o Outcomes(m, rs)
             so == done \o rs
  <2>1. /\ t \in Seq(Entry) /\ so \in Results /\ Telling(t, base, so)
        /\ AdmittedBy(t) = AdmittedBy(s) /\ Models(t) = Models(s)
    BY <1>2 DEF OutcomesTold
  <2>2. Outcomes(m, Append(rs, r)) = Append(Outcomes(m, rs), Outcome(m, r))
    BY OutcomesAppended
  <2>3. r \in Blocks /\ r.kind \in ResultKinds
    OBVIOUS
  <2>4. Outcomes(m, rs) \in Seq(Entry) /\ Outcome(m, r) \in Entry
    <3>1. m \in 1..Messages
      BY LoadedTyped, ReadingFields DEF AdmittedBy
    <3>2. \A b \in Blocks : Outcome(m, b) \in Entry
      <4> TAKE b \in Blocks
      <4>1. <<b>> \in Contents
        BY DEF Contents
      <4>2. QED
        BY <3>1, <4>1 DEF Outcome, Entry
    <3>3. rs \in [1..Len(rs) -> B] /\ Len(rs) \in Nat /\ DOMAIN rs = 1..Len(rs)
      BY LenProperties
    <3>4. \A i \in 1..Len(rs) : Outcome(m, rs[i]) \in Entry
      BY <3>2, <3>3
    <3>5. QED
      BY <2>3, <3>2, <3>3, <3>4 DEF Outcomes
  <2>5. s \o Append(Outcomes(m, rs), Outcome(m, r)) = Append(t, Outcome(m, r))
    BY <2>4, AppendBehind
  <2>6. done \o Append(rs, r) = Append(so, r)
    <3>1. done \in Seq(B)
      BY DEF Results
    <3> HIDE DEF B
    <3>2. QED
      BY <1>2, <3>1, AppendBehind
  <2>7. Append(rs, r) \in Seq(B)
    <3> HIDE DEF B
    <3>1. QED
      BY <1>2
  <2> HIDE DEF t, so, B
  <2>8. m \in AdmittedBy(t)
    BY <2>1
  <2> DEFINE u == Append(t, Outcome(m, r))
  <2>9. /\ u \in Seq(Entry) /\ Append(so, r) \in Results /\ Telling(u, base, Append(so, r))
        /\ AdmittedBy(u) = AdmittedBy(t) /\ Models(u) = Models(t)
    BY <2>1, <2>3, <2>8, OutcomeReads
  <2>10. s \o Outcomes(m, Append(rs, r)) = u
    BY <2>2, <2>5
  <2> HIDE DEF u
  <2>11. OutcomesTold(s, m, base, done, Append(rs, r))
    BY <2>1, <2>6, <2>9, <2>10 DEF OutcomesTold
  <2>12. QED
    BY <2>7, <2>11
<1>3. Seq(B) \subseteq S
  <2> HIDE DEF S, B
  <2>1. QED
    BY <1>1, <1>2, SequencesByInduction
<1>4. QED
  BY <1>3 DEF Results

-----------------------------------------------------------------------------
(* A transcript a provider would accept if owed were answered next.        *)
Asks(t)      == Refers(CallsOf(t.content))
Answers(t)   == Refers(ResultsOf(t.content))
Remembers(t) == OfKind(t.content, {"memory"}) # <<>>

(* A turn that does not both call and answer, and calls only as the model. *)
OneSided(t) ==
  /\ CallsOf(t.content) = <<>> \/ ResultsOf(t.content) = <<>>
  /\ t.role = "user" => CallsOf(t.content) = <<>>

Open(ts, owed) ==
  /\ ts = <<>> => owed = <<>>
  /\ ts # <<>> => ts[1].role = "user" /\ ResultsOf(ts[1].content) = <<>> /\ Asks(ts[Len(ts)]) = owed
  /\ \A i \in DOMAIN ts : OneSided(ts[i])
  /\ \A i \in DOMAIN ts : i > 1 => Answers(ts[i]) = Asks(ts[i - 1])
  /\ \A i \in DOMAIN ts : Remembers(ts[i]) => i <= 2
  /\ 2 \in DOMAIN ts => ~(Remembers(ts[1]) /\ Remembers(ts[2]))

LEMMA RefersEmpty == Refers(<<>>) = <<>> /\ \A A : \A s \in Seq(A) : Refers(s) = <<>> => s = <<>>
<1>1. Refers(<<>>) = <<>>
  BY DEF Refers
<1>2. ASSUME NEW A, NEW s \in Seq(A), Refers(s) = <<>> PROVE s = <<>>
  <2>1. DOMAIN Refers(s) = DOMAIN s /\ DOMAIN s = 1..Len(s) /\ Len(s) \in Nat
    BY DEF Refers
  <2>2. DOMAIN s = {}
    BY <1>2, <2>1
  <2>3. QED
    BY <2>1, <2>2
<1>3. QED
  BY <1>1, <1>2

LEMMA RefersSeq ==
  ASSUME NEW s \in Contents
  PROVE  Refers(s) \in Seq(Nat \X Nat) /\ Len(Refers(s)) = Len(s) /\ DOMAIN Refers(s) = DOMAIN s
         /\ \A i \in DOMAIN s : Refers(s)[i] = s[i].of
<1>1. s \in Seq(Blocks) /\ DOMAIN s = 1..Len(s) /\ Len(s) \in Nat
  BY DEF Contents
<1>2. \A i \in 1..Len(s) : s[i] \in Blocks
  BY <1>1
<1>3. \A i \in 1..Len(s) : s[i].of \in Nat \X Nat
  BY <1>2 DEF Blocks
<1>4. Refers(s) \in [1..Len(s) -> Nat \X Nat]
  BY <1>1, <1>3 DEF Refers
<1>5. Refers(s) \in Seq(Nat \X Nat) /\ Len(Refers(s)) = Len(s)
  <2> DEFINE P == Nat \X Nat
             f == Refers(s)
  <2>1. f \in [1..Len(s) -> P]
    BY <1>4
  <2> HIDE DEF P, f
  <2>2. QED
    <3>1. f \in Seq(P) /\ Len(f) = Len(s)
      BY <1>1, <2>1
    <3>2. QED
      BY <3>1 DEF P, f
<1>6. QED
  BY <1>1, <1>5 DEF Refers

LEMMA RefersAppended ==
  ASSUME NEW s \in Contents, NEW b \in Blocks
  PROVE  Refers(Append(s, b)) = Append(Refers(s), b.of)
<1>1. Append(s, b) \in Contents /\ b.of \in Nat \X Nat
  BY DEF Contents, Blocks
<1>2. Len(Append(s, b)) = Len(s) + 1 /\ Len(s) \in Nat
      /\ \A i \in 1..(Len(s) + 1) : Append(s, b)[i] = IF i = Len(s) + 1 THEN b ELSE s[i]
  BY DEF Contents
<1>3. DOMAIN Append(s, b) = 1..(Len(s) + 1) /\ DOMAIN s = 1..Len(s)
  BY DEF Contents
<1>4. Refers(s) \in Seq(Nat \X Nat) /\ Len(Refers(s)) = Len(s) /\ \A i \in DOMAIN s : Refers(s)[i] = s[i].of
  BY RefersSeq
<1>5. /\ Refers(Append(s, b)) \in Seq(Nat \X Nat) /\ Len(Refers(Append(s, b))) = Len(Append(s, b))
      /\ \A i \in DOMAIN Append(s, b) : Refers(Append(s, b))[i] = Append(s, b)[i].of
  BY <1>1, RefersSeq
<1> DEFINE P == Nat \X Nat
           f == Refers(s)
           g == Refers(Append(s, b))
           h == Append(s, b)
<1> HIDE DEF P, f, g, h
<1>6. f \in Seq(P) /\ g \in Seq(P) /\ b.of \in P
  BY <1>1, <1>4, <1>5 DEF f, g, P
<1>7. Len(f) = Len(s) /\ Len(g) = Len(s) + 1 /\ Len(Append(f, b.of)) = Len(s) + 1 /\ Append(f, b.of) \in Seq(P)
  BY <1>2, <1>4, <1>5, <1>6 DEF f, g
<1>8. ASSUME NEW i \in 1..(Len(s) + 1) PROVE g[i] = Append(f, b.of)[i]
  <2>1. g[i] = h[i].of
    BY <1>3, <1>5 DEF g, h
  <2>2. h[i] = IF i = Len(s) + 1 THEN b ELSE s[i]
    BY <1>2 DEF h
  <2>3. CASE i = Len(s) + 1
    BY <1>2, <1>6, <1>7, <2>1, <2>2, <2>3
  <2>4. CASE i # Len(s) + 1
    <3>1. i \in 1..Len(s)
      BY <1>2, <2>4
    <3>2. f[i] = s[i].of
      BY <1>3, <1>4, <3>1 DEF f
    <3>3. Append(f, b.of)[i] = f[i]
      BY <1>6, <1>7, <3>1
    <3>4. QED
      BY <2>1, <2>2, <2>4, <3>2, <3>3
  <2>5. QED
    BY <2>3, <2>4
<1>9. g = Append(f, b.of)
  BY <1>2, <1>6, <1>7, <1>8, SeqEqual
<1>10. QED
  BY <1>9 DEF f, g

LEMMA OpenAppended ==
  ASSUME NEW ts \in Seq(Turns), NEW t \in Turns, NEW owed, Open(ts, owed), Answers(t) = owed,
         OneSided(t), Remembers(t) => ts = <<>>, ts = <<>> => t.role = "user"
  PROVE  Open(Append(ts, t), Asks(t))
<1> DEFINE us == Append(ts, t)
           n == Len(ts)
<1>1. n \in Nat /\ DOMAIN ts = 1..n /\ DOMAIN us = 1..(n + 1) /\ Len(us) = n + 1 /\ us # <<>>
      /\ us[n + 1] = t /\ \A i \in 1..n : us[i] = ts[i]
  OBVIOUS
<1>2. ts = <<>> <=> n = 0
  OBVIOUS
<1> HIDE DEF us, n
<1>3. us[1].role = "user" /\ ResultsOf(us[1].content) = <<>>
  <2>1. CASE ts = <<>>
    <3>1. Answers(t) = <<>>
      BY <2>1 DEF Open
    <3>2. ResultsOf(t.content) \in Contents
      BY KindContents DEF Turns, ResultsOf
    <3>3. ResultsOf(t.content) = <<>>
      BY <3>1, <3>2, RefersEmpty DEF Answers, Contents
    <3>4. QED
      BY <1>1, <1>2, <2>1, <3>3
  <2>2. CASE ts # <<>>
    <3>1. ts[1].role = "user" /\ ResultsOf(ts[1].content) = <<>> /\ us[1] = ts[1]
      BY <1>1, <1>2, <2>2 DEF Open
    <3>2. QED
      BY <3>1
  <2>3. QED
    BY <2>1, <2>2
<1>4. \A i \in DOMAIN us : OneSided(us[i])
  <2>1. \A i \in DOMAIN ts : OneSided(ts[i])
    BY DEF Open
  <2>2. QED
    BY <1>1, <2>1
<1>5. ASSUME NEW i \in DOMAIN us, i > 1 PROVE Answers(us[i]) = Asks(us[i - 1])
  <2>1. CASE i = n + 1
    <3>1. ts # <<>> /\ us[i] = t /\ us[i - 1] = ts[n]
      BY <1>1, <1>2, <1>5, <2>1
    <3>2. Asks(ts[n]) = owed
      BY <3>1 DEF Open, n
    <3>3. QED
      BY <3>1, <3>2
  <2>2. CASE i # n + 1
    <3>1. i \in DOMAIN ts /\ i - 1 \in DOMAIN ts /\ us[i] = ts[i] /\ us[i - 1] = ts[i - 1]
      BY <1>1, <1>5, <2>2
    <3>2. QED
      BY <1>5, <3>1 DEF Open
  <2>3. QED
    BY <2>1, <2>2
<1>6. ASSUME NEW i \in DOMAIN us, Remembers(us[i]) PROVE i <= 2
  <2>1. CASE i = n + 1
    BY <1>1, <1>2, <1>6, <2>1
  <2>2. CASE i # n + 1
    <3>1. i \in DOMAIN ts /\ us[i] = ts[i]
      BY <1>1, <2>2
    <3>2. QED
      BY <1>6, <3>1 DEF Open
  <2>3. QED
    BY <2>1, <2>2
<1>7. ASSUME 2 \in DOMAIN us PROVE ~(Remembers(us[1]) /\ Remembers(us[2]))
  <2>1. CASE n = 1
    BY <1>1, <1>2, <2>1
  <2>2. CASE n # 1
    <3>1. 2 \in DOMAIN ts /\ us[1] = ts[1] /\ us[2] = ts[2]
      BY <1>1, <1>7, <2>2
    <3>2. QED
      BY <3>1 DEF Open
  <2>3. QED
    BY <2>1, <2>2
<1>8. Open(us, Asks(t))
  <2>1. us # <<>> /\ us[Len(us)] = t
    BY <1>1
  <2>2. QED
    BY <1>3, <1>4, <1>5, <1>6, <1>7, <2>1 DEF Open
<1>9. QED
  BY <1>8 DEF us

(* Nothing Open looks at has changed.                                      *)
LEMMA OpenAlike ==
  ASSUME NEW ts \in Seq(Turns), NEW us \in Seq(Turns), NEW owed, Open(ts, owed), Len(us) = Len(ts),
         \A i \in DOMAIN ts :
           /\ us[i].role = ts[i].role
           /\ CallsOf(us[i].content) = CallsOf(ts[i].content)
           /\ ResultsOf(us[i].content) = ResultsOf(ts[i].content)
           /\ OfKind(us[i].content, {"memory"}) = OfKind(ts[i].content, {"memory"})
  PROVE  Open(us, owed)
<1> DEFINE n == Len(ts)
<1>1. n \in Nat /\ DOMAIN ts = 1..n /\ DOMAIN us = 1..n /\ (ts = <<>> <=> n = 0) /\ (us = <<>> <=> n = 0)
      /\ Len(us) = n
  OBVIOUS
<1> HIDE DEF n
<1>2. \A i \in 1..n : /\ us[i].role = ts[i].role /\ Asks(us[i]) = Asks(ts[i]) /\ Answers(us[i]) = Answers(ts[i])
                      /\ (OneSided(us[i]) <=> OneSided(ts[i])) /\ (Remembers(us[i]) <=> Remembers(ts[i]))
                      /\ ResultsOf(us[i].content) = ResultsOf(ts[i].content)
  BY <1>1 DEF Asks, Answers, OneSided, Remembers
<1>3. CASE n = 0
  BY <1>1, <1>3 DEF Open
<1>4. CASE n # 0
  <2>1. /\ 1 \in 1..n /\ n \in 1..n /\ ts # <<>> /\ us # <<>> /\ Len(us) = n /\ Len(ts) = n
    BY <1>1, <1>4 DEF n
  <2>2. us[1].role = "user" /\ ResultsOf(us[1].content) = <<>> /\ Asks(us[n]) = owed
    BY <1>2, <2>1 DEF Open
  <2>3. \A i \in DOMAIN us : OneSided(us[i]) /\ (Remembers(us[i]) => i <= 2)
    BY <1>1, <1>2 DEF Open
  <2>4. ASSUME NEW i \in DOMAIN us, i > 1 PROVE Answers(us[i]) = Asks(us[i - 1])
    <3>1. i \in 1..n /\ i - 1 \in 1..n
      BY <1>1, <2>4
    <3>2. Answers(ts[i]) = Asks(ts[i - 1])
      BY <1>1, <2>4, <3>1 DEF Open
    <3>3. QED
      BY <1>2, <3>1, <3>2
  <2>5. 2 \in DOMAIN us => ~(Remembers(us[1]) /\ Remembers(us[2]))
    BY <1>1, <1>2, <2>1 DEF Open
  <2>6. QED
    BY <2>1, <2>2, <2>3, <2>4, <2>5 DEF Open
<1>5. QED
  BY <1>3, <1>4

LEMMA OpenWaits ==
  ASSUME NEW ts \in Seq(Turns), NEW owed, Open(ts, owed), owed # <<>>
  PROVE  Waiting(ts)
<1> DEFINE t == ts[Len(ts)]
<1>1. ts # <<>> /\ Asks(t) = owed
  BY DEF Open
<1>2. Len(ts) \in DOMAIN ts /\ t \in Turns
  BY <1>1
<1>3. OneSided(t)
  BY <1>2 DEF Open
<1>4. Last(ts) = t
  BY DEF Last
<1> HIDE DEF t
<1>5. t.content \in Contents
  BY <1>2 DEF Turns
<1>6. CallsOf(t.content) # <<>>
  BY <1>1, RefersEmpty DEF Asks
<1>7. ResultsOf(t.content) = <<>>
  BY <1>3, <1>6 DEF OneSided
<1>8. t.content # <<>>
  BY <1>6, KindNothing DEF CallsOf
<1>9. t.content \in Seq({b \in Blocks : b.kind \notin ResultKinds})
  BY <1>5, <1>7, KindEmpty DEF ResultsOf, Contents
<1>10. t.content[1].kind \notin ResultKinds
  <2> DEFINE B == {b \in Blocks : b.kind \notin ResultKinds}
  <2>1. t.content \in Seq(B)
    BY <1>9
  <2> HIDE DEF B
  <2>2. t.content[1] \in B
    BY <1>8, <2>1
  <2>3. QED
    BY <2>2 DEF B
<1>11. QED
  BY <1>1, <1>4, <1>10 DEF Waiting

-----------------------------------------------------------------------------
(* The turns a run writes.                                                 *)
LEMMA KindSingle ==
  ASSUME NEW A, NEW b \in A, NEW kinds
  PROVE  OfKind(<<b>>, kinds) = IF b.kind \in kinds THEN <<b>> ELSE <<>>
<1>1. Append(<<>>, b) = <<b>> /\ <<>> \in Seq(A)
  OBVIOUS
<1>2. OfKind(Append(<<>>, b), kinds) = Keep(OfKind(<<>>, kinds), b, kinds)
  BY <1>1, KindOneMore
<1>3. OfKind(<<>>, kinds) = <<>>
  BY KindNothing
<1>4. Keep(<<>>, b, kinds) = IF b.kind \in kinds THEN <<b>> ELSE <<>>
  BY <1>1 DEF Keep
<1>5. QED
  BY <1>1, <1>2, <1>3, <1>4

LEMMA TwoBlocks ==
  ASSUME NEW A, NEW a \in A, NEW b \in A
  PROVE  <<a>> \o <<b>> = <<a, b>> /\ <<>> \o <<b>> = <<b>>
<1>1. <<a>> \in Seq(A) /\ <<b>> \in Seq(A) /\ <<a, b>> \in Seq(A)
  OBVIOUS
<1>2. Len(<<a>>) = 1 /\ Len(<<b>>) = 1 /\ Len(<<a, b>>) = 2 /\ <<a, b>>[1] = a /\ <<a, b>>[2] = b
      /\ <<a>>[1] = a /\ <<b>>[1] = b
  OBVIOUS
<1> DEFINE s == <<a>>
           t == <<b>>
           u == <<a, b>>
<1> HIDE DEF s, t, u
<1>3. s \o t \in Seq(A) /\ Len(s \o t) = 2 /\ (s \o t)[1] = a /\ (s \o t)[2] = b
  BY <1>1, <1>2 DEF s, t
<1>4. u \in Seq(A) /\ Len(u) = 2 /\ u[1] = a /\ u[2] = b
  BY <1>1, <1>2 DEF u
<1>5. s \o t = u
  BY <1>3, <1>4, SeqEqual
<1>6. <<>> \o t = t
  BY <1>1, ConcatEmptySeq DEF t
<1>7. QED
  BY <1>5, <1>6 DEF s, t, u

LEMMA KindPair ==
  ASSUME NEW A, NEW a \in A, NEW b \in A, NEW kinds, a.kind \notin kinds
  PROVE  OfKind(<<a, b>>, kinds) = OfKind(<<b>>, kinds)
<1>1. <<a, b>> = <<a>> \o <<b>> /\ <<a>> \in Seq(A) /\ <<b>> \in Seq(A)
  <2>1. <<a>> \o <<b>> = <<a, b>>
    BY TwoBlocks
  <2>2. <<a>> \in Seq(A) /\ <<b>> \in Seq(A)
    OBVIOUS
  <2>3. QED
    BY <2>1, <2>2, Zenon
<1>2. OfKind(<<a>> \o <<b>>, kinds) = OfKind(<<a>>, kinds) \o OfKind(<<b>>, kinds)
  BY <1>1, KindConcat
<1>3. OfKind(<<a>>, kinds) = <<>>
  BY KindSingle
<1>4. OfKind(<<b>>, kinds) = <<b>> \/ OfKind(<<b>>, kinds) = <<>>
  BY KindSingle
<1>5. <<>> \o OfKind(<<b>>, kinds) = OfKind(<<b>>, kinds)
  BY <1>4
<1>6. QED
  BY <1>1, <1>2, <1>3, <1>5

(* A turn with nothing of a call or a result in it.                        *)
Plain(t) == CallsOf(t.content) = <<>> /\ ResultsOf(t.content) = <<>>

LEMMA PlainTurn ==
  ASSUME NEW t, Plain(t)
  PROVE  OneSided(t) /\ Asks(t) = <<>> /\ Answers(t) = <<>>
BY RefersEmpty DEF Plain, OneSided, Asks, Answers

LEMMA PlainSingle ==
  ASSUME NEW b \in Blocks, b.kind \notin CallKinds \cup ResultKinds, NEW role \in {"user", "assistant"}
  PROVE  /\ Turn(role, <<b>>) \in Turns
         /\ Plain(Turn(role, <<b>>))
         /\ Remembers(Turn(role, <<b>>)) => b.kind = "memory"
         /\ Turn(role, <<b>>).role = role
<1>1. <<b>> \in Contents
  BY DEF Contents
<1>2. Turn(role, <<b>>).content = <<b>> /\ Turn(role, <<b>>).role = role /\ Turn(role, <<b>>) \in Turns
  BY <1>1 DEF Turn, Turns
<1>3. OfKind(<<b>>, CallKinds) = <<>> /\ OfKind(<<b>>, ResultKinds) = <<>>
  BY KindSingle
<1>4. b.kind # "memory" => OfKind(<<b>>, {"memory"}) = <<>>
  BY KindSingle
<1>5. QED
  BY <1>2, <1>3, <1>4 DEF Plain, Remembers, CallsOf, ResultsOf

LEMMA InputPlain ==
  ASSUME NEW m \in 1..Messages
  PROVE  /\ InputTurn(m) \in Turns /\ Plain(InputTurn(m)) /\ ~Remembers(InputTurn(m))
         /\ InputTurn(m).role = "user"
<1>1. Block("text", m, 0) \in Blocks /\ Block("text", m, 0).kind = "text"
  BY ContextAssumption DEF Block, Blocks, Kinds
<1>2. QED
  BY <1>1, PlainSingle DEF InputTurn, CallKinds, ResultKinds

LEMMA PreparedPlain ==
  ASSUME NEW m \in 1..Messages, NEW first \in BOOLEAN
  PROVE  /\ PreparedTurn(m, first) \in Turns /\ Plain(PreparedTurn(m, first))
         /\ Remembers(PreparedTurn(m, first)) => first
         /\ PreparedTurn(m, first).role = "user"
<1> DEFINE a == Block("memory", m, 0)
           b == Block("prompt", m, 0)
<1>1. a \in Blocks /\ b \in Blocks /\ a.kind = "memory" /\ b.kind = "prompt"
  BY ContextAssumption DEF Block, Blocks, Kinds
<1>2. PreparedTurn(m, first) = Turn("user", IF first THEN <<a, b>> ELSE <<b>>)
  <2>1. PreparedTurn(m, first) = Turn("user", (IF first THEN <<a>> ELSE <<>>) \o <<b>>)
    BY DEF PreparedTurn
  <2> HIDE DEF a, b
  <2>2. <<a>> \o <<b>> = <<a, b>> /\ <<>> \o <<b>> = <<b>>
    <3>1. a \in Blocks /\ b \in Blocks
      BY <1>1
    <3>2. QED
      BY <3>1, TwoBlocks
  <2>3. QED
    BY <2>1, <2>2
<1> HIDE DEF a, b
<1>3. CASE ~first
  BY <1>1, <1>2, <1>3, PlainSingle DEF CallKinds, ResultKinds
<1>4. CASE first
  <2>1. <<a, b>> \in Contents
    BY <1>1 DEF Contents
  <2>2. /\ OfKind(<<a, b>>, CallKinds) = OfKind(<<b>>, CallKinds)
        /\ OfKind(<<a, b>>, ResultKinds) = OfKind(<<b>>, ResultKinds)
    BY <1>1, KindPair DEF CallKinds, ResultKinds
  <2>3. OfKind(<<b>>, CallKinds) = <<>> /\ OfKind(<<b>>, ResultKinds) = <<>>
    BY <1>1, KindSingle DEF CallKinds, ResultKinds
  <2>4. PreparedTurn(m, first) = Turn("user", <<a, b>>)
    BY <1>2, <1>4
  <2>5. Turn("user", <<a, b>>).content = <<a, b>> /\ Turn("user", <<a, b>>).role = "user"
        /\ Turn("user", <<a, b>>) \in Turns
    BY <2>1 DEF Turn, Turns
  <2>6. QED
    BY <1>4, <2>2, <2>3, <2>4, <2>5 DEF Plain, CallsOf, ResultsOf
<1>5. QED
  BY <1>3, <1>4

LEMMA ResultsTurn ==
  ASSUME NEW done \in Results
  PROVE  LET t == Turn("user", done)
         IN /\ t \in Turns /\ OneSided(t) /\ Asks(t) = <<>> /\ Answers(t) = Refers(done)
            /\ ~Remembers(t) /\ t.role = "user"
<1> DEFINE B == {b \in Blocks : b.kind \in ResultKinds}
           t == Turn("user", done)
<1>1. done \in Contents
  BY ResultTyped
<1>2. t \in Turns /\ t.content = done /\ t.role = "user"
  BY <1>1 DEF Turn, Turns
<1>3. OfKind(done, ResultKinds) = done /\ OfKind(done, CallKinds) = <<>> /\ OfKind(done, {"memory"}) = <<>>
  <2>1. /\ \A b \in B : b.kind \in ResultKinds /\ b.kind \notin CallKinds /\ b.kind \notin {"memory"}
    BY DEF ResultKinds, CallKinds
  <2>2. done \in Seq(B)
    BY DEF Results
  <2> HIDE DEF B
  <2>3. OfKind(done, ResultKinds) = done
    BY <2>1, <2>2, KindAll
  <2>4. OfKind(done, CallKinds) = <<>>
    BY <2>1, <2>2, KindNone
  <2>5. OfKind(done, {"memory"}) = <<>>
    BY <2>1, <2>2, KindNone
  <2>6. QED
    BY <2>3, <2>4, <2>5
<1> HIDE DEF t
<1>4. CallsOf(t.content) = <<>> /\ ResultsOf(t.content) = done
  BY <1>2, <1>3 DEF CallsOf, ResultsOf
<1>5. OneSided(t) /\ Asks(t) = <<>> /\ Answers(t) = Refers(done) /\ ~Remembers(t)
  BY <1>2, <1>3, <1>4, RefersEmpty DEF OneSided, Asks, Answers, Remembers
<1>6. QED
  BY <1>2, <1>5 DEF t

(* Contents of a model: nothing but its texts, calls and opaque items.     *)
ModelKinds == {"text", "blank", "call", "rewritten", "item"}
Spoken == Seq({b \in Blocks : b.kind \in ModelKinds})

LEMMA SpokenTurn ==
  ASSUME NEW content \in Spoken
  PROVE  /\ content \in Contents /\ ResultsOf(content) = <<>> /\ OfKind(content, {"memory"}) = <<>>
<1> DEFINE B == {b \in Blocks : b.kind \in ModelKinds}
<1>1. B \in SUBSET Blocks /\ \A b \in B : b.kind \notin ResultKinds /\ b.kind \notin {"memory"}
  BY DEF ModelKinds, ResultKinds
<1>2. content \in Seq(B)
  BY DEF Spoken
<1> HIDE DEF B
<1>3. content \in Contents
  BY <1>1, <1>2, SmallerSeq DEF Contents
<1>4. OfKind(content, ResultKinds) = <<>>
  BY <1>1, <1>2, KindNone
<1>5. OfKind(content, {"memory"}) = <<>>
  BY <1>1, <1>2, KindNone
<1>6. QED
  BY <1>3, <1>4, <1>5 DEF ResultsOf

LEMMA AssistantTurn ==
  ASSUME NEW content \in Contents, ResultsOf(content) = <<>>, OfKind(content, {"memory"}) = <<>>
  PROVE  LET t == Turn("assistant", content)
         IN /\ t \in Turns /\ OneSided(t) /\ Asks(t) = Refers(CallsOf(content)) /\ Answers(t) = <<>>
            /\ ~Remembers(t) /\ t.content = content
<1> DEFINE t == Turn("assistant", content)
<1>1. t \in Turns /\ t.content = content /\ t.role = "assistant"
  BY DEF Turn, Turns
<1> HIDE DEF t
<1>2. OneSided(t) /\ Asks(t) = Refers(CallsOf(content)) /\ Answers(t) = <<>> /\ ~Remembers(t)
  BY <1>1, RefersEmpty DEF OneSided, Asks, Answers, Remembers
<1>3. QED
  BY <1>1, <1>2 DEF t

LEMMA ReplySpoken ==
  ASSUME NEW n \in Nat, NEW shape \in Shapes
  PROVE  /\ Reply(n, shape) \in Spoken
         /\ DOMAIN Reply(n, shape) = DOMAIN shape
         /\ \A i \in DOMAIN shape : Reply(n, shape)[i].kind = shape[i]
<1> DEFINE B == {b \in Blocks : b.kind \in ModelKinds}
<1>1. shape \in Seq({"text", "blank", "call", "item"})
  BY ContextAssumption
<1>2. DOMAIN shape = 1..Len(shape) /\ Len(shape) \in Nat
      /\ \A i \in 1..Len(shape) : shape[i] \in {"text", "blank", "call", "item"}
  BY <1>1
<1>3. \A i \in 1..Len(shape) : Block(shape[i], n, i) \in B
  BY <1>2 DEF Block, Blocks, ModelKinds, Kinds
<1> HIDE DEF B
<1>4. Reply(n, shape) \in [1..Len(shape) -> B]
  BY <1>2, <1>3 DEF Reply
<1>5. Reply(n, shape) \in Seq(B)
  BY <1>2, <1>4
<1>6. \A i \in DOMAIN shape : Reply(n, shape)[i].kind = shape[i]
  BY DEF Reply, Block
<1>7. QED
  BY <1>5, <1>6 DEF Reply, Spoken, B

LEMMA NoCalls ==
  ASSUME NEW content \in Contents, ~HasKind(content, "call"), \A i \in DOMAIN content : content[i].kind # "rewritten"
  PROVE  CallsOf(content) = <<>>
<1> DEFINE B == {b \in Blocks : b.kind \notin CallKinds}
<1>1. Len(content) \in Nat /\ DOMAIN content = 1..Len(content) /\ content \in [1..Len(content) -> Blocks]
  BY LenProperties DEF Contents
<1>2. \A i \in 1..Len(content) : content[i] \in B
  BY <1>1 DEF HasKind, CallKinds
<1>3. \A b \in B : b.kind \notin CallKinds
  OBVIOUS
<1> HIDE DEF B
<1>4. content \in [1..Len(content) -> B]
  BY <1>1, <1>2
<1>5. content \in Seq(B)
  BY <1>1, <1>4
<1>6. QED
  BY <1>3, <1>5, KindNone DEF CallsOf

PartKinds == {"text", "call", "rewritten"}
Parts     == Seq({b \in Blocks : b.kind \in PartKinds})

LEMMA PartsSpoken ==
  ASSUME NEW content \in Contents, NEW rewritten \in BOOLEAN
  PROVE  PartsOf(content, rewritten) \in Parts /\ PartsOf(content, rewritten) \in Spoken
<1> DEFINE parts == OfKind(content, {"text", "call"})
           A == {b \in Blocks : b.kind \in {"text", "call"}}
           B == {b \in Blocks : b.kind \in PartKinds}
           M == {b \in Blocks : b.kind \in ModelKinds}
           Part(b) == IF rewritten /\ b.kind = "call" THEN [b EXCEPT !.kind = "rewritten"] ELSE b
<1>1. parts \in Seq(A)
  BY KindBlocks DEF Contents
<1>2. \A b \in A : Part(b) \in B
  <2> TAKE b \in A
  <2>1. b \in Blocks /\ b.kind \in {"text", "call"}
    OBVIOUS
  <2>2. [b EXCEPT !.kind = "rewritten"] \in Blocks /\ [b EXCEPT !.kind = "rewritten"].kind = "rewritten"
    BY <2>1 DEF Blocks, Kinds
  <2>3. QED
    BY <2>1, <2>2 DEF PartKinds
<1>3. PartsOf(content, rewritten) = [i \in DOMAIN parts |-> Part(parts[i])]
  BY DEF PartsOf
<1>0. B \in SUBSET M
  BY DEF PartKinds, ModelKinds
<1> HIDE DEF parts, A, B, M, Part
<1>4. Len(parts) \in Nat /\ DOMAIN parts = 1..Len(parts) /\ parts \in [1..Len(parts) -> A]
  BY <1>1, LenProperties
<1>5. \A i \in 1..Len(parts) : Part(parts[i]) \in B
  BY <1>2, <1>4
<1>6. PartsOf(content, rewritten) \in [1..Len(parts) -> B]
  BY <1>3, <1>4, <1>5
<1>7. PartsOf(content, rewritten) \in Seq(B)
  BY <1>4, <1>6
<1>8. QED
  BY <1>0, <1>7, SmallerSeq DEF Spoken, Parts, B, M

(* The reconciled message asks for what its parts ask for.                 *)
LEMMA ReconciledTurn ==
  ASSUME NEW reply \in Contents, NEW parts \in Spoken
  PROVE  /\ Reconciled(reply, parts) \in Contents
         /\ CallsOf(Reconciled(reply, parts)) = CallsOf(parts)
         /\ ResultsOf(Reconciled(reply, parts)) = <<>>
         /\ OfKind(Reconciled(reply, parts), {"memory"}) = <<>>
<1>1. parts \in Contents /\ ResultsOf(parts) = <<>> /\ OfKind(parts, {"memory"}) = <<>>
  BY SpokenTurn
<1>2. Reconciled(reply, parts) \in Contents
  BY <1>1, ReconciledTyped
<1>3. "item" \notin CallKinds /\ "item" \notin ResultKinds /\ "item" \notin {"memory"}
  BY DEF CallKinds, ResultKinds
<1>4. OfKind(Reconciled(reply, parts), CallKinds) = OfKind(parts, CallKinds)
  BY <1>1, <1>3, ReconciledKind DEF Contents
<1>5. OfKind(Reconciled(reply, parts), ResultKinds) = OfKind(parts, ResultKinds)
  BY <1>1, <1>3, ReconciledKind DEF Contents
<1>6. OfKind(Reconciled(reply, parts), {"memory"}) = OfKind(parts, {"memory"})
  BY <1>1, <1>3, ReconciledKind DEF Contents
<1>7. QED
  BY <1>1, <1>2, <1>4, <1>5, <1>6 DEF CallsOf, ResultsOf

LEMMA ToldTurn ==
  ASSUME NEW s \in Seq(Entry), NEW m \in 1..Messages, NEW parts \in Spoken
  PROVE  LET told == Told(s, m, parts)
         IN /\ told \in Contents /\ CallsOf(told) = CallsOf(parts)
            /\ ResultsOf(told) = <<>> /\ OfKind(told, {"memory"}) = <<>>
<1>1. parts \in Contents /\ ResultsOf(parts) = <<>> /\ OfKind(parts, {"memory"}) = <<>>
  BY SpokenTurn
<1>2. CASE Models(s)[m] = <<>>
  BY <1>1, <1>2 DEF Told
<1>3. CASE Models(s)[m] # <<>>
  <2>1. Models(s)[m] \in Seq(Contents)
    BY LoadedTyped, ReadingFields DEF Models
  <2>2. Head(Models(s)[m]) \in Contents
    BY <1>3, <2>1, HeadTailProperties
  <2>3. Without(Head(Models(s)[m]), "blank") \in Contents
    BY <2>2, KindContents DEF Without
  <2>4. Told(s, m, parts) = Reconciled(Without(Head(Models(s)[m]), "blank"), parts)
    BY <1>3 DEF Told, CommittedContent
  <2>5. QED
    BY <2>3, <2>4, ReconciledTurn
<1>4. QED
  BY <1>2, <1>3

-----------------------------------------------------------------------------
(* What a committed message is in both transcripts, but for the places of  *)
(* its opaque items.                                                       *)
(* The opaque items stay, in order.                                        *)
LEMMA ReconciledItems ==
  ASSUME NEW s \in Contents, NEW parts \in Parts
  PROVE  OfKind(Reconciled(s, parts), {"item"}) = OfKind(s, {"item"})
<1> DEFINE A == Blocks
           B == {b \in Blocks : b.kind \in PartKinds}
           items == {"item"}
           S == {t \in Seq(A) : /\ AllPlaced(t, parts).left \in Seq(B)
                                /\ OfKind(AllPlaced(t, parts).placed \o AllPlaced(t, parts).left, items)
                                     = OfKind(t, items)}
<1>0. parts \in Seq(B) /\ B \in SUBSET A /\ \A b \in B : b.kind \notin items
  BY DEF Parts, PartKinds
<1>1. <<>> \in S
  <2>1. AllPlaced(<<>>, parts).placed = <<>> /\ AllPlaced(<<>>, parts).left = parts
    BY PlaceNothing
  <2> HIDE DEF B, A, items
  <2>2. <<>> \o parts = parts /\ <<>> \in Seq(A)
    BY <1>0
  <2>3. OfKind(parts, items) = <<>> /\ OfKind(<<>>, items) = <<>>
    BY <1>0, KindNone, KindNothing
  <2>4. QED
    BY <1>0, <2>1, <2>2, <2>3
<1>2. ASSUME NEW t \in Seq(A), NEW e \in A, t \in S PROVE Append(t, e) \in S
  <2> DEFINE acc == AllPlaced(t, parts)
             more == Place(acc, e)
  <2>1. AllPlaced(Append(t, e), parts) = more /\ Append(t, e) \in Seq(A)
    BY PlaceOneMore
  <2>2. parts \in Seq(A)
    <3> HIDE DEF A, B
    <3>1. QED
      BY <1>0, SmallerSeq
  <2>3. acc \in [placed : Seq(A), left : Seq(A)]
    BY <2>2, PlaceType
  <2>4. acc.left \in Seq(B) /\ OfKind(acc.placed \o acc.left, items) = OfKind(t, items)
    BY <1>2
  <2>5. OfKind(Append(t, e), items) = Keep(OfKind(t, items), e, items)
    BY KindOneMore
  <2> HIDE DEF acc, B, A
  <2>6. CASE e.kind = "item"
    <3>1. more.placed = Append(acc.placed, e) /\ more.left = acc.left
      BY <2>3, <2>6 DEF Place
    <3>2. OfKind(Append(acc.placed, e), items) = Append(OfKind(acc.placed, items), e)
      BY <2>3, <2>6, KindOneMore DEF Keep
    <3> HIDE DEF more, items
    <3>3. more.placed \in Seq(A) /\ more.left \in Seq(A)
      BY <2>3, <3>1
    <3>4. OfKind(acc.left, items) = <<>>
      BY <1>0, <2>4, KindNone
    <3>5. /\ OfKind(more.placed \o more.left, items) = OfKind(more.placed, items) \o <<>>
          /\ OfKind(acc.placed \o acc.left, items) = OfKind(acc.placed, items) \o <<>>
      <4>1. OfKind(more.placed \o more.left, items) = OfKind(more.placed, items) \o OfKind(more.left, items)
        BY <3>3, KindConcat
      <4>2. OfKind(acc.placed \o acc.left, items) = OfKind(acc.placed, items) \o OfKind(acc.left, items)
        BY <2>3, KindConcat
      <4>3. QED
        BY <3>1, <3>4, <4>1, <4>2, Zenon
    <3>6. \A r \in Seq(A) : OfKind(r, items) \o <<>> = OfKind(r, items)
      <4>1. \A r \in Seq(A) : OfKind(r, items) \in Seq({b \in A : b.kind \in items})
        BY KindBlocks
      <4>2. QED
        BY <4>1
    <3>7. OfKind(more.placed \o more.left, items) = Append(OfKind(t, items), e)
      BY <2>3, <2>4, <3>1, <3>2, <3>3, <3>5, <3>6
    <3>8. Keep(OfKind(t, items), e, items) = Append(OfKind(t, items), e)
      BY <2>6 DEF Keep, items
    <3>9. QED
      BY <2>1, <2>4, <2>5, <3>1, <3>7, <3>8
  <2>7. CASE e.kind # "item"
    <3>1. more.placed \o more.left = acc.placed \o acc.left
      BY <2>3, <2>7, PlaceMoves
    <3>2. Keep(OfKind(t, items), e, items) = OfKind(t, items)
      BY <2>7 DEF Keep
    <3>3. more.left \in Seq(B)
      <4>1. CASE acc.left = <<>>
        BY <2>4, <2>7, <4>1 DEF Place
      <4>2. CASE acc.left # <<>>
        <5>1. more.left = Tail(acc.left)
          BY <2>7, <4>2 DEF Place
        <5>2. QED
          BY <2>4, <4>2, <5>1, HeadTailProperties
      <4>3. QED
        BY <4>1, <4>2
    <3> HIDE DEF more, items
    <3>4. QED
      BY <2>1, <2>4, <2>5, <3>1, <3>2, <3>3
  <2>8. QED
    BY <2>6, <2>7
<1>3. Seq(A) \subseteq S
  <2> HIDE DEF S
  <2>1. QED
    BY <1>1, <1>2, SequencesByInduction
<1>4. QED
  BY <1>3 DEF Reconciled, Contents

(* Apart from places, a message is its parts and the reply's items.        *)
LEMMA ReconciledParts ==
  ASSUME NEW s \in Contents, NEW parts \in Parts
  PROVE  LET c == Reconciled(s, parts)
         IN /\ c \in Contents /\ Without(c, "hint") = c
            /\ Without(c, "item") = parts
            /\ OfKind(c, {"item"}) = OfKind(s, {"item"})
            /\ c = <<>> <=> parts = <<>> /\ OfKind(s, {"item"}) = <<>>
<1> DEFINE c == Reconciled(s, parts)
           B == {b \in Blocks : b.kind \in PartKinds}
<1>1. /\ parts \in Seq(B) /\ B \in SUBSET Blocks
      /\ \A b \in B : b.kind \notin {"hint"} /\ b.kind \in Kinds \ {"item"}
  BY DEF Parts, PartKinds, Kinds
<1> HIDE DEF B
<1>2. parts \in Seq(Blocks)
  BY <1>1, SmallerSeq
<1>3. c \in Contents /\ c \in Seq(Blocks)
  BY <1>2, ReconciledTyped DEF Contents
<1>4. OfKind(c, {"hint"}) = OfKind(parts, {"hint"}) /\ OfKind(c, Kinds \ {"item"}) = OfKind(parts, Kinds \ {"item"})
  BY <1>2, ReconciledKind DEF Contents
<1>5. OfKind(parts, {"hint"}) = <<>> /\ OfKind(parts, Kinds \ {"item"}) = parts
  BY <1>1, KindNone, KindAll
<1>6. OfKind(c, {"item"}) = OfKind(s, {"item"})
  BY ReconciledItems
<1> HIDE DEF c
<1>7. Without(c, "hint") = c
  <2> DEFINE D == {b \in Blocks : b.kind \notin {"hint"}}
  <2>1. c \in Seq(D)
    BY <1>3, <1>4, <1>5, KindEmpty
  <2>2. \A b \in D : b.kind \in Kinds \ {"hint"}
    BY DEF Blocks
  <2> HIDE DEF D
  <2>3. OfKind(c, Kinds \ {"hint"}) = c
    BY <2>1, <2>2, KindAll
  <2>4. QED
    BY <2>3 DEF Without
<1>8. ASSUME parts = <<>>, OfKind(s, {"item"}) = <<>> PROVE c = <<>>
  <2> DEFINE D == {b \in Blocks : b.kind \notin Kinds \ {"item"}}
  <2>1. c \in Seq(D)
    BY <1>3, <1>4, <1>5, <1>8, KindEmpty
  <2>2. \A b \in D : b.kind \in {"item"}
    BY DEF Blocks
  <2> HIDE DEF D
  <2>3. OfKind(c, {"item"}) = c
    BY <2>1, <2>2, KindAll
  <2>4. QED
    BY <1>6, <1>8, <2>3
<1>9. ASSUME c = <<>> PROVE parts = <<>> /\ OfKind(s, {"item"}) = <<>>
  BY <1>4, <1>5, <1>6, <1>9, KindNothing
<1>10. QED
  BY <1>3, <1>4, <1>5, <1>6, <1>7, <1>8, <1>9 DEF Without, c

(* Two replies with the same opaque items, with the same parts.            *)
Unlike(t, u) ==
  \/ UnplacedTurn(BareTurn(t)) # UnplacedTurn(BareTurn(u))
  \/ (BareTurn(t).content = <<>>) # (BareTurn(u).content = <<>>)

LEMMA ReconciledAlike ==
  ASSUME NEW s \in Contents, NEW r \in Contents, NEW parts \in Parts, OfKind(s, {"item"}) = OfKind(r, {"item"})
  PROVE  ~Unlike(Turn("assistant", Reconciled(s, parts)), Turn("assistant", Reconciled(r, parts)))
<1> DEFINE c == Reconciled(s, parts)
           d == Reconciled(r, parts)
<1>1. /\ Without(c, "hint") = c /\ Without(c, "item") = parts /\ OfKind(c, {"item"}) = OfKind(s, {"item"})
      /\ c = <<>> <=> parts = <<>> /\ OfKind(s, {"item"}) = <<>>
  BY ReconciledParts
<1>2. /\ Without(d, "hint") = d /\ Without(d, "item") = parts /\ OfKind(d, {"item"}) = OfKind(r, {"item"})
      /\ d = <<>> <=> parts = <<>> /\ OfKind(r, {"item"}) = <<>>
  BY ReconciledParts
<1> HIDE DEF c, d
<1>3. \A x : Without(x, "hint") = x => BareTurn(Turn("assistant", x)) = Turn("assistant", x)
  BY DEF BareTurn, Turn
<1>4. \A x : UnplacedTurn(Turn("assistant", x)) = Turn("assistant", Without(x, "item") \o OfKind(x, {"item"}))
  <2> TAKE x
  <2> DEFINE w == Without(x, "item") \o OfKind(x, {"item"})
  <2>1. UnplacedTurn(Turn("assistant", x)) = [Turn("assistant", x) EXCEPT !.content = w]
    BY Zenon DEF UnplacedTurn, Turn
  <2> HIDE DEF w
  <2>2. UnplacedTurn(Turn("assistant", x)) = Turn("assistant", w)
    BY <2>1 DEF Turn
  <2>3. QED
    BY <2>2 DEF w
<1>5. \A x : Turn("assistant", x).content = x
  BY DEF Turn
<1>6. ~Unlike(Turn("assistant", c), Turn("assistant", d))
  BY <1>1, <1>2, <1>3, <1>4, <1>5 DEF Unlike
<1>7. QED
  BY <1>6 DEF c, d

-----------------------------------------------------------------------------
(* Two transcripts that agree as ContextReplays wants it.                  *)
Alike(ts, us, ordered) ==
  /\ Unplaced(Bare(ts)) = Unplaced(Bare(us))
  /\ ordered => Bare(ts) = Bare(us)

LEMMA BareTyped ==
  ASSUME NEW ts \in Seq(Turns)
  PROVE  Bare(ts) \in Seq(Turns)
<1> DEFINE S == {s \in Seq(Turns) : Bare(s) \in Seq(Turns)}
<1>1. <<>> \in S
  <2>1. <<>> \in Seq(Turns)
    OBVIOUS
  <2>2. QED
    BY <2>1, BareNothing
<1>2. ASSUME NEW s \in Seq(Turns), NEW t \in Turns, s \in S PROVE Append(s, t) \in S
  <2>1. Bare(Append(s, t)) = AddBare(Bare(s), t) /\ Append(s, t) \in Seq(Turns)
    BY BareOneMore
  <2>2. BareTurn(t) \in Turns
    BY KindContents DEF BareTurn, Turns, Without
  <2>3. AddBare(Bare(s), t) \in Seq(Turns)
    BY <1>2, <2>2 DEF AddBare
  <2>4. QED
    BY <2>1, <2>3
<1>3. Seq(Turns) \subseteq S
  <2> HIDE DEF S
  <2>1. QED
    BY <1>1, <1>2, SequencesByInduction
<1>4. QED
  BY <1>3

LEMMA UnplacedAppended ==
  ASSUME NEW A, NEW s \in Seq(A), NEW t \in A, NEW r \in Seq(A), NEW u \in A,
         Unplaced(s) = Unplaced(r), UnplacedTurn(t) = UnplacedTurn(u)
  PROVE  Unplaced(Append(s, t)) = Unplaced(Append(r, u))
<1>1. DOMAIN Unplaced(s) = DOMAIN s /\ DOMAIN Unplaced(r) = DOMAIN r
  BY DEF Unplaced
<1>2. Len(s) \in Nat /\ Len(r) \in Nat /\ DOMAIN s = 1..Len(s) /\ DOMAIN r = 1..Len(r)
  OBVIOUS
<1>3. Len(s) = Len(r)
  <2>1. \A m, n \in Nat : 1..m = 1..n => m = n
    <3>1. \A m, n \in Nat : m < n => n \in 1..n /\ n \notin 1..m
      OBVIOUS
    <3>2. QED
      BY <3>1
  <2>2. 1..Len(s) = 1..Len(r)
    BY <1>1, <1>2
  <2>3. QED
    BY <1>2, <2>1, <2>2
<1> DEFINE x == Append(s, t)
           y == Append(r, u)
           n == Len(s)
<1>4. /\ DOMAIN x = 1..(n + 1) /\ DOMAIN y = 1..(n + 1)
      /\ \A i \in 1..(n + 1) : x[i] = (IF i = n + 1 THEN t ELSE s[i]) /\ y[i] = (IF i = n + 1 THEN u ELSE r[i])
  BY <1>2, <1>3
<1>5. \A i \in 1..n : UnplacedTurn(s[i]) = UnplacedTurn(r[i])
  BY <1>2, <1>3, Zenon DEF Unplaced
<1> HIDE DEF x, y
<1>6. \A i \in 1..(n + 1) : UnplacedTurn(x[i]) = UnplacedTurn(y[i])
  BY <1>2, <1>4, <1>5
<1> HIDE DEF n
<1>7. [i \in DOMAIN x |-> UnplacedTurn(x[i])] = [i \in DOMAIN y |-> UnplacedTurn(y[i])]
  BY <1>4, <1>6
<1>8. QED
  BY <1>7 DEF Unplaced, x, y

LEMMA UnplacedBare ==
  ASSUME NEW ts \in Seq(Turns), NEW us \in Seq(Turns), NEW t \in Turns, NEW u \in Turns,
         Unplaced(Bare(ts)) = Unplaced(Bare(us)), ~Unlike(t, u)
  PROVE  Unplaced(Bare(Append(ts, t))) = Unplaced(Bare(Append(us, u)))
<1>1. Bare(Append(ts, t)) = AddBare(Bare(ts), t) /\ Bare(Append(us, u)) = AddBare(Bare(us), u)
  BY BareOneMore
<1>2. Bare(ts) \in Seq(Turns) /\ Bare(us) \in Seq(Turns)
  BY BareTyped
<1>3. BareTurn(t) \in Turns /\ BareTurn(u) \in Turns
  BY KindContents DEF BareTurn, Turns, Without
<1>4. UnplacedTurn(BareTurn(t)) = UnplacedTurn(BareTurn(u)) /\ (BareTurn(t).content = <<>> <=> BareTurn(u).content = <<>>)
  BY DEF Unlike
<1>5. CASE BareTurn(t).content = <<>>
  BY <1>1, <1>4, <1>5 DEF AddBare
<1>6. CASE BareTurn(t).content # <<>>
  <2>1. Bare(Append(ts, t)) = Append(Bare(ts), BareTurn(t)) /\ Bare(Append(us, u)) = Append(Bare(us), BareTurn(u))
    BY <1>1, <1>4, <1>6 DEF AddBare
  <2>2. QED
    BY <1>2, <1>3, <1>4, <2>1, UnplacedAppended
<1>7. QED
  BY <1>5, <1>6

LEMMA AlikeAppended ==
  ASSUME NEW ts \in Seq(Turns), NEW us \in Seq(Turns), NEW t \in Turns, NEW ordered, Alike(ts, us, ordered)
  PROVE  Alike(Append(ts, t), Append(us, t), ordered)
<1>1. ~Unlike(t, t)
  BY DEF Unlike
<1>2. Unplaced(Bare(Append(ts, t))) = Unplaced(Bare(Append(us, t)))
  BY <1>1, UnplacedBare DEF Alike
<1>3. Bare(Append(ts, t)) = AddBare(Bare(ts), t) /\ Bare(Append(us, t)) = AddBare(Bare(us), t)
  BY BareOneMore
<1>4. QED
  BY <1>2, <1>3 DEF Alike

(* Order may be found wanting later, and hints are no part of it.          *)
LEMMA AlikeKept ==
  ASSUME NEW ts, NEW us, NEW vs, NEW ordered, NEW less,
         Alike(ts, us, ordered), Bare(vs) = Bare(us), less => ordered
  PROVE  Alike(ts, vs, less)
BY DEF Alike

-----------------------------------------------------------------------------
(* What a hint and a compaction leave of a transcript.                     *)
LEMMA FrontLast ==
  ASSUME NEW A, NEW s \in Seq(A), s # <<>>
  PROVE  /\ Front(s) \in Seq(A) /\ Last(s) \in A /\ s = Append(Front(s), Last(s))
         /\ Len(s) = Len(Front(s)) + 1
<1>1. Len(s) \in Nat /\ Len(s) # 0
  OBVIOUS
<1> DEFINE n == Len(s) - 1
<1>2. n \in Nat /\ Len(s) = n + 1 /\ n + 1 \in 1..Len(s)
  BY <1>1
<1> HIDE DEF n
<1> DEFINE t == SubSeq(s, 1, n)
<1>3. t \in Seq(A) /\ Len(t) = n /\ s[n + 1] \in A /\ s = Append(t, s[n + 1])
  BY <1>2
<1>4. Front(s) = t /\ Last(s) = s[n + 1]
  BY <1>2 DEF Front, Last, n
<1> HIDE DEF t
<1>5. QED
  BY <1>2, <1>3, <1>4

Hinted(ts, b) ==
  IF Last(ts).role = "user" THEN [ts EXCEPT ![Len(ts)].content = Append(@, b)]
  ELSE Append(ts, Turn("user", <<b>>))

LEMMA AddBareSame ==
  ASSUME NEW bare, NEW t, NEW u, BareTurn(t) = BareTurn(u)
  PROVE  AddBare(bare, t) = AddBare(bare, u)
BY DEF AddBare

LEMMA BareSame ==
  ASSUME NEW role, NEW c, NEW d, Without(c, "hint") = Without(d, "hint")
  PROVE  BareTurn(Turn(role, c)) = BareTurn(Turn(role, d))
<1>1. BareTurn(Turn(role, c)) = [role |-> role, content |-> Without(c, "hint")]
  BY DEF BareTurn, Turn
<1>2. BareTurn(Turn(role, d)) = [role |-> role, content |-> Without(d, "hint")]
  BY DEF BareTurn, Turn
<1>3. QED
  BY <1>1, <1>2

LEMMA KindSkips ==
  ASSUME NEW A, NEW s \in Seq(A), NEW b \in A, NEW kinds, b.kind \notin kinds
  PROVE  OfKind(Append(s, b), kinds) = OfKind(s, kinds)
<1>1. OfKind(Append(s, b), kinds) = Keep(OfKind(s, kinds), b, kinds)
  BY KindOneMore
<1>2. QED
  BY <1>1 DEF Keep

LEMMA TurnParts ==
  ASSUME NEW t \in Turns
  PROVE  t = Turn(t.role, t.content) /\ t.content \in Contents /\ t.role \in {"user", "assistant"}
BY DEF Turn, Turns

LEMMA LastChanged ==
  ASSUME NEW A, NEW s \in Seq(A), NEW e \in A, NEW f \in A
  PROVE  [Append(s, e) EXCEPT ![Len(s) + 1] = f] = Append(s, f)
<1> DEFINE t == Append(s, e)
           u == [t EXCEPT ![Len(s) + 1] = f]
           v == Append(s, f)
<1>1. t \in Seq(A) /\ Len(t) = Len(s) + 1 /\ Len(s) \in Nat /\ v \in Seq(A) /\ Len(v) = Len(s) + 1
      /\ \A i \in 1..(Len(s) + 1) : t[i] = (IF i = Len(s) + 1 THEN e ELSE s[i])
                                    /\ v[i] = (IF i = Len(s) + 1 THEN f ELSE s[i])
  OBVIOUS
<1>2. Len(s) + 1 \in 1..Len(t)
  BY <1>1
<1> HIDE DEF t, v
<1>3. u \in Seq(A) /\ Len(u) = Len(t) /\ \A i \in 1..Len(t) : u[i] = IF i = Len(s) + 1 THEN f ELSE t[i]
  BY <1>1, <1>2, ExceptSeq
<1> HIDE DEF u
<1>4. \A i \in 1..Len(u) : u[i] = v[i]
  BY <1>1, <1>3
<1>5. u = v
  BY <1>1, <1>3, <1>4, SeqEqual
<1>6. QED
  BY <1>5 DEF t, u, v

LEMMA HintHarmless ==
  ASSUME NEW ts \in Seq(Turns), ts # <<>>, Open(ts, <<>>), NEW b \in Blocks, b.kind = "hint"
  PROVE  /\ Hinted(ts, b) \in Seq(Turns) /\ Hinted(ts, b) # <<>>
         /\ Open(Hinted(ts, b), <<>>)
         /\ Bare(Hinted(ts, b)) = Bare(ts)
<1> DEFINE front == Front(ts)
           last == Last(ts)
           longer == Turn(last.role, Append(last.content, b))
           own == Turn("user", <<b>>)
<1>1. front \in Seq(Turns) /\ last \in Turns /\ ts = Append(front, last) /\ Len(ts) = Len(front) + 1
  BY FrontLast
<1>2. last = Turn(last.role, last.content) /\ last.content \in Contents /\ last.role \in {"user", "assistant"}
  BY <1>1, TurnParts
<1> HIDE DEF front, last
<1>3. CASE last.role = "user"
  <2>1. Append(last.content, b) \in Contents
    BY <1>2 DEF Contents
  <2>2. longer \in Turns /\ longer.role = last.role /\ longer.content = Append(last.content, b)
    BY <1>2, <2>1 DEF Turn, Turns
  <2>3. Hinted(ts, b) = Append(front, longer)
    <3>1. Hinted(ts, b) = [ts EXCEPT ![Len(ts)].content = Append(@, b)]
      BY <1>3 DEF Hinted, last
    <3>2. ts[Len(ts)] = last
      BY DEF last, Last
    <3>3. [last EXCEPT !.content = Append(@, b)] = longer
      <4> DEFINE c == Append(last.content, b)
      <4>1. [last EXCEPT !.content = Append(@, b)] = [last EXCEPT !.content = c]
        OBVIOUS
      <4> HIDE DEF c
      <4>2. [last EXCEPT !.content = c] = Turn(last.role, c)
        BY <1>1 DEF Turn, Turns
      <4>3. QED
        BY <4>1, <4>2 DEF c
    <3>4. [ts EXCEPT ![Len(ts)].content = Append(@, b)] = [ts EXCEPT ![Len(ts)] = longer]
      BY <3>2, <3>3
    <3> HIDE DEF longer
    <3>5. [Append(front, last) EXCEPT ![Len(front) + 1] = longer] = Append(front, longer)
      BY <1>1, <2>2, LastChanged
    <3>6. QED
      BY <1>1, <3>1, <3>4, <3>5
  <2> HIDE DEF longer
  <2>4. \A kinds : "hint" \notin kinds => OfKind(longer.content, kinds) = OfKind(last.content, kinds)
    BY <1>2, <2>2, KindSkips DEF Contents
  <2>5. Append(front, longer) \in Seq(Turns) /\ Append(front, longer) # <<>>
    BY <1>1, <2>2
  <2>6. Open(Append(front, longer), <<>>)
    <3> DEFINE us == Append(front, longer)
    <3>1. Len(us) = Len(ts) /\ DOMAIN ts = 1..(Len(front) + 1) /\ Len(front) \in Nat
          /\ \A i \in 1..(Len(front) + 1) : us[i] = IF i = Len(front) + 1 THEN longer ELSE ts[i]
      BY <1>1, <2>2
    <3>2. ts[Len(front) + 1] = last
      BY <1>1
    <3>3. /\ CallsOf(longer.content) = CallsOf(last.content)
          /\ ResultsOf(longer.content) = ResultsOf(last.content)
          /\ OfKind(longer.content, {"memory"}) = OfKind(last.content, {"memory"})
      BY <2>4 DEF CallsOf, ResultsOf, CallKinds, ResultKinds
    <3> HIDE DEF us
    <3>4. \A i \in DOMAIN ts :
           /\ us[i].role = ts[i].role
           /\ CallsOf(us[i].content) = CallsOf(ts[i].content)
           /\ ResultsOf(us[i].content) = ResultsOf(ts[i].content)
           /\ OfKind(us[i].content, {"memory"}) = OfKind(ts[i].content, {"memory"})
      BY <2>2, <3>1, <3>2, <3>3
    <3>5. us \in Seq(Turns)
      BY <2>5 DEF us
    <3>6. Open(us, <<>>)
      BY <3>1, <3>4, <3>5, OpenAlike
    <3>7. QED
      BY <3>6 DEF us
  <2>7. Bare(Append(front, longer)) = Bare(ts)
    <3>1. Without(longer.content, "hint") = Without(last.content, "hint")
      BY <2>4 DEF Without
    <3>2. longer = Turn(last.role, longer.content)
      BY <2>2 DEF longer
    <3>3. BareTurn(Turn(last.role, longer.content)) = BareTurn(Turn(last.role, last.content))
      BY <3>1, BareSame
    <3>4. BareTurn(longer) = BareTurn(last)
      BY <1>2, <3>2, <3>3
    <3>5. Bare(Append(front, longer)) = AddBare(Bare(front), longer)
      BY <1>1, <2>2, BareOneMore
    <3>6. Bare(Append(front, last)) = AddBare(Bare(front), last)
      BY <1>1, BareOneMore
    <3>7. QED
      BY <1>1, <3>4, <3>5, <3>6, AddBareSame
  <2>8. QED
    BY <2>3, <2>5, <2>6, <2>7
<1>4. CASE last.role # "user"
  <2>1. Hinted(ts, b) = Append(ts, own)
    BY <1>4 DEF Hinted, last
  <2>2. own \in Turns /\ Plain(own) /\ ~Remembers(own) /\ own.role = "user"
    BY PlainSingle DEF CallKinds, ResultKinds
  <2>3. Without(own.content, "hint") = <<>>
    <3>1. own.content = <<b>>
      BY DEF Turn
    <3>2. OfKind(<<b>>, Kinds \ {"hint"}) = <<>>
      BY KindSingle
    <3>3. QED
      BY <3>1, <3>2 DEF Without
  <2> HIDE DEF own
  <2>4. OneSided(own) /\ Asks(own) = <<>> /\ Answers(own) = <<>>
    BY <2>2, PlainTurn
  <2>5. Open(Append(ts, own), <<>>)
    <3>1. Open(Append(ts, own), Asks(own))
      BY <2>2, <2>4, OpenAppended
    <3>2. QED
      BY <2>4, <3>1
  <2>6. Append(ts, own) \in Seq(Turns) /\ Append(ts, own) # <<>>
    BY <2>2
  <2>7. Bare(Append(ts, own)) = Bare(ts)
    <3>1. Bare(Append(ts, own)) = AddBare(Bare(ts), own)
      BY <2>2, BareOneMore
    <3>2. BareTurn(own).content = <<>>
      BY <2>2, <2>3 DEF BareTurn, Turns
    <3>3. QED
      BY <3>1, <3>2 DEF AddBare
  <2>8. QED
    BY <2>1, <2>5, <2>6, <2>7
<1>5. QED
  BY <1>3, <1>4

-----------------------------------------------------------------------------
Summed(ts, start, summary, memory) ==
  <<WithoutMemory(Head(ts)), Turn("user", <<summary, memory>>)>> \o SubSeq(ts, start, Len(ts))

LEMMA WithoutMemoryTurn ==
  ASSUME NEW t \in Turns
  PROVE  LET u == WithoutMemory(t)
         IN /\ u \in Turns /\ u.role = t.role /\ ~Remembers(u)
            /\ CallsOf(u.content) = CallsOf(t.content) /\ ResultsOf(u.content) = ResultsOf(t.content)
<1> DEFINE c == t.content
           d == Without(c, "memory")
           u == WithoutMemory(t)
           B == {b \in Blocks : b.kind \in Kinds \ {"memory"}}
<1>1. c \in Contents
  BY TurnParts
<1>2. d \in Contents
  BY <1>1, KindContents DEF Without
<1> HIDE DEF c
<1>3. OfKind(d, CallKinds) = OfKind(c, CallKinds) /\ OfKind(d, ResultKinds) = OfKind(c, ResultKinds)
  <2>1. CallKinds \in SUBSET (Kinds \ {"memory"}) /\ ResultKinds \in SUBSET (Kinds \ {"memory"})
    BY DEF Kinds, CallKinds, ResultKinds
  <2>2. QED
    BY <1>1, <2>1, KindWithin DEF Without, Contents
<1>4. OfKind(d, {"memory"}) = <<>>
  <2>1. d \in Seq(B)
    BY <1>1, KindBlocks DEF Without, Contents
  <2>2. \A b \in B : b.kind \notin {"memory"}
    OBVIOUS
  <2> HIDE DEF B, d
  <2>3. QED
    BY <2>1, <2>2, KindNone
<1>5. u = [t EXCEPT !.content = d]
  BY DEF WithoutMemory, c
<1> HIDE DEF d, u
<1>6. u \in Turns /\ u.role = t.role /\ u.content = d
  BY <1>2, <1>5 DEF Turns
<1>7. QED
  BY <1>3, <1>4, <1>6 DEF u, c, Remembers, CallsOf, ResultsOf

LEMMA SummedOpen ==
  ASSUME NEW ts \in Seq(Turns), NEW owed, Open(ts, owed), NEW start \in 3..Len(ts), Answers(ts[start]) = <<>>,
         NEW summary \in Blocks, summary.kind = "summary", NEW memory \in Blocks, memory.kind = "memory"
  PROVE  /\ Summed(ts, start, summary, memory) \in Seq(Turns)
         /\ Summed(ts, start, summary, memory) # <<>>
         /\ Open(Summed(ts, start, summary, memory), owed)
<1> DEFINE first == WithoutMemory(Head(ts))
           second == Turn("user", <<summary, memory>>)
           kept == SubSeq(ts, start, Len(ts))
           k == Len(ts) - start + 1
           us == Summed(ts, start, summary, memory)
<1>1. Len(ts) \in Nat /\ start \in Nat /\ 3 <= start /\ start <= Len(ts) /\ DOMAIN ts = 1..Len(ts) /\ ts # <<>>
  OBVIOUS
<1>2. Head(ts) = ts[1] /\ ts[1] \in Turns
  BY <1>1
<1>3. ts[1].role = "user" /\ ResultsOf(ts[1].content) = <<>> /\ CallsOf(ts[1].content) = <<>>
      /\ Asks(ts[Len(ts)]) = owed
  <2>1. 1 \in DOMAIN ts
    BY <1>1
  <2>2. OneSided(ts[1]) /\ ts[1].role = "user" /\ ResultsOf(ts[1].content) = <<>> /\ Asks(ts[Len(ts)]) = owed
    BY <1>1, <2>1 DEF Open
  <2>3. QED
    BY <2>2 DEF OneSided
<1>4. first \in Turns /\ first.role = "user" /\ Plain(first) /\ ~Remembers(first)
  BY <1>2, <1>3, WithoutMemoryTurn DEF Plain
<1>5. second \in Turns /\ second.role = "user" /\ Plain(second)
  <2>1. <<summary, memory>> \in Contents
    BY DEF Contents
  <2>2. second \in Turns /\ second.role = "user" /\ second.content = <<summary, memory>>
    BY <2>1 DEF Turn, Turns
  <2>3. /\ OfKind(<<summary, memory>>, CallKinds) = OfKind(<<memory>>, CallKinds)
        /\ OfKind(<<summary, memory>>, ResultKinds) = OfKind(<<memory>>, ResultKinds)
    BY KindPair DEF CallKinds, ResultKinds
  <2>4. OfKind(<<memory>>, CallKinds) = <<>> /\ OfKind(<<memory>>, ResultKinds) = <<>>
    BY KindSingle DEF CallKinds, ResultKinds
  <2> HIDE DEF second
  <2>5. QED
    BY <2>2, <2>3, <2>4 DEF Plain, CallsOf, ResultsOf
<1>6. kept \in Seq(Turns) /\ Len(kept) = k /\ k \in Nat /\ k >= 1 /\ \A i \in 1..k : kept[i] = ts[start + i - 1]
  <2>1. \A i \in start..Len(ts) : ts[i] \in Turns
    BY <1>1
  <2>2. /\ SubSeq(ts, start, Len(ts)) \in Seq(Turns)
        /\ Len(SubSeq(ts, start, Len(ts))) = IF start <= Len(ts) THEN Len(ts) - start + 1 ELSE 0
        /\ \A i \in 1..(Len(ts) - start + 1) : SubSeq(ts, start, Len(ts))[i] = ts[start + i - 1]
    BY <1>1, <2>1, SubSeqProperties
  <2>3. QED
    BY <1>1, <2>2
<1>7. us = <<first, second>> \o kept
  BY DEF Summed
<1> HIDE DEF first, second, kept, k, us
<1>8. /\ us \in Seq(Turns) /\ Len(us) = k + 2 /\ us[1] = first /\ us[2] = second
      /\ \A i \in 3..(k + 2) : us[i] = ts[start + i - 3]
  <2>1. <<first, second>> \in Seq(Turns) /\ Len(<<first, second>>) = 2
        /\ <<first, second>>[1] = first /\ <<first, second>>[2] = second
    BY <1>4, <1>5
  <2> DEFINE two == <<first, second>>
  <2> HIDE DEF two
  <2>2. two \in Seq(Turns) /\ Len(two) = 2 /\ two[1] = first /\ two[2] = second
    BY <2>1 DEF two
  <2>3. /\ two \o kept \in Seq(Turns) /\ Len(two \o kept) = 2 + k
        /\ \A i \in 1..(2 + k) : (two \o kept)[i] = IF i <= 2 THEN two[i] ELSE kept[i - 2]
    <3>1. kept \in Seq(Turns) /\ Len(kept) = k
      BY <1>6
    <3>2. /\ two \o kept \in Seq(Turns) /\ Len(two \o kept) = Len(two) + Len(kept)
          /\ \A i \in 1..(Len(two) + Len(kept)) :
               (two \o kept)[i] = IF i <= Len(two) THEN two[i] ELSE kept[i - Len(two)]
      BY <2>2, <3>1, ConcatProperties
    <3>3. QED
      BY <2>2, <3>1, <3>2
  <2>4. us = two \o kept
    BY <1>7 DEF two
  <2>5. ASSUME NEW i \in 3..(k + 2) PROVE us[i] = ts[start + i - 3]
    <3>1. i - 2 \in 1..k /\ i \in 1..(2 + k) /\ ~(i <= 2) /\ start + (i - 2) - 1 = start + i - 3
      BY <1>1, <1>6
    <3>2. kept[i - 2] = ts[start + (i - 2) - 1]
      BY <1>6, <3>1
    <3>3. QED
      BY <2>3, <2>4, <3>1, <3>2
  <2>6. QED
    BY <1>6, <2>2, <2>3, <2>4, <2>5
<1>9. DOMAIN us = 1..(k + 2) /\ us # <<>>
  BY <1>6, <1>8
<1>10. \A i \in 3..(k + 2) : /\ start + i - 3 \in DOMAIN ts /\ start + i - 3 > 2
                             /\ i > 3 => start + (i - 1) - 3 = (start + i - 3) - 1 /\ i - 1 \in 3..(k + 2)
  BY <1>1, <1>6 DEF k
<1>11. Asks(us[k + 2]) = owed
  <2>1. k + 2 \in 3..(k + 2) /\ start + (k + 2) - 3 = Len(ts)
    BY <1>1, <1>6 DEF k
  <2>2. QED
    BY <1>3, <1>8, <2>1
<1>12. OneSided(first) /\ OneSided(second) /\ Asks(first) = <<>> /\ Asks(second) = <<>> /\ Answers(second) = <<>>
  BY <1>4, <1>5, PlainTurn
<1>13. \A i \in DOMAIN us : i = 1 \/ i = 2 \/ i \in 3..(k + 2)
  BY <1>6, <1>9
<1>14. ASSUME NEW i \in DOMAIN us PROVE OneSided(us[i])
  <2>1. CASE i \in 3..(k + 2)
    BY <1>8, <1>10, <2>1 DEF Open
  <2>2. QED
    BY <1>8, <1>12, <1>13, <2>1
<1>15. ASSUME NEW i \in DOMAIN us, i > 1 PROVE Answers(us[i]) = Asks(us[i - 1])
  <2>1. CASE i = 2
    BY <1>8, <1>12, <2>1
  <2>2. CASE i = 3
    <3>1. us[3] = ts[start] /\ us[i - 1] = second
      BY <1>1, <1>8, <1>13, <2>2
    <3>2. QED
      BY <1>12, <2>2, <3>1
  <2>3. CASE i \in 3..(k + 2) /\ i > 3
    <3> DEFINE j == start + i - 3
    <3>1. j \in DOMAIN ts /\ j > 2 /\ us[i] = ts[j] /\ us[i - 1] = ts[j - 1]
      BY <1>8, <1>10, <2>3
    <3> HIDE DEF j
    <3>2. j > 1
      BY <1>1, <3>1
    <3>3. Answers(ts[j]) = Asks(ts[j - 1])
      BY <3>1, <3>2 DEF Open
    <3>4. QED
      BY <3>1, <3>3
  <2>4. QED
    BY <1>13, <1>15, <2>1, <2>2, <2>3
<1>16. ASSUME NEW i \in DOMAIN us, Remembers(us[i]) PROVE i <= 2
  <2>1. ASSUME i \in 3..(k + 2) PROVE FALSE
    <3> DEFINE j == start + i - 3
    <3>1. j \in DOMAIN ts /\ j > 2 /\ us[i] = ts[j]
      BY <1>8, <1>10, <2>1
    <3> HIDE DEF j
    <3>2. j <= 2
      BY <1>16, <3>1 DEF Open
    <3>3. QED
      BY <1>1, <3>1, <3>2
  <2>2. QED
    BY <1>13, <2>1
<1>17. Len(us) = k + 2
  BY <1>8
<1>18. us[1].role = "user" /\ ResultsOf(us[1].content) = <<>> /\ ~Remembers(us[1])
  BY <1>4, <1>8 DEF Plain
<1>19. Open(us, owed)
  BY <1>9, <1>11, <1>14, <1>15, <1>16, <1>17, <1>18 DEF Open
<1>20. QED
  BY <1>8, <1>9, <1>19 DEF us

(* The first turn retained answers nothing: the boundary moves back over   *)
(* one turn of results, and the turn before it called.                     *)
LEMMA BoundaryBetween ==
  ASSUME NEW ts \in Seq(Turns), NEW owed, Open(ts, owed), NEW n \in Nat \ {0},
         LET start == Len(ts) - n + 1
         IN (IF start > 2 /\ ResultsOf(ts[start].content) # <<>> THEN start - 1 ELSE start) > 2
  PROVE  LET start == Len(ts) - n + 1
             from  == IF start > 2 /\ ResultsOf(ts[start].content) # <<>> THEN start - 1 ELSE start
         IN from \in 3..Len(ts) /\ Answers(ts[from]) = <<>>
<1> DEFINE start == Len(ts) - n + 1
<1>1. Len(ts) \in Nat /\ start \in Int /\ start <= Len(ts) /\ DOMAIN ts = 1..Len(ts)
  OBVIOUS
<1>2. start > 2
  <2>1. (IF start > 2 /\ ResultsOf(ts[start].content) # <<>> THEN start - 1 ELSE start) > 2
    OBVIOUS
  <2> HIDE DEF start
  <2>2. QED
    BY <1>1, <2>1
<1> SUFFICES LET from == IF start > 2 /\ ResultsOf(ts[start].content) # <<>> THEN start - 1 ELSE start
             IN from \in 3..Len(ts) /\ Answers(ts[from]) = <<>>
  OBVIOUS
<1>0. (IF start > 2 /\ ResultsOf(ts[start].content) # <<>> THEN start - 1 ELSE start) > 2
  OBVIOUS
<1> HIDE DEF start
<1>3. CASE ResultsOf(ts[start].content) # <<>>
  <2>1. start - 1 > 2
    BY <1>0, <1>2, <1>3
  <2>2. start \in DOMAIN ts /\ start - 1 \in DOMAIN ts /\ start > 1
    BY <1>1, <2>1
  <2>3. Answers(ts[start]) = Asks(ts[start - 1])
    BY <2>2 DEF Open
  <2>4. ts[start] \in Turns
    BY <2>2
  <2>5. ResultsOf(ts[start].content) \in Contents
    BY <2>4, TurnParts, KindContents DEF ResultsOf
  <2>6. Answers(ts[start]) # <<>>
    BY <1>3, <2>5, RefersEmpty DEF Answers, Contents
  <2>7. CallsOf(ts[start - 1].content) # <<>>
    BY <2>3, <2>6, RefersEmpty DEF Asks
  <2>8. ResultsOf(ts[start - 1].content) = <<>>
    BY <2>2, <2>7 DEF Open, OneSided
  <2>9. Answers(ts[start - 1]) = <<>>
    BY <2>8, RefersEmpty DEF Answers
  <2>10. QED
    BY <1>1, <1>2, <1>3, <2>1, <2>9
<1>4. CASE ResultsOf(ts[start].content) = <<>>
  <2>1. Answers(ts[start]) = <<>>
    BY <1>4, RefersEmpty DEF Answers
  <2>2. QED
    BY <1>1, <1>2, <1>4, <2>1
<1>5. QED
  BY <1>3, <1>4

-----------------------------------------------------------------------------
(* How many entries of a type there are.                                   *)
HowMany(s, type) == Cardinality({i \in DOMAIN s : s[i].type = type})

LEMMA CountIs == \A type : Count(type) = HowMany(log, type)
BY DEF Count, HowMany

LEMMA OneMoreOf ==
  ASSUME NEW s \in Seq(Entry), NEW e \in Entry, NEW type
  PROVE  /\ HowMany(s, type) \in Nat
         /\ HowMany(Append(s, e), type) = HowMany(s, type) + (IF e.type = type THEN 1 ELSE 0)
<1> DEFINE t == Append(s, e)
           S == {i \in DOMAIN s : s[i].type = type}
           T == {i \in DOMAIN t : t[i].type = type}
<1>1. Len(s) \in Nat /\ DOMAIN s = 1..Len(s) /\ DOMAIN t = 1..(Len(s) + 1)
      /\ t[Len(s) + 1] = e /\ \A i \in 1..Len(s) : t[i] = s[i]
  OBVIOUS
<1>2. IsFiniteSet(1..Len(s))
  BY <1>1, FS_Interval
<1>3. IsFiniteSet(S)
  <2>1. S \subseteq 1..Len(s)
    BY <1>1
  <2>2. QED
    BY <1>2, <2>1, FS_Subset
<1>4. Cardinality(S) \in Nat
  BY <1>3, FS_CardinalityType
<1> HIDE DEF t
<1>5. T = IF e.type = type THEN S \cup {Len(s) + 1} ELSE S
  <2>1. ASSUME NEW i PROVE i \in T <=> i \in S \/ (i = Len(s) + 1 /\ e.type = type)
    BY <1>1
  <2> HIDE DEF S, T
  <2>2. QED
    BY <2>1
<1>6. Len(s) + 1 \notin S
  BY <1>1
<1>7. Cardinality(S \cup {Len(s) + 1}) = Cardinality(S) + 1
  <2> HIDE DEF S
  <2>1. QED
    BY <1>3, <1>6, FS_AddElement
<1>8. HowMany(t, type) = Cardinality(T) /\ HowMany(s, type) = Cardinality(S)
  BY DEF HowMany
<1> HIDE DEF S, T
<1>9. QED
  BY <1>4, <1>5, <1>7, <1>8 DEF t

LEMMA HowManyNat == \A s \in Seq(Entry) : \A type : HowMany(s, type) \in Nat
<1> SUFFICES ASSUME NEW s \in Seq(Entry), NEW type PROVE HowMany(s, type) \in Nat
  OBVIOUS
<1> DEFINE S == {i \in DOMAIN s : s[i].type = type}
<1>1. S \subseteq 1..Len(s) /\ Len(s) \in Nat
  OBVIOUS
<1> HIDE DEF S
<1>2. IsFiniteSet(S)
  <2>1. IsFiniteSet(1..Len(s))
    BY <1>1, FS_Interval
  <2>2. QED
    BY <1>1, <2>1, FS_Subset
<1>3. Cardinality(S) \in Nat
  BY <1>2, FS_CardinalityType
<1>4. QED
  BY <1>3 DEF S, HowMany

-----------------------------------------------------------------------------
(* The inductive invariant.                                                *)
Requests == Seq({b \in Blocks : b.kind \in CallKinds})
Replied  == {"calls", "answer", "empty"}
Phases   == {"idle", "claimed", "turn", "ask", "send", "run"} \cup Replied

TypesInv ==
  /\ log \in Seq(Entry) /\ turns \in Seq(Turns) /\ pending \in Results /\ requested \in Requests
  /\ message \in 0..Messages /\ phase \in Phases /\ turn \in Nat
  /\ message = 0 <=> phase = "idle"
  /\ phase \notin {"turn", "run"} => pending = <<>>
  /\ phase # "run" => requested = <<>>
  /\ phase \notin {"idle", "claimed"} => turns # <<>>

(* Messages are admitted in order, and only an admitted one has replies.   *)
AdmittedInv ==
  /\ HowMany(log, "input.accepted") <= Messages
  /\ message <= HowMany(log, "input.admitted")
  /\ message # 0 => message \in AdmittedBy(log)
  /\ \A m \in 1..Messages : m > HowMany(log, "input.admitted") => Models(log)[m] = <<>>

(* Between runs the context has no call that waits for its result, and a   *)
(* claim adds the message to the context the brain starts from.            *)
StartInv ==
  /\ phase = "idle" => Open(Context(log), <<>>)
  /\ phase = "claimed" =>
       /\ Open(turns, <<>>)
       /\ Context(log) = Append(turns, InputTurn(message))
       /\ Loaded(log).tail # <<>>
       /\ Loaded(log).index[message] = Len(Loaded(log).tail)
       /\ Models(log)[message] = <<>>

Owed == Refers(pending) \o Refers(requested)

(* The brain owes its calls' results; its last reply may have calls that   *)
(* are not committed yet.                                                  *)
BrainInv ==
  phase \notin {"idle", "claimed"} =>
    /\ phase # "calls" => Open(turns, Owed)
    /\ phase \in Replied =>
         /\ Front(turns) # <<>>
         /\ Last(turns) = Turn("assistant", Last(turns).content)
         /\ Last(turns).content \in Spoken
         /\ phase = "calls" => Open(Front(turns), <<>>)

BaseOf(s, done) == IF done = <<>> THEN Context(s) ELSE Front(Context(s))

Recorded == IF phase \in Replied THEN Front(turns) ELSE turns

(* The log owes the same results, in a context that, bare of hints, agrees *)
(* with the brain's; the reply that has no message yet waits for it.       *)
LogInv ==
  phase \notin {"idle", "claimed"} =>
    /\ LET base == BaseOf(log, pending)
       IN /\ base # <<>> /\ Telling(log, base, pending) /\ Open(base, Owed)
          /\ ~continued => Alike(base, Recorded, InOrder)
    /\ ~continued => Models(log)[message] = IF phase \in Replied THEN <<Last(turns).content>> ELSE <<>>
    /\ InOrder /\ phase = "calls" => BlanksLast(Last(turns).content)

ContextInv == TypesInv /\ AdmittedInv /\ StartInv /\ BrainInv /\ LogInv

LEMMA BaseTyped ==
  ASSUME NEW s \in Seq(Entry), NEW done
  PROVE  BaseOf(s, done) # <<>> => BaseOf(s, done) \in Seq(Turns)
<1>1. Context(s) \in Seq(Turns)
  BY LoadedTyped
<1>2. CASE Context(s) # <<>>
  BY <1>1, <1>2, FrontLast DEF BaseOf
<1>3. CASE Context(s) = <<>>
  <2>1. Front(<<>>) = <<>>
    BY DEF Front
  <2>2. QED
    BY <1>3, <2>1 DEF BaseOf
<1>4. QED
  BY <1>2, <1>3

LEMMA BaseIs ==
  ASSUME NEW s \in Seq(Entry), NEW base \in Seq(Turns), NEW done \in Results, Telling(s, base, done)
  PROVE  BaseOf(s, done) = base
<1>1. CASE done = <<>>
  BY <1>1 DEF Telling, BaseOf
<1>2. CASE done # <<>>
  <2>1. Context(s) = Append(base, Turn("user", done)) /\ Turn("user", done) \in Turns
    BY <1>2, ResultsTurn DEF Telling
  <2>2. Front(Append(base, Turn("user", done))) = base
    BY <2>1, LastAppended
  <2>3. QED
    BY <1>2, <2>1, <2>2 DEF BaseOf
<1>3. QED
  BY <1>1, <1>2

-----------------------------------------------------------------------------
(* The invariant gives both properties.                                    *)
LEMMA BrainAccepted == ContextInv => RequestAccepted
<1> SUFFICES ASSUME ContextInv, phase \in {"ask", "send"} PROVE
      /\ turns[1].role = "user"
      /\ \A i \in DOMAIN turns :
           LET calls == CallsOf(turns[i].content)
               answers == IF i = Len(turns) THEN <<>> ELSE ResultsOf(turns[i + 1].content)
           IN Refers(calls) = Refers(answers)
      /\ ResultsOf(turns[1].content) = <<>>
      /\ Cardinality({i \in DOMAIN turns : HasKind(turns[i].content, "memory")}) <= 1
  BY DEF RequestAccepted
<1>1. turns \in Seq(Turns) /\ turns # <<>> /\ pending = <<>> /\ requested = <<>>
  BY DEF ContextInv, TypesInv
<1>2. Owed = <<>>
  <2>1. <<>> \o <<>> = <<>>
    OBVIOUS
  <2>2. QED
    BY <1>1, <2>1, RefersEmpty DEF Owed
<1>3. Open(turns, <<>>)
  BY <1>2 DEF ContextInv, BrainInv
<1>4. turns[1].role = "user" /\ ResultsOf(turns[1].content) = <<>>
  BY <1>1, <1>3 DEF Open
<1>5. DOMAIN turns = 1..Len(turns) /\ Len(turns) \in Nat
  BY <1>1
<1>6. ASSUME NEW i \in DOMAIN turns
      PROVE Refers(CallsOf(turns[i].content))
              = Refers(IF i = Len(turns) THEN <<>> ELSE ResultsOf(turns[i + 1].content))
  <2>1. CASE i = Len(turns)
    BY <1>1, <1>3, <2>1, RefersEmpty DEF Open, Asks
  <2>2. CASE i # Len(turns)
    <3>1. i + 1 \in DOMAIN turns /\ i + 1 > 1 /\ (i + 1) - 1 = i
      BY <1>5, <2>2
    <3>2. Answers(turns[i + 1]) = Asks(turns[(i + 1) - 1])
      BY <1>3, <3>1 DEF Open
    <3>3. QED
      BY <2>2, <3>1, <3>2 DEF Answers, Asks
  <2>3. QED
    BY <2>1, <2>2
<1>7. Cardinality({i \in DOMAIN turns : HasKind(turns[i].content, "memory")}) <= 1
  <2> DEFINE M == {i \in DOMAIN turns : HasKind(turns[i].content, "memory")}
  <2>1. ASSUME NEW i \in M PROVE i \in DOMAIN turns /\ Remembers(turns[i])
    <3>1. i \in DOMAIN turns /\ HasKind(turns[i].content, "memory")
      OBVIOUS
    <3>2. turns[i] \in Turns
      BY <1>1, <3>1
    <3> DEFINE c == turns[i].content
    <3>3. c \in Seq(Blocks)
      BY <3>2, TurnParts DEF Contents
    <3>4. ASSUME OfKind(c, {"memory"}) = <<>> PROVE FALSE
      <4> DEFINE B == {b \in Blocks : b.kind \notin {"memory"}}
      <4>1. c \in Seq(B)
        BY <3>3, <3>4, KindEmpty
      <4>2. PICK k \in DOMAIN c : c[k].kind = "memory"
        BY <3>1 DEF HasKind
      <4> HIDE DEF B, c
      <4>3. c[k] \in B
        BY <4>1, <4>2
      <4>4. QED
        BY <4>2, <4>3 DEF B
    <3>5. QED
      BY <3>1, <3>4 DEF Remembers
  <2>2. \A i \in M : i = 1 \/ i = 2
    BY <1>3, <1>5, <2>1 DEF Open
  <2>3. ~(1 \in M /\ 2 \in M)
    BY <1>3, <2>1 DEF Open
  <2> HIDE DEF M
  <2>4. M = {} \/ M = {1} \/ M = {2}
    BY <2>2, <2>3
  <2>5. Cardinality({}) = 0 /\ Cardinality({1}) = 1 /\ Cardinality({2}) = 1
    BY FS_EmptySet, FS_Singleton
  <2>6. Cardinality(M) <= 1
    BY <2>4, <2>5
  <2>7. QED
    BY <2>6 DEF M
<1>8. QED
  BY <1>4, <1>6, <1>7

LEMMA LogReplays == ContextInv => ContextReplays
<1> SUFFICES ASSUME ContextInv, message # 0, phase # "claimed", ~continued
             PROVE  Alike(LoadedContext, Durable, InOrder)
  BY DEF ContextReplays, Alike
<1>1. phase \notin {"idle", "claimed"} /\ turns \in Seq(Turns) /\ turns # <<>> /\ pending \in Results
  BY DEF ContextInv, TypesInv
<1>2. PICK base \in Seq(Turns) : Telling(log, base, pending) /\ Alike(base, Recorded, InOrder)
  <2> DEFINE base == BaseOf(log, pending)
  <2>1. base # <<>> /\ Telling(log, base, pending) /\ Alike(base, Recorded, InOrder) /\ log \in Seq(Entry)
    BY <1>1 DEF ContextInv, LogInv, TypesInv
  <2>2. base \in Seq(Turns)
    BY <2>1, BaseTyped
  <2>3. QED
    BY <2>1, <2>2
<1>3. Recorded \in Seq(Turns)
  BY <1>1, FrontLast DEF Recorded
<1>4. Durable = Recorded \o (IF pending = <<>> THEN <<>> ELSE <<Turn("user", pending)>>)
  BY DEF Durable, Recorded, Replied
<1>5. CASE pending = <<>>
  <2>1. Durable = Recorded
    BY <1>3, <1>4, <1>5
  <2>2. QED
    BY <1>2, <1>5, <2>1 DEF Telling, LoadedContext
<1>6. CASE pending # <<>>
  <2> DEFINE t == Turn("user", pending)
  <2>1. t \in Turns
    BY <1>1, ResultsTurn
  <2>2. LoadedContext = Append(base, t)
    BY <1>2, <1>6 DEF Telling, LoadedContext
  <2> HIDE DEF t
  <2>3. Durable = Append(Recorded, t)
    BY <1>3, <1>4, <1>6, <2>1 DEF t
  <2>4. Alike(Append(base, t), Append(Recorded, t), InOrder)
    BY <1>2, <1>3, <2>1, AlikeAppended
  <2>5. QED
    BY <2>2, <2>3, <2>4
<1>7. QED
  BY <1>5, <1>6

-----------------------------------------------------------------------------
LEMMA InitContext == Init => ContextInv
<1> SUFFICES ASSUME Init PROVE ContextInv
  OBVIOUS
<1> USE DEF Init
<1>1. Context(<<>>) = <<>>
  <2>1. CompactionCursor(<<>>) = 0
    BY CursorNothing
  <2>2. Loaded(<<>>) = NoContext
    BY LoadNothing DEF Loaded
  <2>3. <<>> \o <<>> = <<>>
    OBVIOUS
  <2>4. QED
    BY <2>1, <2>2, <2>3 DEF Context, CompactedBefore, NoContext
<1>2. Open(<<>>, <<>>)
  BY DEF Open
<1>3. HowMany(<<>>, "input.accepted") = 0 /\ HowMany(<<>>, "input.admitted") = 0
  <2>1. \A type : {i \in DOMAIN <<>> : <<>>[i].type = type} = {}
    OBVIOUS
  <2>2. QED
    BY <2>1, FS_EmptySet DEF HowMany
<1>4. \A m \in 1..Messages : Models(<<>>)[m] = <<>>
  <2>1. Loaded(<<>>) = NoContext
    BY LoadNothing DEF Loaded
  <2>2. NoContext.models = [m \in 1..Messages |-> <<>>]
    BY DEF NoContext
  <2>3. QED
    BY <2>1, <2>2 DEF Models
<1>5. TypesInv
  BY ContextAssumption DEF TypesInv, Results, Requests, Phases
<1>6. AdmittedInv
  BY <1>3, <1>4, ContextAssumption DEF AdmittedInv
<1>7. StartInv /\ BrainInv /\ LogInv
  BY <1>1, <1>2 DEF StartInv, BrainInv, LogInv
<1>8. QED
  BY <1>5, <1>6, <1>7 DEF ContextInv

-----------------------------------------------------------------------------
(* One step each.                                                          *)
LEMMA LogTyped == TypesInv => Context(log) \in Seq(Turns) /\ CompactedBefore(log) \in Seq(Turns) /\ Loaded(log) \in Readings
BY LoadedTyped DEF TypesInv

LEMMA RecordedOne ==
  ASSUME NEW e
  PROVE  TypesInv /\ Record(<<e>>) => log' = Append(log, e)
BY DEF TypesInv, Record

(* More entries keep no reply of the run from being out of order.          *)
LEMMA OrderKept ==
  ASSUME TypesInv, NEW e \in Entry, log' = Append(log, e), message' = message
  PROVE  InOrder' => InOrder
<1>1. log \in Seq(Entry)
  BY DEF TypesInv
<1>2. \A i \in DOMAIN log : i \in DOMAIN log' /\ log'[i] = log[i]
  BY <1>1
<1>3. QED
  BY <1>2 DEF InOrder

LEMMA AcceptStep == ContextInv /\ Accept => ContextInv'
<1> SUFFICES ASSUME ContextInv, Accept PROVE ContextInv'
  OBVIOUS
<1> DEFINE m == Count("input.accepted") + 1
<1>1. log \in Seq(Entry)
  BY DEF ContextInv, TypesInv
<1>2. m \in 1..Messages /\ m = HowMany(log, "input.accepted") + 1
  <2>1. HowMany(log, "input.accepted") \in Nat
    BY <1>1, HowManyNat
  <2>2. QED
    BY <2>1, CountIs, ContextAssumption DEF Accept
<1>3. log' = Append(log, Accepted(m))
  BY RecordedOne DEF ContextInv, Accept
<1> HIDE DEF m
<1>4. Accepted(m) \in Entry /\ Accepted(m).type = "input.accepted"
  BY <1>2 DEF Accepted, Entry
<1>5. log' \in Seq(Entry)
  BY <1>1, <1>3, <1>4
<1>6. /\ Context(log') = Context(log)
      /\ Loaded(log').tail = Loaded(log).tail /\ Loaded(log').index = Loaded(log).index
      /\ AdmittedBy(log') = AdmittedBy(log) /\ Models(log') = Models(log)
  BY <1>1, <1>2, <1>3, AcceptedReads
<1>7. /\ HowMany(log', "input.accepted") = m
      /\ HowMany(log', "input.admitted") = HowMany(log, "input.admitted")
  BY <1>1, <1>2, <1>3, <1>4, OneMoreOf
<1>8. UNCHANGED <<message, phase, turn, turns, pending, requested, continued>>
  BY DEF Accept
<1>9. TypesInv'
  BY <1>5, <1>8 DEF ContextInv, TypesInv
<1>10. AdmittedInv'
  BY <1>2, <1>6, <1>7, <1>8 DEF ContextInv, AdmittedInv
<1>11. StartInv'
  BY <1>6, <1>8 DEF ContextInv, StartInv
<1>12. BrainInv'
  BY <1>8 DEF ContextInv, BrainInv, Owed
<1>13. LogInv'
  <2>1. BaseOf(log', pending') = BaseOf(log, pending)
    BY <1>6, <1>8 DEF BaseOf
  <2>2. Telling(log, BaseOf(log, pending), pending) => Telling(log', BaseOf(log, pending), pending)
    BY <1>6 DEF Telling
  <2>3. Owed' = Owed /\ Recorded' = Recorded /\ (InOrder' => InOrder)
    BY <1>3, <1>4, <1>8, OrderKept DEF ContextInv, Owed, Recorded
  <2> DEFINE base == BaseOf(log, pending)
  <2>4. Alike(base, Recorded, InOrder) => Alike(base, Recorded', InOrder')
    BY <2>3, AlikeKept
  <2> HIDE DEF base
  <2>5. QED
    BY <1>6, <1>8, <2>1, <2>2, <2>3, <2>4 DEF ContextInv, LogInv, base
<1>14. QED
  BY <1>9, <1>10, <1>11, <1>12, <1>13 DEF ContextInv

LEMMA OwesNothing ==
  /\ Refers(<<>>) \o Refers(<<>>) = <<>>
  /\ \A p \in Contents : Refers(p) \o Refers(<<>>) = Refers(p) /\ Refers(<<>>) \o Refers(p) = Refers(p)
<1>1. Refers(<<>>) = <<>>
  BY RefersEmpty
<1>2. ASSUME NEW p \in Contents PROVE Refers(p) \o <<>> = Refers(p) /\ <<>> \o Refers(p) = Refers(p)
  <2>1. Refers(p) \in Seq(Nat \X Nat)
    BY RefersSeq
  <2>2. QED
    BY <2>1, ConcatEmptySeq
<1>3. <<>> \o <<>> = <<>>
  OBVIOUS
<1>4. QED
  BY <1>1, <1>2, <1>3

LEMMA NoRunTyped ==
  /\ <<>> \in Results /\ <<>> \in Requests /\ <<>> \in Seq(Turns) /\ <<>> \in Contents
BY DEF Results, Requests, Contents

LEMMA AppendGrows ==
  ASSUME NEW A, NEW s \in Seq(A), NEW e \in A
  PROVE  Append(s, e) # <<>> /\ Len(Append(s, e)) = Len(s) + 1
<1>1. Len(Append(s, e)) = Len(s) + 1
  OBVIOUS
<1>2. Append(s, e) # <<>>
  BY LastAppended
<1>3. QED
  BY <1>1, <1>2

LEMMA OtherEntry ==
  ASSUME NEW s \in Seq(Entry), NEW e \in Entry, e.type \notin {"input.accepted", "input.admitted"}
  PROVE  /\ HowMany(Append(s, e), "input.admitted") = HowMany(s, "input.admitted")
         /\ HowMany(Append(s, e), "input.accepted") = HowMany(s, "input.accepted")
         /\ HowMany(s, "input.admitted") \in Nat
<1>1. /\ HowMany(s, "input.admitted") \in Nat
      /\ HowMany(Append(s, e), "input.admitted") = HowMany(s, "input.admitted") + (IF e.type = "input.admitted" THEN 1 ELSE 0)
  BY OneMoreOf
<1>2. /\ HowMany(s, "input.accepted") \in Nat
      /\ HowMany(Append(s, e), "input.accepted") = HowMany(s, "input.accepted") + (IF e.type = "input.accepted" THEN 1 ELSE 0)
  BY OneMoreOf
<1>3. QED
  BY <1>1, <1>2

LEMMA ClaimStep == ContextInv /\ Claim => ContextInv'
<1> SUFFICES ASSUME ContextInv, Claim PROVE ContextInv'
  OBVIOUS
<1> DEFINE m == Count("input.admitted") + 1
<1>1. log \in Seq(Entry) /\ phase = "idle" /\ message = 0 /\ pending = <<>> /\ requested = <<>>
  BY DEF ContextInv, TypesInv, Claim
<1>2. m \in 1..Messages /\ m = HowMany(log, "input.admitted") + 1
  <2>1. HowMany(log, "input.admitted") \in Nat /\ HowMany(log, "input.accepted") \in Nat
    BY <1>1, HowManyNat
  <2>2. HowMany(log, "input.admitted") < HowMany(log, "input.accepted")
    BY CountIs DEF Claim
  <2>3. HowMany(log, "input.accepted") <= Messages
    BY DEF ContextInv, AdmittedInv
  <2>4. QED
    BY <2>1, <2>2, <2>3, CountIs, ContextAssumption
<1>3. log' = Append(log, Admitted(m)) /\ message' = m /\ turns' = Context(log) /\ phase' = "claimed"
      /\ UNCHANGED <<turn, pending, requested, continued>>
  BY RecordedOne DEF ContextInv, Claim, LoadedContext
<1> HIDE DEF m
<1>4. Admitted(m) \in Entry /\ Admitted(m).type = "input.admitted"
  BY <1>2 DEF Admitted, Entry
<1>5. log' \in Seq(Entry)
  BY <1>1, <1>3, <1>4
<1>6. /\ Context(log') = Append(Context(log), InputTurn(m))
      /\ Loaded(log').tail = Append(Loaded(log).tail, InputTurn(m))
      /\ Loaded(log').index[m] = Len(Loaded(log).tail) + 1
      /\ AdmittedBy(log') = AdmittedBy(log) \cup {m} /\ Models(log') = Models(log)
  BY <1>1, <1>2, <1>3, AdmittedReads
<1>7. /\ HowMany(log', "input.admitted") = m
      /\ HowMany(log', "input.accepted") = HowMany(log, "input.accepted")
  BY <1>1, <1>2, <1>3, <1>4, OneMoreOf
<1>8. Loaded(log).tail \in Seq(Turns) /\ InputTurn(m) \in Turns /\ Context(log) \in Seq(Turns)
  BY <1>1, <1>2, LoadedTyped, ReadingFields, InputTurnTyped
<1>9. Loaded(log').tail # <<>> /\ Loaded(log').index[m] = Len(Loaded(log').tail)
  <2> DEFINE tail == Loaded(log).tail
             input == InputTurn(m)
  <2> HIDE DEF tail, input
  <2>1. tail \in Seq(Turns) /\ input \in Turns
    BY <1>8 DEF tail, input
  <2>2. Append(tail, input) # <<>> /\ Len(Append(tail, input)) = Len(tail) + 1
    BY <2>1, AppendGrows
  <2>3. QED
    BY <1>6, <2>2 DEF tail, input
<1>10. HowMany(log, "input.admitted") \in Nat
  BY <1>1, HowManyNat
<1>11. TypesInv'
  BY <1>1, <1>2, <1>3, <1>5, <1>8, ContextAssumption, NoRunTyped DEF ContextInv, TypesInv, Phases
<1>12. AdmittedInv'
  BY <1>2, <1>3, <1>6, <1>7, <1>10, ContextAssumption DEF ContextInv, AdmittedInv
<1>13. StartInv'
  <2>1. Open(Context(log), <<>>)
    BY <1>1 DEF ContextInv, StartInv
  <2>2. Models(log)[m] = <<>>
    BY <1>2, <1>10 DEF ContextInv, AdmittedInv
  <2>3. QED
    BY <1>3, <1>6, <1>9, <2>1, <2>2 DEF StartInv
<1>14. BrainInv' /\ LogInv'
  BY <1>3 DEF BrainInv, LogInv
<1>15. QED
  BY <1>11, <1>12, <1>13, <1>14 DEF ContextInv

LEMMA StartFailsStep == ContextInv /\ StartFails => ContextInv'
<1> SUFFICES ASSUME ContextInv, StartFails PROVE ContextInv'
  OBVIOUS
<1>1. /\ log \in Seq(Entry) /\ turns \in Seq(Turns) /\ message \in 1..Messages /\ phase = "claimed"
      /\ message' = 0 /\ phase' = "idle" /\ turns' = <<>> /\ pending' = <<>> /\ requested' = <<>> /\ log' = log
      /\ turn' = 0
  BY ContextAssumption DEF ContextInv, TypesInv, StartFails, NoRun
<1>2. HowMany(log, "input.admitted") \in Nat
  BY <1>1, HowManyNat
<1>3. Open(Context(log), <<>>)
  <2>1. Open(turns, <<>>) /\ Context(log) = Append(turns, InputTurn(message))
    BY <1>1 DEF ContextInv, StartInv
  <2> DEFINE t == InputTurn(message)
  <2>2. t \in Turns /\ Plain(t) /\ ~Remembers(t) /\ t.role = "user"
    BY <1>1, InputPlain
  <2> HIDE DEF t
  <2>3. OneSided(t) /\ Asks(t) = <<>> /\ Answers(t) = <<>>
    BY <2>2, PlainTurn
  <2>4. Open(Append(turns, t), Asks(t))
    BY <1>1, <2>1, <2>2, <2>3, OpenAppended
  <2>5. QED
    BY <2>1, <2>3, <2>4 DEF t
<1>4. TypesInv'
  BY <1>1, ContextAssumption, NoRunTyped DEF TypesInv, Phases
<1>5. AdmittedInv'
  BY <1>1, <1>2 DEF ContextInv, AdmittedInv
<1>6. StartInv' /\ BrainInv' /\ LogInv'
  BY <1>1, <1>3 DEF StartInv, BrainInv, LogInv
<1>7. QED
  BY <1>4, <1>5, <1>6 DEF ContextInv

LEMMA PrepareStep == ContextInv /\ Prepare => ContextInv'
<1> SUFFICES ASSUME ContextInv, Prepare PROVE ContextInv'
  OBVIOUS
<1> DEFINE input == PreparedTurn(message, turns = <<>>)
<1>1. /\ log \in Seq(Entry) /\ turns \in Seq(Turns) /\ message \in 1..Messages /\ phase = "claimed"
      /\ pending = <<>> /\ requested = <<>>
  BY ContextAssumption DEF ContextInv, TypesInv, Prepare
<1>2. /\ turns' = Append(turns, input) /\ turn' = 1 /\ phase' = "turn" /\ log' = Append(log, Prepared(message, input))
      /\ UNCHANGED <<message, pending, requested, continued>>
  BY RecordedOne DEF ContextInv, Prepare
<1>3. input \in Turns /\ Plain(input) /\ (Remembers(input) => turns = <<>>) /\ input.role = "user"
  <2>1. (turns = <<>>) \in BOOLEAN
    OBVIOUS
  <2>2. QED
    BY <1>1, <2>1, PreparedPlain
<1> HIDE DEF input
<1>4. /\ Open(turns, <<>>) /\ Context(log) = Append(turns, InputTurn(message))
      /\ Loaded(log).tail # <<>> /\ Loaded(log).index[message] = Len(Loaded(log).tail)
      /\ Models(log)[message] = <<>>
  BY <1>1 DEF ContextInv, StartInv
<1>5. Prepared(message, input) \in Entry /\ Prepared(message, input).type = "input.prepared"
  BY <1>1, <1>3 DEF Prepared, Entry
<1>6. log' \in Seq(Entry) /\ turns' \in Seq(Turns) /\ turns' # <<>>
  BY <1>1, <1>2, <1>3, <1>5
<1>7. Context(log') = turns' /\ AdmittedBy(log') = AdmittedBy(log) /\ Models(log') = Models(log)
  BY <1>1, <1>2, <1>3, <1>4, PreparedReads
<1>8. /\ HowMany(log', "input.admitted") = HowMany(log, "input.admitted")
      /\ HowMany(log', "input.accepted") = HowMany(log, "input.accepted")
      /\ HowMany(log, "input.admitted") \in Nat
      /\ HowMany(log, "input.accepted") \in Nat
  BY <1>1, <1>2, <1>5, OneMoreOf
<1>9. Open(turns', <<>>)
  <2>1. OneSided(input) /\ Asks(input) = <<>> /\ Answers(input) = <<>>
    BY <1>3, PlainTurn
  <2>2. Open(Append(turns, input), Asks(input))
    BY <1>1, <1>3, <1>4, <2>1, OpenAppended
  <2>3. QED
    BY <1>2, <2>1, <2>2
<1>10. Owed' = <<>>
  BY <1>1, <1>2, OwesNothing DEF Owed
<1>11. TypesInv'
  BY <1>1, <1>2, <1>6, NoRunTyped DEF TypesInv, Phases, Replied
<1>12. AdmittedInv'
  BY <1>2, <1>7, <1>8 DEF ContextInv, AdmittedInv
<1>13. StartInv' /\ BrainInv'
  BY <1>2, <1>9, <1>10 DEF StartInv, BrainInv, Replied
<1>14. LogInv'
  <2>1. BaseOf(log', pending') = turns' /\ Telling(log', turns', pending')
    BY <1>1, <1>2, <1>7 DEF BaseOf, Telling
  <2>2. Recorded' = turns'
    BY <1>2 DEF Recorded, Replied
  <2>3. Models(log')[message'] = <<>>
    BY <1>2, <1>4, <1>7
  <2>4. Alike(turns', turns', InOrder')
    BY DEF Alike
  <2>5. QED
    BY <1>2, <1>6, <1>9, <1>10, <2>1, <2>2, <2>3, <2>4 DEF LogInv, Replied
<1>15. QED
  BY <1>11, <1>12, <1>13, <1>14 DEF ContextInv

(* The results so far, folded into a turn.                                 *)
Folded(ts, done) == IF done = <<>> THEN ts ELSE Append(ts, Turn("user", done))

LEMMA FoldedOpen ==
  ASSUME NEW ts \in Seq(Turns), ts # <<>>, NEW done \in Results, Open(ts, Refers(done) \o Refers(<<>>))
  PROVE  Folded(ts, done) \in Seq(Turns) /\ Folded(ts, done) # <<>> /\ Open(Folded(ts, done), <<>>)
<1> DEFINE t == Turn("user", done)
<1>1. done \in Contents
  BY ResultTyped
<1>2. Open(ts, Refers(done))
  BY <1>1, OwesNothing
<1>3. CASE done = <<>>
  BY <1>2, <1>3, RefersEmpty DEF Folded
<1>4. CASE done # <<>>
  <2>1. t \in Turns /\ OneSided(t) /\ Asks(t) = <<>> /\ Answers(t) = Refers(done) /\ ~Remembers(t)
    BY ResultsTurn
  <2>2. Folded(ts, done) = Append(ts, t)
    BY <1>4 DEF Folded
  <2> HIDE DEF t
  <2>3. Open(Append(ts, t), Asks(t))
    BY <1>2, <2>1, OpenAppended
  <2>4. Append(ts, t) \in Seq(Turns) /\ Append(ts, t) # <<>>
    BY <2>1
  <2>5. QED
    BY <2>1, <2>2, <2>3, <2>4
<1>5. QED
  BY <1>3, <1>4

LEMMA FoldedAlike ==
  ASSUME NEW ts \in Seq(Turns), NEW us \in Seq(Turns), NEW done \in Results, NEW ordered
  PROVE  Alike(ts, us, ordered) => Alike(Folded(ts, done), Folded(us, done), ordered)
<1> DEFINE t == Turn("user", done)
<1>1. t \in Turns
  BY ResultsTurn
<1> HIDE DEF t
<1>2. Alike(ts, us, ordered) => Alike(Append(ts, t), Append(us, t), ordered)
  BY <1>1, AlikeAppended
<1>3. QED
  BY <1>2 DEF Folded, t

LEMMA FoldedTold ==
  ASSUME NEW s, NEW base, NEW done, Telling(s, base, done)
  PROVE  Context(s) = Folded(base, done)
BY DEF Telling, Folded

LEMMA OpenTurnStep == ContextInv /\ OpenTurn => ContextInv'
<1> SUFFICES ASSUME ContextInv, OpenTurn PROVE ContextInv'
  OBVIOUS
<1> DEFINE folded == Folded(turns, pending)
           base == BaseOf(log, pending)
<1>1. /\ log \in Seq(Entry) /\ turns \in Seq(Turns) /\ turns # <<>> /\ pending \in Results /\ requested = <<>>
      /\ message \in 1..Messages /\ phase = "turn" /\ turn \in Nat
  BY ContextAssumption DEF ContextInv, TypesInv, OpenTurn
<1>2. /\ turns' \in {folded, WithHint(folded, turn)} /\ pending' = <<>> /\ phase' = "ask"
      /\ UNCHANGED <<log, message, turn, requested, continued>>
  BY DEF OpenTurn, Folded
<1>3. Owed = Refers(pending) \o Refers(<<>>)
  BY <1>1 DEF Owed
<1>4. Open(turns, Owed) /\ base # <<>> /\ Telling(log, base, pending) /\ Open(base, Owed)
      /\ (~continued => Alike(base, turns, InOrder))
      /\ (~continued => Models(log)[message] = <<>>)
  BY <1>1 DEF ContextInv, BrainInv, LogInv, Recorded, Replied
<1>5. base \in Seq(Turns)
  BY <1>1, <1>4, BaseTyped
<1> HIDE DEF base
<1>6. folded \in Seq(Turns) /\ folded # <<>> /\ Open(folded, <<>>)
  BY <1>1, <1>3, <1>4, FoldedOpen
<1>7. Folded(base, pending) \in Seq(Turns) /\ Folded(base, pending) # <<>> /\ Open(Folded(base, pending), <<>>)
  BY <1>1, <1>3, <1>4, <1>5, FoldedOpen
<1>8. Context(log) = Folded(base, pending)
  BY <1>4, FoldedTold
<1>9. ~continued => Alike(Folded(base, pending), folded, InOrder)
  BY <1>1, <1>4, <1>5, FoldedAlike
<1> HIDE DEF folded
<1>10. turns' \in Seq(Turns) /\ turns' # <<>> /\ Open(turns', <<>>) /\ Bare(turns') = Bare(folded)
  <2> DEFINE hint == Block("hint", message, turn)
  <2>1. hint \in Blocks /\ hint.kind = "hint"
    BY <1>1, ContextAssumption DEF Block, Blocks, Kinds
  <2>2. WithHint(folded, turn) = Hinted(folded, hint)
    BY DEF WithHint, Hinted
  <2> HIDE DEF hint
  <2>3. /\ Hinted(folded, hint) \in Seq(Turns) /\ Hinted(folded, hint) # <<>>
        /\ Open(Hinted(folded, hint), <<>>) /\ Bare(Hinted(folded, hint)) = Bare(folded)
    BY <1>6, <2>1, HintHarmless
  <2>4. QED
    BY <1>2, <1>6, <2>2, <2>3
<1>11. Owed' = <<>>
  BY <1>1, <1>2, OwesNothing DEF Owed
<1>12. TypesInv'
  BY <1>1, <1>2, <1>10, NoRunTyped DEF TypesInv, Phases, Replied
<1>13. AdmittedInv'
  BY <1>2 DEF ContextInv, AdmittedInv
<1>14. StartInv' /\ BrainInv'
  BY <1>2, <1>10, <1>11 DEF StartInv, BrainInv, Replied
<1>15. LogInv'
  <2>1. BaseOf(log', pending') = Folded(base, pending) /\ Telling(log', Folded(base, pending), pending')
    BY <1>2, <1>8 DEF BaseOf, Telling
  <2>2. Recorded' = turns' /\ (InOrder' => InOrder)
    BY <1>2 DEF Recorded, Replied, InOrder
  <2>3. ~continued => Alike(Folded(base, pending), turns', InOrder')
    BY <1>9, <1>10, <2>2, AlikeKept
  <2>4. QED
    BY <1>2, <1>4, <1>7, <1>10, <1>11, <2>1, <2>2, <2>3 DEF LogInv, Replied
<1>16. QED
  BY <1>12, <1>13, <1>14, <1>15 DEF ContextInv

LEMMA CompactStep == ContextInv /\ Compact => ContextInv'
<1> SUFFICES ASSUME ContextInv, Compact PROVE ContextInv'
  OBVIOUS
<1> DEFINE context == CompactedContext
<1>1. /\ log \in Seq(Entry) /\ turns \in Seq(Turns) /\ turns # <<>> /\ pending = <<>> /\ requested = <<>>
      /\ message \in 1..Messages /\ phase = "ask" /\ turn \in Nat
  BY ContextAssumption DEF ContextInv, TypesInv, Compact
<1>2. /\ turns' = context /\ log' = Append(log, Compacted(context)) /\ phase' = "send"
      /\ UNCHANGED <<message, turn, pending, requested, continued>>
  BY RecordedOne DEF ContextInv, Compact
<1>3. Owed = <<>> /\ Owed' = <<>>
  BY <1>1, <1>2, OwesNothing DEF Owed
<1>4. Open(turns, <<>>)
  BY <1>1, <1>3 DEF ContextInv, BrainInv
<1>5. context \in Seq(Turns) /\ context # <<>> /\ Open(context, <<>>)
  <2> DEFINE summary == Block("summary", message, turn)
             memory == Block("memory", message, turn)
  <2>1. summary \in Blocks /\ summary.kind = "summary" /\ memory \in Blocks /\ memory.kind = "memory"
    BY <1>1, ContextAssumption DEF Block, Blocks, Kinds
  <2>2. context = Summed(turns, Boundary, summary, memory)
    BY DEF CompactedContext, Summed
  <2> HIDE DEF summary, memory, context
  <2>3. Boundary > 2
    BY DEF Compact
  <2>4. Boundary \in 3..Len(turns) /\ Answers(turns[Boundary]) = <<>>
    BY <1>1, <1>4, <2>3, BoundaryBetween, ContextAssumption DEF Boundary
  <2>5. QED
    BY <1>1, <1>4, <2>1, <2>2, <2>4, SummedOpen
<1> HIDE DEF context
<1>6. Compacted(context) \in Entry /\ Compacted(context).type = "context.compacted"
  BY <1>5 DEF Compacted, Entry
<1>7. log' \in Seq(Entry)
  BY <1>1, <1>2, <1>6
<1>8. /\ Context(log') = context /\ AdmittedBy(log') = AdmittedBy(log)
      /\ \A m \in 1..Messages : Models(log')[m] = <<>>
  BY <1>1, <1>2, <1>5, CompactedReads
<1>9. /\ HowMany(log', "input.admitted") = HowMany(log, "input.admitted")
      /\ HowMany(log', "input.accepted") = HowMany(log, "input.accepted")
  BY <1>1, <1>2, <1>6, OtherEntry
<1>10. TypesInv'
  BY <1>1, <1>2, <1>5, <1>7, NoRunTyped DEF TypesInv, Phases, Replied
<1>11. AdmittedInv'
  BY <1>2, <1>8, <1>9 DEF ContextInv, AdmittedInv
<1>12. StartInv' /\ BrainInv'
  BY <1>2, <1>3, <1>5 DEF StartInv, BrainInv, Replied
<1>13. LogInv'
  <2>1. BaseOf(log', pending') = context /\ Telling(log', context, pending')
    BY <1>1, <1>2, <1>8 DEF BaseOf, Telling
  <2>2. Recorded' = context
    BY <1>2 DEF Recorded, Replied
  <2>3. Models(log')[message'] = <<>>
    BY <1>1, <1>2, <1>8
  <2>4. Alike(context, context, InOrder')
    BY DEF Alike
  <2>5. QED
    BY <1>2, <1>3, <1>5, <2>1, <2>2, <2>3, <2>4 DEF LogInv, Replied
<1>14. QED
  BY <1>10, <1>11, <1>12, <1>13 DEF ContextInv

LEMMA CompleteStep == ASSUME NEW shape \in Shapes PROVE ContextInv /\ Complete(shape) => ContextInv'
<1> SUFFICES ASSUME ContextInv, Complete(shape) PROVE ContextInv'
  OBVIOUS
<1> DEFINE n == Count("model.completed") + 1
           reply == Reply(n, shape)
           t == Turn("assistant", reply)
<1>1. /\ log \in Seq(Entry) /\ turns \in Seq(Turns) /\ turns # <<>> /\ pending = <<>> /\ requested = <<>>
      /\ message \in 1..Messages /\ phase \in {"ask", "send"}
  BY ContextAssumption DEF ContextInv, TypesInv, Complete
<1>2. /\ turns' = Append(turns, t) /\ log' = Append(log, Completed(message, reply))
      /\ phase' \in Replied /\ (phase' = "calls" <=> HasKind(reply, "call"))
      /\ UNCHANGED <<message, turn, pending, requested, continued>>
  BY RecordedOne DEF ContextInv, Complete, Replied
<1>3. n \in Nat
  BY <1>1, CountIs, HowManyNat
<1>4. /\ reply \in Spoken /\ DOMAIN reply = DOMAIN shape /\ \A i \in DOMAIN shape : reply[i].kind = shape[i]
  BY <1>3, ReplySpoken
<1> HIDE DEF reply, n
<1>5. /\ reply \in Contents /\ ResultsOf(reply) = <<>> /\ OfKind(reply, {"memory"}) = <<>>
  BY <1>4, SpokenTurn
<1>6. /\ t \in Turns /\ OneSided(t) /\ Asks(t) = Refers(CallsOf(reply)) /\ Answers(t) = <<>>
      /\ ~Remembers(t) /\ t.content = reply
  BY <1>5, AssistantTurn
<1>7. Owed = <<>> /\ Owed' = <<>>
  BY <1>1, <1>2, OwesNothing DEF Owed
<1>8. Open(turns, <<>>)
  BY <1>1, <1>7 DEF ContextInv, BrainInv
<1>9. phase' # "calls" => CallsOf(reply) = <<>>
  <2>1. \A i \in DOMAIN reply : reply[i].kind # "rewritten"
    <3>1. shape \in Seq({"text", "blank", "call", "item"})
      BY ContextAssumption
    <3>2. \A i \in DOMAIN shape : shape[i] \in {"text", "blank", "call", "item"}
      BY <3>1
    <3>3. QED
      BY <1>4, <3>2
  <2>2. QED
    BY <1>2, <1>5, <2>1, NoCalls
<1>10. t = Turn("assistant", t.content)
  BY <1>6
<1> HIDE DEF t
<1>11. turns' \in Seq(Turns) /\ turns' # <<>> /\ Last(turns') = t /\ Front(turns') = turns
  BY <1>1, <1>2, <1>6, LastAppended
<1>12. phase' # "calls" => Open(turns', <<>>)
  <2>1. Open(Append(turns, t), Asks(t))
    BY <1>1, <1>6, <1>8, OpenAppended
  <2>2. QED
    BY <1>2, <1>6, <1>9, <2>1, RefersEmpty
<1>13. Completed(message, reply) \in Entry /\ Completed(message, reply).type = "model.completed"
  BY <1>1, <1>5 DEF Completed, Entry
<1>14. log' \in Seq(Entry)
  BY <1>1, <1>2, <1>13
<1>15. /\ Context(log') = Context(log) /\ AdmittedBy(log') = AdmittedBy(log)
       /\ Models(log') = [Models(log) EXCEPT ![message] = Append(@, reply)]
  BY <1>1, <1>2, <1>5, CompletedReads
<1>16. /\ HowMany(log', "input.admitted") = HowMany(log, "input.admitted")
       /\ HowMany(log', "input.accepted") = HowMany(log, "input.accepted")
       /\ HowMany(log, "input.admitted") \in Nat
  BY <1>1, <1>2, <1>13, OtherEntry
<1>17. Models(log) \in [1..Messages -> Seq(Contents)]
  BY <1>1, LoadedTyped, ReadingFields DEF Models
<1>18. TypesInv'
  BY <1>1, <1>2, <1>11, <1>14, NoRunTyped DEF ContextInv, TypesInv, Phases, Replied
<1>19. AdmittedInv'
  <2>1. message <= HowMany(log, "input.admitted")
    BY DEF ContextInv, AdmittedInv
  <2>2. \A m \in 1..Messages : m > HowMany(log, "input.admitted") => Models(log')[m] = Models(log)[m]
    BY <1>1, <1>15, <1>16, <1>17, <2>1
  <2>3. QED
    BY <1>2, <1>15, <1>16, <2>2 DEF ContextInv, AdmittedInv
<1>20. StartInv'
  BY <1>2 DEF StartInv, Replied
<1>21. BrainInv'
  BY <1>1, <1>2, <1>4, <1>6, <1>7, <1>8, <1>10, <1>11, <1>12 DEF BrainInv
<1>22. LogInv'
  <2> DEFINE base == BaseOf(log, pending)
  <2>1. base # <<>> /\ Telling(log, base, pending) /\ Open(base, Owed)
        /\ (~continued => Alike(base, turns, InOrder)) /\ (~continued => Models(log)[message] = <<>>)
    BY <1>1 DEF ContextInv, LogInv, Recorded, Replied
  <2>2. BaseOf(log', pending') = base /\ Telling(log', base, pending')
    BY <1>1, <1>2, <1>15, <2>1 DEF BaseOf, Telling
  <2>3. Recorded' = turns /\ (InOrder' => InOrder)
    BY <1>2, <1>11, <1>13, OrderKept DEF ContextInv, Recorded
  <2>4. ~continued => Models(log')[message'] = <<Last(turns').content>>
    <3>1. Models(log')[message] = Append(Models(log)[message], reply)
      BY <1>1, <1>15, <1>17
    <3>2. Append(<<>>, reply) = <<reply>>
      BY <1>5
    <3>3. QED
      BY <1>2, <1>6, <1>11, <2>1, <3>1, <3>2
  <2>5. InOrder' => BlanksLast(Last(turns').content)
    <3>1. Len(log) + 1 \in DOMAIN log' /\ log'[Len(log) + 1] = Completed(message, reply)
      BY <1>1, <1>2, <1>13
    <3>2. QED
      BY <1>2, <1>6, <1>11, <1>13, <3>1 DEF InOrder, Completed
  <2>6. ~continued => Alike(base, turns, InOrder')
    BY <2>1, <2>3, AlikeKept
  <2> HIDE DEF base
  <2>7. QED
    BY <1>2, <1>7, <2>1, <2>2, <2>3, <2>4, <2>5, <2>6 DEF LogInv
<1>23. QED
  BY <1>18, <1>19, <1>20, <1>21, <1>22 DEF ContextInv

LEMMA CommitStep == ASSUME NEW rewritten \in BOOLEAN PROVE ContextInv /\ Commit(rewritten) => ContextInv'
<1> SUFFICES ASSUME ContextInv, Commit(rewritten) PROVE ContextInv'
  OBVIOUS
<1> DEFINE reply == Last(turns).content
           parts == PartsOf(reply, rewritten)
           front == Front(turns)
           new == Reconciled(reply, parts)
           told == Told(log, message, parts)
           base == BaseOf(log, pending)
           t == Turn("assistant", new)
           u == Turn("assistant", told)
<1>1. /\ log \in Seq(Entry) /\ turns \in Seq(Turns) /\ turns # <<>> /\ pending = <<>> /\ requested = <<>>
      /\ message \in 1..Messages /\ phase = "calls"
  BY ContextAssumption DEF ContextInv, TypesInv, Commit
<1>2. /\ turns' = [turns EXCEPT ![Len(turns)].content = new]
      /\ log' = Append(log, Committed(message, parts))
      /\ requested' = CallsOf(parts) /\ phase' = "run"
      /\ UNCHANGED <<message, turn, pending, continued>>
  BY RecordedOne DEF ContextInv, Commit
<1>3. /\ front # <<>> /\ Last(turns) = Turn("assistant", reply) /\ reply \in Spoken /\ Open(front, <<>>)
      /\ base # <<>> /\ Telling(log, base, pending) /\ Open(base, Owed)
      /\ (~continued => Alike(base, front, InOrder) /\ Models(log)[message] = <<reply>>)
      /\ (InOrder => BlanksLast(reply))
  BY <1>1 DEF ContextInv, BrainInv, LogInv, Recorded, Replied
<1>4. front \in Seq(Turns) /\ turns = Append(front, Last(turns)) /\ Len(turns) = Len(front) + 1 /\ Last(turns) \in Turns
  BY <1>1, FrontLast
<1>5. base \in Seq(Turns) /\ Context(log) = base
  BY <1>1, <1>3, BaseTyped DEF Telling
<1>6. message \in AdmittedBy(log)
  BY <1>1 DEF ContextInv, AdmittedInv
<1> HIDE DEF base, front, reply
<1>7. reply \in Contents
  BY <1>3, SpokenTurn
<1>8. parts \in Parts /\ parts \in Spoken
  BY <1>7, PartsSpoken
<1> HIDE DEF parts
<1>9. parts \in Contents
  BY <1>8, SpokenTurn
<1>10. /\ new \in Contents /\ CallsOf(new) = CallsOf(parts) /\ ResultsOf(new) = <<>> /\ OfKind(new, {"memory"}) = <<>>
  BY <1>7, <1>8, ReconciledTurn
<1>11. /\ told \in Contents /\ CallsOf(told) = CallsOf(parts) /\ ResultsOf(told) = <<>> /\ OfKind(told, {"memory"}) = <<>>
  BY <1>1, <1>8, ToldTurn
<1>12. ~continued => ~Unlike(u, t) /\ (InOrder => told = new)
  <2>1. CASE ~continued
    <3>1. Models(log)[message] = <<reply>> /\ <<reply>> # <<>> /\ Head(<<reply>>) = reply
      BY <1>3, <1>7, <2>1
    <3>2. told = CommittedContent(parts, reply)
      BY <3>1 DEF Told
    <3>3. InOrder => told = new
      BY <1>3, <1>7, <1>9, <3>2, SameReconciled
    <3>4. OfKind(Without(reply, "blank"), {"item"}) = OfKind(reply, {"item"}) /\ Without(reply, "blank") \in Contents
      <4>1. {"item"} \in SUBSET (Kinds \ {"blank"})
        BY DEF Kinds
      <4>2. QED
        BY <1>7, <4>1, KindWithin, KindContents DEF Without, Contents
    <3>5. ~Unlike(Turn("assistant", CommittedContent(parts, reply)), Turn("assistant", Reconciled(reply, parts)))
      BY <1>7, <1>8, <3>4, ReconciledAlike DEF CommittedContent
    <3>6. QED
      BY <3>2, <3>3, <3>5
  <2>2. QED
    BY <2>1
<1> HIDE DEF new, told
<1>13. /\ t \in Turns /\ OneSided(t) /\ Asks(t) = Refers(CallsOf(parts)) /\ Answers(t) = <<>> /\ ~Remembers(t)
  BY <1>10, AssistantTurn
<1>14. /\ u \in Turns /\ OneSided(u) /\ Asks(u) = Refers(CallsOf(parts)) /\ Answers(u) = <<>> /\ ~Remembers(u)
  BY <1>11, AssistantTurn
<1>15. turns' = Append(front, t)
  <2>1. turns[Len(turns)] = Turn("assistant", reply)
    BY <1>3 DEF Last
  <2>2. [Turn("assistant", reply) EXCEPT !.content = new] = t
    BY DEF Turn
  <2> HIDE DEF t
  <2>3. [turns EXCEPT ![Len(turns)].content = new] = [turns EXCEPT ![Len(turns)] = t]
    BY <2>1, <2>2
  <2>4. [Append(front, Last(turns)) EXCEPT ![Len(front) + 1] = t] = Append(front, t)
    BY <1>4, <1>13, LastChanged
  <2>5. QED
    BY <1>2, <1>4, <2>3, <2>4
<1>16. Committed(message, parts) \in Entry /\ Committed(message, parts).type = "assistant.output.committed"
  BY <1>1, <1>9 DEF Committed, Entry
<1>17. log' \in Seq(Entry)
  BY <1>1, <1>2, <1>16
<1>18. /\ Context(log') = Append(Context(log), u) /\ AdmittedBy(log') = AdmittedBy(log)
       /\ Models(log') = IF Models(log)[message] = <<>> THEN Models(log) ELSE [Models(log) EXCEPT ![message] = Tail(@)]
  BY <1>1, <1>2, <1>6, <1>9, CommittedReads DEF told
<1>19. /\ HowMany(log', "input.admitted") = HowMany(log, "input.admitted")
       /\ HowMany(log', "input.accepted") = HowMany(log, "input.accepted")
       /\ HowMany(log, "input.admitted") \in Nat
  BY <1>1, <1>2, <1>16, OtherEntry
<1>20. Models(log) \in [1..Messages -> Seq(Contents)]
  BY <1>1, LoadedTyped, ReadingFields DEF Models
<1> HIDE DEF t, u
<1>21. turns' \in Seq(Turns) /\ turns' # <<>> /\ Append(base, u) \in Seq(Turns) /\ Append(base, u) # <<>>
  BY <1>4, <1>5, <1>13, <1>14, <1>15
<1>22. Owed = <<>> /\ Owed' = Refers(CallsOf(parts)) /\ CallsOf(parts) \in Requests
  <2>1. CallsOf(parts) \in Contents
    BY <1>9, KindContents DEF CallsOf
  <2>2. CallsOf(parts) \in Requests
    BY <1>9, KindBlocks DEF CallsOf, Requests, Contents
  <2>3. QED
    BY <1>1, <1>2, <2>1, <2>2, OwesNothing DEF Owed
<1>23. Open(Append(front, t), Asks(t))
  BY <1>3, <1>4, <1>13, OpenAppended
<1>24. Open(Append(base, u), Asks(u))
  BY <1>3, <1>5, <1>14, <1>22, OpenAppended
<1>25. TypesInv'
  BY <1>1, <1>2, <1>17, <1>21, <1>22, NoRunTyped DEF ContextInv, TypesInv, Phases, Replied
<1>26. AdmittedInv'
  <2>1. message <= HowMany(log, "input.admitted")
    BY DEF ContextInv, AdmittedInv
  <2>2. \A m \in 1..Messages : m > HowMany(log, "input.admitted") => Models(log')[m] = Models(log)[m]
    BY <1>1, <1>18, <1>19, <1>20, <2>1
  <2>3. QED
    BY <1>2, <1>18, <1>19, <2>2 DEF ContextInv, AdmittedInv
<1>27. StartInv' /\ BrainInv'
  BY <1>2, <1>13, <1>15, <1>22, <1>23 DEF StartInv, BrainInv, Replied
<1>28. LogInv'
  <2>1. BaseOf(log', pending') = Append(base, u) /\ Telling(log', Append(base, u), pending')
    BY <1>1, <1>2, <1>5, <1>18 DEF BaseOf, Telling
  <2>2. Recorded' = Append(front, t) /\ (InOrder' => InOrder)
    BY <1>2, <1>15, <1>16, OrderKept DEF ContextInv, Recorded, Replied
  <2>3. ~continued => Alike(Append(base, u), Append(front, t), InOrder')
    <3>1. InOrder' /\ ~continued => Bare(base) = Bare(front) /\ u = t
      BY <1>3, <1>12, <2>2 DEF Alike, t, u
    <3>2. Bare(Append(base, u)) = AddBare(Bare(base), u) /\ Bare(Append(front, t)) = AddBare(Bare(front), t)
      BY <1>4, <1>5, <1>13, <1>14, BareOneMore
    <3>3. ~continued => Unplaced(Bare(Append(base, u))) = Unplaced(Bare(Append(front, t)))
      BY <1>3, <1>4, <1>5, <1>12, <1>13, <1>14, UnplacedBare DEF Alike
    <3>4. QED
      BY <3>1, <3>2, <3>3 DEF Alike
  <2>4. ~continued => Models(log')[message'] = <<>>
    <3>1. CASE ~continued
      <4>1. Models(log)[message] = <<reply>>
        BY <1>3, <3>1
      <4>2. <<reply>> # <<>> /\ Tail(<<reply>>) = <<>>
        BY <1>7
      <4>3. Models(log') = [Models(log) EXCEPT ![message] = <<>>]
        BY <1>18, <4>1, <4>2
      <4>4. QED
        BY <1>1, <1>2, <1>20, <4>3
    <3>2. QED
      BY <3>1
  <2>5. QED
    BY <1>2, <1>14, <1>21, <1>22, <1>24, <2>1, <2>2, <2>3, <2>4 DEF LogInv, Replied
<1>29. QED
  BY <1>25, <1>26, <1>27, <1>28 DEF ContextInv

(* A result for a call: the same call, in the results instead.             *)
LEMMA RequestedResult ==
  ASSUME NEW requests \in Requests, requests # <<>>, NEW kind \in ResultKinds
  PROVE  LET result == [Head(requests) EXCEPT !.kind = kind]
         IN /\ result \in Blocks /\ result.kind \in ResultKinds /\ result.of = Head(requests).of
            /\ Tail(requests) \in Requests
            /\ Refers(requests) = <<Head(requests).of>> \o Refers(Tail(requests))
            /\ Refers(requests) # <<>>
<1> DEFINE B == {b \in Blocks : b.kind \in CallKinds}
           b == Head(requests)
           rest == Tail(requests)
<1>1. b \in B /\ rest \in Seq(B) /\ requests \in Seq(B)
  <2> HIDE DEF B
  <2>1. requests \in Seq(B)
    BY DEF Requests, B
  <2>2. QED
    BY <2>1, HeadTailProperties
<1>2. b \in Blocks /\ b.of \in Nat \X Nat
  BY <1>1 DEF Blocks
<1>3. [b EXCEPT !.kind = kind] \in Blocks /\ [b EXCEPT !.kind = kind].kind = kind /\ [b EXCEPT !.kind = kind].of = b.of
  BY <1>2 DEF Blocks, Kinds, ResultKinds
<1>4. Refers(requests) = <<b.of>> \o Refers(rest) /\ Refers(requests) # <<>>
  <2>1. Len(requests) \in Nat /\ Len(requests) # 0 /\ Len(rest) = Len(requests) - 1
        /\ DOMAIN requests = 1..Len(requests) /\ DOMAIN rest = 1..(Len(requests) - 1)
        /\ b = requests[1] /\ \A i \in 1..(Len(requests) - 1) : rest[i] = requests[i + 1]
    BY <1>1
  <2>2. requests \in Contents /\ rest \in Contents
    <3>1. B \in SUBSET Blocks
      OBVIOUS
    <3> HIDE DEF B, rest
    <3>2. QED
      BY <1>1, <3>1, SmallerSeq DEF Contents
  <2>3. /\ Refers(requests) \in Seq(Nat \X Nat) /\ Len(Refers(requests)) = Len(requests)
        /\ \A i \in DOMAIN requests : Refers(requests)[i] = requests[i].of
    BY <2>2, RefersSeq
  <2>4. /\ Refers(rest) \in Seq(Nat \X Nat) /\ Len(Refers(rest)) = Len(rest)
        /\ \A i \in DOMAIN rest : Refers(rest)[i] = rest[i].of
    BY <2>2, RefersSeq
  <2> DEFINE P == Nat \X Nat
             f == Refers(requests)
             g == Refers(rest)
             h == <<b.of>>
             n == Len(requests)
  <2>5. h \in Seq(P) /\ Len(h) = 1 /\ h[1] = b.of
    BY <1>2
  <2> HIDE DEF P, f, g, h, n, b, rest
  <2>6. f \in Seq(P) /\ g \in Seq(P) /\ Len(f) = n /\ Len(g) = n - 1 /\ n \in Nat /\ n # 0
    BY <2>1, <2>3, <2>4 DEF f, g, n, P
  <2>7. /\ h \o g \in Seq(P) /\ Len(h \o g) = Len(h) + Len(g)
        /\ \A i \in 1..(Len(h) + Len(g)) : (h \o g)[i] = IF i <= Len(h) THEN h[i] ELSE g[i - Len(h)]
    BY <2>5, <2>6, ConcatProperties
  <2>8. ASSUME NEW i \in 1..n PROVE f[i] = (h \o g)[i]
    <3>1. f[i] = requests[i].of
      BY <2>1, <2>3 DEF f, n
    <3>2. CASE i = 1
      BY <2>1, <2>5, <2>6, <2>7, <3>1, <3>2
    <3>3. CASE i # 1
      <4>1. i - 1 \in 1..(n - 1) /\ (i - 1) + 1 = i
        BY <2>6, <3>3
      <4>2. rest[i - 1] = requests[i] /\ g[i - 1] = rest[i - 1].of
        BY <2>1, <2>4, <4>1 DEF g, n
      <4>3. (h \o g)[i] = g[i - 1]
        BY <2>5, <2>6, <2>7, <3>3
      <4>4. QED
        BY <3>1, <4>2, <4>3
    <3>4. QED
      BY <3>2, <3>3
  <2>9. f = h \o g
    <3>1. Len(h \o g) = n
      BY <2>5, <2>6, <2>7
    <3>2. QED
      BY <2>6, <2>7, <2>8, <3>1, SeqEqual
  <2>10. f # <<>>
    BY <2>6
  <2>11. QED
    BY <2>9, <2>10 DEF f, g, h
<1>5. rest \in Requests
  BY <1>1 DEF Requests
<1>6. QED
  BY <1>3, <1>4, <1>5

LEMMA EndCallStep == ContextInv /\ EndCall => ContextInv'
<1> SUFFICES ASSUME ContextInv, EndCall PROVE ContextInv'
  OBVIOUS
<1> DEFINE result == [Head(requested) EXCEPT !.kind = "result"]
           base == BaseOf(log, pending)
           e == Outcome(message, result)
<1>1. /\ log \in Seq(Entry) /\ turns \in Seq(Turns) /\ turns # <<>> /\ pending \in Results
      /\ requested \in Requests /\ requested # <<>> /\ message \in 1..Messages /\ phase = "run" /\ turn \in Nat
  BY ContextAssumption DEF ContextInv, TypesInv, EndCall
<1>2. /\ log' = Append(log, e) /\ pending' = Append(pending, result) /\ requested' = Tail(requested)
      /\ UNCHANGED <<message, phase, turn, turns, continued>>
  BY RecordedOne DEF ContextInv, EndCall
<1>3. /\ result \in Blocks /\ result.kind \in ResultKinds /\ result.of = Head(requested).of
      /\ Tail(requested) \in Requests
      /\ Refers(requested) = <<Head(requested).of>> \o Refers(Tail(requested))
      /\ Refers(requested) # <<>>
  <2>1. "result" \in ResultKinds
    BY DEF ResultKinds
  <2>2. QED
    BY <1>1, <2>1, RequestedResult
<1>4. message \in AdmittedBy(log)
  BY <1>1 DEF ContextInv, AdmittedInv
<1>5. /\ Open(turns, Owed) /\ base # <<>> /\ Telling(log, base, pending) /\ Open(base, Owed)
      /\ (~continued => Alike(base, turns, InOrder) /\ Models(log)[message] = <<>>)
  BY <1>1 DEF ContextInv, BrainInv, LogInv, Recorded, Replied
<1>6. base \in Seq(Turns)
  BY <1>1, <1>5, BaseTyped
<1> HIDE DEF result, base
<1>7. pending \in Contents /\ Refers(pending) \in Seq(Nat \X Nat)
  BY <1>1, ResultTyped, RefersSeq
<1>8. Tail(requested) \in Contents /\ Refers(Tail(requested)) \in Seq(Nat \X Nat)
  <2>1. Tail(requested) \in Contents
    <3> DEFINE B == {b \in Blocks : b.kind \in CallKinds}
               rest == Tail(requested)
    <3>1. rest \in Seq(B) /\ B \in SUBSET Blocks
      BY <1>3 DEF Requests
    <3> HIDE DEF B, rest
    <3>2. rest \in Contents
      BY <3>1, SmallerSeq DEF Contents
    <3>3. QED
      BY <3>2 DEF rest
  <2>2. QED
    BY <2>1, RefersSeq
<1>9. result.of \in Nat \X Nat
  BY <1>3 DEF Blocks
<1>10. Owed # <<>>
  <2> DEFINE f == Refers(pending)
             g == Refers(requested)
             P == Nat \X Nat
  <2>1. f \in Seq(P) /\ g \in Seq(P) /\ g # <<>>
    <3>1. <<Head(requested).of>> \in Seq(P)
      BY <1>3, <1>9
    <3> DEFINE h == <<Head(requested).of>>
               k == Refers(Tail(requested))
    <3> HIDE DEF P, h, k
    <3>2. h \in Seq(P) /\ k \in Seq(P)
      BY <1>8, <3>1 DEF h, k, P
    <3>3. h \o k \in Seq(P)
      BY <3>2, ConcatProperties
    <3>4. QED
      BY <1>3, <1>7, <3>3 DEF h, k, P
  <2> HIDE DEF f, g, P
  <2>2. Len(f \o g) = Len(f) + Len(g) /\ Len(f) \in Nat /\ Len(g) \in Nat /\ Len(g) # 0
    BY <2>1
  <2>3. f \o g # <<>>
    BY <2>2
  <2>4. QED
    BY <2>3 DEF Owed, f, g
<1>11. Waiting(base)
  BY <1>5, <1>6, <1>10, OpenWaits
<1>12. /\ log' \in Seq(Entry) /\ pending' \in Results /\ Telling(log', base, pending')
       /\ AdmittedBy(log') = AdmittedBy(log) /\ Models(log') = Models(log)
  <2> DEFINE t == Append(log, Outcome(message, result))
  <2>1. /\ t \in Seq(Entry) /\ Append(pending, result) \in Results /\ Telling(t, base, Append(pending, result))
        /\ AdmittedBy(t) = AdmittedBy(log) /\ Models(t) = Models(log)
    BY <1>1, <1>3, <1>4, <1>5, <1>6, <1>11, OutcomeReads
  <2>2. log' = t /\ pending' = Append(pending, result)
    BY <1>2
  <2> HIDE DEF t
  <2>3. QED
    BY <2>1, <2>2
<1>13. Owed' = Owed
  <2>1. Refers(Append(pending, result)) = Append(Refers(pending), result.of)
    BY <1>3, <1>7, RefersAppended
  <2> DEFINE f == Refers(pending)
             k == Refers(Tail(requested))
             o == result.of
             P == Nat \X Nat
  <2>2. f \in Seq(P) /\ k \in Seq(P) /\ o \in P
    BY <1>7, <1>8, <1>9
  <2> HIDE DEF f, k, o, P
  <2>3. Append(f, o) \o k = f \o (<<o>> \o k)
    BY <2>2
  <2>4. Owed' = Append(f, o) \o k
    BY <1>2, <2>1 DEF Owed, f, k, o
  <2>5. Owed = f \o (<<o>> \o k)
    BY <1>3 DEF Owed, f, k, o
  <2>6. QED
    BY <2>3, <2>4, <2>5
<1>14. e \in Entry /\ e.type = "tool.outcome.recorded"
  <2>1. <<result>> \in Contents
    BY <1>3 DEF Contents
  <2>2. QED
    BY <1>1, <2>1 DEF Outcome, Entry
<1>15. /\ HowMany(log', "input.admitted") = HowMany(log, "input.admitted")
       /\ HowMany(log', "input.accepted") = HowMany(log, "input.accepted")
  <2> HIDE DEF e
  <2>1. QED
    BY <1>1, <1>2, <1>14, OtherEntry
<1>16. TypesInv'
  BY <1>1, <1>2, <1>3, <1>12 DEF ContextInv, TypesInv, Phases, Replied
<1>17. AdmittedInv'
  BY <1>2, <1>12, <1>15 DEF ContextInv, AdmittedInv
<1>18. StartInv' /\ BrainInv'
  BY <1>1, <1>2, <1>5, <1>13 DEF StartInv, BrainInv, Replied
<1>19. LogInv'
  <2>1. BaseOf(log', pending') = base
    BY <1>6, <1>12, BaseIs
  <2>2. Recorded' = turns /\ (InOrder' => InOrder)
    BY <1>1, <1>2, <1>14, OrderKept DEF ContextInv, Recorded, Replied
  <2>3. ~continued => Alike(base, turns, InOrder')
    BY <1>5, <2>2, AlikeKept
  <2>4. QED
    BY <1>1, <1>2, <1>5, <1>12, <1>13, <2>1, <2>2, <2>3 DEF LogInv, Replied
<1>20. QED
  BY <1>16, <1>17, <1>18, <1>19 DEF ContextInv

LEMMA NextTurnStep == ContextInv /\ NextTurn => ContextInv'
<1> SUFFICES ASSUME ContextInv, NextTurn PROVE ContextInv'
  OBVIOUS
<1>1. /\ phase = "run" /\ phase' = "turn" /\ turn' = turn + 1 /\ turn \in Nat /\ requested = <<>> /\ turns # <<>>
      /\ UNCHANGED <<log, message, turns, pending, requested, continued>>
  BY DEF NextTurn, ContextInv, TypesInv
<1>2. Owed' = Owed /\ Recorded' = Recorded /\ InOrder' = InOrder /\ BaseOf(log', pending') = BaseOf(log, pending)
  BY <1>1 DEF Owed, Recorded, InOrder, Replied
<1>3. TypesInv'
  BY <1>1 DEF ContextInv, TypesInv, Phases, Replied
<1>4. AdmittedInv' /\ StartInv' /\ BrainInv'
  BY <1>1, <1>2 DEF ContextInv, AdmittedInv, StartInv, BrainInv, Replied
<1>5. LogInv'
  <2> DEFINE base == BaseOf(log, pending)
  <2>1. /\ base # <<>> /\ Telling(log, base, pending) /\ Open(base, Owed)
        /\ (~continued => Alike(base, Recorded, InOrder) /\ Models(log)[message] = <<>>)
    BY <1>1 DEF ContextInv, LogInv, Replied
  <2>2. BaseOf(log', pending') = base /\ Telling(log', base, pending')
    BY <1>1, <1>2, <2>1
  <2> HIDE DEF base
  <2>3. QED
    BY <1>1, <1>2, <2>1, <2>2 DEF LogInv, Replied
<1>6. QED
  BY <1>3, <1>4, <1>5 DEF ContextInv

LEMMA ContinueStep == ContextInv /\ Continue => ContextInv'
<1> SUFFICES ASSUME ContextInv, Continue PROVE ContextInv'
  OBVIOUS
<1>1. /\ phase = "answer" /\ phase' = "turn" /\ turn' = turn + 1 /\ turn \in Nat /\ continued' = TRUE /\ turns # <<>>
      /\ UNCHANGED <<log, message, turns, pending, requested>>
  BY DEF Continue, ContextInv, TypesInv
<1>2. Owed' = Owed /\ BaseOf(log', pending') = BaseOf(log, pending)
  BY <1>1 DEF Owed
<1>3. TypesInv'
  BY <1>1 DEF ContextInv, TypesInv, Phases, Replied
<1>4. AdmittedInv' /\ StartInv' /\ BrainInv'
  BY <1>1, <1>2 DEF ContextInv, AdmittedInv, StartInv, BrainInv, Replied
<1>5. LogInv'
  <2> DEFINE base == BaseOf(log, pending)
  <2>1. base # <<>> /\ Telling(log, base, pending) /\ Open(base, Owed)
    BY <1>1 DEF ContextInv, LogInv
  <2>2. BaseOf(log', pending') = base /\ Telling(log', base, pending')
    BY <1>1, <1>2, <2>1
  <2> HIDE DEF base
  <2>3. QED
    BY <1>1, <1>2, <2>1, <2>2 DEF LogInv, Replied
<1>6. QED
  BY <1>3, <1>4, <1>5 DEF ContextInv

(* What the log keeps of a run whose calls all have their results.         *)
LEMMA SettledLog ==
  ASSUME ContextInv, phase \notin {"idle", "claimed"}, requested = <<>>
  PROVE  Context(log) \in Seq(Turns) /\ Context(log) # <<>> /\ Open(Context(log), <<>>)
<1> DEFINE base == BaseOf(log, pending)
<1>1. log \in Seq(Entry) /\ pending \in Results
  BY DEF ContextInv, TypesInv
<1>2. base # <<>> /\ Telling(log, base, pending) /\ Open(base, Refers(pending) \o Refers(<<>>))
  BY DEF ContextInv, LogInv, Owed
<1>3. base \in Seq(Turns)
  BY <1>1, <1>2, BaseTyped
<1> HIDE DEF base
<1>4. Folded(base, pending) \in Seq(Turns) /\ Folded(base, pending) # <<>> /\ Open(Folded(base, pending), <<>>)
  BY <1>1, <1>2, <1>3, FoldedOpen
<1>5. Context(log) = Folded(base, pending)
  BY <1>2, FoldedTold
<1>6. QED
  BY <1>4, <1>5

(* Between runs only the log remains.                                      *)
LEMMA RunOver ==
  ASSUME ContextInv, message \in 1..Messages, NoRun, log' \in Seq(Entry), Open(Context(log'), <<>>),
         HowMany(log', "input.admitted") = HowMany(log, "input.admitted"),
         HowMany(log', "input.accepted") = HowMany(log, "input.accepted"),
         \A m \in 1..Messages : m # message => Models(log')[m] = Models(log)[m]
  PROVE  ContextInv'
<1>1. /\ message' = 0 /\ phase' = "idle" /\ turn' = 0
      /\ turns' = <<>> /\ pending' = <<>> /\ requested' = <<>> /\ continued' = FALSE
  BY DEF NoRun
<1>2. HowMany(log, "input.admitted") \in Nat
  BY HowManyNat DEF ContextInv, TypesInv
<1>3. TypesInv'
  BY <1>1, NoRunTyped, ContextAssumption DEF TypesInv, Phases
<1>4. AdmittedInv'
  <2>1. message <= HowMany(log, "input.admitted")
    BY DEF ContextInv, AdmittedInv
  <2>2. \A m \in 1..Messages : m > HowMany(log, "input.admitted") => Models(log')[m] = Models(log)[m]
    BY <1>2, <2>1
  <2>3. QED
    BY <1>1, <1>2, <2>2 DEF ContextInv, AdmittedInv
<1>5. StartInv' /\ BrainInv' /\ LogInv'
  BY <1>1 DEF StartInv, BrainInv, LogInv
<1>6. QED
  BY <1>3, <1>4, <1>5 DEF ContextInv

LEMMA FinishStep ==
  ASSUME NEW answer \in Blocks, answer.kind \in {"text", "blank"},
         ContextInv, phase \notin {"idle", "claimed"}, requested = <<>>, FinishRun(answer)
  PROVE  ContextInv'
<1> DEFINE parts == <<answer>>
           told == Told(log, message, parts)
           u == Turn("assistant", told)
           e == Committed(message, parts)
<1>1. log \in Seq(Entry) /\ message \in 1..Messages
  BY ContextAssumption DEF ContextInv, TypesInv
<1>2. log' = Append(log, e) /\ NoRun
  BY RecordedOne DEF ContextInv, FinishRun
<1>3. parts \in Spoken /\ parts \in Contents /\ CallsOf(parts) = <<>>
  <2>1. parts \in Spoken
    <3> DEFINE B == {b \in Blocks : b.kind \in ModelKinds}
    <3>1. answer \in B
      BY DEF ModelKinds
    <3> HIDE DEF B
    <3>2. <<answer>> \in Seq(B)
      BY <3>1
    <3>3. QED
      BY <3>2 DEF B, Spoken
  <2>2. OfKind(<<answer>>, CallKinds) = IF answer.kind \in CallKinds THEN <<answer>> ELSE <<>>
    BY KindSingle
  <2>3. answer.kind \notin CallKinds
    BY DEF CallKinds
  <2>4. QED
    BY <2>1, <2>2, <2>3, SpokenTurn DEF CallsOf
<1> HIDE DEF parts
<1>4. /\ told \in Contents /\ CallsOf(told) = <<>> /\ ResultsOf(told) = <<>> /\ OfKind(told, {"memory"}) = <<>>
  BY <1>1, <1>3, ToldTurn
<1>5. message \in AdmittedBy(log)
  BY <1>1 DEF ContextInv, AdmittedInv
<1>6. /\ Context(log') = Append(Context(log), u)
      /\ Models(log') = IF Models(log)[message] = <<>> THEN Models(log) ELSE [Models(log) EXCEPT ![message] = Tail(@)]
  BY <1>1, <1>2, <1>3, <1>5, CommittedReads
<1> HIDE DEF told
<1>7. u \in Turns /\ OneSided(u) /\ Asks(u) = <<>> /\ Answers(u) = <<>> /\ ~Remembers(u)
  BY <1>4, AssistantTurn, RefersEmpty
<1> HIDE DEF u
<1>8. Context(log) \in Seq(Turns) /\ Context(log) # <<>> /\ Open(Context(log), <<>>)
  BY SettledLog
<1>9. Open(Context(log'), <<>>)
  <2> DEFINE context == Context(log)
  <2>1. context \in Seq(Turns) /\ context # <<>> /\ Open(context, <<>>)
    BY <1>8
  <2> HIDE DEF context
  <2>2. Open(Append(context, u), Asks(u))
    BY <1>7, <2>1, OpenAppended
  <2>3. QED
    BY <1>6, <1>7, <2>2 DEF context
<1>10. e \in Entry /\ e.type = "assistant.output.committed"
  BY <1>1, <1>3 DEF Committed, Entry
<1> HIDE DEF e
<1>11. log' \in Seq(Entry)
  BY <1>1, <1>2, <1>10
<1>12. /\ HowMany(log', "input.admitted") = HowMany(log, "input.admitted")
       /\ HowMany(log', "input.accepted") = HowMany(log, "input.accepted")
  BY <1>1, <1>2, <1>10, OtherEntry
<1>13. \A m \in 1..Messages : m # message => Models(log')[m] = Models(log)[m]
  <2>1. Models(log) \in [1..Messages -> Seq(Contents)]
    BY <1>1, LoadedTyped, ReadingFields DEF Models
  <2>2. QED
    BY <1>1, <1>6, <2>1
<1>14. QED
  BY <1>1, <1>2, <1>9, <1>11, <1>12, <1>13, RunOver

LEMMA AnswerStep == ContextInv /\ Answer => ContextInv'
<1> SUFFICES ASSUME ContextInv, Answer PROVE ContextInv'
  OBVIOUS
<1> DEFINE answer == Block("text", Count("model.completed"), 0)
<1>1. phase \notin {"idle", "claimed"} /\ requested = <<>> /\ FinishRun(answer)
  BY DEF Answer, ContextInv, TypesInv
<1>2. Count("model.completed") \in Nat
  BY CountIs, HowManyNat DEF ContextInv, TypesInv
<1>3. answer \in Blocks /\ answer.kind \in {"text", "blank"}
  BY <1>2 DEF Block, Blocks, Kinds
<1> HIDE DEF answer
<1>4. QED
  BY <1>1, <1>3, FinishStep

LEMMA StopByHookStep == ContextInv /\ StopByHook => ContextInv'
<1> SUFFICES ASSUME ContextInv, StopByHook PROVE ContextInv'
  OBVIOUS
<1> DEFINE answer == Block("blank", message, 0)
<1>1. phase \notin {"idle", "claimed"} /\ requested = <<>> /\ FinishRun(answer)
  BY DEF StopByHook, ContextInv, TypesInv
<1>2. message \in Nat
  BY ContextAssumption DEF ContextInv, TypesInv
<1>3. answer \in Blocks /\ answer.kind \in {"text", "blank"}
  BY <1>2 DEF Block, Blocks, Kinds
<1> HIDE DEF answer
<1>4. QED
  BY <1>1, <1>3, FinishStep

(* Appended outcomes change no count of the messages.                      *)
LEMMA OutcomesUncounted ==
  ASSUME NEW s \in Seq(Entry), NEW m \in 1..Messages, NEW results \in Results,
         NEW type, type # "tool.outcome.recorded"
  PROVE  HowMany(s \o Outcomes(m, results), type) = HowMany(s, type)
<1> DEFINE o == Outcomes(m, results)
           t == s \o o
<1>1. results \in Contents
  BY ResultTyped
<1>2. o \in Seq(Entry) /\ \A i \in DOMAIN o : o[i].type = "tool.outcome.recorded"
  <2>1. Len(results) \in Nat /\ DOMAIN results = 1..Len(results) /\ \A i \in 1..Len(results) : results[i] \in Blocks
    BY <1>1 DEF Contents
  <2>2. \A b \in Blocks : Outcome(m, b) \in Entry /\ Outcome(m, b).type = "tool.outcome.recorded"
    <3> TAKE b \in Blocks
    <3>1. <<b>> \in Contents
      BY DEF Contents
    <3>2. QED
      BY <3>1 DEF Outcome, Entry
  <2>3. o \in [1..Len(results) -> Entry] /\ \A i \in 1..Len(results) : o[i].type = "tool.outcome.recorded"
    BY <2>1, <2>2 DEF Outcomes
  <2> HIDE DEF o
  <2>4. QED
    BY <2>1, <2>3
<1> HIDE DEF o
<1>3. /\ Len(s) \in Nat /\ Len(o) \in Nat /\ DOMAIN s = 1..Len(s) /\ DOMAIN o = 1..Len(o)
      /\ DOMAIN t = 1..(Len(s) + Len(o))
      /\ \A i \in 1..(Len(s) + Len(o)) : t[i] = IF i <= Len(s) THEN s[i] ELSE o[i - Len(s)]
  <2>1. /\ t \in Seq(Entry) /\ Len(t) = Len(s) + Len(o)
        /\ \A i \in 1..(Len(s) + Len(o)) : t[i] = IF i <= Len(s) THEN s[i] ELSE o[i - Len(s)]
    BY <1>2, ConcatProperties
  <2> HIDE DEF t
  <2>2. QED
    BY <1>2, <2>1
<1> HIDE DEF t
<1>4. {i \in DOMAIN t : t[i].type = type} = {i \in DOMAIN s : s[i].type = type}
  <2>1. ASSUME NEW i \in 1..(Len(s) + Len(o)), i > Len(s) PROVE t[i].type = "tool.outcome.recorded"
    <3>1. i - Len(s) \in 1..Len(o) /\ ~(i <= Len(s))
      BY <1>3, <2>1
    <3>2. t[i] = o[i - Len(s)]
      BY <1>3, <3>1
    <3>3. QED
      BY <1>2, <1>3, <3>1, <3>2
  <2>2. \A i \in 1..(Len(s) + Len(o)) : i <= Len(s) => t[i] = s[i]
    BY <1>3
  <2>3. ASSUME NEW i PROVE i \in DOMAIN t /\ t[i].type = type <=> i \in DOMAIN s /\ s[i].type = type
    <3>1. CASE i \in DOMAIN s
      BY <1>3, <2>2, <3>1
    <3>2. CASE i \notin DOMAIN s
      BY <1>3, <2>1, <3>2
    <3>3. QED
      BY <3>1, <3>2
  <2>4. QED
    BY <2>3
<1>5. QED
  BY <1>4 DEF HowMany, t, o

(* The results an ended run leaves answer the calls that have none.        *)
Interrupts(requests) == [i \in DOMAIN requests |-> [requests[i] EXCEPT !.kind = "interrupted"]]

LEMMA InterruptsAnswer ==
  ASSUME NEW requests \in Requests
  PROVE  Interrupts(requests) \in Results /\ Refers(Interrupts(requests)) = Refers(requests)
<1> DEFINE B == {b \in Blocks : b.kind \in ResultKinds}
           f == Interrupts(requests)
<1>1. Len(requests) \in Nat /\ DOMAIN requests = 1..Len(requests)
      /\ \A i \in 1..Len(requests) : requests[i] \in Blocks
  BY DEF Requests
<1>2. \A b \in Blocks : [b EXCEPT !.kind = "interrupted"] \in B /\ [b EXCEPT !.kind = "interrupted"].of = b.of
  BY DEF Blocks, Kinds, ResultKinds
<1>3. f \in [1..Len(requests) -> B] /\ \A i \in 1..Len(requests) : f[i].of = requests[i].of
  <2> HIDE DEF B
  <2>1. QED
    BY <1>1, <1>2 DEF Interrupts
<1> HIDE DEF f, B
<1>4. f \in Seq(B) /\ DOMAIN f = DOMAIN requests
  BY <1>1, <1>3
<1>5. Refers(f) = Refers(requests)
  BY <1>1, <1>3, <1>4 DEF Refers
<1>6. QED
  BY <1>4, <1>5 DEF f, B, Results

LEMMA RefersJoined ==
  ASSUME NEW p \in Contents, NEW q \in Contents
  PROVE  Refers(p \o q) = Refers(p) \o Refers(q)
<1> DEFINE P == Nat \X Nat
           f == Refers(p)
           g == Refers(q)
           h == Refers(p \o q)
           pq == p \o q
<1>1. f \in Seq(P) /\ Len(f) = Len(p) /\ \A i \in DOMAIN p : f[i] = p[i].of
  BY RefersSeq
<1>2. g \in Seq(P) /\ Len(g) = Len(q) /\ \A i \in DOMAIN q : g[i] = q[i].of
  BY RefersSeq
<1>3. /\ pq \in Contents /\ Len(pq) = Len(p) + Len(q) /\ Len(p) \in Nat /\ Len(q) \in Nat
      /\ \A i \in 1..(Len(p) + Len(q)) : pq[i] = IF i <= Len(p) THEN p[i] ELSE q[i - Len(p)]
  <2>1. p \in Seq(Blocks) /\ q \in Seq(Blocks)
    BY DEF Contents
  <2>2. QED
    BY <2>1, ConcatProperties DEF Contents
<1>4. DOMAIN p = 1..Len(p) /\ DOMAIN q = 1..Len(q) /\ DOMAIN pq = 1..(Len(p) + Len(q))
  <2> HIDE DEF pq
  <2>1. QED
    BY <1>3 DEF Contents
<1>5. h \in Seq(P) /\ Len(h) = Len(p) + Len(q) /\ \A i \in 1..(Len(p) + Len(q)) : h[i] = pq[i].of
  <2>1. /\ Refers(pq) \in Seq(Nat \X Nat) /\ Len(Refers(pq)) = Len(pq)
        /\ \A i \in DOMAIN pq : Refers(pq)[i] = pq[i].of
    BY <1>3, RefersSeq
  <2>2. QED
    BY <1>3, <1>4, <2>1
<1> HIDE DEF P, f, g, h, pq
<1>6. /\ f \o g \in Seq(P) /\ Len(f \o g) = Len(f) + Len(g)
      /\ \A i \in 1..(Len(f) + Len(g)) : (f \o g)[i] = IF i <= Len(f) THEN f[i] ELSE g[i - Len(f)]
  <2>1. f \in Seq(P) /\ g \in Seq(P)
    BY <1>1, <1>2
  <2>2. QED
    BY <2>1, ConcatProperties
<1>7. ASSUME NEW i \in 1..(Len(p) + Len(q)) PROVE h[i] = (f \o g)[i]
  <2>1. CASE i <= Len(p)
    <3>1. h[i] = p[i].of
      BY <1>3, <1>5, <2>1
    <3>2. f[i] = p[i].of
      BY <1>1, <1>3, <1>4, <2>1
    <3>3. QED
      BY <1>1, <1>2, <1>6, <2>1, <3>1, <3>2
  <2>2. CASE ~(i <= Len(p))
    <3>1. i - Len(p) \in 1..Len(q)
      BY <1>3, <2>2
    <3>2. h[i] = q[i - Len(p)].of
      BY <1>3, <1>5, <2>2
    <3>3. g[i - Len(p)] = q[i - Len(p)].of
      BY <1>2, <1>4, <3>1
    <3>4. QED
      BY <1>1, <1>2, <1>6, <2>2, <3>2, <3>3
  <2>3. QED
    BY <2>1, <2>2
<1>8. h = f \o g
  <2> DEFINE n == Len(p) + Len(q)
  <2>1. n \in Nat /\ Len(h) = n /\ Len(f \o g) = n /\ h \in Seq(P) /\ f \o g \in Seq(P)
    BY <1>1, <1>2, <1>3, <1>5, <1>6
  <2>2. \A i \in 1..n : h[i] = (f \o g)[i]
    BY <1>7
  <2> HIDE DEF n
  <2>3. QED
    BY <2>1, <2>2, SeqEqual
<1>9. QED
  BY <1>8 DEF f, g, h, pq

LEMMA EndRunStep == ContextInv /\ EndRun => ContextInv'
<1> SUFFICES ASSUME ContextInv, EndRun PROVE ContextInv'
  OBVIOUS
<1> DEFINE results == Interrupts(requested)
           base == BaseOf(log, pending)
<1>1. /\ log \in Seq(Entry) /\ message \in 1..Messages /\ phase \notin {"idle", "claimed"}
      /\ pending \in Results /\ requested \in Requests /\ NoRun
  BY ContextAssumption DEF ContextInv, TypesInv, EndRun
<1>2. log' = log \o Outcomes(message, results)
  <2>1. Interrupted = Outcomes(message, results)
    <3>1. DOMAIN results = DOMAIN requested
          /\ \A i \in DOMAIN requested : results[i] = [requested[i] EXCEPT !.kind = "interrupted"]
      BY DEF Interrupts
    <3> HIDE DEF results
    <3>2. QED
      BY <3>1, Zenon DEF Interrupted, Outcomes
  <2>2. QED
    BY <2>1 DEF EndRun, Record
<1>3. results \in Results /\ Refers(results) = Refers(requested)
  BY <1>1, InterruptsAnswer
<1> HIDE DEF results
<1>4. /\ HowMany(log', "input.admitted") = HowMany(log, "input.admitted")
      /\ HowMany(log', "input.accepted") = HowMany(log, "input.accepted")
  BY <1>1, <1>2, <1>3, OutcomesUncounted
<1>5. CASE requested = <<>>
  <2>1. log' = log
    <3>1. DOMAIN Interrupted = {} /\ Interrupted = <<>>
      BY <1>5 DEF Interrupted
    <3>2. QED
      BY <1>1, <3>1 DEF EndRun, Record
  <2>2. Open(Context(log), <<>>)
    BY <1>1, <1>5, SettledLog
  <2>3. QED
    BY <1>1, <1>4, <2>1, <2>2, RunOver
<1>6. CASE requested # <<>>
  <2>1. phase = "run" /\ message \in AdmittedBy(log)
    BY <1>1, <1>6 DEF ContextInv, TypesInv, AdmittedInv
  <2>2. base # <<>> /\ Telling(log, base, pending) /\ Open(base, Owed)
    BY <1>1 DEF ContextInv, LogInv
  <2>3. base \in Seq(Turns)
    BY <1>1, <2>2, BaseTyped
  <2> HIDE DEF base
  <2>4. pending \in Contents /\ results \in Contents
    BY <1>1, <1>3, ResultTyped
  <2>5. Owed = Refers(pending \o results)
    BY <1>3, <2>4, RefersJoined DEF Owed
  <2>6. pending \o results # <<>>
    <3>1. results # <<>>
      <4>1. DOMAIN results = DOMAIN requested
        BY DEF results, Interrupts
      <4>2. Len(requested) \in Nat /\ Len(requested) # 0 /\ DOMAIN requested = 1..Len(requested)
        BY <1>1, <1>6 DEF Requests
      <4>3. DOMAIN <<>> = {}
        OBVIOUS
      <4>4. QED
        BY <4>1, <4>2, <4>3
    <3>2. Len(pending) \in Nat /\ Len(results) \in Nat /\ Len(results) # 0
          /\ Len(pending \o results) = Len(pending) + Len(results)
      BY <2>4, <3>1 DEF Contents
    <3>3. QED
      BY <3>2
  <2>7. pending \o results \in Contents
    BY <2>4 DEF Contents
  <2>8. Owed # <<>>
    BY <2>5, <2>6, <2>7, RefersEmpty DEF Contents
  <2>9. Waiting(base)
    BY <2>2, <2>3, <2>8, OpenWaits
  <2>10. OutcomesTold(log, message, base, pending, results)
    BY <1>1, <1>3, <2>1, <2>2, <2>3, <2>9, OutcomesRead
  <2> DEFINE all == pending \o results
  <2>11. /\ log' \in Seq(Entry) /\ all \in Results /\ Telling(log', base, all) /\ Models(log') = Models(log)
    BY <1>2, <2>10 DEF OutcomesTold
  <2>12. Open(base, Refers(all) \o Refers(<<>>))
    BY <2>2, <2>5, <2>7, OwesNothing
  <2> HIDE DEF all
  <2>13. Open(Folded(base, all), <<>>)
    BY <2>2, <2>3, <2>11, <2>12, FoldedOpen
  <2>14. Context(log') = Folded(base, all)
    BY <2>11, FoldedTold
  <2>15. QED
    BY <1>1, <1>4, <2>11, <2>13, <2>14, RunOver
<1>7. QED
  BY <1>5, <1>6

-----------------------------------------------------------------------------
LEMMA ContextStep == ContextInv /\ [Next]_vars => ContextInv'
<1> SUFFICES ASSUME ContextInv, [Next]_vars PROVE ContextInv'
  OBVIOUS
<1>1. CASE Accept BY <1>1, AcceptStep
<1>2. CASE Claim BY <1>2, ClaimStep
<1>3. CASE StartFails BY <1>3, StartFailsStep
<1>4. CASE Prepare BY <1>4, PrepareStep
<1>5. CASE OpenTurn BY <1>5, OpenTurnStep
<1>6. CASE Compact BY <1>6, CompactStep
<1>7. ASSUME NEW shape \in Shapes, Complete(shape) PROVE ContextInv'
  BY <1>7, CompleteStep
<1>8. ASSUME NEW rewritten \in BOOLEAN, Commit(rewritten) PROVE ContextInv'
  BY <1>8, CommitStep
<1>9. CASE EndCall BY <1>9, EndCallStep
<1>10. CASE NextTurn BY <1>10, NextTurnStep
<1>11. CASE Continue BY <1>11, ContinueStep
<1>12. CASE Answer BY <1>12, AnswerStep
<1>13. CASE StopByHook BY <1>13, StopByHookStep
<1>14. CASE EndRun BY <1>14, EndRunStep
<1>15. CASE UNCHANGED vars
  <2>1. UNCHANGED <<log, message, phase, turn, turns, pending, requested, continued>>
    BY <1>15 DEF vars
  <2>2. Owed' = Owed /\ Recorded' = Recorded /\ InOrder' = InOrder /\ BaseOf(log', pending') = BaseOf(log, pending)
    BY <2>1 DEF Owed, Recorded, InOrder, Replied
  <2>3. TypesInv' /\ AdmittedInv'
    BY <2>1 DEF ContextInv, TypesInv, AdmittedInv
  <2>4. StartInv' /\ BrainInv'
    BY <2>1, <2>2 DEF ContextInv, StartInv, BrainInv
  <2>5. LogInv'
    BY <2>1, <2>2 DEF ContextInv, LogInv
  <2>6. QED
    BY <2>3, <2>4, <2>5 DEF ContextInv
<1>16. QED
  BY <1>1, <1>2, <1>3, <1>4, <1>5, <1>6, <1>7, <1>8, <1>9, <1>10, <1>11, <1>12, <1>13, <1>14, <1>15 DEF Next

(* The inductive invariant, for any number of messages and replies, any    *)
(* turn limit, any compaction budget and any shapes of replies: between    *)
(* runs the replayed log (loadContextAfterTx) owes no result, and while a  *)
(* run executes the log owes exactly what the brain (llm.go) owes.         *)
THEOREM ContextInvariant == Spec => []ContextInv
<1>1. QED
  BY InitContext, ContextStep, PTL DEF Spec

(* Every request llm.go sends is one a provider accepts: it begins with a  *)
(* user turn, every call is followed by its result and the memory is in it *)
(* once; over claims, compactions, interrupted runs and continued ones.    *)
THEOREM RequestsAccepted == Spec => []RequestAccepted
<1>1. QED
  BY ContextInvariant, BrainAccepted, PTL

(* What ClaimNext would rebuild from the log is the transcript the brain   *)
(* works with, at every step of a run no hook continued: the same turns    *)
(* and blocks, whatever the model replied; and in the same places while no *)
(* reply of the run had an empty text before an opaque item, which the     *)
(* brain and the replay place differently (llm.go:401, store.go:1507).     *)
THEOREM ContextsReplay == Spec => []ContextReplays
<1>1. ContextInv => ContextReplays
  BY LogReplays
<1>2. QED
  BY <1>1, ContextInvariant, PTL

=============================================================================
