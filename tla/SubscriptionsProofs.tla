------------------------ MODULE SubscriptionsProofs ------------------------
(***************************************************************************)
(* Theorems about how clients follow a conversation, for any number of     *)
(* clients, any length of the log and any room of a channel.               *)
(***************************************************************************)
EXTENDS Subscriptions, FiniteSetTheorems, SequenceTheorems, TLAPS

-----------------------------------------------------------------------------
(* The backlog: the entries after a cursor, in the order of their cursors. *)

(* Every place among the members of a set is taken.                        *)
Ranked(S) == \A k \in 1..Cardinality(S) : \E n \in S : Rank(n, S) = k - 1

PublicOf(L, cursor) == {n \in 1..Len(L) : n > cursor /\ L[n] = "public"}

(* The rank of a member is its number of smaller ones: it grows strictly.  *)
LEMMA RankGrows ==
  ASSUME NEW S \in SUBSET Nat, IsFiniteSet(S), NEW a \in S, NEW b \in S, a < b
  PROVE  Rank(a, S) \in Nat /\ Rank(b, S) \in Nat /\ Rank(a, S) < Rank(b, S)
<1> DEFINE A == {m \in S : m < a}
           B == {m \in S : m < b}
<1>1. IsFiniteSet(A) /\ IsFiniteSet(B)
  BY FS_Subset
<1>2. Cardinality(A) \in Nat /\ Cardinality(B) \in Nat
  BY <1>1, FS_CardinalityType
<1>3. A \subseteq B \ {a} /\ a \in B
  <2>1. a \in Nat /\ b \in Nat
    OBVIOUS
  <2>2. ASSUME NEW m \in S, m < a PROVE m < b /\ m # a
    <3>1. m \in Nat
      OBVIOUS
    <3>2. QED
      BY <2>1, <2>2, <3>1
  <2>3. QED
    BY <2>2
<1>4. IsFiniteSet(B \ {a}) /\ Cardinality(B \ {a}) = Cardinality(B) - 1
  BY <1>1, <1>3, FS_RemoveElement
<1>5. Cardinality(A) <= Cardinality(B \ {a})
  BY <1>3, <1>4, FS_Subset
<1>6. QED
  BY <1>2, <1>4, <1>5 DEF Rank

(* A member's rank is below the number of members.                         *)
LEMMA RankBound ==
  ASSUME NEW S \in SUBSET Nat, IsFiniteSet(S), NEW a \in S
  PROVE  Cardinality(S) \in Nat /\ Rank(a, S) \in 0..(Cardinality(S) - 1)
<1> DEFINE A == {m \in S : m < a}
<1>1. Cardinality(S) \in Nat
  BY FS_CardinalityType
<1>2. IsFiniteSet(A)
  BY FS_Subset
<1>2a. Cardinality(A) \in Nat
  BY <1>2, FS_CardinalityType
<1>3. IsFiniteSet(S \ {a}) /\ Cardinality(S \ {a}) = Cardinality(S) - 1
  BY FS_RemoveElement
<1>4. A \subseteq S \ {a}
  OBVIOUS
<1>5. Cardinality(A) <= Cardinality(S \ {a})
  BY <1>3, <1>4, FS_Subset
<1>6. QED
  BY <1>1, <1>2a, <1>3, <1>5 DEF Rank

(* A new largest member takes the next place, and no other one moves.      *)
LEMMA RankedGrows ==
  ASSUME NEW S \in SUBSET Nat, IsFiniteSet(S), Ranked(S), NEW m \in Nat, \A n \in S : n < m
  PROVE  Ranked(S \cup {m})
<1>1. m \notin S /\ Cardinality(S) \in Nat
  BY FS_CardinalityType
<1>2. Cardinality(S \cup {m}) = Cardinality(S) + 1
  BY <1>1, FS_AddElement
<1>3. \A n \in S : Rank(n, S \cup {m}) = Rank(n, S)
  <2>1. TAKE n \in S
  <2>2. {x \in S \cup {m} : x < n} = {x \in S : x < n}
    OBVIOUS
  <2>3. QED
    BY <2>2 DEF Rank
<1>4. Rank(m, S \cup {m}) = Cardinality(S)
  <2>1. {x \in S \cup {m} : x < m} = S
    <3>1. ~(m < m) /\ \A x \in S : x < m
      OBVIOUS
    <3>2. QED
      BY <3>1
  <2>2. QED
    BY <2>1 DEF Rank
<1>5. ASSUME NEW k \in 1..(Cardinality(S) + 1)
      PROVE  \E n \in S \cup {m} : Rank(n, S \cup {m}) = k - 1
  <2>1. CASE k = Cardinality(S) + 1
    BY <2>1, <1>1, <1>4
  <2>2. CASE k # Cardinality(S) + 1
    <3>1. k \in 1..Cardinality(S)
      BY <2>2, <1>1
    <3>2. PICK n \in S : Rank(n, S) = k - 1
      BY <3>1 DEF Ranked
    <3>3. QED
      BY <3>2, <1>3
  <2>3. QED
    BY <2>1, <2>2
<1>6. QED
  BY <1>2, <1>5 DEF Ranked

(* The public entries after a cursor are a finite set of numbers.          *)
LEMMA PublicFinite ==
  ASSUME NEW L \in Seq({"public", "private"}), NEW cursor \in Nat
  PROVE  PublicOf(L, cursor) \in SUBSET Nat /\ IsFiniteSet(PublicOf(L, cursor))
<1>1. Len(L) \in Nat
  OBVIOUS
<1>2. IsFiniteSet(1..Len(L))
  BY <1>1, FS_Interval
<1>3. PublicOf(L, cursor) \subseteq 1..Len(L)
  BY DEF PublicOf
<1>4. QED
  BY <1>1, <1>2, <1>3, FS_Subset

(* One more entry keeps them ranked.                                       *)
LEMMA RankedAppend ==
  ASSUME NEW L \in Seq({"public", "private"}), NEW e \in {"public", "private"},
         NEW cursor \in Nat, Ranked(PublicOf(L, cursor))
  PROVE  Ranked(PublicOf(Append(L, e), cursor))
<1>1. /\ Len(Append(L, e)) = Len(L) + 1 /\ Len(L) \in Nat
      /\ Append(L, e)[Len(L) + 1] = e
      /\ \A n \in 1..Len(L) : Append(L, e)[n] = L[n]
  OBVIOUS
<1>2. CASE e = "public" /\ Len(L) + 1 > cursor
  <2>1. PublicOf(Append(L, e), cursor) = PublicOf(L, cursor) \cup {Len(L) + 1}
    BY <1>1, <1>2 DEF PublicOf
  <2>2. \A n \in PublicOf(L, cursor) : n < Len(L) + 1
    BY <1>1 DEF PublicOf
  <2>3. QED
    BY <1>1, <2>1, <2>2, PublicFinite, RankedGrows
<1>3. CASE ~(e = "public" /\ Len(L) + 1 > cursor)
  <2>1. PublicOf(Append(L, e), cursor) = PublicOf(L, cursor)
    BY <1>1, <1>3 DEF PublicOf
  <2>2. QED
    BY <2>1
<1>4. QED
  BY <1>2, <1>3

(* Store.Events returns the public entries after the cursor, each once and *)
(* in order.                                                               *)
LEMMA Events ==
  ASSUME log \in Seq({"public", "private"}), NEW cursor \in Nat, Ranked(PublicOf(log, cursor))
  PROVE  /\ EventsAfter(cursor) \in Seq(1..Len(log))
         /\ Increasing(EventsAfter(cursor))
         /\ Range(EventsAfter(cursor)) = PublicOf(log, cursor)
<1> DEFINE S == PublicOf(log, cursor)
           f == [k \in 1..Cardinality(S) |-> CHOOSE n \in S : Rank(n, S) = k - 1]
<1>1. PublicAfter(cursor) = S
  BY DEF PublicAfter, PublicOf, Public
<1>2. EventsAfter(cursor) = f
  BY <1>1 DEF EventsAfter
<1>3. S \in SUBSET Nat /\ IsFiniteSet(S) /\ Cardinality(S) \in Nat
  BY PublicFinite, FS_CardinalityType
<1>4. S \subseteq 1..Len(log) /\ Len(log) \in Nat /\ \A n \in S : n \in Nat
  BY DEF PublicOf
<1>5. \A k \in 1..Cardinality(S) : f[k] \in S /\ Rank(f[k], S) = k - 1
  BY DEF Ranked
<1> HIDE DEF S
<1>6. f \in Seq(1..Len(log)) /\ DOMAIN f = 1..Cardinality(S)
  <2>1. f \in [1..Cardinality(S) -> 1..Len(log)]
    BY <1>4, <1>5
  <2>2. [1..Cardinality(S) -> 1..Len(log)] \subseteq Seq(1..Len(log))
    BY <1>3, SeqDef
  <2>3. f \in Seq(1..Len(log))
    BY <2>1, <2>2, Zenon
  <2>4. QED
    BY <2>1, <2>3
<1> HIDE DEF f
<1>7. Increasing(f)
  <2>1. SUFFICES ASSUME NEW a \in DOMAIN f, NEW b \in DOMAIN f, a < b, ~(f[a] < f[b])
                 PROVE  FALSE
    BY DEF Increasing
  <2>2. f[a] \in S /\ f[b] \in S /\ Rank(f[a], S) = a - 1 /\ Rank(f[b], S) = b - 1
    BY <1>5, <1>6
  <2>2a. f[a] \in Nat /\ f[b] \in Nat
    BY <2>2, <1>4, Zenon
  <2>3. f[b] <= f[a]
    BY <2>1, <2>2a
  <2>4. Rank(f[b], S) <= Rank(f[a], S)
    <3>1. CASE f[b] = f[a]
      BY <3>1, <2>2, <2>1, <1>6, <1>3
    <3>2. CASE f[b] < f[a]
      <4>1. /\ Rank(f[b], S) \in Nat /\ Rank(f[a], S) \in Nat
            /\ Rank(f[b], S) < Rank(f[a], S)
        BY <3>2, <2>2, <1>3, RankGrows
      <4>2. QED
        BY <4>1
    <3>3. QED
      BY <2>2a, <2>3, <3>1, <3>2
  <2>5. QED
    BY <2>1, <2>2, <2>4, <1>6, <1>3
<1>8. Range(f) = S
  <2>1. Range(f) \subseteq S
    BY <1>5, <1>6 DEF Range
  <2>2. ASSUME NEW n \in S PROVE n \in Range(f)
    <3>1. Rank(n, S) \in 0..(Cardinality(S) - 1)
      BY <1>3, RankBound
    <3>2. PICK k \in 1..Cardinality(S) : k - 1 = Rank(n, S)
      <4>1. Rank(n, S) + 1 \in 1..Cardinality(S)
        BY <3>1, <1>3
      <4>2. QED
        BY <4>1, <3>1
    <3>3. f[k] \in S /\ Rank(f[k], S) = Rank(n, S)
      BY <3>2, <1>5
    <3>4. f[k] = n
      <4>1. f[k] \in Nat /\ n \in Nat
        BY <3>3, <1>4, Zenon
      <4>1a. Rank(n, S) \in Nat
        BY <3>1
      <4>2. ~(f[k] < n)
        BY <4>1, <4>1a, <3>3, <1>3, RankGrows
      <4>3. ~(n < f[k])
        BY <4>1, <4>1a, <3>3, <1>3, RankGrows
      <4>4. QED
        BY <4>1, <4>2, <4>3
    <3>5. QED
      BY <3>4, <1>6 DEF Range
  <2>3. QED
    BY <2>1, <2>2
<1>9. QED
  BY <1>2, <1>6, <1>7, <1>8 DEF S

-----------------------------------------------------------------------------
(* One subscriber.                                                         *)

Subscriber == [open : BOOLEAN, ch : Seq(0..MaxLog), last : 0..MaxLog, room : Nat]

(* The entries of a channel are in order, after the client's cursor, not   *)
(* after the last one given, and public.                                   *)
Ordered(s, cursor, L) ==
  /\ \A a, b \in 1..Len(s.ch) :
       a < b /\ s.ch[a] # Transient /\ s.ch[b] # Transient => s.ch[a] < s.ch[b]
  /\ \A a \in 1..Len(s.ch) : s.ch[a] # Transient =>
       cursor < s.ch[a] /\ s.ch[a] <= s.last /\ s.ch[a] <= Len(L) /\ L[s.ch[a]] = "public"

(* All between the cursor and the last one given is there.                 *)
Whole(s, cursor, L) ==
  \A n \in 1..Len(L) : L[n] = "public" /\ cursor < n /\ n <= s.last =>
    \E a \in 1..Len(s.ch) : s.ch[a] = n

(* An open subscription was given all that was delivered.                  *)
Current(s, cursor, L, frontier) ==
  s.open = TRUE =>
    /\ cursor <= s.last
    /\ \A n \in 1..Len(L) : L[n] = "public" /\ n > s.last => n > frontier

(* A subscriber of a client at this cursor, of a log of which the entries  *)
(* up to the frontier are delivered.                                       *)
Follows(s, cursor, L, frontier) ==
  /\ s \in Subscriber /\ Len(s.ch) <= s.room
  /\ s.last <= frontier
  /\ Ordered(s, cursor, L) /\ Whole(s, cursor, L) /\ Current(s, cursor, L, frontier)

Logs == {L \in Seq({"public", "private"}) : Len(L) <= MaxLog}

(* What a channel holds, and what is left of it.                           *)
LEMMA Channels ==
  ASSUME NEW q \in Seq(0..MaxLog)
  PROVE  /\ Len(q) \in Nat /\ \A a \in 1..Len(q) : q[a] \in Nat
         /\ q # <<>> =>
              /\ Tail(q) \in Seq(0..MaxLog) /\ Len(Tail(q)) = Len(q) - 1 /\ Len(q) > 0
              /\ Head(q) = q[1] /\ Head(q) \in Nat
              /\ \A a \in 1..Len(Tail(q)) : Tail(q)[a] = q[a + 1] /\ a + 1 \in 1..Len(q)
<1>1. Len(q) \in Nat
  OBVIOUS
<1>2. ASSUME NEW a \in 1..Len(q) PROVE q[a] \in Nat
  <2>1. q[a] \in 0..MaxLog
    BY ElementOfSeq
  <2>2. QED
    BY <2>1
<1>3. ASSUME q # <<>>
      PROVE  /\ Tail(q) \in Seq(0..MaxLog) /\ Len(Tail(q)) = Len(q) - 1 /\ Len(q) > 0
             /\ Head(q) = q[1] /\ Head(q) \in Nat
             /\ \A a \in 1..Len(Tail(q)) : Tail(q)[a] = q[a + 1] /\ a + 1 \in 1..Len(q)
  <2>1. Tail(q) \in Seq(0..MaxLog) /\ Len(Tail(q)) = Len(q) - 1
    BY <1>3, HeadTailProperties
  <2>2. \A a \in 1..Len(Tail(q)) : Tail(q)[a] = q[a + 1]
    BY <1>3, HeadTailProperties
  <2>3. Len(q) > 0 /\ Head(q) = q[1]
    BY <1>1, <1>3
  <2>4. Head(q) \in Nat
    BY <1>1, <1>2, <2>3
  <2>5. QED
    BY <1>1, <2>1, <2>2, <2>3, <2>4
<1>4. QED
  BY <1>1, <1>2, <1>3

(* A subscription that is over is not disturbed by what goes on.           *)
LEMMA OverFollows ==
  ASSUME NEW s \in Subscriber, s.open = FALSE, NEW cursor \in Nat, NEW L \in Logs,
         NEW f \in Nat, NEW g \in Nat, f <= g, Follows(s, cursor, L, f)
  PROVE  Follows(s, cursor, L, g)
  BY DEF Follows, Current, Subscriber

(* Ending a subscription keeps what its channel holds.                     *)
LEMMA EndFollows ==
  ASSUME NEW s \in Subscriber, NEW cursor \in Nat, NEW L \in Logs,
         NEW f \in Nat, Follows(s, cursor, L, f)
  PROVE  Follows([s EXCEPT !.open = FALSE], cursor, L, f)
<1> DEFINE t == [s EXCEPT !.open = FALSE]
<1>1. t \in Subscriber /\ t.open = FALSE /\ t.ch = s.ch /\ t.last = s.last /\ t.room = s.room
  BY DEF Subscriber
<1> HIDE DEF t
<1>2. Follows(t, cursor, L, f)
  BY <1>1 DEF Follows, Ordered, Whole, Current
<1>3. QED
  BY <1>2 DEF t

(* A subscriber that is sent one more event.                               *)
Given(s, e, l) == [s EXCEPT !.ch = Append(@, e), !.last = l]

(* What broadcastLocked does to one subscriber.                            *)
LEMMA PushCases ==
  ASSUME NEW s \in Subscriber, NEW e \in 0..MaxLog, e # Transient => e > s.last
  PROVE  \/ s.open = FALSE /\ Push(s, e) = s
         \/ s.open = TRUE /\ Push(s, e) = [s EXCEPT !.open = FALSE]
         \/ /\ s.open = TRUE /\ Len(s.ch) < s.room
            /\ Push(s, e) = Given(s, e, IF e = Transient THEN s.last ELSE e)
<1>1. s.open \in BOOLEAN /\ s.last \in Nat /\ e \in Nat
  BY DEF Subscriber
<1>2. e # Transient => ~(e <= s.last)
  BY <1>1
<1>3. QED
  BY <1>1, <1>2, Zenon DEF Push, Given

(* The next entry of the log moves the frontier of every subscriber.       *)
LEMMA PushNext ==
  ASSUME NEW s \in Subscriber, NEW cursor \in Nat, NEW L \in Logs,
         NEW f \in Nat, Follows(s, cursor, L, f), f + 1 <= Len(L), L[f + 1] = "public"
  PROVE  Follows(Push(s, f + 1), cursor, L, f + 1)
<1>1. /\ Len(L) \in Nat /\ MaxLog \in Nat /\ Len(L) <= MaxLog
      /\ s.last \in Nat /\ s.last <= f /\ s.ch \in Seq(0..MaxLog) /\ s.room \in Nat /\ Len(s.ch) \in Nat
  BY BoundAssumption DEF Logs, Subscriber, Follows
<1>2. f + 1 \in 0..MaxLog /\ f + 1 # Transient /\ f + 1 > s.last
  BY <1>1 DEF Transient
<1>2a. f + 1 \in Nat /\ f <= f + 1
  OBVIOUS
<1>3. CASE s.open = FALSE /\ Push(s, f + 1) = s
  BY <1>2a, <1>3, OverFollows
<1>4. CASE s.open = TRUE /\ Push(s, f + 1) = [s EXCEPT !.open = FALSE]
  <2>1. Follows([s EXCEPT !.open = FALSE], cursor, L, f)
    BY EndFollows
  <2>2. [s EXCEPT !.open = FALSE] \in Subscriber /\ [s EXCEPT !.open = FALSE].open = FALSE
    BY DEF Subscriber
  <2>3. QED
    BY <1>2a, <1>4, <2>1, <2>2, OverFollows
<1>5. CASE /\ s.open = TRUE /\ Len(s.ch) < s.room
           /\ Push(s, f + 1) = Given(s, f + 1, f + 1)
  <2> DEFINE t == Given(s, f + 1, f + 1)
  <2>1. Push(s, f + 1) = t
    BY <1>5, <1>2
  <2>1a. t = Given(s, f + 1, f + 1)
    OBVIOUS
  <2> HIDE DEF t
  <2>2. /\ t \in Subscriber /\ t.ch \in Seq(0..MaxLog) /\ t.open = s.open /\ t.room = s.room
        /\ t.last = f + 1
        /\ Len(t.ch) = Len(s.ch) + 1
        /\ t.ch[Len(s.ch) + 1] = f + 1
        /\ \A a \in 1..Len(s.ch) : t.ch[a] = s.ch[a]
    <3>1. Append(s.ch, f + 1) \in Seq(0..MaxLog)
      BY <1>1, <1>2
    <3>2. t \in Subscriber /\ t.open = s.open /\ t.room = s.room /\ t.last = f + 1 /\ t.ch = Append(s.ch, f + 1)
      BY <1>2, <2>1a, <3>1 DEF Subscriber, Given
    <3>3. QED
      BY <1>1, <3>1, <3>2
  <2>3. cursor <= s.last /\ \A n \in 1..Len(L) : L[n] = "public" /\ n > s.last => n > f
    BY <1>5 DEF Follows, Current
  <2>4. Ordered(t, cursor, L)
    <3>1. \A a \in 1..Len(s.ch) : s.ch[a] \in Nat /\ (s.ch[a] # Transient => s.ch[a] < f + 1)
      <4>1. \A a \in 1..Len(s.ch) : s.ch[a] \in Nat
        BY <1>1, Channels
      <4>2. \A a \in 1..Len(s.ch) : s.ch[a] # Transient => s.ch[a] <= s.last
        BY DEF Follows, Ordered
      <4>3. s.last \in Nat /\ s.last <= f
        BY <1>1
      <4>4. QED
        BY <4>1, <4>2, <4>3
    <3>2. \A a \in 1..Len(t.ch) : a \in 1..Len(s.ch) \/ a = Len(s.ch) + 1
      <4>1. Len(s.ch) \in Nat /\ Len(t.ch) = Len(s.ch) + 1
        BY <1>1, <2>2
      <4>2. QED
        BY <4>1
    <3>3. ASSUME NEW a \in 1..Len(t.ch), NEW b \in 1..Len(t.ch), a < b,
                 t.ch[a] # Transient, t.ch[b] # Transient
          PROVE  t.ch[a] < t.ch[b]
      <4>0. Len(s.ch) \in Nat /\ Len(t.ch) = Len(s.ch) + 1
        BY <1>1, <2>2
      <4>1. a \in 1..Len(s.ch)
        BY <3>3, <4>0
      <4>2. CASE b \in 1..Len(s.ch)
        BY <3>3, <4>1, <4>2, <2>2 DEF Follows, Ordered
      <4>3. CASE b = Len(s.ch) + 1
        BY <3>3, <4>1, <4>3, <2>2, <3>1
      <4>4. QED
        BY <3>2, <4>2, <4>3
    <3>4. ASSUME NEW a \in 1..Len(t.ch), t.ch[a] # Transient
          PROVE  cursor < t.ch[a] /\ t.ch[a] <= t.last /\ t.ch[a] <= Len(L) /\ L[t.ch[a]] = "public"
      <4>1. CASE a \in 1..Len(s.ch)
        <5>1. t.ch[a] = s.ch[a] /\ s.ch[a] \in Nat /\ s.ch[a] < f + 1 /\ cursor < s.ch[a] /\ L[s.ch[a]] = "public"
          BY <3>4, <4>1, <2>2, <3>1 DEF Follows, Ordered
        <5>2. t.last = f + 1 /\ f + 1 <= Len(L) /\ Len(L) \in Nat
          BY <1>1, <2>2
        <5>3. QED
          BY <5>1, <5>2
      <4>2. CASE a = Len(s.ch) + 1
        BY <4>2, <2>2, <2>3, <1>1
      <4>3. QED
        BY <3>2, <4>1, <4>2
    <3>5. QED
      BY <3>3, <3>4 DEF Ordered
  <2>5. Whole(t, cursor, L)
    <3>1. ASSUME NEW n \in 1..Len(L), L[n] = "public", cursor < n, n <= t.last
          PROVE  \E a \in 1..Len(t.ch) : t.ch[a] = n
      <4>1. CASE n <= s.last
        <5>1. PICK a \in 1..Len(s.ch) : s.ch[a] = n
          BY <3>1, <4>1 DEF Follows, Whole
        <5>2. a \in 1..Len(t.ch)
          BY <1>1, <2>2
        <5>3. QED
          BY <5>1, <5>2, <2>2
      <4>2. CASE n > s.last
        <5>1. n = f + 1
          BY <3>1, <4>2, <2>2, <2>3, <1>1
        <5>2. Len(s.ch) + 1 \in 1..Len(t.ch)
          BY <1>1, <2>2
        <5>3. QED
          BY <5>1, <5>2, <2>2
      <4>3. QED
        BY <4>1, <4>2, <1>1
    <3>2. QED
      BY <3>1 DEF Whole
  <2>6. Current(t, cursor, L, f + 1)
    BY <2>2, <2>3, <1>1 DEF Current
  <2>7. Len(t.ch) <= t.room
    BY <1>1, <1>5, <2>2
  <2>8. Follows(t, cursor, L, f + 1)
    BY <1>1, <2>2, <2>4, <2>5, <2>6, <2>7 DEF Follows
  <2>9. QED
    BY <2>1, <2>8
<1>6. QED
  BY <1>2, <1>3, <1>4, <1>5, PushCases

(* A delta or progress event changes nothing of this.                      *)
LEMMA PushTransient ==
  ASSUME NEW s \in Subscriber, NEW cursor \in Nat, NEW L \in Logs,
         NEW f \in Nat, Follows(s, cursor, L, f)
  PROVE  Follows(Push(s, Transient), cursor, L, f)
<1>1. s.ch \in Seq(0..MaxLog) /\ Len(s.ch) \in Nat /\ s.room \in Nat /\ s.last \in 0..MaxLog
  BY DEF Subscriber
<1>2. Transient \in 0..MaxLog
  BY BoundAssumption DEF Transient
<1>3. CASE s.open = TRUE /\ Push(s, Transient) = [s EXCEPT !.open = FALSE]
  BY <1>3, EndFollows
<1>4. CASE /\ s.open = TRUE /\ Len(s.ch) < s.room
           /\ Push(s, Transient) = Given(s, Transient, s.last)
  <2> DEFINE t == Given(s, Transient, s.last)
  <2>1. Push(s, Transient) = t
    BY <1>4
  <2>1a. t = Given(s, Transient, s.last)
    OBVIOUS
  <2> HIDE DEF t
  <2>2. /\ t \in Subscriber /\ t.ch \in Seq(0..MaxLog) /\ t.open = s.open /\ t.room = s.room
        /\ t.last = s.last
        /\ Len(t.ch) = Len(s.ch) + 1
        /\ t.ch[Len(s.ch) + 1] = Transient
        /\ \A a \in 1..Len(s.ch) : t.ch[a] = s.ch[a]
    <3>1. Append(s.ch, Transient) \in Seq(0..MaxLog)
      BY <1>1, <1>2
    <3>2. t \in Subscriber /\ t.open = s.open /\ t.room = s.room /\ t.last = s.last /\ t.ch = Append(s.ch, Transient)
      BY <2>1a, <3>1 DEF Subscriber, Given
    <3>3. QED
      BY <1>1, <3>1, <3>2
  <2>3. \A a \in 1..Len(t.ch) : t.ch[a] # Transient => a \in 1..Len(s.ch) /\ t.ch[a] = s.ch[a]
    BY <1>1, <2>2
  <2>4. Ordered(t, cursor, L)
    BY <2>2, <2>3 DEF Follows, Ordered
  <2>5. Whole(t, cursor, L)
    <3>1. 1..Len(s.ch) \subseteq 1..Len(t.ch)
      BY <1>1, <2>2
    <3>2. QED
      BY <2>2, <3>1 DEF Follows, Whole
  <2>6. Current(t, cursor, L, f)
    BY <2>2 DEF Follows, Current
  <2>7. QED
    BY <1>1, <1>4, <2>1, <2>2, <2>4, <2>5, <2>6 DEF Follows
<1>5. QED
  BY <1>2, <1>3, <1>4, PushCases

(* A commit's events, delivered in order.                                  *)
LEMMA PushAllNext ==
  ASSUME NEW s, NEW cursor \in Nat, NEW L \in Logs, NEW f \in Nat, Follows(s, cursor, L, f),
         NEW events, Len(events) \in {1, 2}, f + Len(events) <= Len(L),
         \A j \in 1..Len(events) : events[j] = f + j,
         \A n \in 1..Len(L) : n > f => L[n] = "public"
  PROVE  Follows(PushAll(s, events), cursor, L, f + Len(events))
<1>1. s \in Subscriber /\ Len(L) \in Nat /\ f + 1 \in Nat
  BY DEF Follows, Logs
<1>2. f + 1 <= Len(L) /\ L[f + 1] = "public" /\ events[1] = f + 1
  BY <1>1
<1>3. Follows(Push(s, f + 1), cursor, L, f + 1)
  BY <1>1, <1>2, PushNext
<1>4. CASE Len(events) = 1
  BY <1>2, <1>3, <1>4 DEF PushAll
<1>5. CASE Len(events) = 2
  <2>1. (f + 1) + 1 <= Len(L) /\ L[(f + 1) + 1] = "public" /\ events[2] = (f + 1) + 1
    BY <1>1, <1>5
  <2>2. Push(s, f + 1) \in Subscriber
    BY <1>3 DEF Follows
  <2>3. Follows(Push(Push(s, f + 1), (f + 1) + 1), cursor, L, (f + 1) + 1)
    BY <1>1, <1>3, <2>1, <2>2, PushNext
  <2>4. PushAll(s, events) = Push(Push(s, f + 1), (f + 1) + 1)
    BY <1>2, <1>5, <2>1 DEF PushAll
  <2>5. (f + 1) + 1 = f + Len(events)
    BY <1>5
  <2>6. QED
    BY <2>3, <2>4, <2>5
<1>6. QED
  BY <1>4, <1>5

(* Two logs of which the second goes on where the first ends.              *)
GoesOn(L, M) == Len(L) <= Len(M) /\ \A n \in 1..Len(L) : M[n] = L[n]

(* A commit concerns no subscriber before it is delivered.                 *)
LEMMA GrowFollows ==
  ASSUME NEW s, NEW cursor \in Nat, NEW L \in Logs, NEW M \in Logs, GoesOn(L, M),
         NEW f \in Nat, f <= Len(L), Follows(s, cursor, L, f)
  PROVE  Follows(s, cursor, M, f)
<1>1. /\ s \in Subscriber /\ s.last \in Nat /\ s.last <= f /\ s.ch \in Seq(0..MaxLog)
      /\ Len(L) \in Nat /\ Len(M) \in Nat /\ Len(L) <= Len(M)
      /\ \A n \in 1..Len(L) : M[n] = L[n]
  BY DEF Follows, Logs, Subscriber, GoesOn
<1>2. Ordered(s, cursor, M)
  <2>1. \A a \in 1..Len(s.ch) : s.ch[a] \in Nat
    BY <1>1, Channels
  <2>2. QED
    BY <1>1, <2>1 DEF Follows, Ordered
<1>3. Whole(s, cursor, M)
  <2>1. \A n \in 1..Len(M) : n <= s.last => n \in 1..Len(L)
    BY <1>1
  <2>2. QED
    BY <1>1, <2>1 DEF Follows, Whole
<1>4. Current(s, cursor, M, f)
  <2>1. \A n \in 1..Len(M) : n \in 1..Len(L) \/ n > f
    BY <1>1
  <2>2. QED
    BY <1>1, <2>1 DEF Follows, Current
<1>5. QED
  BY <1>2, <1>3, <1>4 DEF Follows

(* A private entry is delivered by not being delivered.                    *)
LEMMA PrivateFollows ==
  ASSUME NEW s, NEW cursor \in Nat, NEW L \in Logs, NEW M \in Logs, GoesOn(L, M),
         Len(M) = Len(L) + 1, M[Len(L) + 1] = "private", Follows(s, cursor, L, Len(L))
  PROVE  Follows(s, cursor, M, Len(L) + 1)
<1>1. /\ s \in Subscriber /\ s.last \in Nat /\ s.last <= Len(L) /\ Len(L) \in Nat
  BY DEF Follows, Logs, Subscriber
<1>2. Follows(s, cursor, M, Len(L))
  BY <1>1, GrowFollows
<1>3. ASSUME NEW n \in 1..Len(M), M[n] = "public", n > s.last, s.open = TRUE
      PROVE  n > Len(L) + 1
  BY <1>1, <1>2, <1>3 DEF Follows, Current
<1>4. Current(s, cursor, M, Len(L) + 1)
  BY <1>2, <1>3 DEF Follows, Current
<1>5. QED
  BY <1>1, <1>2, <1>4 DEF Follows

(* No subscriber is one that misses nothing.                               *)
LEMMA NoneFollows ==
  ASSUME NEW cursor \in Nat, NEW L \in Logs, NEW f \in Nat
  PROVE  Follows(NoSubscriber, cursor, L, f)
<1>1. NoSubscriber \in Subscriber /\ NoSubscriber.open = FALSE /\ NoSubscriber.ch = <<>>
      /\ NoSubscriber.last = 0 /\ NoSubscriber.room = 0
  BY BoundAssumption DEF NoSubscriber, Subscriber
<1>2. Ordered(NoSubscriber, cursor, L) /\ Current(NoSubscriber, cursor, L, f)
  BY <1>1 DEF Ordered, Current
<1>3. Whole(NoSubscriber, cursor, L)
  BY <1>1 DEF Whole, Logs
<1>4. QED
  BY <1>1, <1>2, <1>3 DEF Follows

(* A subscriber that starts with its backlog, under the mutex and with no  *)
(* claim under way, has all there is.                                      *)
LEMMA StartFollows ==
  ASSUME NEW L \in Logs, NEW cursor \in Nat, cursor <= Len(L),
         NEW B \in Seq(1..Len(L)), Increasing(B), Range(B) = PublicOf(L, cursor),
         NEW s, s = [open |-> TRUE, ch |-> B, room |-> Len(B) + Spare,
                     last |-> IF B = <<>> THEN cursor ELSE Last(B)]
  PROVE  Follows(s, cursor, L, Len(L))
<1>1. Len(L) \in Nat /\ MaxLog \in Nat /\ Len(L) <= MaxLog /\ Spare \in Nat /\ Len(B) \in Nat
  BY BoundAssumption DEF Logs
<1>2. s.open = TRUE /\ s.ch = B /\ s.room = Len(B) + Spare
  OBVIOUS
<1>3. \A a \in 1..Len(B) : B[a] \in 1..Len(L) /\ cursor < B[a] /\ L[B[a]] = "public"
  BY DEF Range, PublicOf
<1>4. \A n \in 1..Len(L) : L[n] = "public" /\ cursor < n => \E a \in 1..Len(B) : B[a] = n
  <2>1. ASSUME NEW n \in 1..Len(L), L[n] = "public", cursor < n PROVE \E a \in 1..Len(B) : B[a] = n
    <3>1. n \in Range(B)
      BY <2>1, <1>1 DEF PublicOf
    <3>2. QED
      BY <3>1 DEF Range
  <2>2. QED
    BY <2>1
<1>5. \A a, b \in 1..Len(B) : a < b => B[a] < B[b]
  BY DEF Increasing
<1>6. s.last \in 0..Len(L) /\ cursor <= s.last /\ \A a \in 1..Len(B) : B[a] <= s.last
  <2>1. CASE B = <<>>
    BY <2>1, <1>1
  <2>2. CASE B # <<>>
    <3>1. s.last = B[Len(B)] /\ Len(B) \in 1..Len(B)
      BY <2>2 DEF Last
    <3>2. s.last \in 1..Len(L) /\ cursor < s.last
      BY <3>1, <1>3
    <3>3. ASSUME NEW a \in 1..Len(B) PROVE B[a] <= s.last
      <4>1. CASE a = Len(B)
        BY <4>1, <3>1, <3>2, <1>1
      <4>2. CASE a # Len(B)
        <5>1. a < Len(B)
          BY <4>2, <1>1
        <5>2. B[a] < B[Len(B)]
          BY <5>1, <3>1, <1>5
        <5>3. QED
          BY <5>2, <3>1, <3>2, <1>1, <1>3
      <4>3. QED
        BY <4>1, <4>2
    <3>4. QED
      BY <3>2, <3>3, <1>1
  <2>3. QED
    BY <2>1, <2>2
<1>7. s \in Subscriber
  <2>1. B \in Seq(0..MaxLog)
    BY <1>1
  <2>2. s.last \in 0..MaxLog
    BY <1>1, <1>6
  <2>3. QED
    BY <2>1, <2>2, <1>1 DEF Subscriber
<1>8. Ordered(s, cursor, L)
  BY <1>1, <1>2, <1>3, <1>5, <1>6 DEF Ordered
<1>9. Whole(s, cursor, L)
  BY <1>2, <1>4 DEF Whole
<1>10. Current(s, cursor, L, Len(L))
  <2>1. ASSUME NEW n \in 1..Len(L), L[n] = "public", n > s.last PROVE FALSE
    <3>1. cursor < n
      BY <1>1, <1>6, <2>1
    <3>2. PICK a \in 1..Len(B) : B[a] = n
      BY <1>4, <2>1, <3>1
    <3>3. QED
      BY <3>2, <1>1, <1>6, <2>1
  <2>2. QED
    BY <1>6, <2>1 DEF Current
<1>11. QED
  BY <1>1, <1>2, <1>6, <1>7, <1>8, <1>9, <1>10 DEF Follows

(* The client takes one event, and its cursor moves to it if it has one.   *)
LEMMA ReceiveFollows ==
  ASSUME NEW s, NEW cursor \in Nat, NEW L \in Logs, NEW f \in Nat, Follows(s, cursor, L, f),
         s.ch # <<>>
  PROVE  /\ Head(s.ch) \in Nat
         /\ Follows([s EXCEPT !.ch = Tail(@)], IF Head(s.ch) = Transient THEN cursor ELSE Head(s.ch), L, f)
<1> DEFINE t == [s EXCEPT !.ch = Tail(@)]
           h == Head(s.ch)
           c == IF h = Transient THEN cursor ELSE h
<1>1. s \in Subscriber /\ s.ch \in Seq(0..MaxLog) /\ s.last \in Nat /\ s.room \in Nat
  BY DEF Follows, Subscriber
<1>2. Tail(s.ch) \in Seq(0..MaxLog)
  BY <1>1, Channels
<1>3. /\ t \in Subscriber /\ t.open = s.open /\ t.last = s.last /\ t.room = s.room
      /\ t.ch = Tail(s.ch)
  BY <1>1, <1>2 DEF Subscriber
<1>4. /\ Len(s.ch) \in Nat \ {0} /\ Len(t.ch) = Len(s.ch) - 1
      /\ h = s.ch[1] /\ h \in Nat
      /\ \A a \in 1..Len(t.ch) : t.ch[a] = s.ch[a + 1] /\ a + 1 \in 1..Len(s.ch)
  BY <1>1, <1>3, Channels
<1>5. /\ \A a \in 1..Len(s.ch) : s.ch[a] \in Nat
      /\ 1 \in 1..Len(s.ch)
  BY <1>1, <1>4, Channels
<1> HIDE DEF t, h
<1>6. /\ c \in Nat /\ cursor <= c
      /\ s.open = TRUE => c <= s.last
  <2>1. h # Transient => cursor < h /\ h <= s.last
    BY <1>4, <1>5 DEF Follows, Ordered
  <2>2. QED
    BY <2>1, <1>1, <1>4 DEF Follows, Current
<1>7. Ordered(t, c, L)
  <2>1. ASSUME NEW a \in 1..Len(t.ch), NEW b \in 1..Len(t.ch), a < b,
               t.ch[a] # Transient, t.ch[b] # Transient
        PROVE  t.ch[a] < t.ch[b]
    <3>1. a + 1 < b + 1
      BY <2>1
    <3>2. QED
      BY <2>1, <3>1, <1>4 DEF Follows, Ordered
  <2>2. ASSUME NEW a \in 1..Len(t.ch), t.ch[a] # Transient
        PROVE  c < t.ch[a] /\ t.ch[a] <= t.last /\ t.ch[a] <= Len(L) /\ L[t.ch[a]] = "public"
    <3>1. /\ t.ch[a] = s.ch[a + 1] /\ a + 1 \in 1..Len(s.ch) /\ 1 < a + 1
      BY <1>4
    <3>2. cursor < s.ch[a + 1] /\ s.ch[a + 1] <= s.last /\ s.ch[a + 1] <= Len(L) /\ L[s.ch[a + 1]] = "public"
      BY <2>2, <3>1 DEF Follows, Ordered
    <3>3. h # Transient => h < s.ch[a + 1]
      BY <2>2, <3>1, <1>4, <1>5 DEF Follows, Ordered
    <3>4. QED
      BY <3>1, <3>2, <3>3, <1>3
  <2>3. QED
    BY <2>1, <2>2 DEF Ordered
<1>8. Whole(t, c, L)
  <2>1. ASSUME NEW n \in 1..Len(L), L[n] = "public", c < n, n <= t.last
        PROVE  \E a \in 1..Len(t.ch) : t.ch[a] = n
    <3>1. n \in Nat /\ cursor < n /\ n # h
      BY <2>1, <1>4, <1>6 DEF Transient, Logs
    <3>2. PICK b \in 1..Len(s.ch) : s.ch[b] = n
      BY <2>1, <3>1, <1>3 DEF Follows, Whole
    <3>3. b # 1
      BY <3>1, <3>2, <1>4
    <3>4. b - 1 \in 1..Len(t.ch) /\ (b - 1) + 1 = b
      BY <3>3, <1>4
    <3>5. t.ch[b - 1] = n
      BY <3>2, <3>4, <1>4
    <3>6. QED
      BY <3>4, <3>5
  <2>2. QED
    BY <2>1 DEF Whole
<1>9. Current(t, c, L, f)
  BY <1>3, <1>6 DEF Follows, Current
<1>10. Len(t.ch) <= t.room
  BY <1>1, <1>3, <1>4 DEF Follows
<1>11. Follows(t, c, L, f)
  BY <1>3, <1>7, <1>8, <1>9, <1>10 DEF Follows
<1>12. QED
  BY <1>4, <1>11 DEF t, h

-----------------------------------------------------------------------------
(* One client.                                                             *)

CursorOf(r, snap) == IF r = <<>> THEN snap ELSE Last(r)

(* What a client has is the public part of the log between its snapshot    *)
(* and its cursor.                                                         *)
Has(r, snap, L) ==
  /\ CursorOf(r, snap) <= Len(L)
  /\ \A a, b \in 1..Len(r) : a < b => r[a] < r[b]
  /\ \A a \in 1..Len(r) : snap < r[a] /\ r[a] <= CursorOf(r, snap) /\ L[r[a]] = "public"
  /\ \A n \in 1..Len(L) : snap < n /\ n <= CursorOf(r, snap) /\ L[n] = "public" =>
       \E a \in 1..Len(r) : r[a] = n

(* A cursor is a number, not before the snapshot.                          *)
LEMMA Cursors ==
  ASSUME NEW r \in Seq(1..MaxLog), NEW snap \in 0..MaxLog, NEW L \in Logs, Has(r, snap, L)
  PROVE  CursorOf(r, snap) \in Nat /\ snap <= CursorOf(r, snap)
<1>1. CASE r = <<>>
  BY <1>1 DEF CursorOf
<1>2. CASE r # <<>>
  <2>1. Len(r) \in 1..Len(r) /\ CursorOf(r, snap) = r[Len(r)]
    BY <1>2 DEF CursorOf, Last
  <2>2. r[Len(r)] \in 1..MaxLog
    BY <2>1, ElementOfSeq
  <2>3. snap < r[Len(r)]
    BY <2>1 DEF Has
  <2>4. QED
    BY <2>1, <2>2, <2>3
<1>3. QED
  BY <1>1, <1>2

(* A longer log does not change what a client has.                         *)
LEMMA HasGrows ==
  ASSUME NEW r \in Seq(1..MaxLog), NEW snap \in 0..MaxLog, NEW L \in Logs, NEW M \in Logs,
         GoesOn(L, M), Has(r, snap, L)
  PROVE  Has(r, snap, M)
<1>1. /\ Len(L) \in Nat /\ Len(M) \in Nat /\ Len(L) <= Len(M) /\ CursorOf(r, snap) \in Nat
      /\ CursorOf(r, snap) <= Len(L)
  BY Cursors DEF Logs, GoesOn, Has
<1>2. \A n \in 1..Len(L) : M[n] = L[n]
  BY DEF GoesOn
<1>3. \A a \in 1..Len(r) : r[a] \in 1..MaxLog
  BY ElementOfSeq
<1>4. \A a \in 1..Len(r) : L[r[a]] = M[r[a]]
  BY <1>1, <1>2, <1>3 DEF Has
<1>5. \A n \in 1..Len(M) : n <= CursorOf(r, snap) => n \in 1..Len(L)
  BY <1>1
<1>6. QED
  BY <1>1, <1>2, <1>4, <1>5 DEF Has

(* The entry a client takes from its channel is the next one it has not.   *)
LEMMA HasNext ==
  ASSUME NEW r \in Seq(1..MaxLog), NEW snap \in 0..MaxLog, NEW L \in Logs, Has(r, snap, L),
         NEW s, NEW f \in Nat, Follows(s, CursorOf(r, snap), L, f), s.ch # <<>>,
         Head(s.ch) # Transient
  PROVE  /\ Append(r, Head(s.ch)) \in Seq(1..MaxLog)
         /\ CursorOf(Append(r, Head(s.ch)), snap) = Head(s.ch)
         /\ Has(Append(r, Head(s.ch)), snap, L)
<1> DEFINE h == Head(s.ch)
           q == Append(r, h)
<1>1. s.ch \in Seq(0..MaxLog) /\ s.last \in Nat
  BY DEF Follows, Subscriber
<1>2. /\ Len(s.ch) \in Nat /\ 1 \in 1..Len(s.ch) /\ h = s.ch[1] /\ h \in Nat
      /\ \A a \in 1..Len(s.ch) : s.ch[a] \in Nat
  BY <1>1, Channels
<1>3. /\ CursorOf(r, snap) \in Nat /\ snap <= CursorOf(r, snap) /\ snap \in Nat
      /\ Len(L) \in Nat /\ MaxLog \in Nat /\ Len(L) <= MaxLog /\ Len(r) \in Nat
  BY Cursors, BoundAssumption DEF Logs
<1> HIDE DEF h
<1>4. h # Transient
  BY DEF h
<1>5. CursorOf(r, snap) < h /\ h <= s.last /\ h <= Len(L) /\ L[h] = "public"
  BY <1>2, <1>4 DEF Follows, Ordered
<1>6. h \in 1..MaxLog
  BY <1>2, <1>3, <1>5
<1>7. /\ q \in Seq(1..MaxLog) /\ Len(q) = Len(r) + 1 /\ q[Len(r) + 1] = h
      /\ \A a \in 1..Len(r) : q[a] = r[a]
  BY <1>6
<1> HIDE DEF q
<1>8. CursorOf(q, snap) = h
  BY <1>3, <1>7 DEF CursorOf, Last
<1>9. \A a \in 1..Len(q) : a \in 1..Len(r) \/ a = Len(r) + 1
  <2>1. Len(r) \in Nat /\ Len(q) = Len(r) + 1
    BY <1>3, <1>7
  <2>2. QED
    BY <2>1
<1>10. \A a \in 1..Len(r) : r[a] \in Nat
  <2>1. \A a \in 1..Len(r) : r[a] \in 1..MaxLog
    BY ElementOfSeq
  <2>2. QED
    BY <2>1
<1>11. \A a \in 1..Len(r) : snap < r[a] /\ r[a] <= CursorOf(r, snap) /\ L[r[a]] = "public" /\ r[a] < h
  BY <1>2, <1>3, <1>5, <1>10 DEF Has
<1>12. ASSUME NEW a \in 1..Len(q), NEW b \in 1..Len(q), a < b PROVE q[a] < q[b]
  <2>1. a \in 1..Len(r)
    BY <1>12, <1>3, <1>7
  <2>2. CASE b \in 1..Len(r)
    BY <2>1, <2>2, <1>7, <1>12 DEF Has
  <2>3. CASE b = Len(r) + 1
    BY <2>1, <2>3, <1>7, <1>11
  <2>4. QED
    BY <1>9, <2>2, <2>3
<1>13. ASSUME NEW a \in 1..Len(q) PROVE snap < q[a] /\ q[a] <= h /\ L[q[a]] = "public"
  <2>1. CASE a \in 1..Len(r)
    BY <2>1, <1>2, <1>7, <1>10, <1>11
  <2>2. CASE a = Len(r) + 1
    BY <2>2, <1>2, <1>3, <1>5, <1>7
  <2>3. QED
    BY <1>9, <2>1, <2>2
<1>14. ASSUME NEW n \in 1..Len(L), snap < n, n <= h, L[n] = "public"
       PROVE  \E a \in 1..Len(q) : q[a] = n
  <2>1. CASE n <= CursorOf(r, snap)
    <3>1. PICK a \in 1..Len(r) : r[a] = n
      BY <1>14, <2>1 DEF Has
    <3>2. a \in 1..Len(q)
      BY <1>3, <1>7
    <3>3. QED
      BY <3>1, <3>2, <1>7
  <2>2. CASE CursorOf(r, snap) < n
    <3>1. n <= s.last
      BY <1>1, <1>2, <1>3, <1>5, <1>14
    <3>2. PICK b \in 1..Len(s.ch) : s.ch[b] = n
      BY <1>14, <2>2, <3>1 DEF Follows, Whole
    <3>3. n # Transient
      BY <1>3 DEF Transient
    <3>4. b = 1 \/ h < n
      BY <3>2, <3>3, <1>2, <1>4 DEF Follows, Ordered
    <3>5. n = h
      BY <3>2, <3>4, <1>2, <1>3, <1>14
    <3>6. Len(r) + 1 \in 1..Len(q)
      BY <1>3, <1>7
    <3>7. QED
      BY <3>5, <3>6, <1>7
  <2>3. QED
    BY <1>3, <2>1, <2>2
<1>15. Has(q, snap, L)
  BY <1>5, <1>8, <1>12, <1>13, <1>14 DEF Has
<1>16. QED
  BY <1>7, <1>8, <1>15 DEF q, h

-----------------------------------------------------------------------------
(* The inductive invariant.                                                *)

ServerTypes ==
  /\ log \in Logs
  /\ waiting \in 0..MaxWaiting /\ active \in {"none", "claimed", "working"}
  /\ mutex \in {"free", "submit", "run"} /\ closed \in {"open", "closing", "closed"}
  /\ unsent \in Seq(1..MaxLog) /\ claim \in Seq(1..MaxLog)

(* What is committed and not delivered is the end of the log, all public:  *)
(* first what the mutex protects and then the claim.                       *)
Frontier == Len(log) - (Len(unsent) + Len(claim))

Hands ==
  /\ Len(unsent) \in {0, 1, 2} /\ Len(claim) \in {0, 2} /\ Frontier \in Nat
  /\ mutex = "free" <=> Len(unsent) = 0
  /\ active = "claimed" <=> Len(claim) # 0
  /\ \A j \in 1..Len(unsent) : unsent[j] = Frontier + j
  /\ \A j \in 1..Len(claim) : claim[j] = Frontier + Len(unsent) + j
  /\ \A n \in 1..Len(log) : n > Frontier => log[n] = "public"

Ranking == \A cursor \in Nat : Ranked(PublicOf(log, cursor))

ServerInv == ServerTypes /\ Hands /\ Ranking

ClientTypes ==
  /\ sub \in [Clients -> Subscriber]
  /\ client \in [Clients -> {"new", "away", "entering", "connected"}]
  /\ snapshot \in [Clients -> 0..MaxLog]
  /\ received \in [Clients -> Seq(1..MaxLog)]

(* A client that enters keeps claims out, and has no subscriber until it   *)
(* is connected.                                                           *)
Stage(i) ==
  /\ client[i] = "entering" => Len(claim) = 0
  /\ client[i] # "connected" => sub[i] = NoSubscriber
  /\ client[i] = "new" => received[i] = <<>>

Delivered(i) == Follows(sub[i], CursorOf(received[i], snapshot[i]), log, Frontier)

Kept(i) == Has(received[i], snapshot[i], log)

ClientInv == ClientTypes /\ \A i \in Clients : Stage(i) /\ Delivered(i) /\ Kept(i)

FollowInv == ServerInv /\ ClientInv

(* Init.                                                                   *)
LEMMA FollowInit == Init => FollowInv
<1> SUFFICES ASSUME Init PROVE FollowInv
  OBVIOUS
<1> USE DEF Init
<1>1. <<>> \in Logs /\ MaxLog \in Nat /\ 0 \in 0..MaxLog /\ Len(<<>>) = 0
  BY BoundAssumption DEF Logs
<1>2. ServerTypes
  BY <1>1, BoundAssumption DEF ServerTypes
<1>3. Hands /\ Frontier = 0
  <2>1a. Len(log) = 0 /\ Len(unsent) = 0 /\ Len(claim) = 0
    BY <1>1
  <2>1. Frontier = 0 /\ Len(log) = 0 /\ Len(unsent) = 0 /\ Len(claim) = 0
    BY ONLY <2>1a DEF Frontier
  <2>2. \A j \in 1..0 : FALSE
    OBVIOUS
  <2>3. QED
    BY <2>1, <2>2 DEF Hands
<1>4. Ranking
  <2>1. \A cursor \in Nat : PublicOf(log, cursor) = {}
    BY DEF PublicOf
  <2>2. Cardinality({}) = 0
    BY FS_EmptySet
  <2>3. Ranked({})
    BY <2>2 DEF Ranked
  <2>4. QED
    BY <2>1, <2>3 DEF Ranking
<1>5. NoSubscriber \in Subscriber
  BY <1>1 DEF NoSubscriber, Subscriber
<1>6. ClientTypes
  BY <1>1, <1>5 DEF ClientTypes
<1>7. ASSUME NEW i \in Clients PROVE Stage(i) /\ Delivered(i) /\ Kept(i)
  <2>1. received[i] = <<>> /\ snapshot[i] = 0 /\ sub[i] = NoSubscriber /\ CursorOf(<<>>, 0) = 0
    BY DEF CursorOf
  <2>2. Stage(i)
    BY <2>1, <1>1 DEF Stage
  <2>3. Delivered(i)
    BY <2>1, <1>1, <1>3, NoneFollows DEF Delivered
  <2>4. Kept(i)
    BY <2>1, <1>1 DEF Kept, Has
  <2>5. QED
    BY <2>2, <2>3, <2>4
<1>8. QED
  BY <1>2, <1>3, <1>4, <1>6, <1>7 DEF FollowInv, ServerInv, ClientInv

-----------------------------------------------------------------------------
(* The publishers.                                                         *)

(* What Commit(n) does.                                                    *)
LEMMA Commits ==
  ASSUME log \in Logs, Ranking, NEW n \in {1, 2}, Commit(n)
  PROVE  /\ log' \in Logs /\ GoesOn(log, log') /\ Len(log') = Len(log) + n
         /\ \A k \in 1..Len(log') : k > Len(log) => log'[k] = "public"
         /\ Ranking'
         /\ Fresh(n) \in Seq(1..MaxLog) /\ Len(Fresh(n)) = n
         /\ \A j \in 1..n : Fresh(n)[j] = Len(log) + j
<1> DEFINE Two == {"public", "private"}
           E == [i \in 1..n |-> "public"]
<1>1. log \in Seq(Two) /\ Len(log) \in Nat /\ MaxLog \in Nat /\ n \in Nat
  BY BoundAssumption DEF Logs
<1>2. log' = log \o E /\ Len(log) + n <= MaxLog
  BY DEF Commit
<1>3. E \in Seq(Two) /\ Len(E) = n
  OBVIOUS
<1>4. /\ log' \in Seq(Two) /\ Len(log') = Len(log) + n
      /\ \A k \in 1..Len(log) : log'[k] = log[k]
      /\ \A k \in 1..n : log'[Len(log) + k] = "public"
  BY <1>1, <1>2, <1>3
<1>5. \A k \in 1..Len(log') : k > Len(log) => log'[k] = "public"
  <2>1. ASSUME NEW k \in 1..Len(log'), k > Len(log) PROVE log'[k] = "public"
    <3>1. k - Len(log) \in 1..n /\ Len(log) + (k - Len(log)) = k
      BY <2>1, <1>1, <1>4
    <3>2. QED
      BY <3>1, <1>4
  <2>2. QED
    BY <2>1
<1>6. log' \in Logs /\ GoesOn(log, log')
  BY <1>1, <1>2, <1>4 DEF Logs, GoesOn
<1>7. Fresh(n) \in Seq(1..MaxLog) /\ Len(Fresh(n)) = n /\ \A j \in 1..n : Fresh(n)[j] = Len(log) + j
  <2>1. \A j \in 1..n : Len(log) + j \in 1..MaxLog
    BY <1>1, <1>2
  <2>2. QED
    BY <2>1, <1>1 DEF Fresh
<1>8. Ranking'
  <2>1. CASE n = 1
    <3>1. log' = Append(log, "public")
      BY <2>1, <1>1, <1>2
    <3>2. QED
      BY <3>1, <1>1, RankedAppend DEF Ranking
  <2>2. CASE n = 2
    <3>1. log' = Append(Append(log, "public"), "public")
      BY <2>2, <1>1, <1>2
    <3>2. Append(log, "public") \in Seq(Two)
      BY <1>1
    <3>3. \A cursor \in Nat : Ranked(PublicOf(Append(log, "public"), cursor))
      BY <1>1, RankedAppend DEF Ranking
    <3>4. QED
      BY <3>1, <3>2, <3>3, RankedAppend DEF Ranking
  <2>3. QED
    BY <2>1, <2>2
<1>9. QED
  BY <1>4, <1>5, <1>6, <1>7, <1>8

(* A commit that is not delivered leaves every client where it is.         *)
LEMMA CommitKeepsClients ==
  ASSUME ServerInv, ClientInv, log' \in Logs, GoesOn(log, log'), Frontier' = Frontier,
         UNCHANGED <<sub, clients>>, Len(claim') # 0 => Len(claim) # 0 \/ Entering = {}
  PROVE  ClientInv'
<1>1. /\ sub' = sub /\ client' = client /\ snapshot' = snapshot /\ received' = received
      /\ log \in Logs /\ Len(log) \in Nat /\ Frontier \in Nat /\ Frontier <= Len(log)
      /\ Len(unsent) \in Nat /\ Len(claim) \in Nat
  BY DEF clients, ServerInv, ServerTypes, Hands, Frontier, Logs
<1>2. ClientTypes'
  BY <1>1 DEF ClientInv, ClientTypes
<1>3. ASSUME NEW i \in Clients PROVE Stage(i)' /\ Delivered(i)' /\ Kept(i)'
  <2>1. /\ received[i] \in Seq(1..MaxLog) /\ snapshot[i] \in 0..MaxLog
        /\ Stage(i) /\ Delivered(i) /\ Kept(i)
    BY DEF ClientInv, ClientTypes
  <2>2. CursorOf(received[i], snapshot[i]) \in Nat
    BY <2>1, <1>1, Cursors DEF Kept
  <2>3. Stage(i)'
    BY <2>1, <1>1 DEF Stage, Entering
  <2>4. Follows(sub[i], CursorOf(received[i], snapshot[i]), log', Frontier)
    BY <2>1, <2>2, <1>1, GrowFollows DEF Delivered
  <2>5. Has(received[i], snapshot[i], log')
    BY <2>1, <1>1, HasGrows DEF Kept
  <2>6. QED
    BY <2>3, <2>4, <2>5, <1>1 DEF Delivered, Kept
<1>4. QED
  BY <1>2, <1>3 DEF ClientInv

(* The entries a publisher holds, delivered to all.                        *)
LEMMA BroadcastKeepsClients ==
  ASSUME ServerInv, ClientInv, NEW events, Broadcast(events),
         log' = log, claim' \in {<<>>, claim}, UNCHANGED clients,
         Len(events) \in {1, 2}, Frontier' = Frontier + Len(events),
         Frontier + Len(events) <= Len(log),
         \A j \in 1..Len(events) : events[j] = Frontier + j
  PROVE  ClientInv'
<1>1. /\ client' = client /\ snapshot' = snapshot /\ received' = received
      /\ log \in Logs /\ Frontier \in Nat
      /\ \A n \in 1..Len(log) : n > Frontier => log[n] = "public"
  BY DEF clients, ServerInv, ServerTypes, Hands
<1>2. ASSUME NEW i \in Clients
      PROVE  /\ sub'[i] = PushAll(sub[i], events) /\ sub'[i] \in Subscriber
             /\ Stage(i)' /\ Delivered(i)' /\ Kept(i)'
  <2>1. /\ received[i] \in Seq(1..MaxLog) /\ snapshot[i] \in 0..MaxLog
        /\ Stage(i) /\ Delivered(i) /\ Kept(i)
    BY DEF ClientInv, ClientTypes
  <2>2. CursorOf(received[i], snapshot[i]) \in Nat
    BY <2>1, <1>1, Cursors DEF Kept
  <2>3. sub'[i] = PushAll(sub[i], events)
    BY DEF Broadcast
  <2>4. Follows(sub'[i], CursorOf(received[i], snapshot[i]), log, Frontier + Len(events))
    BY <2>1, <2>2, <2>3, <1>1, PushAllNext DEF Delivered
  <2>5. sub[i] = NoSubscriber => sub'[i] = NoSubscriber
    BY <2>3 DEF PushAll, Push, NoSubscriber
  <2>6. Stage(i)'
    BY <2>1, <2>5, <1>1 DEF Stage
  <2>7. QED
    BY <2>1, <2>3, <2>4, <2>6, <1>1 DEF Delivered, Kept, Follows
<1>3. sub' \in [Clients -> Subscriber]
  BY <1>2 DEF Broadcast
<1>4. QED
  BY <1>1, <1>2, <1>3 DEF ClientInv, ClientTypes

(* Submission, claim, turn and end of a run: entries are committed.        *)
LEMMA CommitStep ==
  ASSUME FollowInv, Accept \/ Claim \/ RunEntry \/ RunEnd
  PROVE  FollowInv'
<1>1. /\ ServerInv /\ ClientInv /\ ServerTypes /\ Hands /\ Ranking
      /\ log \in Logs /\ Len(log) \in Nat /\ Len(unsent) \in Nat /\ Len(claim) \in Nat
      /\ Frontier \in Nat /\ Len(log) = Frontier + Len(unsent) + Len(claim)
  BY DEF FollowInv, ServerInv, ServerTypes, Hands, Frontier, Logs
<1>2. (claim = <<>> <=> Len(claim) = 0) /\ (~PublicationLocked <=> Len(claim) = 0)
  BY DEF PublicationLocked, FollowInv, ServerInv, ServerTypes
<1>3. ASSUME NEW n \in {1, 2}, Commit(n), mutex = "free", Len(claim) = 0, claim' = claim,
             unsent' = Fresh(n), mutex' \in {"submit", "run"},
             waiting' \in 0..MaxWaiting, active' \in {"none", active}, active # "claimed",
             UNCHANGED <<closed, sub, clients>>
      PROVE  FollowInv'
  <2>1. /\ log' \in Logs /\ GoesOn(log, log') /\ Len(log') = Len(log) + n
        /\ \A k \in 1..Len(log') : k > Len(log) => log'[k] = "public"
        /\ Ranking'
        /\ unsent' \in Seq(1..MaxLog) /\ Len(unsent') = n
        /\ \A j \in 1..n : unsent'[j] = Len(log) + j
    BY <1>1, <1>3, Commits
  <2>2. Len(unsent) = 0 /\ Frontier = Len(log)
    BY <1>1, <1>3 DEF Hands
  <2>3. Frontier' = Frontier
    BY <2>1, <2>2, <1>1, <1>3 DEF Frontier
  <2>4. ServerTypes'
    BY <2>1, <1>1, <1>3 DEF ServerTypes
  <2>5. Hands'
    <3>1. \A j \in 1..Len(unsent') : unsent'[j] = Frontier' + j
      BY <2>1, <2>2, <2>3
    <3>2. \A k \in 1..Len(log') : k > Frontier' => log'[k] = "public"
      BY <2>1, <2>2, <2>3
    <3>3. (mutex' = "free" <=> Len(unsent') = 0) /\ (active' = "claimed" <=> Len(claim') # 0)
      BY <2>1, <1>1, <1>3
    <3>4. \A j \in 1..Len(claim') : claim'[j] = Frontier' + Len(unsent') + j
      BY <1>3
    <3>5. Len(unsent') \in {0, 1, 2} /\ Len(claim') \in {0, 2} /\ Frontier' \in Nat
      BY <2>1, <2>3, <1>1, <1>3
    <3>6. QED
      BY <3>1, <3>2, <3>3, <3>4, <3>5 DEF Hands
  <2>6. ClientInv'
    BY <2>1, <2>3, <1>1, <1>3, CommitKeepsClients
  <2>7. QED
    BY <2>1, <2>4, <2>5, <2>6 DEF FollowInv, ServerInv
<1>4. CASE Accept
  <2>1. /\ Commit(1) /\ mutex = "free" /\ Len(claim) = 0 /\ claim' = claim /\ unsent' = Fresh(1)
        /\ mutex' = "submit" /\ waiting' = waiting + 1 /\ waiting < MaxWaiting
        /\ active' = active /\ UNCHANGED <<closed, sub, clients>>
    BY <1>2, <1>4 DEF Accept, MayAccept
  <2>2. waiting' \in 0..MaxWaiting /\ active # "claimed"
    BY <2>1, <1>1, BoundAssumption DEF ServerTypes, Hands
  <2>3. QED
    BY <2>1, <2>2, <1>3
<1>5. CASE RunEntry
  <2>1. /\ Commit(1) /\ mutex = "free" /\ active = "working" /\ claim' = claim /\ unsent' = Fresh(1)
        /\ mutex' = "run" /\ waiting' = waiting
        /\ active' = active /\ UNCHANGED <<closed, sub, clients>>
    BY <1>5 DEF RunEntry
  <2>2. waiting' \in 0..MaxWaiting /\ Len(claim) = 0
    BY <2>1, <1>1 DEF ServerTypes, Hands
  <2>3. QED
    BY <2>1, <2>2, <1>3
<1>6. CASE RunEnd
  <2>1. PICK n \in {1, 2} : Commit(n) /\ unsent' = Fresh(n)
    BY <1>6 DEF RunEnd
  <2>2. /\ mutex = "free" /\ active = "working" /\ claim' = claim
        /\ mutex' = "run" /\ waiting' = waiting
        /\ active' = "none" /\ UNCHANGED <<closed, sub, clients>>
    BY <1>6 DEF RunEnd
  <2>3. waiting' \in 0..MaxWaiting /\ Len(claim) = 0
    BY <2>2, <1>1 DEF ServerTypes, Hands
  <2>4. QED
    BY <2>1, <2>2, <2>3, <1>3
<1>7. CASE Claim
  <2>1. /\ Commit(2) /\ Len(claim) = 0 /\ Entering = {} /\ active = "none" /\ active' = "claimed"
        /\ waiting' = waiting - 1 /\ waiting > 0 /\ claim' = Fresh(2)
        /\ mutex' = mutex /\ unsent' = unsent /\ closed' = closed /\ UNCHANGED <<sub, clients>>
    BY <1>2, <1>7 DEF Claim
  <2>2. /\ log' \in Logs /\ GoesOn(log, log') /\ Len(log') = Len(log) + 2
        /\ \A k \in 1..Len(log') : k > Len(log) => log'[k] = "public"
        /\ Ranking'
        /\ claim' \in Seq(1..MaxLog) /\ Len(claim') = 2
        /\ \A j \in 1..2 : claim'[j] = Len(log) + j
    BY <1>1, <2>1, Commits
  <2>2a. Len(unsent') = Len(unsent) /\ Len(log') = Len(log) + 2 /\ Len(claim') = 2 /\ Len(claim) = 0
    BY <2>1, <2>2
  <2>3. Frontier' = Frontier
    BY <2>2a, <1>1 DEF Frontier
  <2>4. ServerTypes'
    <3>1. waiting' \in 0..MaxWaiting
      <4>1. waiting \in 0..MaxWaiting /\ MaxWaiting \in Nat
        BY <1>1, BoundAssumption DEF ServerTypes
      <4>2. QED
        BY <4>1, <2>1
    <3>2. QED
      BY <3>1, <2>1, <2>2, <1>1 DEF ServerTypes
  <2>5. Hands'
    <3>1. \A j \in 1..Len(unsent') : unsent'[j] = Frontier' + j
      BY <2>1, <2>3, <1>1 DEF Hands
    <3>2. \A k \in 1..Len(log') : k > Frontier' => log'[k] = "public"
      <4>1. \A k \in 1..Len(log') : k \in 1..Len(log) \/ k > Len(log)
        BY <2>2, <1>1
      <4>2. QED
        BY <4>1, <2>2, <2>3, <1>1 DEF Hands, GoesOn
    <3>3. (mutex' = "free" <=> Len(unsent') = 0) /\ (active' = "claimed" <=> Len(claim') # 0)
      BY <2>1, <2>2, <1>1 DEF Hands
    <3>4. \A j \in 1..Len(claim') : claim'[j] = Frontier' + Len(unsent') + j
      BY <2>1, <2>2, <2>3, <1>1
    <3>5. Len(unsent') \in {0, 1, 2} /\ Len(claim') \in {0, 2} /\ Frontier' \in Nat
      BY <2>1, <2>2, <2>3, <1>1 DEF Hands
    <3>6. QED
      BY <3>1, <3>2, <3>3, <3>4, <3>5 DEF Hands
  <2>6. ClientInv'
    BY <2>1, <2>2, <2>3, <1>1, CommitKeepsClients
  <2>7. QED
    BY <2>2, <2>4, <2>5, <2>6 DEF FollowInv, ServerInv
<1>8. QED
  BY <1>4, <1>5, <1>6, <1>7

(* A publisher delivers what it committed.                                 *)
LEMMA DeliverStep ==
  ASSUME FollowInv, PublishClaim \/ Deliver
  PROVE  FollowInv'
<1>1. /\ ServerInv /\ ClientInv /\ ServerTypes /\ Hands /\ Ranking
      /\ log \in Logs /\ Len(log) \in Nat /\ Len(unsent) \in {0, 1, 2} /\ Len(claim) \in {0, 2}
      /\ Frontier \in Nat /\ Len(log) = Frontier + Len(unsent) + Len(claim)
  BY DEF FollowInv, ServerInv, ServerTypes, Hands, Frontier, Logs
<1>2. (claim = <<>> <=> Len(claim) = 0) /\ Len(<<>>) = 0
  BY DEF FollowInv, ServerInv, ServerTypes
<1>3. CASE PublishClaim
  <2>1. /\ Len(claim) # 0 /\ mutex = "free" /\ Broadcast(claim) /\ claim' = <<>>
        /\ active' = "working" /\ log' = log /\ waiting' = waiting /\ mutex' = mutex /\ unsent' = unsent
        /\ closed' = closed /\ UNCHANGED clients
    BY <1>2, <1>3 DEF PublishClaim, PublicationLocked
  <2>2. Len(unsent) = 0 /\ Len(claim) = 2 /\ Len(unsent') = 0 /\ Len(claim') = 0
    BY <2>1, <1>1, <1>2 DEF Hands
  <2>3. Frontier' = Frontier + 2 /\ Frontier' = Len(log)
    BY <2>1, <2>2, <1>1 DEF Frontier
  <2>4. \A j \in 1..Len(claim) : claim[j] = Frontier + j
    BY <2>2, <1>1 DEF Hands
  <2>5. ClientInv'
    <3>1. /\ claim' \in {<<>>, claim} /\ Len(claim) \in {1, 2} /\ Frontier' = Frontier + Len(claim)
          /\ Frontier + Len(claim) <= Len(log)
      BY <2>1, <2>2, <2>3, <1>1
    <3>2. QED
      BY <2>1, <2>4, <3>1, <1>1, BroadcastKeepsClients
  <2>6. ServerTypes'
    BY <2>1, <1>1 DEF ServerTypes
  <2>7. Hands'
    <3>1. (mutex' = "free" <=> Len(unsent') = 0) /\ (active' = "claimed" <=> Len(claim') # 0)
      BY <2>1, <2>2
    <3>2. QED
      BY <2>1, <2>2, <2>3, <1>1, <3>1 DEF Hands
  <2>8. QED
    BY <2>1, <2>5, <2>6, <2>7, <1>1 DEF FollowInv, ServerInv, Ranking
<1>4. CASE Deliver
  <2>1. /\ mutex # "free" /\ Broadcast(unsent) /\ mutex' = "free" /\ unsent' = <<>>
        /\ log' = log /\ waiting' = waiting /\ active' = active /\ claim' = claim /\ closed' = closed
        /\ UNCHANGED clients
    BY <1>4 DEF Deliver
  <2>2. Len(unsent) \in {1, 2} /\ Len(unsent') = 0
    BY <2>1, <1>1, <1>2 DEF Hands
  <2>3. Frontier' = Frontier + Len(unsent) /\ Frontier + Len(unsent) <= Len(log)
    BY <2>1, <2>2, <1>1 DEF Frontier
  <2>4. \A j \in 1..Len(unsent) : unsent[j] = Frontier + j
    BY <1>1 DEF Hands
  <2>5. ClientInv'
    BY <2>1, <2>2, <2>3, <2>4, <1>1, BroadcastKeepsClients
  <2>6. ServerTypes'
    BY <2>1, <1>1 DEF ServerTypes
  <2>7. Hands'
    <3>1. (mutex' = "free" <=> Len(unsent') = 0) /\ (active' = "claimed" <=> Len(claim') # 0)
      BY <2>1, <2>2, <1>1 DEF Hands
    <3>2. \A j \in 1..Len(claim') : claim'[j] = Frontier' + Len(unsent') + j
      BY <2>1, <2>2, <2>3, <1>1 DEF Hands
    <3>3. \A n \in 1..Len(log') : n > Frontier' => log'[n] = "public"
      BY <2>1, <2>2, <2>3, <1>1 DEF Hands
    <3>4. QED
      BY <2>1, <2>2, <2>3, <1>1, <3>1, <3>2, <3>3 DEF Hands
  <2>8. QED
    BY <2>1, <2>5, <2>6, <2>7, <1>1 DEF FollowInv, ServerInv, Ranking
<1>5. QED
  BY <1>3, <1>4

(* An agent's own entry is committed, and no client is told.               *)
LEMMA PrivateStep ==
  ASSUME FollowInv, PrivateEntry
  PROVE  FollowInv'
<1>1. /\ ServerInv /\ ClientInv /\ ServerTypes /\ Hands /\ Ranking
      /\ log \in Logs /\ log \in Seq({"public", "private"}) /\ Len(log) \in Nat /\ MaxLog \in Nat
      /\ Frontier \in Nat /\ Len(unsent) \in Nat /\ Len(claim) \in Nat
  BY BoundAssumption DEF FollowInv, ServerInv, ServerTypes, Hands, Logs
<1>2. /\ active = "working" /\ mutex = "free" /\ Len(log) < MaxLog /\ log' = Append(log, "private")
      /\ waiting' = waiting /\ active' = active /\ mutex' = mutex /\ unsent' = unsent /\ claim' = claim
      /\ closed' = closed /\ sub' = sub /\ client' = client /\ snapshot' = snapshot /\ received' = received
  BY DEF PrivateEntry, clients
<1>3. Len(unsent) = 0 /\ Len(claim) = 0
  BY <1>1, <1>2 DEF Hands
<1>4. /\ log' \in Seq({"public", "private"}) /\ Len(log') = Len(log) + 1 /\ log'[Len(log) + 1] = "private"
      /\ \A n \in 1..Len(log) : log'[n] = log[n]
  BY <1>1, <1>2
<1>5. log' \in Logs /\ GoesOn(log, log')
  BY <1>1, <1>2, <1>4 DEF Logs, GoesOn
<1>6. Frontier = Len(log) /\ Frontier' = Len(log) + 1
  BY <1>1, <1>2, <1>3, <1>4 DEF Frontier
<1>7. Ranking'
  BY <1>1, <1>2, RankedAppend DEF Ranking
<1>8. ServerTypes'
  BY <1>1, <1>2, <1>5 DEF ServerTypes
<1>9. Hands'
  <2>1. \A n \in 1..Len(log') : ~(n > Frontier')
    BY <1>1, <1>4, <1>6
  <2>2. QED
    BY <2>1, <1>1, <1>2, <1>3, <1>6 DEF Hands
<1>10. ASSUME NEW i \in Clients PROVE Stage(i)' /\ Delivered(i)' /\ Kept(i)'
  <2>1. /\ received[i] \in Seq(1..MaxLog) /\ snapshot[i] \in 0..MaxLog
        /\ Stage(i) /\ Delivered(i) /\ Kept(i)
    BY <1>1 DEF ClientInv, ClientTypes
  <2>2. CursorOf(received[i], snapshot[i]) \in Nat
    BY <2>1, <1>1, Cursors DEF Kept
  <2>3. Stage(i)'
    BY <2>1, <1>2 DEF Stage
  <2>4. Follows(sub[i], CursorOf(received[i], snapshot[i]), log', Len(log) + 1)
    BY <2>1, <2>2, <1>1, <1>4, <1>5, <1>6, PrivateFollows DEF Delivered
  <2>5. Has(received[i], snapshot[i], log')
    BY <2>1, <1>1, <1>5, HasGrows DEF Kept
  <2>6. QED
    BY <2>3, <2>4, <2>5, <1>2, <1>6 DEF Delivered, Kept
<1>11. ClientTypes'
  BY <1>1, <1>2 DEF ClientInv, ClientTypes
<1>12. QED
  BY <1>7, <1>8, <1>9, <1>10, <1>11 DEF FollowInv, ServerInv, ClientInv

(* A delta goes to every channel with room.                                *)
LEMMA DeltaStep ==
  ASSUME FollowInv, Delta
  PROVE  FollowInv'
<1>1. /\ ServerInv /\ ClientInv /\ log \in Logs /\ Frontier \in Nat
  BY DEF FollowInv, ServerInv, ServerTypes, Hands
<1>2. /\ Broadcast(<<Transient>>) /\ log' = log /\ waiting' = waiting /\ active' = active /\ mutex' = mutex
      /\ unsent' = unsent /\ claim' = claim /\ closed' = closed
      /\ client' = client /\ snapshot' = snapshot /\ received' = received
  BY DEF Delta, server, clients
<1>3. Frontier' = Frontier
  BY <1>2 DEF Frontier
<1>4. ServerInv'
  BY <1>1, <1>2, <1>3 DEF ServerInv, ServerTypes, Hands, Ranking
<1>5. ASSUME NEW i \in Clients
      PROVE  sub'[i] \in Subscriber /\ Stage(i)' /\ Delivered(i)' /\ Kept(i)'
  <2>1. /\ received[i] \in Seq(1..MaxLog) /\ snapshot[i] \in 0..MaxLog
        /\ Stage(i) /\ Delivered(i) /\ Kept(i) /\ sub[i] \in Subscriber
    BY <1>1 DEF ClientInv, ClientTypes
  <2>2. CursorOf(received[i], snapshot[i]) \in Nat
    BY <2>1, <1>1, Cursors DEF Kept
  <2>3. sub'[i] = Push(sub[i], Transient)
    BY <1>2 DEF Broadcast, PushAll
  <2>4. Follows(sub'[i], CursorOf(received[i], snapshot[i]), log, Frontier)
    BY <2>1, <2>2, <2>3, <1>1, PushTransient DEF Delivered
  <2>5. sub[i] = NoSubscriber => sub'[i] = NoSubscriber
    BY <2>3 DEF Push, NoSubscriber
  <2>6. Stage(i)'
    BY <2>1, <2>5, <1>2 DEF Stage
  <2>7. QED
    BY <2>1, <2>4, <2>6, <1>2, <1>3 DEF Delivered, Kept, Follows
<1>6. sub' \in [Clients -> Subscriber]
  BY <1>2, <1>5 DEF Broadcast
<1>7. QED
  BY <1>1, <1>2, <1>4, <1>5, <1>6 DEF FollowInv, ClientInv, ClientTypes

(* Close sets its flag, and ends every subscription there is.              *)
LEMMA CloseStep ==
  ASSUME FollowInv, CloseBegins \/ CloseSubscribers
  PROVE  FollowInv'
<1>1. /\ ServerInv /\ ClientInv /\ log \in Logs /\ Frontier \in Nat
  BY DEF FollowInv, ServerInv, ServerTypes, Hands
<1>2. /\ log' = log /\ waiting' = waiting /\ active' = active /\ mutex' = mutex
      /\ unsent' = unsent /\ claim' = claim /\ closed' \in {"closing", "closed"}
      /\ client' = client /\ snapshot' = snapshot /\ received' = received
  BY DEF CloseBegins, CloseSubscribers, clients
<1>3. sub' = sub \/ sub' = [i \in Clients |-> [sub[i] EXCEPT !.open = FALSE]]
  BY DEF CloseBegins, CloseSubscribers
<1>4. Frontier' = Frontier
  BY <1>2 DEF Frontier
<1>5. ServerInv'
  BY <1>1, <1>2, <1>4 DEF ServerInv, ServerTypes, Hands, Ranking
<1>6. ASSUME NEW i \in Clients
      PROVE  sub'[i] \in Subscriber /\ Stage(i)' /\ Delivered(i)' /\ Kept(i)'
  <2>1. /\ received[i] \in Seq(1..MaxLog) /\ snapshot[i] \in 0..MaxLog
        /\ Stage(i) /\ Delivered(i) /\ Kept(i) /\ sub[i] \in Subscriber
    BY <1>1 DEF ClientInv, ClientTypes
  <2>2. CursorOf(received[i], snapshot[i]) \in Nat
    BY <2>1, <1>1, Cursors DEF Kept
  <2>3. sub'[i] = sub[i] \/ sub'[i] = [sub[i] EXCEPT !.open = FALSE]
    BY <1>3
  <2>4. Follows(sub'[i], CursorOf(received[i], snapshot[i]), log, Frontier)
    BY <2>1, <2>2, <2>3, <1>1, EndFollows DEF Delivered
  <2>5. sub[i] = NoSubscriber => sub'[i] = NoSubscriber
    <3>1. NoSubscriber.open = FALSE
      BY DEF NoSubscriber
    <3>2. sub[i] = NoSubscriber => [sub[i] EXCEPT !.open = FALSE] = sub[i]
      BY <2>1, <3>1 DEF Subscriber
    <3>3. QED
      BY <2>3, <3>2
  <2>6. Stage(i)'
    BY <2>1, <2>5, <1>2 DEF Stage
  <2>7. QED
    BY <2>1, <2>4, <2>6, <1>2, <1>4 DEF Delivered, Kept, Follows
<1>7. sub' \in [Clients -> Subscriber]
  <2>1. sub \in [Clients -> Subscriber]
    BY <1>1 DEF ClientInv, ClientTypes
  <2>2. QED
    BY <2>1, <1>3, <1>6
<1>8. QED
  BY <1>1, <1>2, <1>5, <1>6, <1>7 DEF FollowInv, ClientInv, ClientTypes

-----------------------------------------------------------------------------
(* The clients.                                                            *)

(* A step of one client leaves the server and the other clients alone, so  *)
(* what it has to keep is its own part.                                    *)
LEMMA OneClient ==
  ASSUME FollowInv, NEW i \in Clients, UNCHANGED server, ClientTypes',
         \A j \in Clients : j # i =>
           sub'[j] = sub[j] /\ client'[j] = client[j] /\ snapshot'[j] = snapshot[j] /\ received'[j] = received[j],
         Stage(i)', Delivered(i)', Kept(i)'
  PROVE  FollowInv'
<1>1. /\ log' = log /\ waiting' = waiting /\ active' = active /\ mutex' = mutex
      /\ unsent' = unsent /\ claim' = claim /\ closed' = closed
  BY DEF server
<1>2. Frontier' = Frontier
  BY <1>1 DEF Frontier
<1>3. ServerInv'
  BY <1>1, <1>2 DEF FollowInv, ServerInv, ServerTypes, Hands, Ranking
<1>4. ASSUME NEW j \in Clients, j # i PROVE Stage(j)' /\ Delivered(j)' /\ Kept(j)'
  <2>1. Stage(j) /\ Delivered(j) /\ Kept(j)
    BY DEF FollowInv, ClientInv
  <2>2. sub'[j] = sub[j] /\ client'[j] = client[j] /\ snapshot'[j] = snapshot[j] /\ received'[j] = received[j]
    BY <1>4
  <2>3. QED
    BY <1>1, <1>2, <2>1, <2>2 DEF Stage, Delivered, Kept
<1>5. QED
  BY <1>3, <1>4 DEF FollowInv, ClientInv

(* The parts of the invariant a client's step needs.                       *)
LEMMA ClientFacts ==
  ASSUME FollowInv, NEW i \in Clients
  PROVE  /\ ClientTypes /\ log \in Logs /\ Frontier \in Nat /\ Len(log) \in Nat /\ Len(log) <= MaxLog
         /\ sub[i] \in Subscriber /\ received[i] \in Seq(1..MaxLog) /\ snapshot[i] \in 0..MaxLog
         /\ Stage(i) /\ Delivered(i) /\ Kept(i)
         /\ CursorOf(received[i], snapshot[i]) \in Nat
<1>1. /\ ClientTypes /\ log \in Logs /\ Frontier \in Nat /\ Len(log) \in Nat /\ Len(log) <= MaxLog
      /\ Stage(i) /\ Delivered(i) /\ Kept(i)
  BY DEF FollowInv, ServerInv, ServerTypes, Hands, ClientInv, Logs
<1>2. sub[i] \in Subscriber /\ received[i] \in Seq(1..MaxLog) /\ snapshot[i] \in 0..MaxLog
  BY <1>1 DEF ClientTypes
<1>3. CursorOf(received[i], snapshot[i]) \in Nat
  BY <1>1, <1>2, Cursors DEF Kept
<1>4. QED
  BY <1>1, <1>2, <1>3

(* A client takes a View, or asks for a stream.                            *)
LEMMA EnterStep ==
  ASSUME FollowInv, NEW i \in Clients, View(i) \/ Subscribe(i)
  PROVE  FollowInv'
<1>1. /\ ClientTypes /\ log \in Logs /\ Frontier \in Nat /\ Len(log) \in Nat /\ Len(log) <= MaxLog
      /\ Stage(i) /\ Delivered(i) /\ Kept(i)
  BY ClientFacts
<1>2. UNCHANGED server /\ log' = log /\ claim' = claim /\ unsent' = unsent /\ Frontier' = Frontier
  BY DEF View, Subscribe, server, Frontier
<1>3. CASE View(i)
  <2>1. /\ client[i] = "new" /\ snapshot' = [snapshot EXCEPT ![i] = Len(log)]
        /\ client' = [client EXCEPT ![i] = "away"] /\ sub' = sub /\ received' = received
    BY <1>3 DEF View
  <2>2. ClientTypes'
    <3>1. Len(log) \in 0..MaxLog
      BY <1>1
    <3>2. QED
      BY <2>1, <3>1, <1>1 DEF ClientTypes
  <2>3. /\ received'[i] = <<>> /\ snapshot'[i] = Len(log) /\ client'[i] = "away" /\ sub'[i] = NoSubscriber
    BY <2>1, <1>1 DEF Stage, ClientTypes
  <2>4. CursorOf(<<>>, Len(log)) = Len(log)
    BY DEF CursorOf
  <2>5. Stage(i)'
    BY <2>3 DEF Stage
  <2>6. Delivered(i)'
    BY <2>3, <2>4, <1>1, <1>2, NoneFollows DEF Delivered
  <2>7. Kept(i)'
    BY <2>3, <2>4, <1>1, <1>2 DEF Kept, Has
  <2>8. \A j \in Clients : j # i =>
          sub'[j] = sub[j] /\ client'[j] = client[j] /\ snapshot'[j] = snapshot[j] /\ received'[j] = received[j]
    BY <2>1, <1>1 DEF ClientTypes
  <2>9. QED
    BY <1>2, <2>2, <2>5, <2>6, <2>7, <2>8, OneClient
<1>4. CASE Subscribe(i)
  <2>1. /\ client[i] = "away" /\ claim = <<>>
        /\ client' = [client EXCEPT ![i] = "entering"] /\ sub' = sub /\ snapshot' = snapshot /\ received' = received
    BY <1>4 DEF Subscribe, PublicationLocked
  <2>2. ClientTypes'
    BY <2>1, <1>1 DEF ClientTypes
  <2>3. client'[i] = "entering" /\ Len(claim') = 0
    BY <2>1, <1>1, <1>2 DEF ClientTypes
  <2>4. Stage(i)'
    BY <2>1, <2>3, <1>1 DEF Stage
  <2>5. Delivered(i)' /\ Kept(i)'
    BY <2>1, <1>1, <1>2 DEF Delivered, Kept
  <2>6. \A j \in Clients : j # i =>
          sub'[j] = sub[j] /\ client'[j] = client[j] /\ snapshot'[j] = snapshot[j] /\ received'[j] = received[j]
    BY <2>1, <1>1 DEF ClientTypes
  <2>7. QED
    BY <1>2, <2>2, <2>4, <2>5, <2>6, OneClient
<1>5. QED
  BY <1>3, <1>4

(* A subscriber is registered with its backlog: the mutex is free and no   *)
(* claim is under way, so the frontier is the end of the log.              *)
LEMMA RegisterStep ==
  ASSUME FollowInv, NEW i \in Clients, Register(i)
  PROVE  FollowInv'
<1> DEFINE B == Backlog(i)
           s == [open |-> TRUE, ch |-> B, room |-> Len(B) + Spare,
                 last |-> IF B = <<>> THEN CursorOf(received[i], snapshot[i]) ELSE Last(B)]
<1>1. /\ ClientTypes /\ log \in Logs /\ Frontier \in Nat /\ Len(log) \in Nat /\ Len(log) <= MaxLog
      /\ Stage(i) /\ Delivered(i) /\ Kept(i) /\ CursorOf(received[i], snapshot[i]) \in Nat
  BY ClientFacts
<1>2. UNCHANGED server /\ log' = log /\ claim' = claim /\ unsent' = unsent /\ Frontier' = Frontier
  BY DEF Register, server, Frontier
<1>3. Cursor(i) = CursorOf(received[i], snapshot[i])
  BY DEF Cursor, CursorOf
<1>4. /\ client[i] = "entering" /\ mutex = "free" /\ sub' = [sub EXCEPT ![i] = s]
      /\ client' = [client EXCEPT ![i] = "connected"] /\ snapshot' = snapshot /\ received' = received
  BY <1>3 DEF Register
<1>5. Frontier = Len(log)
  <2>1. Len(claim) = 0 /\ Len(unsent) = 0
    BY <1>1, <1>4 DEF FollowInv, ServerInv, Hands, Stage
  <2>2. QED
    BY <2>1, <1>1 DEF Frontier
<1>6. /\ B \in Seq(1..Len(log)) /\ Increasing(B)
      /\ Range(B) = PublicOf(log, CursorOf(received[i], snapshot[i]))
  <2>1. log \in Seq({"public", "private"}) /\ Ranked(PublicOf(log, CursorOf(received[i], snapshot[i])))
    BY <1>1 DEF FollowInv, ServerInv, Ranking, Logs
  <2>2. QED
    BY <2>1, <1>1, <1>3, Events DEF Backlog
<1>7. CursorOf(received[i], snapshot[i]) <= Len(log)
  BY <1>1 DEF Kept, Has
<1> HIDE DEF B
<1>8. Follows(s, CursorOf(received[i], snapshot[i]), log, Len(log))
  BY <1>1, <1>6, <1>7, StartFollows
<1>9. s \in Subscriber
  BY <1>8 DEF Follows
<1> HIDE DEF s
<1>10. ClientTypes' /\ sub'[i] = s /\ client'[i] = "connected"
  BY <1>1, <1>4, <1>9 DEF ClientTypes
<1>11. Stage(i)'
  BY <1>10 DEF Stage
<1>12. Delivered(i)' /\ Kept(i)'
  BY <1>1, <1>2, <1>4, <1>5, <1>8, <1>10 DEF Delivered, Kept
<1>13. \A j \in Clients : j # i =>
         sub'[j] = sub[j] /\ client'[j] = client[j] /\ snapshot'[j] = snapshot[j] /\ received'[j] = received[j]
  BY <1>1, <1>4 DEF ClientTypes
<1>14. QED
  BY <1>2, <1>10, <1>11, <1>12, <1>13, OneClient

(* A client takes one event from its channel.                              *)
LEMMA ReceiveStep ==
  ASSUME FollowInv, NEW i \in Clients, Receive(i)
  PROVE  FollowInv'
<1> DEFINE h == Head(sub[i].ch)
           s == [sub[i] EXCEPT !.ch = Tail(@)]
           r == IF h = Transient THEN received[i] ELSE Append(received[i], h)
           cur == CursorOf(received[i], snapshot[i])
<1>1. /\ ClientTypes /\ log \in Logs /\ Frontier \in Nat
      /\ sub[i] \in Subscriber /\ received[i] \in Seq(1..MaxLog) /\ snapshot[i] \in 0..MaxLog
      /\ Stage(i) /\ Delivered(i) /\ Kept(i) /\ cur \in Nat
  BY ClientFacts
<1>2. UNCHANGED server /\ log' = log /\ claim' = claim /\ unsent' = unsent /\ Frontier' = Frontier
  BY DEF Receive, server, Frontier
<1>3. /\ client[i] = "connected" /\ sub[i].ch # <<>> /\ client' = client /\ snapshot' = snapshot
      /\ received' = [received EXCEPT ![i] = r] /\ sub' = [sub EXCEPT ![i] = s]
  BY DEF Receive
<1>4. /\ Follows(sub[i], cur, log, Frontier) /\ Has(received[i], snapshot[i], log)
  BY <1>1 DEF Delivered, Kept
<1>5. Follows(s, IF h = Transient THEN cur ELSE h, log, Frontier)
  BY <1>1, <1>3, <1>4, ReceiveFollows
<1>6. /\ r \in Seq(1..MaxLog) /\ Has(r, snapshot[i], log)
      /\ CursorOf(r, snapshot[i]) = IF h = Transient THEN cur ELSE h
  <2>1. CASE h = Transient
    BY <2>1, <1>1, <1>4
  <2>2. CASE h # Transient
    BY <2>2, <1>1, <1>3, <1>4, HasNext
  <2>3. QED
    BY <2>1, <2>2
<1>7. s \in Subscriber
  BY <1>5 DEF Follows
<1> HIDE DEF s, r, cur, h
<1>8. ClientTypes' /\ sub'[i] = s /\ received'[i] = r
  BY <1>1, <1>3, <1>6, <1>7 DEF ClientTypes
<1>9. Stage(i)'
  BY <1>3 DEF Stage
<1>10. Delivered(i)' /\ Kept(i)'
  BY <1>2, <1>3, <1>5, <1>6, <1>8 DEF Delivered, Kept
<1>11. \A j \in Clients : j # i =>
         sub'[j] = sub[j] /\ client'[j] = client[j] /\ snapshot'[j] = snapshot[j] /\ received'[j] = received[j]
  BY <1>1, <1>3 DEF ClientTypes
<1>12. QED
  BY <1>2, <1>8, <1>9, <1>10, <1>11, OneClient

(* A connection ends, and what was in its channel is lost.                 *)
LEMMA LeaveStep ==
  ASSUME FollowInv, NEW i \in Clients, Leave(i)
  PROVE  FollowInv'
<1>1. /\ ClientTypes /\ log \in Logs /\ Frontier \in Nat
      /\ Stage(i) /\ Delivered(i) /\ Kept(i) /\ CursorOf(received[i], snapshot[i]) \in Nat
  BY ClientFacts
<1>2. UNCHANGED server /\ log' = log /\ claim' = claim /\ unsent' = unsent /\ Frontier' = Frontier
  BY DEF Leave, server, Frontier
<1>3. /\ client[i] = "connected" /\ sub' = [sub EXCEPT ![i] = NoSubscriber]
      /\ client' = [client EXCEPT ![i] = "away"] /\ snapshot' = snapshot /\ received' = received
  BY DEF Leave
<1>4. NoSubscriber \in Subscriber /\ Follows(NoSubscriber, CursorOf(received[i], snapshot[i]), log, Frontier)
  <2>1. Follows(NoSubscriber, CursorOf(received[i], snapshot[i]), log, Frontier)
    BY <1>1, NoneFollows
  <2>2. QED
    BY <2>1 DEF Follows
<1>5. ClientTypes' /\ sub'[i] = NoSubscriber /\ client'[i] = "away"
  BY <1>1, <1>3, <1>4 DEF ClientTypes
<1>6. Stage(i)'
  BY <1>5 DEF Stage
<1>7. Delivered(i)' /\ Kept(i)'
  BY <1>1, <1>2, <1>3, <1>4, <1>5 DEF Delivered, Kept
<1>8. \A j \in Clients : j # i =>
        sub'[j] = sub[j] /\ client'[j] = client[j] /\ snapshot'[j] = snapshot[j] /\ received'[j] = received[j]
  BY <1>1, <1>3 DEF ClientTypes
<1>9. QED
  BY <1>2, <1>5, <1>6, <1>7, <1>8, OneClient

-----------------------------------------------------------------------------
(* Every step keeps the invariant.                                         *)
LEMMA FollowNext == FollowInv /\ [Next]_vars => FollowInv'
<1> SUFFICES ASSUME FollowInv, [Next]_vars PROVE FollowInv'
  OBVIOUS
<1>1. CASE Accept \/ Claim \/ RunEntry \/ RunEnd
  BY <1>1, CommitStep
<1>2. CASE PublishClaim \/ Deliver
  BY <1>2, DeliverStep
<1>3. CASE PrivateEntry
  BY <1>3, PrivateStep
<1>4. CASE Delta
  BY <1>4, DeltaStep
<1>5. CASE CloseBegins \/ CloseSubscribers
  BY <1>5, CloseStep
<1>6. ASSUME NEW i \in Clients, Following(i) PROVE FollowInv'
  BY <1>6, EnterStep, RegisterStep, ReceiveStep, LeaveStep DEF Following
<1>7. CASE UNCHANGED vars
  BY <1>7 DEF vars, FollowInv, ServerInv, ServerTypes, Hands, Frontier, Ranking, ClientInv, ClientTypes,
              Stage, Delivered, Kept
<1>8. QED
  BY <1>1, <1>2, <1>3, <1>4, <1>5, <1>6, <1>7 DEF Next, Publishing, Quiet

(* What the invariant says of what clients have and of what is under way.  *)
LEMMA FollowImplies == FollowInv => DeliveryInv
<1> SUFFICES ASSUME FollowInv PROVE DeliveryInv
  OBVIOUS
<1>1. TypeOK
  <2>1. ServerTypes /\ ClientTypes /\ \A i \in Clients : Len(sub[i].ch) <= sub[i].room
    BY DEF FollowInv, ServerInv, ClientInv, Delivered, Follows
  <2>2. QED
    BY <2>1 DEF TypeOK, ServerTypes, ClientTypes, Logs, Subscriber
<1>2. ASSUME NEW i \in Clients
      PROVE  /\ Increasing(received[i])
             /\ Range(received[i]) = {n \in 1..Len(log) : snapshot[i] < n /\ n <= Cursor(i) /\ Public(n)}
  <2>1. /\ received[i] \in Seq(1..MaxLog) /\ snapshot[i] \in 0..MaxLog /\ Kept(i)
        /\ Len(log) \in Nat /\ CursorOf(received[i], snapshot[i]) \in Nat
    BY ClientFacts
  <2>2. Cursor(i) = CursorOf(received[i], snapshot[i]) /\ Cursor(i) <= Len(log)
    BY <2>1 DEF Cursor, CursorOf, Kept, Has
  <2>3. DOMAIN received[i] = 1..Len(received[i])
    BY <2>1
  <2>4. Increasing(received[i])
    BY <2>1, <2>3 DEF Increasing, Kept, Has
  <2>5. ASSUME NEW n \in Range(received[i])
        PROVE  n \in 1..Len(log) /\ snapshot[i] < n /\ n <= Cursor(i) /\ Public(n)
    <3>1. PICK a \in 1..Len(received[i]) : n = received[i][a]
      BY <2>3 DEF Range
    <3>2. n \in 1..MaxLog
      BY <3>1, <2>1, ElementOfSeq
    <3>3. snapshot[i] < n /\ n <= Cursor(i) /\ Public(n)
      BY <3>1, <2>1, <2>2 DEF Kept, Has, Public
    <3>4. QED
      BY <3>2, <3>3, <2>1, <2>2
  <2>6. ASSUME NEW n \in 1..Len(log), snapshot[i] < n, n <= Cursor(i), Public(n)
        PROVE  n \in Range(received[i])
    <3>1. PICK a \in 1..Len(received[i]) : received[i][a] = n
      BY <2>1, <2>2, <2>6 DEF Kept, Has, Public
    <3>2. QED
      BY <3>1, <2>3 DEF Range
  <2>7. QED
    BY <2>4, <2>5, <2>6
<1>3. ASSUME NEW i \in Clients, sub[i].open, NEW n \in 1..Len(log), Public(n), n > Cursor(i)
      PROVE  n \in Range(sub[i].ch) \cup Range(unsent) \cup Range(claim)
  <2>1. /\ sub[i] \in Subscriber /\ Delivered(i) /\ Len(log) \in Nat /\ Frontier \in Nat
        /\ CursorOf(received[i], snapshot[i]) \in Nat
    BY ClientFacts
  <2>2. Cursor(i) = CursorOf(received[i], snapshot[i]) /\ Cursor(i) \in Nat
    BY <2>1 DEF Cursor, CursorOf
  <2>3. sub[i].open = TRUE
    <3>1. sub[i].open \in BOOLEAN
      BY <2>1 DEF Subscriber
    <3>2. QED
      BY <3>1, <1>3, Zenon
  <2>4. sub[i].last \in Nat /\ DOMAIN sub[i].ch = 1..Len(sub[i].ch)
    BY <2>1 DEF Subscriber
  <2>5. CASE n <= sub[i].last
    <3>1. PICK a \in 1..Len(sub[i].ch) : sub[i].ch[a] = n
      BY <1>3, <2>1, <2>2, <2>5 DEF Delivered, Follows, Whole, Public
    <3>2. QED
      BY <3>1, <2>4 DEF Range
  <2>6. CASE n > sub[i].last
    <3>1. n > Frontier
      BY <1>3, <2>1, <2>3, <2>6 DEF Delivered, Follows, Current, Public
    <3>2. /\ unsent \in Seq(1..MaxLog) /\ claim \in Seq(1..MaxLog)
          /\ Hands /\ n \in Nat
      BY DEF FollowInv, ServerInv, ServerTypes
    <3>3. Len(unsent) \in Nat /\ Len(claim) \in Nat /\ DOMAIN unsent = 1..Len(unsent) /\ DOMAIN claim = 1..Len(claim)
      BY <3>2
    <3>4. n - Frontier \in 1..(Len(unsent) + Len(claim))
      BY <3>1, <3>3, <2>1 DEF Frontier
    <3>5. CASE n - Frontier \in 1..Len(unsent)
      <4>1. unsent[n - Frontier] = n
        BY <3>2, <3>5, <2>1 DEF Hands
      <4>2. QED
        BY <4>1, <3>5, <3>3 DEF Range
    <3>6. CASE n - Frontier \notin 1..Len(unsent)
      <4>1. n - (Frontier + Len(unsent)) \in 1..Len(claim)
        BY <3>3, <3>4, <3>6, <2>1
      <4>2. claim[n - (Frontier + Len(unsent))] = n
        BY <3>2, <3>3, <4>1, <2>1 DEF Hands
      <4>3. QED
        BY <4>1, <4>2, <3>3 DEF Range
    <3>7. QED
      BY <3>5, <3>6
  <2>7. QED
    BY <2>4, <2>5, <2>6
<1>4. QED
  BY <1>1, <1>2, <1>3 DEF DeliveryInv, ReceivedExactly, OpenMissesNothing

(* Over any number of connections a client receives exactly the public     *)
(* entries after its View, once and in order, and an open subscription     *)
(* misses nothing that is not still in a publisher's hands: for any number *)
(* of clients, any log and any room of the channels (View, Subscribe and   *)
(* broadcastLocked, with the scheduler's claim committed before its        *)
(* delivery).                                                              *)
THEOREM DeliveryExact == Spec => []DeliveryInv
<1>1. Init => FollowInv
  BY FollowInit
<1>2. FollowInv /\ [Next]_vars => FollowInv'
  BY FollowNext
<1>3. FollowInv => DeliveryInv
  BY FollowImplies
<1>4. QED
  BY <1>1, <1>2, <1>3, PTL DEF Spec
=============================================================================
