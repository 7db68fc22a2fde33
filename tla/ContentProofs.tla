--------------------------- MODULE ContentProofs ---------------------------
(***************************************************************************)
(* Theorems about the live handles of a document's content: every edit      *)
(* through one is Ruby's own edit of the characters and of the blocks       *)
(* (XmlText), and a relative position is found again at its place (Carets). *)
(* Both rest on one fact no write may break: the two units of a wide        *)
(* character stand together, so no index of Ruby's lands inside one.  And   *)
(* a document stays a tree, so an update reports exactly what it touched.   *)
(*                                                                          *)
(* What a recursive function computes is proved from the well-foundedness   *)
(* of the naturals: NatSetInduction for sets, RecursionExists for the       *)
(* function ItemsAt is made of.  Of Below and root_positions a solution is  *)
(* exhibited (BelowIsReach, WalkIs), and the definition chooses no other.   *)
(***************************************************************************)
EXTENDS Carets, XmlText, FiniteSetTheorems, SequenceTheorems, WellFoundedInduction, TLAPS

-----------------------------------------------------------------------------
(* Sequences built by recursion, and the places counted in them.           *)

\* Concatenation under a name of its own.
Cat(a, b) == a \o b

\* Concatenation is associative.
LEMMA CatAssociative == \A S : \A a, b, c \in Seq(S) : Cat(Cat(a, b), c) = Cat(a, Cat(b, c))
<1> TAKE S
<1> TAKE a, b, c \in Seq(S)
<1> QED BY ConcatAssociative DEF Cat

\* Induction on the naturals for a set: what holds 0, and n + 1 with n, holds
\* every natural.
LEMMA NatSetInduction ==
  ASSUME NEW S, 0 \in S, \A n \in Nat : n \in S => n + 1 \in S
  PROVE  Nat \subseteq S
<1> DEFINE T == Nat \ S
           R == OpToRel(<, Nat)
<1>0. IsWellFoundedOn(R, Nat)
  BY NatLessThanWellFounded, Zenon
<1>1. \A a, b \in Nat : a < b => <<a, b>> \in R
  BY DEF OpToRel
<1> SUFFICES ASSUME T # {} PROVE FALSE
  OBVIOUS
<1> HIDE DEF R
<1>2. PICK x \in T : \A y \in T : ~ (<<y, x>> \in R)
  <2>1. T \subseteq Nat OBVIOUS
  <2> HIDE DEF T
  <2> QED BY <1>0, <2>1, WFMin, Zenon
<1>3. x \in Nat /\ x # 0 /\ x - 1 \in Nat
  OBVIOUS
<1>4. x - 1 \in T
  BY <1>3
<1>5. <<x - 1, x>> \in R
  BY <1>1, <1>3
<1> QED BY <1>2, <1>4, <1>5

\* A recursive function over 0..n exists: its first value, and each next one
\* from the one before it.
LEMMA RecursionExists ==
  ASSUME NEW X, NEW x0 \in X, NEW n \in Nat, NEW G \in [1..n -> [X -> X]]
  PROVE  \E f \in [0..n -> X] : f[0] = x0 /\ \A i \in 1..n : f[i] = G[i][f[i - 1]]
<1> DEFINE Up(m) == \E f \in [0..m -> X] : f[0] = x0 /\ \A i \in 1..m : f[i] = G[i][f[i - 1]]
           S == {m \in Nat : m <= n => Up(m)}
<1>1. 0 \in S
  <2>1. [i \in 0..0 |-> x0] \in [0..0 -> X] /\ [i \in 0..0 |-> x0][0] = x0
    OBVIOUS
  <2>2. \A i \in 1..0 : FALSE
    OBVIOUS
  <2>3. Up(0)
    BY <2>1, <2>2
  <2> QED BY <2>3
<1>2. ASSUME NEW m \in Nat, m \in S PROVE m + 1 \in S
  <2> SUFFICES ASSUME m + 1 <= n PROVE Up(m + 1)
    OBVIOUS
  <2>1. PICK f \in [0..m -> X] : f[0] = x0 /\ \A i \in 1..m : f[i] = G[i][f[i - 1]]
    BY <1>2
  <2> DEFINE g == [i \in 0..(m + 1) |-> IF i = m + 1 THEN G[m + 1][f[m]] ELSE f[i]]
  <2>2. m + 1 \in 1..n /\ f[m] \in X
    OBVIOUS
  <2>3. G[m + 1][f[m]] \in X
    BY <2>2
  <2>4. g \in [0..(m + 1) -> X]
    BY <2>3
  <2>5. g[0] = x0 /\ \A i \in 1..(m + 1) : g[i] = G[i][g[i - 1]]
    BY <2>1
  <2> QED BY <2>4, <2>5
<1>3. Nat \subseteq S
  <2> HIDE DEF S
  <2> QED BY <1>1, <1>2, NatSetInduction
<1> QED BY <1>3

\* What the place p adds to the items at some places.
Step(s, places, p) == IF p \in places THEN <<s[p]>> ELSE <<>>

\* The function ItemsAt builds its sequence with.
IsUpto(f, s, places) ==
    f = [p \in 0..Len(s) |-> IF p = 0 THEN <<>> ELSE f[p - 1] \o Step(s, places, p)]

\* That function, with its equations.
Builds(f, S, s, places) ==
    /\ f \in [0..Len(s) -> Seq(S)]
    /\ f[0] = <<>>
    /\ \A p \in 1..Len(s) : f[p] = f[p - 1] \o Step(s, places, p)
    /\ ItemsAt(s, places) = f[Len(s)]

\* ItemsAt builds its sequence one place at a time.
LEMMA ItemsAtRec ==
  ASSUME NEW S, NEW s \in Seq(S), NEW places
  PROVE  \E f : Builds(f, S, s, places)
<1> DEFINE n == Len(s)
           G == [p \in 1..n |-> [v \in Seq(S) |-> v \o Step(s, places, p)]]
<1>0. n \in Nat
  OBVIOUS
<1>1. \A p \in 1..n : Step(s, places, p) \in Seq(S)
  BY DEF Step
<1>2. G \in [1..n -> [Seq(S) -> Seq(S)]]
  BY <1>1
<1>3. <<>> \in Seq(S)
  OBVIOUS
<1>4. PICK g \in [0..n -> Seq(S)] : g[0] = <<>> /\ \A p \in 1..n : g[p] = G[p][g[p - 1]]
  <2> DEFINE X == Seq(S)
             empty == <<>>
  <2>1. empty \in X /\ G \in [1..n -> [X -> X]]
    BY <1>2, <1>3
  <2>2. n \in Nat
    BY <1>0
  <2> HIDE DEF G, n, X, empty
  <2>3. \E g \in [0..n -> X] : g[0] = empty /\ \A p \in 1..n : g[p] = G[p][g[p - 1]]
    BY <2>1, <2>2, RecursionExists, SMTT(30)
  <2> QED BY <2>3 DEF X, empty
<1>5. \A p \in 1..n : g[p] = g[p - 1] \o Step(s, places, p)
  <2> TAKE p \in 1..n
  <2>1. p - 1 \in 0..n /\ g[p - 1] \in Seq(S)
    BY <1>0
  <2>2. g[p] = G[p][g[p - 1]] /\ G[p] = [v \in Seq(S) |-> v \o Step(s, places, p)]
    BY <1>4
  <2> HIDE DEF G
  <2> QED BY <2>1, <2>2
<1>6. IsUpto(g, s, places)
  <2>1. ASSUME NEW p \in 0..n PROVE g[p] = IF p = 0 THEN <<>> ELSE g[p - 1] \o Step(s, places, p)
    <3>1. CASE p = 0
      BY <3>1, <1>4
    <3>2. CASE p # 0
      <4>1. p \in 1..n
        BY <1>0, <3>2
      <4> QED BY <3>2, <4>1, <1>5
    <3> QED BY <3>1, <3>2
  <2>2. g = [p \in 0..n |-> g[p]]
    OBVIOUS
  <2> QED BY <2>1, <2>2 DEF IsUpto
<1> DEFINE f == CHOOSE h : IsUpto(h, s, places)
<1>7. IsUpto(f, s, places)
  BY <1>6
<1>8. ItemsAt(s, places) = f[n]
  BY DEF ItemsAt, IsUpto, Step
<1> HIDE DEF f
<1>9. DOMAIN f = 0..n /\ f[0] = <<>> /\ \A p \in 1..n : f[p] = f[p - 1] \o Step(s, places, p)
  <2>1. f = [p \in 0..n |-> IF p = 0 THEN <<>> ELSE f[p - 1] \o Step(s, places, p)]
    BY <1>7 DEF IsUpto
  <2>2. \A p \in 0..n : f[p] = IF p = 0 THEN <<>> ELSE f[p - 1] \o Step(s, places, p)
    BY <2>1
  <2>3. \A p \in 1..n : p \in 0..n /\ p # 0
    BY <1>0
  <2>4. f[0] = <<>>
    BY <1>0, <2>2
  <2>5. DOMAIN f = 0..n
    BY <2>1
  <2> QED BY <2>2, <2>3, <2>4, <2>5
<1>10. \A p \in 0..n : f[p] = g[p]
  <2> DEFINE T == {p \in Nat : p <= n => f[p] = g[p]}
  <2>1. 0 \in T
    BY <1>4, <1>9
  <2>2. ASSUME NEW p \in Nat, p \in T PROVE p + 1 \in T
    <3> SUFFICES ASSUME p + 1 <= n PROVE f[p + 1] = g[p + 1]
      OBVIOUS
    <3>1. f[p] = g[p] /\ p + 1 \in 1..n /\ (p + 1) - 1 = p
      BY <1>0, <2>2
    <3> QED BY <3>1, <1>5, <1>9
  <2>3. Nat \subseteq T
    <3> HIDE DEF T
    <3> QED BY <2>1, <2>2, NatSetInduction
  <2> QED BY <1>0, <2>3
<1>11. ItemsAt(s, places) = g[n]
  BY <1>0, <1>8, <1>10
<1> QED BY <1>4, <1>5, <1>11 DEF Builds

\* CountTo from one place to the next: one more at a place that counts, the same
\* at any other.
LEMMA CountFacts ==
  ASSUME NEW n \in Nat, NEW P \in SUBSET (1..n)
  PROVE  /\ IsFiniteSet(P)
         /\ \A p \in 0..n : CountTo(P, p) \in Nat /\ CountTo(P, p) <= p
         /\ CountTo(P, 0) = 0
         /\ CountTo(P, n) = Cardinality(P)
         /\ \A p \in 1..n : (p \in P => CountTo(P, p) = CountTo(P, p - 1) + 1)
                             /\ (p \notin P => CountTo(P, p) = CountTo(P, p - 1))
<1>0. \A q \in P : q \in Int /\ 1 <= q /\ q <= n
  OBVIOUS
<1>1. IsFiniteSet(1..n)
  BY FS_Interval
<1>2. IsFiniteSet(P)
  BY <1>1, FS_Subset
<1>3. ASSUME NEW p \in 0..n PROVE CountTo(P, p) \in Nat /\ CountTo(P, p) <= p
  <2>1. {q \in P : q <= p} \in SUBSET (1..p)
    <3>1. \A q \in P : q <= p => q \in 1..p
      BY <1>0
    <3> QED BY <3>1
  <2>2. IsFiniteSet(1..p) /\ Cardinality(1..p) = p
    BY FS_Interval
  <2>3. IsFiniteSet({q \in P : q <= p}) /\ Cardinality({q \in P : q <= p}) <= p
    BY <2>1, <2>2, FS_Subset
  <2> QED BY <2>3, FS_CardinalityType DEF CountTo
<1>4. CountTo(P, n) = Cardinality(P)
  <2>1. {q \in P : q <= n} = P
    BY <1>0
  <2> QED BY <2>1 DEF CountTo
<1>5. ASSUME NEW p \in 1..n
      PROVE  (p \in P => CountTo(P, p) = CountTo(P, p - 1) + 1) /\ (p \notin P => CountTo(P, p) = CountTo(P, p - 1))
  <2> DEFINE B == {q \in P : q <= p - 1}
  <2>1. IsFiniteSet(B)
    BY <1>2, FS_Subset
  <2>0. \A q \in P : q <= p <=> (q = p \/ q <= p - 1)
    BY <1>0
  <2>2. p \in P => {q \in P : q <= p} = B \cup {p}
    BY <2>0, Zenon
  <2>3. p \notin P => {q \in P : q <= p} = B
    BY <2>0, Zenon
  <2>4. p \notin B
    OBVIOUS
  <2>5. Cardinality(B \cup {p}) = Cardinality(B) + 1
    BY <2>1, <2>4, FS_AddElement
  <2> QED BY <2>2, <2>3, <2>5 DEF CountTo
<1>6. CountTo(P, 0) = 0
  BY <1>3
<1> QED BY <1>2, <1>3, <1>4, <1>5, <1>6

\* CountTo never falls, rises by at most the places passed, and rises when one
\* of them counts.
LEMMA CountMonotone ==
  ASSUME NEW n \in Nat, NEW P \in SUBSET (1..n), NEW p \in 0..n, NEW q \in p..n
  PROVE  /\ CountTo(P, p) <= CountTo(P, q)
         /\ CountTo(P, q) <= CountTo(P, p) + (q - p)
         /\ q > p /\ q \in P => CountTo(P, p) < CountTo(P, q)
<1> DEFINE T == {m \in Nat : p + m <= n => /\ CountTo(P, p) <= CountTo(P, p + m)
                                          /\ CountTo(P, p + m) <= CountTo(P, p) + m}
<1>1. \A x \in 0..n : CountTo(P, x) \in Nat
  BY CountFacts
<1>2. 0 \in T
  BY <1>1
<1>3. ASSUME NEW m \in Nat, m \in T PROVE m + 1 \in T
  <2> SUFFICES ASSUME p + m + 1 <= n
               PROVE  CountTo(P, p) <= CountTo(P, p + (m + 1)) /\ CountTo(P, p + (m + 1)) <= CountTo(P, p) + (m + 1)
    OBVIOUS
  <2>1. CountTo(P, p) <= CountTo(P, p + m) /\ CountTo(P, p + m) <= CountTo(P, p) + m
    BY <1>3
  <2>2. p + (m + 1) \in 1..n /\ (p + (m + 1)) - 1 = p + m
    OBVIOUS
  <2>3. CountTo(P, p + (m + 1)) = CountTo(P, p + m) + 1 \/ CountTo(P, p + (m + 1)) = CountTo(P, p + m)
    BY <2>2, CountFacts
  <2>4. p \in 0..n /\ p + m \in 0..n
    OBVIOUS
  <2> QED BY <2>1, <2>3, <2>4, <1>1
<1>4. Nat \subseteq T
  <2> HIDE DEF T
  <2> QED BY <1>2, <1>3, NatSetInduction
<1>5. \A x \in p..n : CountTo(P, p) <= CountTo(P, x) /\ CountTo(P, x) <= CountTo(P, p) + (x - p)
  <2> TAKE x \in p..n
  <2>1. x - p \in T /\ p + (x - p) = x
    BY <1>4
  <2> QED BY <2>1
<1>6. ASSUME q > p, q \in P PROVE CountTo(P, p) < CountTo(P, q)
  <2>1. q - 1 \in p..n /\ q \in 1..n
    BY <1>6
  <2>2. CountTo(P, q) = CountTo(P, q - 1) + 1
    BY <1>6, <2>1, CountFacts
  <2>3. CountTo(P, p) <= CountTo(P, q - 1)
    BY <2>1, <1>5
  <2> QED BY <1>1, <2>1, <2>2, <2>3
<1> QED BY <1>5, <1>6

\* CountTo reaches each number up to the last at a place that counts.
LEMMA CountOnto ==
  ASSUME NEW n \in Nat, NEW P \in SUBSET (1..n), NEW k \in 1..Cardinality(P)
  PROVE  \E q \in P : CountTo(P, q) = k
<1> DEFINE T == {p \in Nat : p <= n => (CountTo(P, p) >= k => \E q \in P : CountTo(P, q) = k)}
<1>0. \A x \in 0..n : CountTo(P, x) \in Nat
  BY CountFacts
<1>1. 0 \in T
  BY CountFacts
<1>2. ASSUME NEW p \in Nat, p \in T PROVE p + 1 \in T
  <2> SUFFICES ASSUME p + 1 <= n, CountTo(P, p + 1) >= k PROVE \E q \in P : CountTo(P, q) = k
    OBVIOUS
  <2>1. p + 1 \in 1..n /\ (p + 1) - 1 = p /\ p \in 0..n
    OBVIOUS
  <2>2. CASE CountTo(P, p) >= k
    BY <1>2, <2>1, <2>2
  <2>3. CASE ~ (CountTo(P, p) >= k)
    <3>1. p + 1 \in P /\ CountTo(P, p + 1) = CountTo(P, p) + 1
      BY <2>1, <2>3, CountFacts
    <3>2. CountTo(P, p + 1) = k
      BY <1>0, <2>1, <2>3, <3>1
    <3> QED BY <3>1, <3>2
  <2> QED BY <2>2, <2>3
<1>3. Nat \subseteq T
  <2> HIDE DEF T
  <2> QED BY <1>1, <1>2, NatSetInduction
<1>4. CountTo(P, n) = Cardinality(P)
  BY CountFacts
<1>5. Cardinality(P) \in Nat
  BY <1>0, <1>4
<1> QED BY <1>3, <1>4, <1>5

\* The places of P that s has.
PlacesIn(s, P) == {q \in 1..Len(s) : q \in P}

\* Each item at a counted place is in ItemsAt, at its rank among those places.
LEMMA ItemsAtRank ==
  ASSUME NEW S, NEW s \in Seq(S), NEW P
  PROVE  LET Q == PlacesIn(s, P)
         IN  /\ ItemsAt(s, P) \in Seq(S)
             /\ Len(ItemsAt(s, P)) = Cardinality(Q)
             /\ \A q \in Q : CountTo(Q, q) \in 1..Cardinality(Q) /\ ItemsAt(s, P)[CountTo(Q, q)] = s[q]
<1> DEFINE n == Len(s)
           Q == PlacesIn(s, P)
<1>0. n \in Nat /\ Q \in SUBSET (1..n)
  BY DEF PlacesIn
<1>b. PICK f : Builds(f, S, s, P)
  BY ItemsAtRec
<1>1. /\ f \in [0..n -> Seq(S)]
      /\ f[0] = <<>>
      /\ \A p \in 1..n : f[p] = f[p - 1] \o Step(s, P, p)
      /\ ItemsAt(s, P) = f[n]
  BY <1>b DEF Builds
<1>2. \A p \in 1..n : p \in Q <=> p \in P
  BY DEF PlacesIn
<1>3. \A p \in 0..n : CountTo(Q, p) \in Nat
  <2> HIDE DEF Q, n
  <2> QED BY <1>0, CountFacts
<1>4. \A p \in 1..n : (p \in Q => CountTo(Q, p) = CountTo(Q, p - 1) + 1)
                       /\ (p \notin Q => CountTo(Q, p) = CountTo(Q, p - 1))
  <2> HIDE DEF Q, n
  <2> QED BY <1>0, CountFacts
<1>5. CountTo(Q, 0) = 0 /\ CountTo(Q, n) = Cardinality(Q)
  <2> HIDE DEF Q, n
  <2> QED BY <1>0, CountFacts
<1> DEFINE Good(p) == /\ Len(f[p]) = CountTo(Q, p)
                      /\ \A q \in Q : q <= p => CountTo(Q, q) \in 1..CountTo(Q, p) /\ f[p][CountTo(Q, q)] = s[q]
           T == {p \in Nat : p <= n => Good(p)}
<1> HIDE DEF Q, n
<1>6. 0 \in T
  <2>1. Len(f[0]) = 0
    BY <1>1
  <2>2. \A q \in Q : ~ (q <= 0)
    BY <1>0
  <2> QED BY <2>1, <2>2, <1>5
<1>7. ASSUME NEW p \in Nat, p \in T PROVE p + 1 \in T
  <2> SUFFICES ASSUME p + 1 <= n PROVE Good(p + 1)
    OBVIOUS
  <2>1. p \in 0..n /\ p + 1 \in 1..n /\ (p + 1) - 1 = p /\ p + 1 \in 0..n
    BY <1>0
  <2>2. Good(p)
    BY <1>0, <1>7
  <2>3. f[p] \in Seq(S) /\ Len(f[p]) = CountTo(Q, p) /\ CountTo(Q, p) \in Nat
    BY <1>1, <1>3, <2>1, <2>2
  <2>4. f[p + 1] = f[p] \o Step(s, P, p + 1)
    BY <1>1, <2>1
  <2>5. CASE p + 1 \in Q
    <3>1. f[p + 1] = f[p] \o <<s[p + 1]>>
      BY <1>2, <2>1, <2>4, <2>5 DEF Step
    <3>2. s[p + 1] \in S
      BY <2>1 DEF n
    <3>3. CountTo(Q, p + 1) = CountTo(Q, p) + 1
      BY <1>4, <2>1, <2>5
    <3>4. Len(f[p + 1]) = CountTo(Q, p) + 1 /\ f[p + 1][CountTo(Q, p) + 1] = s[p + 1]
          /\ \A i \in 1..CountTo(Q, p) : f[p + 1][i] = f[p][i]
      BY <2>3, <3>1, <3>2
    <3>5. ASSUME NEW q \in Q, q <= p + 1
          PROVE  CountTo(Q, q) \in 1..CountTo(Q, p + 1) /\ f[p + 1][CountTo(Q, q)] = s[q]
      <4>1. CASE q = p + 1
        BY <2>3, <3>3, <3>4, <4>1
      <4>2. CASE q # p + 1
        <5>1. q <= p
          BY <1>0, <3>5, <4>2
        <5>2. CountTo(Q, q) \in 1..CountTo(Q, p) /\ f[p][CountTo(Q, q)] = s[q]
          BY <2>2, <5>1
        <5> QED BY <2>3, <3>3, <3>4, <5>2
      <4> QED BY <4>1, <4>2
    <3> QED BY <3>3, <3>4, <3>5
  <2>6. CASE p + 1 \notin Q
    <3>0. Step(s, P, p + 1) = <<>>
      BY <1>2, <2>1, <2>6 DEF Step
    <3>1. f[p + 1] = f[p]
      BY <2>3, <2>4, <3>0, ConcatEmptySeq
    <3>2. CountTo(Q, p + 1) = CountTo(Q, p)
      BY <1>4, <2>1, <2>6
    <3>3. \A q \in Q : q <= p + 1 => q <= p
      BY <1>0, <2>6
    <3> QED BY <2>2, <3>1, <3>2, <3>3
  <2> QED BY <2>5, <2>6
<1>8. Nat \subseteq T
  <2> HIDE DEF T
  <2> QED BY <1>6, <1>7, NatSetInduction
<1>9. Good(n) /\ f[n] \in Seq(S)
  <2>1. Good(n)
    <3> HIDE DEF Good
    <3> QED BY <1>0, <1>8
  <2> QED BY <1>0, <1>1, <2>1
<1>10. \A q \in Q : q <= n
  BY <1>0
<1> QED BY <1>1, <1>5, <1>9, <1>10 DEF Q

\* The places P of a sequence, seen from a part of it that starts after the
\* first n items.
Shifted(P, n, m) == {q \in 1..m : q + n \in P}

\* The items at some places of two sequences joined are those of the first and
\* those of the second.
LEMMA ItemsAtConcat ==
  ASSUME NEW S, NEW s \in Seq(S), NEW t \in Seq(S), NEW P
  PROVE  ItemsAt(s \o t, P) = ItemsAt(s, P) \o ItemsAt(t, Shifted(P, Len(s), Len(t)))
<1> DEFINE n == Len(s)
           m == Len(t)
           r == s \o t
           P2 == {q \in 1..Len(t) : q + Len(s) \in P}
<1>0. n \in Nat /\ m \in Nat /\ r \in Seq(S) /\ Len(r) = n + m
  OBVIOUS
<1>1. (\A p \in 1..n : r[p] = s[p]) /\ (\A q \in 1..m : r[n + q] = t[q])
  BY ConcatProperties
<1>a. (\A p \in 1..n : s[p] \in S) /\ (\A q \in 1..m : t[q] \in S)
  OBVIOUS
<1>b. PICK f : Builds(f, S, r, P)
  <2> HIDE DEF r
  <2> QED BY <1>0, ItemsAtRec
<1>c. PICK g : Builds(g, S, s, P)
  BY ItemsAtRec
<1>d. PICK h : Builds(h, S, t, P2)
  BY ItemsAtRec
<1>2. f \in [0..Len(r) -> Seq(S)] /\ f[0] = <<>> /\ (\A p \in 1..Len(r) : f[p] = f[p - 1] \o Step(r, P, p))
      /\ ItemsAt(r, P) = f[Len(r)]
  BY <1>b DEF Builds
<1>3. g \in [0..n -> Seq(S)] /\ g[0] = <<>> /\ (\A p \in 1..n : g[p] = g[p - 1] \o Step(s, P, p))
      /\ ItemsAt(s, P) = g[n]
  BY <1>c DEF Builds
<1>4. h \in [0..m -> Seq(S)] /\ h[0] = <<>> /\ (\A q \in 1..m : h[q] = h[q - 1] \o Step(t, P2, q))
      /\ ItemsAt(t, P2) = h[m]
  BY <1>d DEF Builds
<1> DEFINE T == {p \in Nat : p <= n => f[p] = g[p]}
           Same(q) == f[n + q] = g[n] \o h[q]
           U == {q \in Nat : q <= m => Same(q)}
<1>5. \A q \in 1..m : q \in P2 <=> n + q \in P
  OBVIOUS
<1> HIDE DEF P2, r, n, m
<1>6. Nat \subseteq T
  <2>1. 0 \in T
    BY <1>2, <1>3
  <2>2. ASSUME NEW p \in Nat, p \in T PROVE p + 1 \in T
    <3> SUFFICES ASSUME p + 1 <= n PROVE f[p + 1] = g[p + 1]
      OBVIOUS
    <3>1. p + 1 \in 1..n /\ p + 1 \in 1..Len(r) /\ (p + 1) - 1 = p /\ f[p] = g[p]
      BY <1>0, <1>2, <1>3, <2>2
    <3>2. Step(r, P, p + 1) = Step(s, P, p + 1)
      BY <1>1, <3>1 DEF Step
    <3> QED BY <1>2, <1>3, <3>1, <3>2
  <2> HIDE DEF T
  <2> QED BY <2>1, <2>2, NatSetInduction
<1>7. Nat \subseteq U
  <2>1. 0 \in U
    <3>1. f[n] = g[n] /\ n + 0 = n /\ g[n] \in Seq(S)
      BY <1>0, <1>2, <1>3, <1>6
    <3>2. g[n] \o <<>> = g[n]
      BY <3>1, ConcatEmptySeq
    <3> QED BY <1>4, <3>1, <3>2
  <2>2. ASSUME NEW q \in Nat, q \in U PROVE q + 1 \in U
    <3> SUFFICES ASSUME q + 1 <= m PROVE Same(q + 1)
      <4> HIDE DEF Same
      <4> QED OBVIOUS
    <3>1. q + 1 \in 1..m /\ n + (q + 1) \in 1..Len(r) /\ (n + (q + 1)) - 1 = n + q /\ (q + 1) - 1 = q
      BY <1>0
    <3>2. f[n + q] = g[n] \o h[q] /\ h[q] \in Seq(S) /\ g[n] \in Seq(S)
      <4>1. Same(q)
        <5> HIDE DEF Same
        <5> QED BY <2>2, <1>0
      <4>2. q \in 0..m /\ n \in 0..n
        BY <1>0
      <4> QED BY <1>3, <1>4, <4>1, <4>2
    <3>3. Step(r, P, n + (q + 1)) = Step(t, P2, q + 1)
      BY <1>1, <1>5, <3>1 DEF Step
    <3>4. Step(t, P2, q + 1) \in Seq(S)
      BY <1>a, <3>1 DEF Step
    <3>5. f[n + (q + 1)] = (g[n] \o h[q]) \o Step(t, P2, q + 1)
      BY <1>2, <3>1, <3>2, <3>3
    <3>6. h[q + 1] = h[q] \o Step(t, P2, q + 1)
      BY <1>4, <3>1
    <3>7. (g[n] \o h[q]) \o Step(t, P2, q + 1) = g[n] \o (h[q] \o Step(t, P2, q + 1))
      <4>1. Cat(Cat(g[n], h[q]), Step(t, P2, q + 1)) = Cat(g[n], Cat(h[q], Step(t, P2, q + 1)))
        BY <3>2, <3>4, CatAssociative
      <4> QED BY <4>1 DEF Cat
    <3> QED BY <3>5, <3>6, <3>7
  <2> HIDE DEF U
  <2> QED BY <2>1, <2>2, NatSetInduction
<1>8. f[n + m] = g[n] \o h[m]
  <2>1. Same(m)
    <3> HIDE DEF Same
    <3> QED BY <1>0, <1>7
  <2> QED BY <2>1
<1> QED BY <1>0, <1>2, <1>3, <1>4, <1>8 DEF P2, r, Shifted

-----------------------------------------------------------------------------
(* Characters and units.                                                    *)

\* A character starts at each unit that is not the second of a wide one.
LEMMA CharStartsSet ==
  ASSUME NEW S, NEW s \in Seq(S)
  PROVE  /\ CharStarts(s) \in SUBSET (1..Len(s))
         /\ PlacesIn(s, CharStarts(s)) = CharStarts(s)
         /\ \A p \in 1..Len(s) : p \in CharStarts(s) <=> s[p].k # "lo"
<1>1. DOMAIN s = 1..Len(s)
  OBVIOUS
<1> QED BY <1>1 DEF CharStarts, PlacesIn

\* The document index u of s splits no character.
Whole(s, u) == 0 < u /\ u < Len(s) => s[u + 1].k # "lo"

\* to_units gives a document index with as many characters before it as asked,
\* and never the middle of one: what an index from Ruby is turned into.
LEMMA ToUnits ==
  ASSUME NEW S, NEW s \in Seq(S), NEW c \in 0..char_len(s)
  PROVE  /\ to_units(s, c) \in 0..Len(s)
         /\ CountTo(CharStarts(s), to_units(s, c)) = c
         /\ to_units(s, c) < Len(s) => s[to_units(s, c) + 1].k # "lo"
<1> DEFINE n == Len(s)
           P == CharStarts(s)
           D == {p \in 1..n : CountTo(P, p) <= c}
<1>1. n \in Nat /\ DOMAIN s = 1..n
  OBVIOUS
<1>2. P \in SUBSET (1..n) /\ \A p \in 1..n : p \in P <=> s[p].k # "lo"
  BY CharStartsSet
<1>3. to_units(s, c) = Cardinality(D)
  BY <1>1 DEF to_units
<1>4. char_len(s) = Cardinality(P)
  BY DEF char_len
<1> HIDE DEF n, P
<1>5. (\A p \in 0..n : CountTo(P, p) \in Nat) /\ CountTo(P, n) = Cardinality(P) /\ CountTo(P, 0) = 0
  BY <1>1, <1>2, CountFacts
<1>6. \A p \in 1..n : (p \in P => CountTo(P, p) = CountTo(P, p - 1) + 1)
                      /\ (p \notin P => CountTo(P, p) = CountTo(P, p - 1))
  BY <1>1, <1>2, CountFacts
<1>7. \A p \in 0..n : \A q \in p..n : CountTo(P, p) <= CountTo(P, q)
  BY <1>1, <1>2, CountMonotone
<1> DEFINE T == {m \in Nat : m <= n /\ CountTo(P, m) <= c /\ (m < n => CountTo(P, m + 1) > c)}
<1>8. \E m \in Nat : m \in T
  <2> SUFFICES ASSUME \A m \in Nat : m \notin T PROVE FALSE
    OBVIOUS
  <2> DEFINE U == {m \in Nat : m <= n => CountTo(P, m) <= c}
  <2>1. 0 \in U
    BY <1>4, <1>5
  <2>2. ASSUME NEW m \in Nat, m \in U PROVE m + 1 \in U
    <3> SUFFICES ASSUME m + 1 <= n PROVE CountTo(P, m + 1) <= c
      OBVIOUS
    <3>1. m \in 0..n /\ m + 1 \in 0..n
      BY <1>1
    <3>2. m < n /\ CountTo(P, m) <= c /\ m \notin T
      BY <1>1, <2>2
    <3> QED BY <1>4, <1>5, <3>1, <3>2
  <2>3. Nat \subseteq U
    <3> HIDE DEF U
    <3> QED BY <2>1, <2>2, NatSetInduction
  <2>4. n \in T
    BY <1>1, <2>3
  <2> QED BY <1>1, <2>4
<1>9. PICK m \in Nat : m \in T
  BY <1>8
<1>10. m \in 0..n /\ CountTo(P, m) <= c /\ (m < n => CountTo(P, m + 1) > c)
  BY <1>1, <1>9
<1>11. D = 1..m
  <2>1. ASSUME NEW p \in 1..m PROVE p \in D
    <3>1. p \in 0..n /\ m \in p..n /\ p \in 1..n
      BY <1>1, <1>10
    <3>2. CountTo(P, p) <= CountTo(P, m)
      BY <1>7, <3>1
    <3> QED BY <1>4, <1>5, <1>10, <3>1, <3>2
  <2>2. ASSUME NEW p \in D PROVE p \in 1..m
    <3>1. p \in 1..n /\ CountTo(P, p) <= c
      OBVIOUS
    <3> SUFFICES ASSUME p > m PROVE FALSE
      BY <1>10, <3>1
    <3>2. m + 1 \in 0..n /\ p \in (m + 1)..n /\ m < n
      BY <1>1, <1>10, <3>1
    <3>3. CountTo(P, m + 1) <= CountTo(P, p)
      BY <1>7, <3>2
    <3> QED BY <1>4, <1>5, <1>10, <3>1, <3>2, <3>3
  <2> HIDE DEF D
  <2> QED BY <2>1, <2>2
<1>12. to_units(s, c) = m
  <2>1. Cardinality(1..m) = m
    BY <1>10, FS_Interval
  <2> QED BY <1>3, <1>11, <2>1
<1>13. CASE m = n
  BY <1>4, <1>5, <1>10, <1>12, <1>13 DEF n, P
<1>14. CASE m < n
  <2>1. m + 1 \in 1..n /\ (m + 1) - 1 = m
    BY <1>1, <1>10, <1>14
  <2>2. m + 1 \in P /\ CountTo(P, m + 1) = CountTo(P, m) + 1
    BY <1>4, <1>5, <1>6, <1>10, <1>14, <2>1
  <2>3. CountTo(P, m) = c
    BY <1>4, <1>5, <1>10, <1>14, <2>1, <2>2
  <2> QED BY <1>2, <1>10, <1>12, <2>1, <2>2, <2>3 DEF n, P
<1> QED BY <1>1, <1>10, <1>13, <1>14

-----------------------------------------------------------------------------
(* The text with carets.                                                    *)

\* The units a text ever had, alive or not.
UnitsEver == [k : {"a", "hi", "lo"}, id : Nat, alive : BOOLEAN]

\* The places of the units that are alive.
AlivePlaces(us) == {p \in DOMAIN us : us[p].alive}

\* Those where a character starts.
AliveStarts(us) == {p \in AlivePlaces(us) : us[p].k # "lo"}

\* The live text holds each living unit at its rank among the living.
LEMMA LiveRank ==
  ASSUME NEW us \in Seq(UnitsEver)
  PROVE  LET A == AlivePlaces(us)
         IN  /\ A \in SUBSET (1..Len(us))
             /\ Live(us) \in Seq(UnitsEver)
             /\ Len(Live(us)) = CountTo(A, Len(us))
             /\ \A p \in 1..Len(us) : p \in A <=> us[p].alive
             /\ \A p \in A : CountTo(A, p) \in 1..Len(Live(us)) /\ Live(us)[CountTo(A, p)] = us[p]
<1> DEFINE A == AlivePlaces(us)
<1>1. DOMAIN us = 1..Len(us) /\ Len(us) \in Nat
  OBVIOUS
<1>2. A \in SUBSET (1..Len(us)) /\ PlacesIn(us, A) = A /\ \A p \in 1..Len(us) : p \in A <=> us[p].alive
  BY <1>1 DEF AlivePlaces, PlacesIn
<1>3. Live(us) = ItemsAt(us, A)
  BY DEF Live, AlivePlaces
<1> HIDE DEF A
<1>4. CountTo(A, Len(us)) = Cardinality(A)
  BY <1>1, <1>2, CountFacts
<1>5. LET Q == PlacesIn(us, A)
      IN  /\ ItemsAt(us, A) \in Seq(UnitsEver)
          /\ Len(ItemsAt(us, A)) = Cardinality(Q)
          /\ \A q \in Q : CountTo(Q, q) \in 1..Cardinality(Q) /\ ItemsAt(us, A)[CountTo(Q, q)] = us[q]
  BY ItemsAtRank
<1>6. /\ Live(us) \in Seq(UnitsEver)
      /\ Len(Live(us)) = Cardinality(A)
      /\ \A q \in A : CountTo(A, q) \in 1..Cardinality(A) /\ Live(us)[CountTo(A, q)] = us[q]
  BY <1>2, <1>3, <1>5
<1> QED BY <1>2, <1>4, <1>6 DEF A

\* Each unit of the live text is one of the units there ever were.
LEMMA LiveOnto ==
  ASSUME NEW us \in Seq(UnitsEver), NEW i \in 1..Len(Live(us))
  PROVE  \E p \in AlivePlaces(us) : CountTo(AlivePlaces(us), p) = i /\ Live(us)[i] = us[p]
<1> DEFINE A == AlivePlaces(us)
<1>1. A \in SUBSET (1..Len(us)) /\ Len(us) \in Nat /\ Len(Live(us)) = CountTo(A, Len(us))
  BY LiveRank
<1> HIDE DEF A
<1>2. CountTo(A, Len(us)) = Cardinality(A)
  BY <1>1, CountFacts
<1>3. i \in 1..Cardinality(A)
  BY <1>1, <1>2
<1>4. PICK p \in A : CountTo(A, p) = i
  BY <1>1, <1>3, CountOnto
<1> QED BY <1>4, LiveRank DEF A

\* The units alive among the first p, counted.
LEMMA LivePrefix ==
  ASSUME NEW us \in Seq(UnitsEver), NEW p \in 0..Len(us)
  PROVE  Len(Live(SubSeq(us, 1, p))) = CountTo(AlivePlaces(us), p)
<1> DEFINE v == SubSeq(us, 1, p)
<1>1. v \in Seq(UnitsEver) /\ Len(v) = p /\ \A i \in 1..p : v[i] = us[i]
  OBVIOUS
<1>2. AlivePlaces(v) = {q \in AlivePlaces(us) : q <= p}
  <2>1. DOMAIN v = 1..p /\ DOMAIN us = 1..Len(us)
    BY <1>1
  <2>2. \A q \in 1..Len(us) : q <= p <=> q \in 1..p
    OBVIOUS
  <2> HIDE DEF v
  <2> QED BY <1>1, <2>1, <2>2 DEF AlivePlaces
<1> HIDE DEF v
<1>3. Len(Live(v)) = CountTo(AlivePlaces(v), p) /\ AlivePlaces(v) \in SUBSET (1..p)
  BY <1>1, LiveRank
<1>4. CountTo(AlivePlaces(v), p) = Cardinality(AlivePlaces(v))
  BY <1>3, CountFacts
<1> QED BY <1>2, <1>3, <1>4 DEF CountTo, v

\* The characters before a place of the text, counted in the units there ever
\* were or in the live ones.
LEMMA LiveChars ==
  ASSUME NEW us \in Seq(UnitsEver), NEW x \in 0..Len(us)
  PROVE  CountTo(CharStarts(Live(us)), CountTo(AlivePlaces(us), x)) = CountTo(AliveStarts(us), x)
<1> DEFINE n == Len(us)
           A == AlivePlaces(us)
           C == AliveStarts(us)
           L == Live(us)
           P == CharStarts(L)
<1>0. n \in Nat
  OBVIOUS
<1>1. /\ A \in SUBSET (1..n)
      /\ L \in Seq(UnitsEver)
      /\ Len(L) = CountTo(A, n)
      /\ \A p \in 1..n : p \in A <=> us[p].alive
      /\ \A p \in A : CountTo(A, p) \in 1..Len(L) /\ L[CountTo(A, p)] = us[p]
  BY LiveRank
<1>2. C \in SUBSET (1..n) /\ \A p \in 1..n : p \in C <=> (p \in A /\ us[p].k # "lo")
  BY <1>1 DEF AliveStarts
<1> HIDE DEF A, C, L, n
<1>3. P \in SUBSET (1..Len(L)) /\ \A i \in 1..Len(L) : i \in P <=> L[i].k # "lo"
  BY <1>1, CharStartsSet
<1> HIDE DEF P
<1>4. Len(L) \in Nat
  BY <1>1
<1>5. CountTo(A, 0) = 0 /\ (\A p \in 0..n : CountTo(A, p) \in Nat)
      /\ \A p \in 1..n : (p \in A => CountTo(A, p) = CountTo(A, p - 1) + 1)
                          /\ (p \notin A => CountTo(A, p) = CountTo(A, p - 1))
  BY <1>0, <1>1, CountFacts
<1>6. CountTo(C, 0) = 0 /\ (\A p \in 0..n : CountTo(C, p) \in Nat)
      /\ \A p \in 1..n : (p \in C => CountTo(C, p) = CountTo(C, p - 1) + 1)
                          /\ (p \notin C => CountTo(C, p) = CountTo(C, p - 1))
  BY <1>0, <1>2, CountFacts
<1>7. CountTo(P, 0) = 0
      /\ \A i \in 1..Len(L) : (i \in P => CountTo(P, i) = CountTo(P, i - 1) + 1)
                               /\ (i \notin P => CountTo(P, i) = CountTo(P, i - 1))
  BY <1>3, <1>4, CountFacts
<1> DEFINE Same(p) == CountTo(P, CountTo(A, p)) = CountTo(C, p)
           T == {p \in Nat : p <= n => Same(p)}
<1>8. 0 \in T
  BY <1>5, <1>6, <1>7
<1>9. ASSUME NEW p \in Nat, p \in T PROVE p + 1 \in T
  <2> SUFFICES ASSUME p + 1 <= n PROVE Same(p + 1)
    OBVIOUS
  <2>1. p + 1 \in 1..n /\ (p + 1) - 1 = p /\ p \in 0..n /\ Same(p)
    BY <1>0, <1>9
  <2>2. CASE p + 1 \in A
    <3> DEFINE i == CountTo(A, p + 1)
    <3>1. i = CountTo(A, p) + 1 /\ i - 1 = CountTo(A, p)
      BY <1>5, <2>1, <2>2
    <3>2. i \in 1..Len(L) /\ L[i] = us[p + 1]
      BY <1>1, <2>2
    <3>3. i \in P <=> p + 1 \in C
      BY <1>2, <1>3, <2>1, <2>2, <3>2
    <3> HIDE DEF i
    <3>4. (i \in P => CountTo(P, i) = CountTo(P, i - 1) + 1) /\ (i \notin P => CountTo(P, i) = CountTo(P, i - 1))
      BY <1>7, <3>2
    <3>5. (p + 1 \in C => CountTo(C, p + 1) = CountTo(C, p) + 1) /\ (p + 1 \notin C => CountTo(C, p + 1) = CountTo(C, p))
      BY <1>6, <2>1
    <3>6. CountTo(P, i) = CountTo(C, p + 1)
      BY <2>1, <3>1, <3>3, <3>4, <3>5
    <3> QED BY <3>6 DEF i
  <2>3. CASE p + 1 \notin A
    <3>1. CountTo(A, p + 1) = CountTo(A, p) /\ p + 1 \notin C
      BY <1>2, <1>5, <2>1, <2>3
    <3>2. CountTo(C, p + 1) = CountTo(C, p)
      BY <1>6, <2>1, <3>1
    <3> QED BY <2>1, <3>1, <3>2
  <2> QED BY <2>2, <2>3
<1>10. Nat \subseteq T
  <2> HIDE DEF T
  <2> QED BY <1>8, <1>9, NatSetInduction
<1>11. Same(x)
  <2> HIDE DEF Same
  <2> QED BY <1>0, <1>10 DEF n
<1> QED BY <1>11 DEF A, C, P, L

\* The two units of a wide character stand together.
Paired(s) ==
    \A p \in DOMAIN s :
        /\ s[p].k = "hi" => p < Len(s) /\ s[p + 1].k = "lo"
        /\ s[p].k = "lo" => p > 1 /\ s[p - 1].k = "hi"

\* They are alive or gone together: no write removes half a character.
LiveTogether(us) ==
    \A p \in DOMAIN us : us[p].k = "hi" => us[p + 1].alive = us[p].alive

\* The text's part of the invariant.
UnitsInvariant(us) ==
    /\ us \in Seq(UnitsEver)
    /\ Paired(us)
    /\ LiveTogether(us)
    /\ \A p \in DOMAIN us : us[p].id \in 1..Len(us)
    /\ \A p, q \in DOMAIN us : us[p].id = us[q].id => p = q

\* The caret's: it is what native_relative_position returned, and the unit it
\* names is one of the text's, dead or alive.
CaretShape(us, c) ==
    /\ c \in [item : Nat, tname : BOOLEAN, assoc : {-1, 0}]
    /\ c.item # 0 => \E p \in DOMAIN us : us[p].id = c.item

\* The inductive invariant of a text and its caret.
CaretInvariant == UnitsInvariant(units) /\ CaretShape(units, caret)

\* A unit is found at its one place by its identity.
LEMMA PlaceOf ==
  ASSUME NEW us, UnitsInvariant(us), NEW p \in DOMAIN us, NEW id, us[p].id = id
  PROVE  {i \in 1..Len(us) : us[i].id = id} = {p} /\ Min({p}) = p
<1>1. us \in Seq(UnitsEver) /\ DOMAIN us = 1..Len(us)
  BY DEF UnitsInvariant
<1>2. {i \in 1..Len(us) : us[i].id = id} = {p}
  BY <1>1 DEF UnitsInvariant
<1>3. Min({p}) = p
  BY DEF Min
<1> QED BY <1>2, <1>3

\* The characters up to a place, counted as CountTo counts them.
LEMMA CharsUpToIs ==
  ASSUME UnitsInvariant(units), NEW p \in 0..Len(units)
  PROVE  CharsUpTo(p) = CountTo(AliveStarts(units), p)
<1>1. DOMAIN units = 1..Len(units) /\ Len(units) \in Nat
  BY DEF UnitsInvariant
<1>2. {q \in 1..p : units[q].alive /\ units[q].k # "lo"} = {q \in AliveStarts(units) : q <= p}
  <2>1. \A q \in 1..Len(units) : q <= p <=> q \in 1..p
    BY <1>1
  <2>2. \A q \in 1..p : q \in 1..Len(units)
    BY <1>1
  <2> QED BY <1>1, <2>1, <2>2 DEF AliveStarts, AlivePlaces
<1> QED BY <1>2 DEF CharsUpTo, CountTo

\* Where a position that names a unit is: the units alive before it, and
\* itself when the position is before the place and it is alive.
LEMMA OffsetOf ==
  ASSUME UnitsInvariant(units), NEW p \in DOMAIN units, NEW before \in BOOLEAN
  PROVE  LET at == get_offset([scope |-> units[p].id, before |-> before])
         IN  /\ before => at = CountTo(AlivePlaces(units), p)
             /\ ~ before => at = CountTo(AlivePlaces(units), p - 1)
<1> DEFINE A == AlivePlaces(units)
<1>1. units \in Seq(UnitsEver) /\ DOMAIN units = 1..Len(units) /\ Len(units) \in Nat
  BY DEF UnitsInvariant
<1>2. units[p].id # 0
  BY <1>1 DEF UnitsInvariant
<1>3. SelectInSeq(units, LAMBDA u : u.id = units[p].id) = p
  <2>1. {i \in 1..Len(units) : units[i].id = units[p].id} = {p} /\ Min({p}) = p
    BY PlaceOf, Zenon
  <2> QED BY <2>1 DEF SelectInSeq
<1>4. p \in 1..Len(units) /\ p - 1 \in 0..Len(units)
  BY <1>1
<1>5. Len(Live(SubSeq(units, 1, p - 1))) = CountTo(A, p - 1)
  BY <1>1, <1>4, LivePrefix
<1>6. get_offset([scope |-> units[p].id, before |-> before])
        = CountTo(A, p - 1) + (IF before /\ units[p].alive THEN 1 ELSE 0)
  BY <1>2, <1>3, <1>5 DEF get_offset
<1>7. A \in SUBSET (1..Len(units)) /\ (p \in A <=> units[p].alive)
  BY <1>1, <1>4, LiveRank
<1> HIDE DEF A
<1>8. CountTo(A, p - 1) \in Nat /\ (p \in A => CountTo(A, p) = CountTo(A, p - 1) + 1)
        /\ (p \notin A => CountTo(A, p) = CountTo(A, p - 1))
  BY <1>1, <1>4, <1>7, CountFacts
<1> QED BY <1>6, <1>7, <1>8 DEF A

\* insert_index clamps any index of Ruby's to the text.
LEMMA InsertIndexRange ==
  ASSUME NEW i \in Int, NEW len \in Nat
  PROVE  insert_index(i, len) \in 0..len
  BY DEF insert_index, Clamp

\* delete_span clamps any index and length of Ruby's to the text.
LEMMA DeleteSpanRange ==
  ASSUME NEW i \in Int, NEW n \in Int, NEW len \in Nat
  PROVE  LET span == delete_span(i, n, len)
         IN  span[1] \in 0..len /\ span[2] \in 0..len /\ span[1] <= span[2]
  BY DEF delete_span, Clamp

\* to_chars of a living place is the characters before it.
LEMMA IndexIs ==
  ASSUME UnitsInvariant(units), NEW p \in 0..Len(units)
  PROVE  to_chars(Live(units), CountTo(AlivePlaces(units), p)) = CharsUpTo(p)
<1>1. units \in Seq(UnitsEver)
  BY DEF UnitsInvariant
<1> QED BY <1>1, CharsUpToIs, LiveChars DEF to_chars

\* A position taken now is looked up at the document index it was taken at.
LEMMA OffsetNow ==
  ASSUME UnitsInvariant(units), NEW at \in 0..Len(Live(units)), NEW before \in BOOLEAN
  PROVE  get_offset(sticky_index(at, before)) = at
<1> DEFINE L == Live(units)
           A == AlivePlaces(units)
           unit == IF before THEN at ELSE at + 1
<1>1. /\ units \in Seq(UnitsEver) /\ Len(units) \in Nat /\ DOMAIN units = 1..Len(units)
      /\ \A q \in DOMAIN units : units[q].id \in 1..Len(units)
  BY DEF UnitsInvariant
<1>2. L \in Seq(UnitsEver) /\ Len(L) \in Nat /\ DOMAIN L = 1..Len(L) /\ A \in SUBSET (1..Len(units))
  BY <1>1, LiveRank
<1>3. CASE unit \in 1..Len(L)
  <2>1. PICK p \in A : CountTo(A, p) = unit /\ L[unit] = units[p]
    BY <1>1, <1>3, LiveOnto
  <2>2. sticky_index(at, before) = [scope |-> units[p].id, before |-> before]
    BY <1>2, <1>3, <2>1 DEF sticky_index
  <2>3. p \in DOMAIN units
    BY <1>1, <1>2
  <2>4. LET o == get_offset([scope |-> units[p].id, before |-> before])
        IN  (before => o = CountTo(A, p)) /\ (~ before => o = CountTo(A, p - 1))
    BY <2>3, OffsetOf
  <2>5. CountTo(A, p) = CountTo(A, p - 1) + 1 /\ CountTo(A, p - 1) \in Nat
    <3>1. p \in 1..Len(units) /\ p - 1 \in 0..Len(units)
      BY <1>1, <2>3
    <3> HIDE DEF A
    <3> QED BY <1>1, <1>2, <3>1, CountFacts
  <2>6. CASE before
    BY <2>1, <2>2, <2>4, <2>6
  <2>7. CASE ~ before
    <3>1. CountTo(A, p) = at + 1
      BY <2>1, <2>7
    <3>2. CountTo(A, p - 1) = at
      BY <2>5, <3>1
    <3> QED BY <2>2, <2>4, <2>7, <3>2
  <2> QED BY <2>6, <2>7
<1>4. CASE unit \notin 1..Len(L)
  <2>1. sticky_index(at, before) = [scope |-> 0, before |-> before]
    BY <1>2, <1>4 DEF sticky_index
  <2>2. before => at = 0
    BY <1>2, <1>4
  <2>3. ~ before => at = Len(L)
    <3> SUFFICES ASSUME ~ before PROVE at = Len(L)
      OBVIOUS
    <3>1. unit = at + 1 /\ at \in 0..Len(L) /\ at + 1 \notin 1..Len(L)
      BY <1>4
    <3>2. \A l \in Nat : \A a \in 0..l : a + 1 \notin 1..l => a = l
      OBVIOUS
    <3>3. Len(L) \in Nat
      BY <1>2
    <3> HIDE DEF unit, L
    <3> QED BY <3>1, <3>2, <3>3
  <2>4. get_offset([scope |-> 0, before |-> before]) = IF before THEN 0 ELSE Len(L)
    BY DEF get_offset
  <2> QED BY <2>1, <2>2, <2>3, <2>4
<1> QED BY <1>3, <1>4

\* Ruby's Hash for a position, read back, is the position.
LEMMA PositionBack ==
  ASSUME NEW scope \in Nat, NEW before \in BOOLEAN
  PROVE  sticky_from_ruby(to_ruby([scope |-> scope, before |-> before])) = [scope |-> scope, before |-> before]
  BY DEF sticky_from_ruby, to_ruby

\* A position names a unit there ever was, or the text's start or end.
LEMMA StickyType ==
  ASSUME UnitsInvariant(units), NEW at, NEW before \in BOOLEAN
  PROVE  \E scope \in Nat : /\ sticky_index(at, before) = [scope |-> scope, before |-> before]
                            /\ scope # 0 => \E p \in DOMAIN units : units[p].id = scope
<1> DEFINE L == Live(units)
           unit == IF before THEN at ELSE at + 1
<1>1. /\ units \in Seq(UnitsEver) /\ Len(units) \in Nat /\ DOMAIN units = 1..Len(units)
      /\ \A q \in DOMAIN units : units[q].id \in 1..Len(units)
  BY DEF UnitsInvariant
<1>2. DOMAIN L = 1..Len(L) /\ AlivePlaces(units) \in SUBSET (1..Len(units))
  BY <1>1, LiveRank
<1>3. CASE unit \in DOMAIN L
  <2>1. PICK p \in AlivePlaces(units) : L[unit] = units[p]
    BY <1>1, <1>2, <1>3, LiveOnto
  <2>2. p \in DOMAIN units /\ units[p].id \in Nat
    BY <1>1, <1>2
  <2> QED BY <1>3, <2>1, <2>2 DEF sticky_index
<1>4. CASE unit \notin DOMAIN L
  BY <1>4 DEF sticky_index
<1> QED BY <1>3, <1>4

\* native_relative_position at an index, looked up at once, is that index,
\* clamped.
LEMMA TakenAndLookedUp ==
  ASSUME UnitsInvariant(units), NEW i \in Int, NEW before \in BOOLEAN
  PROVE  index_at(PositionAt(i, before)) = insert_index(i, CharsUpTo(Len(units)))
<1> DEFINE L == Live(units)
           c == insert_index(i, char_len(L))
           at == to_units(L, c)
<1>1. units \in Seq(UnitsEver) /\ Len(units) \in Nat
  BY DEF UnitsInvariant
<1>2. L \in Seq(UnitsEver) /\ Len(L) \in Nat /\ Len(L) = CountTo(AlivePlaces(units), Len(units))
  BY <1>1, LiveRank
<1>3. char_len(L) = CountTo(CharStarts(L), Len(L)) /\ char_len(L) \in Nat
  <2>1. CharStarts(L) \in SUBSET (1..Len(L))
    BY <1>2, CharStartsSet
  <2> HIDE DEF L
  <2>2. CountTo(CharStarts(L), Len(L)) = Cardinality(CharStarts(L)) /\ Len(L) \in 0..Len(L)
    BY <1>2, <2>1, CountFacts
  <2>3. CountTo(CharStarts(L), Len(L)) \in Nat
    BY <1>2, <2>1, <2>2, CountFacts
  <2> QED BY <2>2, <2>3 DEF char_len
<1>4. c \in 0..char_len(L)
  BY <1>3, InsertIndexRange
<1>5. at \in 0..Len(L) /\ CountTo(CharStarts(L), at) = c
  <2> HIDE DEF L, c
  <2> QED BY <1>2, <1>4, ToUnits
<1>6. get_offset(sticky_index(at, before)) = at
  <2> HIDE DEF at
  <2> QED BY <1>5, OffsetNow
<1>7. sticky_from_ruby(to_ruby(sticky_index(at, before))) = sticky_index(at, before)
  <2>1. PICK scope \in Nat : sticky_index(at, before) = [scope |-> scope, before |-> before]
    BY StickyType
  <2> QED BY <2>1, PositionBack
<1>8. index_at(PositionAt(i, before)) = c
  BY <1>5, <1>6, <1>7 DEF index_at, PositionAt, to_chars
<1>9. CharsUpTo(Len(units)) = char_len(L)
  <2>1. Len(units) \in 0..Len(units)
    BY <1>1
  <2>2. to_chars(L, Len(L)) = CharsUpTo(Len(units))
    BY <1>2, <2>1, IndexIs
  <2> QED BY <1>3, <2>2 DEF to_chars
<1> QED BY <1>8, <1>9

\* What the invariant gives: every position taken is found again, and the caret
\* is found where its unit is, or was.
LEMMA CaretPlaces ==
  ASSUME CaretInvariant
  PROVE  CaretsKeepTheirPlace
<1> DEFINE place == SelectInSeq(units, LAMBDA u : u.id = caret.item)
           all == CharsUpTo(Len(units))
<1>1. /\ units \in Seq(UnitsEver) /\ Len(units) \in Nat /\ DOMAIN units = 1..Len(units)
      /\ \A q \in DOMAIN units : units[q].id \in 1..Len(units)
      /\ UnitsInvariant(units)
  BY DEF UnitsInvariant, CaretInvariant
<1>2. caret \in [item : Nat, tname : BOOLEAN, assoc : {-1, 0}]
      /\ (caret.item # 0 => \E p \in DOMAIN units : units[p].id = caret.item)
  BY DEF CaretInvariant, CaretShape
<1>3. sticky_from_ruby(caret) = [scope |-> caret.item, before |-> caret.assoc = -1]
  BY <1>2 DEF sticky_from_ruby
<1>4. CASE caret.item # 0
  <2>1. PICK p \in DOMAIN units : units[p].id = caret.item
    BY <1>2, <1>4
  <2>2. place = p
    <3>1. {i \in 1..Len(units) : units[i].id = caret.item} = {p} /\ Min({p}) = p
      BY <1>1, <2>1, PlaceOf, Zenon
    <3> QED BY <3>1 DEF SelectInSeq
  <2>3. p \in 1..Len(units) /\ p - 1 \in 0..Len(units) /\ p \in 0..Len(units)
    BY <1>1
  <2>4. LET o == get_offset(sticky_from_ruby(caret))
        IN  (caret.assoc = -1 => o = CountTo(AlivePlaces(units), p))
            /\ (caret.assoc # -1 => o = CountTo(AlivePlaces(units), p - 1))
    BY <1>1, <1>3, <2>1, OffsetOf
  <2>5. caret.assoc = -1 => index_at(caret) = CharsUpTo(p)
    BY <1>1, <2>3, <2>4, IndexIs DEF index_at
  <2>6. caret.assoc = 0 => index_at(caret) = CharsUpTo(p - 1)
    BY <1>1, <2>3, <2>4, IndexIs DEF index_at
  <2> HIDE DEF place, all
  <2>7. index_at(caret) =
          CASE caret.item # 0 /\ caret.assoc = 0  -> CharsUpTo(place - 1)
            [] caret.item # 0 /\ caret.assoc = -1 -> CharsUpTo(place)
            [] caret.item = 0 /\ caret.assoc = 0  -> all
            [] caret.item = 0 /\ caret.assoc = -1 -> 0
    BY <1>2, <1>4, <2>2, <2>5, <2>6
  <2> QED BY <1>1, <2>7, TakenAndLookedUp, CaretConstants DEF CaretsKeepTheirPlace, place, all
<1>5. CASE caret.item = 0
  <2>1. get_offset(sticky_from_ruby(caret)) = IF caret.assoc = -1 THEN 0 ELSE Len(Live(units))
    <3>1. \A b \in BOOLEAN : get_offset([scope |-> 0, before |-> b]) = IF b THEN 0 ELSE Len(Live(units))
      BY DEF get_offset
    <3>2. sticky_from_ruby(caret) = [scope |-> 0, before |-> caret.assoc = -1]
      BY <1>3, <1>5
    <3>3. (caret.assoc = -1) \in BOOLEAN
      OBVIOUS
    <3> QED BY <3>1, <3>2, <3>3
  <2>2. Len(Live(units)) = CountTo(AlivePlaces(units), Len(units)) /\ Len(units) \in 0..Len(units) /\ 0 \in 0..Len(units)
    BY <1>1, LiveRank
  <2>3. CountTo(AlivePlaces(units), 0) = 0
    <3>1. AlivePlaces(units) \in SUBSET (1..Len(units))
      BY <1>1, LiveRank
    <3> QED BY <1>1, <3>1, CountFacts
  <2>4. to_chars(Live(units), Len(Live(units))) = all
    BY <1>1, <2>2, IndexIs
  <2>5. to_chars(Live(units), 0) = 0
    <3>1. to_chars(Live(units), 0) = CharsUpTo(0)
      BY <1>1, <2>2, <2>3, IndexIs
    <3>2. {q \in 1..0 : units[q].alive /\ units[q].k # "lo"} = {}
      OBVIOUS
    <3> QED BY <3>1, <3>2, FS_EmptySet DEF CharsUpTo
  <2>6. caret.assoc = -1 => index_at(caret) = 0
    BY <2>1, <2>5 DEF index_at
  <2>7. caret.assoc = 0 => index_at(caret) = all
    BY <2>1, <2>4 DEF index_at
  <2> HIDE DEF place, all
  <2>8. index_at(caret) =
          CASE caret.item # 0 /\ caret.assoc = 0  -> CharsUpTo(place - 1)
            [] caret.item # 0 /\ caret.assoc = -1 -> CharsUpTo(place)
            [] caret.item = 0 /\ caret.assoc = 0  -> all
            [] caret.item = 0 /\ caret.assoc = -1 -> 0
    BY <1>2, <1>5, <2>6, <2>7
  <2> QED BY <1>1, <2>8, TakenAndLookedUp, CaretConstants DEF CaretsKeepTheirPlace, place, all
<1> QED BY <1>4, <1>5

\* A splice: what is before it, what it puts in, and what follows.
LEMMA Splice ==
  ASSUME NEW S, NEW s \in Seq(S), NEW t \in Seq(S), NEW p \in 0..Len(s)
  PROVE  /\ Spliced(s, p, t) \in Seq(S)
         /\ Len(Spliced(s, p, t)) = Len(s) + Len(t)
         /\ \A i \in 1..p : Spliced(s, p, t)[i] = s[i]
         /\ \A i \in 1..Len(t) : Spliced(s, p, t)[p + i] = t[i]
         /\ \A i \in (p + 1)..Len(s) : Spliced(s, p, t)[i + Len(t)] = s[i]
<1> DEFINE a == SubSeq(s, 1, p)
           b == SubSeq(s, p + 1, Len(s))
<1>1. a \in Seq(S) /\ Len(a) = p /\ \A i \in 1..p : a[i] = s[i]
  OBVIOUS
<1>2. b \in Seq(S) /\ Len(b) = Len(s) - p /\ \A i \in 1..(Len(s) - p) : b[i] = s[p + i]
  <2>1. p + 1 \in 1..(Len(s) + 1) /\ Len(s) \in p..Len(s)
    OBVIOUS
  <2> QED BY <2>1
<1>3. Len(s) \in Nat /\ Len(t) \in Nat
  OBVIOUS
<1> HIDE DEF a, b
<1>4. a \o t \in Seq(S) /\ Len(a \o t) = p + Len(t)
      /\ (\A i \in 1..p : (a \o t)[i] = s[i]) /\ (\A i \in 1..Len(t) : (a \o t)[p + i] = t[i])
  <2>1. a \o t \in Seq(S) /\ Len(a \o t) = p + Len(t)
    BY <1>1, ConcatProperties
  <2>2. \A i \in 1..p : (a \o t)[i] = s[i]
    BY <1>1, <1>3
  <2>3. \A i \in 1..Len(t) : (a \o t)[p + i] = t[i]
    BY <1>1, <1>3
  <2> QED BY <2>1, <2>2, <2>3
<1> DEFINE c == a \o t
           r == c \o b
<1>5. c \in Seq(S) /\ Len(c) = p + Len(t)
      /\ (\A i \in 1..p : c[i] = s[i]) /\ (\A i \in 1..Len(t) : c[p + i] = t[i])
  BY <1>4
<1> HIDE DEF c
<1>6. r \in Seq(S) /\ Len(r) = Len(s) + Len(t)
  <2>1. r \in Seq(S) /\ Len(r) = Len(c) + Len(b)
    BY <1>2, <1>5, ConcatProperties
  <2>2. (p + Len(t)) + (Len(s) - p) = Len(s) + Len(t)
    BY <1>3
  <2> QED BY <1>2, <1>5, <2>1, <2>2
<1>7. \A i \in 1..(p + Len(t)) : r[i] = c[i]
  BY <1>2, <1>5
<1>8. \A i \in 1..(Len(s) - p) : r[p + Len(t) + i] = b[i]
  BY <1>2, <1>5
<1> HIDE DEF r
<1>9. \A i \in 1..p : r[i] = s[i]
  <2> TAKE i \in 1..p
  <2>1. i \in 1..(p + Len(t))
    BY <1>3
  <2> QED BY <1>5, <1>7, <2>1
<1>10. \A i \in 1..Len(t) : r[p + i] = t[i]
  <2> TAKE i \in 1..Len(t)
  <2>1. p + i \in 1..(p + Len(t))
    BY <1>3
  <2> QED BY <1>5, <1>7, <2>1
<1>11. \A i \in (p + 1)..Len(s) : r[i + Len(t)] = s[i]
  <2> TAKE i \in (p + 1)..Len(s)
  <2>1. i - p \in 1..(Len(s) - p) /\ p + Len(t) + (i - p) = i + Len(t) /\ p + (i - p) = i
    BY <1>3
  <2>2. r[p + Len(t) + (i - p)] = b[i - p] /\ b[i - p] = s[p + (i - p)]
    BY <1>2, <1>8, <2>1
  <2> QED BY <2>1, <2>2
<1> QED BY <1>6, <1>9, <1>10, <1>11 DEF r, c, a, b, Spliced

\* A splice that is not inside a wide character leaves every one whole.
LEMMA SplicePaired ==
  ASSUME NEW S, NEW s \in Seq(S), NEW t \in Seq(S), NEW p \in 0..Len(s),
         Paired(s), Paired(t), p > 0 => s[p].k # "hi"
  PROVE  Paired(Spliced(s, p, t))
<1> DEFINE r == Spliced(s, p, t)
           n == Len(s)
           m == Len(t)
<1>1. n \in Nat /\ m \in Nat /\ DOMAIN s = 1..n /\ DOMAIN t = 1..m /\ p \in 0..n
  OBVIOUS
<1>2. r \in Seq(S) /\ Len(r) = n + m /\ (\A i \in 1..p : r[i] = s[i])
      /\ (\A i \in 1..m : r[p + i] = t[i]) /\ (\A i \in (p + 1)..n : r[i + m] = s[i])
  <2>1. r \in Seq(S)
    BY Splice
  <2>2. Len(r) = n + m
    BY Splice
  <2>3. \A i \in 1..p : r[i] = s[i]
    BY Splice
  <2>4. \A i \in 1..m : r[p + i] = t[i]
    BY Splice
  <2>5. \A i \in (p + 1)..n : r[i + m] = s[i]
    BY Splice
  <2> QED BY <2>1, <2>2, <2>3, <2>4, <2>5
<1>3. \A q \in 1..n : (s[q].k = "hi" => q < n /\ s[q + 1].k = "lo") /\ (s[q].k = "lo" => q > 1 /\ s[q - 1].k = "hi")
  BY <1>1 DEF Paired
<1>4. \A q \in 1..m : (t[q].k = "hi" => q < m /\ t[q + 1].k = "lo") /\ (t[q].k = "lo" => q > 1 /\ t[q - 1].k = "hi")
  BY <1>1 DEF Paired
<1>5. DOMAIN r = 1..(n + m)
  BY <1>2
<1> HIDE DEF r, n, m
<1>6. ASSUME NEW i \in 1..(n + m)
      PROVE  /\ r[i].k = "hi" => i < n + m /\ r[i + 1].k = "lo"
             /\ r[i].k = "lo" => i > 1 /\ r[i - 1].k = "hi"
  <2>1. CASE i <= p
    <3>1. i \in 1..p /\ i \in 1..n /\ r[i] = s[i]
      BY <1>1, <1>2, <2>1
    <3>2. ASSUME r[i].k = "hi" PROVE i < n + m /\ r[i + 1].k = "lo"
      <4>1. i + 1 \in 1..p /\ s[i + 1].k = "lo" /\ i < n + m
        BY <1>1, <1>3, <3>1, <3>2
      <4> QED BY <1>2, <4>1
    <3>3. ASSUME r[i].k = "lo" PROVE i > 1 /\ r[i - 1].k = "hi"
      <4>1. i - 1 \in 1..p /\ s[i - 1].k = "hi" /\ i > 1
        BY <1>1, <1>3, <3>1, <3>3
      <4> QED BY <1>2, <4>1
    <3> QED BY <3>2, <3>3
  <2>2. CASE i > p /\ i <= p + m
    <3>1. i - p \in 1..m /\ p + (i - p) = i
      BY <1>1, <2>2
    <3>2. r[i] = t[i - p]
      BY <1>2, <3>1
    <3>3. ASSUME r[i].k = "hi" PROVE i < n + m /\ r[i + 1].k = "lo"
      <4>1. i - p < m /\ t[(i - p) + 1].k = "lo"
        BY <1>4, <3>1, <3>2, <3>3
      <4>2. (i - p) + 1 \in 1..m /\ p + ((i - p) + 1) = i + 1 /\ i < n + m
        BY <1>1, <3>1, <4>1
      <4> QED BY <1>2, <4>1, <4>2
    <3>4. ASSUME r[i].k = "lo" PROVE i > 1 /\ r[i - 1].k = "hi"
      <4>1. i - p > 1 /\ t[(i - p) - 1].k = "hi"
        BY <1>4, <3>1, <3>2, <3>4
      <4>2. (i - p) - 1 \in 1..m /\ p + ((i - p) - 1) = i - 1 /\ i > 1
        BY <1>1, <3>1, <4>1
      <4> QED BY <1>2, <4>1, <4>2
    <3> QED BY <3>3, <3>4
  <2>3. CASE i > p + m
    <3>1. i - m \in (p + 1)..n /\ (i - m) + m = i /\ i - m \in 1..n
      BY <1>1, <2>3
    <3>2. r[i] = s[i - m]
      BY <1>2, <3>1
    <3>3. ASSUME r[i].k = "hi" PROVE i < n + m /\ r[i + 1].k = "lo"
      <4>1. i - m < n /\ s[(i - m) + 1].k = "lo"
        BY <1>3, <3>1, <3>2, <3>3
      <4>2. (i - m) + 1 \in (p + 1)..n /\ ((i - m) + 1) + m = i + 1 /\ i < n + m
        BY <1>1, <3>1, <4>1
      <4> QED BY <1>2, <4>1, <4>2
    <3>4. ASSUME r[i].k = "lo" PROVE i > 1 /\ r[i - 1].k = "hi"
      <4>1. i - m > 1 /\ s[(i - m) - 1].k = "hi"
        BY <1>3, <3>1, <3>2, <3>4
      <4>2. (i - m) - 1 # p
        <5> SUFFICES ASSUME (i - m) - 1 = p PROVE FALSE
          OBVIOUS
        <5>1. p > 0 /\ s[p].k = "hi"
          BY <1>1, <3>1, <4>1
        <5> QED BY <5>1
      <4>3. (i - m) - 1 \in (p + 1)..n /\ ((i - m) - 1) + m = i - 1 /\ i > 1
        BY <1>1, <3>1, <4>1, <4>2
      <4> QED BY <1>2, <4>1, <4>3
    <3> QED BY <3>3, <3>4
  <2> QED BY <1>1, <2>1, <2>2, <2>3
<1>7. Paired(r)
  BY <1>1, <1>2, <1>5, <1>6 DEF Paired
<1> QED BY <1>7 DEF r, n

\* The kinds and the lives of a wide character's two units go together, the
\* identities differ, and those of what is written are new.
NewUnits(us, new) ==
    /\ new \in Seq(UnitsEver)
    /\ Paired(new)
    /\ \A i \in 1..Len(new) : new[i].id = Len(us) + i /\ new[i].alive = TRUE

\* Units written where no character is split keep the text's invariant, and each
\* unit that was there.
LEMMA InsertKeeps ==
  ASSUME NEW us, UnitsInvariant(us), NEW new, NewUnits(us, new),
         NEW p \in 0..Len(us), p > 0 => us[p].k # "hi"
  PROVE  /\ UnitsInvariant(Spliced(us, p, new))
         /\ \A q \in DOMAIN us : \E i \in DOMAIN Spliced(us, p, new) : Spliced(us, p, new)[i].id = us[q].id
<1> DEFINE r == Spliced(us, p, new)
           n == Len(us)
           m == Len(new)
<1>0. us \in Seq(UnitsEver) /\ new \in Seq(UnitsEver) /\ Paired(us) /\ Paired(new)
  BY DEF UnitsInvariant, NewUnits
<1>1. n \in Nat /\ m \in Nat /\ DOMAIN us = 1..n /\ p \in 0..n
  BY <1>0
<1>2. r \in Seq(UnitsEver) /\ Len(r) = n + m /\ (\A i \in 1..p : r[i] = us[i])
      /\ (\A i \in 1..m : r[p + i] = new[i]) /\ (\A i \in (p + 1)..n : r[i + m] = us[i])
  <2>1. r \in Seq(UnitsEver)
    BY <1>0, Splice
  <2>2. Len(r) = n + m
    BY <1>0, Splice
  <2>3. \A i \in 1..p : r[i] = us[i]
    BY <1>0, Splice
  <2>4. \A i \in 1..m : r[p + i] = new[i]
    BY <1>0, Splice
  <2>5. \A i \in (p + 1)..n : r[i + m] = us[i]
    BY <1>0, Splice
  <2> QED BY <2>1, <2>2, <2>3, <2>4, <2>5
<1>3. Paired(r)
  BY <1>0, SplicePaired
<1>4. DOMAIN r = 1..(n + m)
  BY <1>2
<1>5. (\A q \in 1..n : us[q].id \in 1..n) /\ (\A q \in 1..n : us[q].k = "hi" => us[q + 1].alive = us[q].alive /\ q < n)
      /\ \A x, y \in 1..n : us[x].id = us[y].id => x = y
  BY <1>1 DEF UnitsInvariant, LiveTogether, Paired
<1>6. (\A i \in 1..m : new[i].id = n + i /\ new[i].alive = TRUE) /\ \A i \in 1..m : new[i].k = "hi" => i < m
  <2>1. DOMAIN new = 1..m
    BY <1>0
  <2> QED BY <2>1 DEF NewUnits, Paired
<1> HIDE DEF r, n, m
<1> DEFINE Back(i) == IF i <= p THEN i ELSE i - m
           Old(i) == i <= p \/ i > p + m
<1>7. \A i \in 1..(n + m) : Old(i) => Back(i) \in 1..n /\ r[i] = us[Back(i)]
  <2> TAKE i \in 1..(n + m)
  <2>1. CASE i <= p
    BY <1>1, <1>2, <2>1
  <2>2. CASE i > p + m
    <3>1. i - m \in (p + 1)..n /\ (i - m) + m = i /\ Back(i) = i - m /\ i - m \in 1..n
      BY <1>1, <2>2
    <3>2. r[(i - m) + m] = us[i - m]
      BY <1>2, <3>1
    <3> QED BY <3>1, <3>2
  <2> QED BY <2>1, <2>2
<1>8. \A i \in 1..(n + m) : ~ Old(i) => i - p \in 1..m /\ r[i] = new[i - p] /\ r[i].id = n + (i - p)
  <2> TAKE i \in 1..(n + m)
  <2> SUFFICES ASSUME ~ Old(i) PROVE i - p \in 1..m /\ r[i] = new[i - p] /\ r[i].id = n + (i - p)
    OBVIOUS
  <2>1. i - p \in 1..m /\ p + (i - p) = i
    BY <1>1
  <2>2. r[p + (i - p)] = new[i - p]
    BY <1>2, <2>1
  <2> QED BY <1>6, <2>1, <2>2
<1>9. \A i \in 1..(n + m) : r[i].id \in 1..(n + m)
  <2> TAKE i \in 1..(n + m)
  <2>1. CASE Old(i)
    <3>1. r[i].id \in 1..n
      <4> HIDE DEF Old, Back
      <4> QED BY <1>5, <1>7, <2>1
    <3> QED BY <1>1, <3>1
  <2>2. CASE ~ Old(i)
    <3>1. i - p \in 1..m /\ r[i].id = n + (i - p)
      <4> HIDE DEF Old, Back
      <4> QED BY <1>8, <2>2
    <3> QED BY <1>1, <3>1
  <2> QED BY <2>1, <2>2
<1>10. \A i, j \in 1..(n + m) : r[i].id = r[j].id => i = j
  <2> TAKE i, j \in 1..(n + m)
  <2> SUFFICES ASSUME r[i].id = r[j].id PROVE i = j
    OBVIOUS
  <2>1. Old(i) => r[i].id \in 1..n
    <3> HIDE DEF Old, Back
    <3> QED BY <1>5, <1>7
  <2>2. Old(j) => r[j].id \in 1..n
    <3> HIDE DEF Old, Back
    <3> QED BY <1>5, <1>7
  <2>3. (~ Old(i) => i - p \in 1..m /\ r[i].id = n + (i - p)) /\ (~ Old(j) => j - p \in 1..m /\ r[j].id = n + (j - p))
    <3> HIDE DEF Old, Back
    <3> QED BY <1>8
  <2>4. Old(i) <=> Old(j)
    BY <1>1, <2>1, <2>2, <2>3
  <2>5. CASE Old(i)
    <3>1. Back(i) = Back(j)
      <4> HIDE DEF Old, Back
      <4> QED BY <1>5, <1>7, <2>4, <2>5
    <3> QED BY <1>1, <2>4, <2>5, <3>1
  <2>6. CASE ~ Old(i)
    BY <1>1, <2>3, <2>4, <2>6
  <2> QED BY <2>5, <2>6
<1>11. \A i \in 1..(n + m) : r[i].k = "hi" => r[i + 1].alive = r[i].alive
  <2> TAKE i \in 1..(n + m)
  <2> SUFFICES ASSUME r[i].k = "hi" PROVE r[i + 1].alive = r[i].alive
    OBVIOUS
  <2>1. CASE Old(i)
    <3>1. Back(i) \in 1..n /\ r[i] = us[Back(i)]
      <4> HIDE DEF Old, Back
      <4> QED BY <1>7, <2>1
    <3>2. us[Back(i) + 1].alive = us[Back(i)].alive /\ Back(i) < n
      <4> HIDE DEF Back
      <4> QED BY <1>5, <3>1
    <3>3. i # p
      <4> SUFFICES ASSUME i = p PROVE FALSE
        OBVIOUS
      <4>1. Back(i) = p /\ p > 0
        BY <1>1
      <4> QED BY <3>1, <4>1
    <3>4. Old(i + 1) /\ Back(i + 1) = Back(i) + 1 /\ i + 1 \in 1..(n + m)
      BY <1>1, <2>1, <3>1, <3>2, <3>3
    <3>5. r[i + 1] = us[Back(i + 1)]
      <4> HIDE DEF Old, Back
      <4> QED BY <1>7, <3>4
    <3> HIDE DEF Back
    <3> QED BY <3>1, <3>2, <3>4, <3>5
  <2>2. CASE ~ Old(i)
    <3>1. i - p \in 1..m /\ r[i] = new[i - p]
      <4> HIDE DEF Old, Back
      <4> QED BY <1>8, <2>2
    <3>2. i - p < m /\ (i - p) + 1 \in 1..m /\ p + ((i - p) + 1) = i + 1
      <4>1. i - p < m
        BY <1>6, <3>1
      <4> QED BY <1>1, <3>1, <4>1
    <3>3. r[i + 1] = new[(i - p) + 1]
      BY <1>2, <3>2
    <3> QED BY <1>6, <3>1, <3>2, <3>3
  <2> QED BY <2>1, <2>2
<1>12. \A q \in 1..n : \E i \in 1..(n + m) : r[i].id = us[q].id
  <2> TAKE q \in 1..n
  <2>1. CASE q <= p
    <3>1. q \in 1..p /\ q \in 1..(n + m)
      BY <1>1, <2>1
    <3> QED BY <1>2, <3>1
  <2>2. CASE q > p
    <3>1. q \in (p + 1)..n /\ q + m \in 1..(n + m)
      BY <1>1, <2>2
    <3> QED BY <1>2, <3>1
  <2> QED BY <1>1, <2>1, <2>2
<1> QED BY <1>1, <1>2, <1>3, <1>4, <1>9, <1>10, <1>11, <1>12 DEF UnitsInvariant, LiveTogether, r

\* The boundary of a deletion never falls inside a wide character.
LEMMA BuriedKeeps ==
  ASSUME UnitsInvariant(units), NEW from \in Int, NEW to \in Int,
         Whole(Live(units), from), Whole(Live(units), to)
  PROVE  /\ UnitsInvariant(Buried(from, to))
         /\ \A q \in DOMAIN units : \E i \in DOMAIN Buried(from, to) : Buried(from, to)[i].id = units[q].id
<1> DEFINE n == Len(units)
           v == Buried(from, to)
           A == AlivePlaces(units)
           L == Live(units)
           Gone(p) == CountTo(A, p) \in (from + 1)..to
<1>1. units \in Seq(UnitsEver) /\ n \in Nat /\ DOMAIN units = 1..n /\ Paired(units) /\ LiveTogether(units)
      /\ (\A q \in 1..n : units[q].id \in 1..n) /\ (\A x, y \in 1..n : units[x].id = units[y].id => x = y)
  BY DEF UnitsInvariant
<1>2. /\ A \in SUBSET (1..n)
      /\ L \in Seq(UnitsEver)
      /\ \A p \in 1..n : p \in A <=> units[p].alive
      /\ \A p \in A : CountTo(A, p) \in 1..Len(L) /\ L[CountTo(A, p)] = units[p]
  BY <1>1, LiveRank
<1>3. \A p \in 1..n : Len(Live(SubSeq(units, 1, p))) = CountTo(A, p)
  <2> TAKE p \in 1..n
  <2>1. p \in 0..Len(units)
    BY <1>1
  <2> QED BY <1>1, <2>1, LivePrefix
<1>4. v = [p \in 1..n |-> IF Gone(p) THEN [units[p] EXCEPT !.alive = FALSE] ELSE units[p]]
  BY <1>1, <1>3 DEF Buried
<1>5. \A p \in 1..n : units[p] \in UnitsEver /\ [units[p] EXCEPT !.alive = FALSE] \in UnitsEver
  <2> TAKE p \in 1..n
  <2>1. units[p] \in UnitsEver
    BY <1>1
  <2>2. \A u \in UnitsEver : [u EXCEPT !.alive = FALSE] \in UnitsEver
    BY Zenon DEF UnitsEver
  <2> QED BY <2>1, <2>2
<1> HIDE DEF v, n, A, L, Gone
<1>6. v \in [1..n -> UnitsEver] /\ DOMAIN v = 1..n
  BY <1>4, <1>5
<1>7. v \in Seq(UnitsEver) /\ Len(v) = n
  <2>1. \E k \in Nat : v \in [1..k -> UnitsEver]
    BY <1>1, <1>6
  <2>2. v \in Seq(UnitsEver)
    BY <2>1, SeqDef, Zenon
  <2> QED BY <1>1, <1>6, <2>2
<1>8. \A p \in 1..n : v[p].k = units[p].k /\ v[p].id = units[p].id /\ (Gone(p) => v[p].alive = FALSE) /\ (~ Gone(p) => v[p].alive = units[p].alive)
  <2> TAKE p \in 1..n
  <2>1. CASE Gone(p)
    <3>1. v[p] = [units[p] EXCEPT !.alive = FALSE] /\ units[p] \in [k : {"a", "hi", "lo"}, id : Nat, alive : BOOLEAN]
      BY <1>4, <1>5, <2>1 DEF UnitsEver
    <3> QED BY <2>1, <3>1
  <2>2. CASE ~ Gone(p)
    BY <1>4, <2>2
  <2> QED BY <2>1, <2>2
<1>9. \A p \in 1..n : (units[p].k = "hi" => p < n /\ units[p + 1].k = "lo" /\ units[p + 1].alive = units[p].alive)
                      /\ (units[p].k = "lo" => p > 1 /\ units[p - 1].k = "hi")
  BY <1>1 DEF Paired, LiveTogether, n
<1>10. Paired(v)
  <2> SUFFICES ASSUME NEW p \in 1..n
               PROVE  /\ v[p].k = "hi" => p < n /\ v[p + 1].k = "lo"
                      /\ v[p].k = "lo" => p > 1 /\ v[p - 1].k = "hi"
    BY <1>6, <1>7 DEF Paired
  <2>1. v[p].k = "hi" => p < n /\ v[p + 1].k = "lo"
    <3> SUFFICES ASSUME v[p].k = "hi" PROVE p < n /\ v[p + 1].k = "lo"
      OBVIOUS
    <3>1. p < n /\ units[p + 1].k = "lo"
      BY <1>8, <1>9
    <3>2. p + 1 \in 1..n
      BY <1>1, <3>1
    <3> QED BY <1>8, <3>1, <3>2
  <2>2. v[p].k = "lo" => p > 1 /\ v[p - 1].k = "hi"
    <3> SUFFICES ASSUME v[p].k = "lo" PROVE p > 1 /\ v[p - 1].k = "hi"
      OBVIOUS
    <3>1. p > 1 /\ units[p - 1].k = "hi"
      BY <1>8, <1>9
    <3>2. p - 1 \in 1..n
      BY <1>1, <3>1
    <3> QED BY <1>8, <3>1, <3>2
  <2> QED BY <2>1, <2>2
<1>11. LiveTogether(v)
  <2> SUFFICES ASSUME NEW p \in 1..n, v[p].k = "hi" PROVE v[p + 1].alive = v[p].alive
    BY <1>6 DEF LiveTogether
  <2>1. units[p].k = "hi" /\ p < n /\ units[p + 1].k = "lo" /\ units[p + 1].alive = units[p].alive
    BY <1>8, <1>9
  <2>2. p + 1 \in 1..n /\ (p + 1) - 1 = p
    BY <1>1, <2>1
  <2>3. units[p].alive \in BOOLEAN
    BY <1>5 DEF UnitsEver
  <2>4. CASE units[p].alive
    <3>1. p \in A /\ p + 1 \in A
      BY <1>2, <2>1, <2>2, <2>4
    <3>2. CountTo(A, p + 1) = CountTo(A, p) + 1
      <4>1. \A q \in 1..n : (q \in A => CountTo(A, q) = CountTo(A, q - 1) + 1)
                             /\ (q \notin A => CountTo(A, q) = CountTo(A, q - 1))
        <5>1. n \in Nat /\ A \in SUBSET (1..n)
          BY <1>1, <1>2
        <5> QED BY <5>1, CountFacts
      <4> QED BY <2>2, <3>1, <4>1
    <3> DEFINE i == CountTo(A, p)
    <3>3. i \in 1..Len(L) /\ i + 1 \in 1..Len(L) /\ L[i + 1].k = "lo"
      BY <1>2, <2>1, <3>1, <3>2
    <3>4. Len(L) \in Nat
      BY <1>2
    <3> HIDE DEF i
    <3>5. from # i /\ to # i
      <4>1. i < Len(L) /\ i \in Int
        BY <3>3, <3>4
      <4>2. Whole(L, from) /\ Whole(L, to)
        BY DEF L
      <4> QED BY <3>3, <4>1, <4>2 DEF Whole
    <3>6. i \in (from + 1)..to <=> i + 1 \in (from + 1)..to
      BY <3>3, <3>5
    <3>7. Gone(p) <=> Gone(p + 1)
      BY <3>2, <3>6 DEF Gone, i
    <3> QED BY <1>8, <2>1, <2>2, <3>7
  <2>5. CASE ~ units[p].alive
    <3>1. units[p].alive = FALSE /\ units[p + 1].alive = FALSE
      BY <2>1, <2>3, <2>5
    <3>2. v[p].alive = FALSE
      BY <1>8, <3>1
    <3>3. v[p + 1].alive = FALSE
      BY <1>8, <2>2, <3>1
    <3> QED BY <3>2, <3>3
  <2> QED BY <2>4, <2>5
<1>12. UnitsInvariant(v)
  BY <1>1, <1>6, <1>7, <1>8, <1>10, <1>11 DEF UnitsInvariant
<1> QED BY <1>1, <1>6, <1>8, <1>12 DEF v

\* char_len counts the characters of the whole sequence.
LEMMA CharLen ==
  ASSUME NEW S, NEW s \in Seq(S)
  PROVE  char_len(s) \in Nat /\ char_len(s) = CountTo(CharStarts(s), Len(s))
<1>1. CharStarts(s) \in SUBSET (1..Len(s)) /\ Len(s) \in Nat
  BY CharStartsSet
<1>2. CountTo(CharStarts(s), Len(s)) = Cardinality(CharStarts(s)) /\ Len(s) \in 0..Len(s)
  BY <1>1, CountFacts
<1> HIDE DEF char_len
<1>3. CountTo(CharStarts(s), Len(s)) \in Nat
  BY <1>1, <1>2, CountFacts
<1> QED BY <1>2, <1>3 DEF char_len

\* The document index insert writes at splits no character.
LEMMA EndOrUnits ==
  ASSUME NEW S, NEW s \in Seq(S), NEW i \in Int
  PROVE  end_or_units(s, i) \in 0..Len(s) /\ Whole(s, end_or_units(s, i))
<1>1. Len(s) \in Nat /\ char_len(s) \in Nat
  BY CharLen
<1>2. CASE i = -1
  BY <1>1, <1>2 DEF end_or_units, Whole
<1>3. CASE i # -1
  <2> DEFINE c == insert_index(i, char_len(s))
  <2>1. c \in 0..char_len(s)
    BY <1>1, InsertIndexRange
  <2>2. end_or_units(s, i) = to_units(s, c)
    BY <1>3 DEF end_or_units
  <2> HIDE DEF c
  <2> QED BY <2>1, <2>2, ToUnits DEF Whole
<1> QED BY <1>2, <1>3

\* Nor do those delete removes between.
LEMMA DeleteUnits ==
  ASSUME NEW S, NEW s \in Seq(S), NEW i \in Int, NEW n \in Int
  PROVE  LET at == delete_units(s, i, n)
         IN  at[1] \in 0..Len(s) /\ at[2] \in 0..Len(s) /\ Whole(s, at[1]) /\ Whole(s, at[2])
<1> DEFINE span == delete_span(i, n, char_len(s))
<1>1. char_len(s) \in Nat
  BY CharLen
<1>2. span[1] \in 0..char_len(s) /\ span[2] \in 0..char_len(s)
  BY <1>1, DeleteSpanRange
<1>3. delete_units(s, i, n)[1] = to_units(s, span[1]) /\ delete_units(s, i, n)[2] = to_units(s, span[2])
  BY DEF delete_units
<1> HIDE DEF span
<1> QED BY <1>2, <1>3, ToUnits DEF Whole

\* The invariant holds of an empty text.
LEMMA CaretStart == CaretInit => CaretInvariant
<1> SUFFICES ASSUME CaretInit PROVE CaretInvariant
  OBVIOUS
<1>1. units = <<>> /\ caret = [item |-> 0, tname |-> FALSE, assoc |-> 0]
  BY DEF CaretInit, NoCaret
<1>2. units \in Seq(UnitsEver) /\ DOMAIN units = {}
  BY <1>1
<1>3. UnitsInvariant(units)
  BY <1>2 DEF UnitsInvariant, Paired, LiveTogether
<1>4. CaretShape(units, caret)
  BY <1>1 DEF CaretShape
<1> QED BY <1>3, <1>4 DEF CaretInvariant

\* A caret keeps its shape while no unit is forgotten.
LEMMA ShapeKept ==
  ASSUME NEW us, NEW vs, NEW c, CaretShape(us, c),
         \A q \in DOMAIN us : \E i \in DOMAIN vs : vs[i].id = us[q].id
  PROVE  CaretShape(vs, c)
<1>1. c.item # 0 => \E i \in DOMAIN vs : vs[i].id = c.item
  <2> SUFFICES ASSUME c.item # 0 PROVE \E i \in DOMAIN vs : vs[i].id = c.item
    OBVIOUS
  <2>1. PICK p \in DOMAIN us : us[p].id = c.item
    BY DEF CaretShape
  <2> QED BY <2>1
<1> QED BY <1>1 DEF CaretShape

\* text_insert keeps the invariant.
LEMMA InsertStep ==
  ASSUME CaretInvariant, NEW i \in Int, NEW chunk \in Chunks, text_insert(i, chunk)
  PROVE  CaretInvariant'
<1> DEFINE new == [j \in DOMAIN chunk |-> [k |-> chunk[j].k, id |-> Len(units) + j, alive |-> TRUE]]
           at == end_or_units(Live(units), i)
<1>1. UnitsInvariant(units) /\ CaretShape(units, caret) /\ units \in Seq(UnitsEver) /\ Len(units) \in Nat
      /\ caret' = caret
  BY DEF CaretInvariant, UnitsInvariant, text_insert
<1>2. PICK p \in Places(at) : units' = Spliced(units, p, new)
  BY DEF text_insert, Spliced
<1>3. p \in 0..Len(units) /\ (p > 0 => units[p].k # "hi")
  BY DEF Places
<1>4. NewUnits(units, new)
  <2>1. CASE chunk = Narrow
    <3>1. chunk = <<[k |-> "a", id |-> 0]>>
      BY <2>1 DEF Narrow, Unit
    <3>2. DOMAIN chunk = 1..1 /\ chunk[1].k = "a"
      BY <3>1
    <3>3. \A j \in 1..1 : new[j] = [k |-> "a", id |-> Len(units) + j, alive |-> TRUE]
      <4>1. \A j \in 1..1 : chunk[j].k = "a"
        BY <3>2
      <4> QED BY <3>2, <4>1, Zenon
    <3>4. DOMAIN new = 1..1 /\ new \in [1..1 -> UnitsEver]
      BY <1>1, <3>2, <3>3 DEF UnitsEver
    <3>5. new \in Seq(UnitsEver) /\ Len(new) = 1
      BY <3>4
    <3> HIDE DEF new
    <3> QED BY <3>3, <3>4, <3>5 DEF NewUnits, Paired
  <2>2. CASE chunk = Wide
    <3>1. chunk = <<[k |-> "hi", id |-> 0], [k |-> "lo", id |-> 0]>>
      BY <2>2 DEF Wide, Unit
    <3>2. DOMAIN chunk = 1..2 /\ chunk[1].k = "hi" /\ chunk[2].k = "lo"
      BY <3>1
    <3>3. new[1] = [k |-> "hi", id |-> Len(units) + 1, alive |-> TRUE]
          /\ new[2] = [k |-> "lo", id |-> Len(units) + 2, alive |-> TRUE]
      <4>1. 1 \in DOMAIN chunk /\ 2 \in DOMAIN chunk
        BY <3>2
      <4> QED BY <3>2, <4>1, Zenon
    <3>4. DOMAIN new = 1..2 /\ new \in [1..2 -> UnitsEver]
      BY <1>1, <3>2, <3>3 DEF UnitsEver
    <3>5. new \in Seq(UnitsEver) /\ Len(new) = 2
      BY <3>4
    <3> HIDE DEF new
    <3>6. \A j \in 1..2 : j = 1 \/ j = 2
      OBVIOUS
    <3> QED BY <3>3, <3>4, <3>5, <3>6 DEF NewUnits, Paired
  <2> QED BY <2>1, <2>2 DEF Chunks
<1> HIDE DEF new, at
<1>5. UnitsInvariant(units') /\ \A q \in DOMAIN units : \E j \in DOMAIN units' : units'[j].id = units[q].id
  BY <1>1, <1>2, <1>3, <1>4, InsertKeeps
<1>6. CaretShape(units', caret)
  BY <1>1, <1>5, ShapeKept
<1> QED BY <1>1, <1>5, <1>6 DEF CaretInvariant

\* So do text_delete and text_clear.
LEMMA BuryStep ==
  ASSUME CaretInvariant, NEW from \in Int, NEW to \in Int,
         Whole(Live(units), from), Whole(Live(units), to),
         units' = Buried(from, to), caret' = caret
  PROVE  CaretInvariant'
<1>1. UnitsInvariant(units) /\ CaretShape(units, caret)
  BY DEF CaretInvariant
<1>2. UnitsInvariant(units') /\ \A q \in DOMAIN units : \E j \in DOMAIN units' : units'[j].id = units[q].id
  BY <1>1, BuriedKeeps
<1>3. CaretShape(units', caret)
  BY <1>1, <1>2, ShapeKept
<1> QED BY <1>2, <1>3 DEF CaretInvariant

\* A position just taken has a caret's shape.
LEMMA StickyShape ==
  ASSUME NEW us, NEW sticky, sticky.scope \in Nat,
         sticky.scope # 0 => \E p \in DOMAIN us : us[p].id = sticky.scope
  PROVE  CaretShape(us, to_ruby(sticky))
<1> DEFINE c == to_ruby(sticky)
<1>1. c \in [item : Nat, tname : BOOLEAN, assoc : {-1, 0}]
  BY Zenon DEF to_ruby
<1>2. c.item = sticky.scope
  BY DEF to_ruby
<1> HIDE DEF c
<1>3. c.item # 0 => \E p \in DOMAIN us : us[p].id = c.item
  BY <1>2
<1>4. CaretShape(us, c)
  BY <1>1, <1>3 DEF CaretShape
<1> QED BY <1>4 DEF c

\* native_relative_position keeps the invariant.
LEMMA PositionStep ==
  ASSUME CaretInvariant, NEW i \in Int, NEW before \in BOOLEAN, native_relative_position(i, before)
  PROVE  CaretInvariant'
<1> DEFINE at == to_units(Live(units), insert_index(i, char_len(Live(units))))
           sticky == sticky_index(at, before)
<1>1. UnitsInvariant(units) /\ units' = units
  BY DEF CaretInvariant, native_relative_position
<1>2. sticky.scope \in Nat /\ (sticky.scope # 0 => \E p \in DOMAIN units : units[p].id = sticky.scope)
  <2>1. PICK scope \in Nat : /\ sticky = [scope |-> scope, before |-> before]
                             /\ scope # 0 => \E p \in DOMAIN units : units[p].id = scope
    BY <1>1, StickyType
  <2>2. sticky.scope = scope
    BY <2>1
  <2> HIDE DEF sticky
  <2> QED BY <2>1, <2>2
<1>3. caret' = to_ruby(sticky)
  BY DEF native_relative_position, PositionAt
<1> HIDE DEF sticky
<1>4. CaretShape(units, to_ruby(sticky))
  BY <1>2, StickyShape
<1> QED BY <1>1, <1>3, <1>4 DEF CaretInvariant

\* Every step of a text and its caret keeps the invariant.
LEMMA CaretStep == CaretInvariant /\ [CaretNext]_caretVars => CaretInvariant'
<1> SUFFICES ASSUME CaretInvariant, [CaretNext]_caretVars PROVE CaretInvariant'
  OBVIOUS
<1>0. Live(units) \in Seq(UnitsEver) /\ Len(Live(units)) \in Nat
  <2>1. units \in Seq(UnitsEver)
    BY DEF CaretInvariant, UnitsInvariant
  <2> QED BY <2>1, LiveRank
<1>1. ASSUME NEW i \in CaretIndex, NEW c \in Chunks, text_insert(i, c) PROVE CaretInvariant'
  <2>1. i \in Int
    BY CaretConstants
  <2> QED BY <1>1, <2>1, InsertStep
<1>2. ASSUME NEW i \in CaretIndex, NEW n \in 1..MaxText, text_delete(i, n) PROVE CaretInvariant'
  <2> DEFINE at == delete_units(Live(units), i, n)
  <2>1. i \in Int /\ n \in Int
    BY CaretConstants
  <2>2. at[1] \in 0..Len(Live(units)) /\ at[2] \in 0..Len(Live(units))
        /\ Whole(Live(units), at[1]) /\ Whole(Live(units), at[2])
    BY <1>0, <2>1, DeleteUnits
  <2>3. caret' = caret /\ (at[2] > at[1] => units' = Buried(at[1], at[2])) /\ (~ (at[2] > at[1]) => units' = units)
    BY <1>2 DEF text_delete
  <2> HIDE DEF at
  <2>4. CASE at[2] > at[1]
    BY <1>0, <2>2, <2>3, <2>4, BuryStep
  <2>5. CASE ~ (at[2] > at[1])
    BY <2>3, <2>5 DEF CaretInvariant
  <2> QED BY <2>4, <2>5
<1>3. ASSUME NEW i \in CaretIndex, NEW before \in BOOLEAN, native_relative_position(i, before) PROVE CaretInvariant'
  <2>1. i \in Int
    BY CaretConstants
  <2> QED BY <1>3, <2>1, PositionStep
<1>4. CASE text_clear
  <2>1. units' = Buried(0, Len(Live(units))) /\ caret' = caret
    BY <1>4 DEF text_clear
  <2>2. Whole(Live(units), Len(Live(units)))
    BY <1>0 DEF Whole
  <2>3. Whole(Live(units), 0)
    BY DEF Whole
  <2> QED BY <1>0, <2>1, <2>2, <2>3, BuryStep
<1>5. CASE UNCHANGED caretVars
  BY <1>5 DEF caretVars, CaretInvariant
<1> QED BY <1>1, <1>2, <1>3, <1>4, <1>5 DEF CaretNext

\* The units of each wide character stay together and live and die together
\* through every insert and delete, no identity is used twice, and the caret is
\* a position some native_relative_position returned.
THEOREM CaretInvariantHolds == CaretSpec => []CaretInvariant
<1> QED BY CaretStart, CaretStep, PTL DEF CaretSpec

\* A relative position taken anywhere is found again at its place by the
\* lookup, and the caret stays where its unit is, or where the unit was.
THEOREM CaretPlacesHold == CaretSpec => []CaretsKeepTheirPlace
<1> QED BY CaretInvariantHolds, CaretPlaces, PTL

-----------------------------------------------------------------------------
(* Sequences in two parts, and what Ruby's own classes do to them.          *)

\* ItemsAt looks at the places the sequence has, and no other.
LEMMA PlacesMatter ==
  ASSUME NEW S, NEW s \in Seq(S), NEW P, NEW Q, \A p \in 1..Len(s) : p \in P <=> p \in Q
  PROVE  ItemsAt(s, P) = ItemsAt(s, Q)
<1> DEFINE n == Len(s)
<1>0. n \in Nat
  OBVIOUS
<1>a. PICK f : Builds(f, S, s, P)
  BY ItemsAtRec
<1>b. PICK g : Builds(g, S, s, Q)
  BY ItemsAtRec
<1>1. f[0] = <<>> /\ (\A p \in 1..n : f[p] = f[p - 1] \o Step(s, P, p)) /\ ItemsAt(s, P) = f[n]
  BY <1>a DEF Builds
<1>2. g[0] = <<>> /\ (\A p \in 1..n : g[p] = g[p - 1] \o Step(s, Q, p)) /\ ItemsAt(s, Q) = g[n]
  BY <1>b DEF Builds
<1>3. \A p \in 1..n : Step(s, P, p) = Step(s, Q, p)
  BY DEF Step
<1> DEFINE T == {p \in Nat : p <= n => f[p] = g[p]}
<1>4. 0 \in T
  BY <1>1, <1>2
<1>5. ASSUME NEW p \in Nat, p \in T PROVE p + 1 \in T
  <2> SUFFICES ASSUME p + 1 <= n PROVE f[p + 1] = g[p + 1]
    OBVIOUS
  <2>1. p + 1 \in 1..n /\ (p + 1) - 1 = p /\ f[p] = g[p]
    BY <1>0, <1>5
  <2> HIDE DEF n
  <2>2. f[p + 1] = f[p] \o Step(s, P, p + 1) /\ g[p + 1] = g[p] \o Step(s, Q, p + 1)
    BY <1>1, <1>2, <2>1
  <2> QED BY <1>3, <2>1, <2>2
<1>6. Nat \subseteq T
  <2> HIDE DEF T
  <2> QED BY <1>4, <1>5, NatSetInduction
<1> QED BY <1>0, <1>1, <1>2, <1>6

\* No places, no items.
LEMMA ItemsAtNone ==
  ASSUME NEW S, NEW s \in Seq(S), NEW P, \A p \in 1..Len(s) : p \notin P
  PROVE  ItemsAt(s, P) = <<>>
<1>1. PlacesIn(s, P) = {}
  BY DEF PlacesIn
<1>2. ItemsAt(s, P) \in Seq(S) /\ Len(ItemsAt(s, P)) = Cardinality(PlacesIn(s, P))
  BY ItemsAtRank
<1>3. Cardinality({}) = 0
  BY FS_EmptySet
<1> QED BY <1>1, <1>2, <1>3, EmptySeq

\* 1..n has n members.
LEMMA IntervalSize == \A n \in Nat : Cardinality(1..n) = n
  BY FS_Interval

\* When every place counts, CountTo is the place.
LEMMA CountToAll ==
  ASSUME NEW n \in Nat, NEW q \in 0..n
  PROVE  CountTo(1..n, q) = q
<1>1. {p \in 1..n : p <= q} = 1..q
  OBVIOUS
<1>2. Cardinality(1..q) = q
  BY FS_Interval
<1> QED BY <1>1, <1>2 DEF CountTo

\* Every place, every item.
LEMMA ItemsAtAll ==
  ASSUME NEW S, NEW s \in Seq(S), NEW P, \A p \in 1..Len(s) : p \in P
  PROVE  ItemsAt(s, P) = s
<1> DEFINE n == Len(s)
           r == ItemsAt(s, P)
           Q == PlacesIn(s, P)
<1>0. n \in Nat
  OBVIOUS
<1>1. Q = 1..n
  BY DEF PlacesIn
<1>2. r \in Seq(S) /\ Len(r) = Cardinality(Q) /\ \A q \in Q : r[CountTo(Q, q)] = s[q]
  BY ItemsAtRank
<1>3. Cardinality(Q) = n
  BY <1>0, <1>1, FS_Interval
<1> HIDE DEF Q, r
<1>4. \A q \in 1..n : CountTo(1..n, q) = q
  BY <1>0, CountToAll
<1>5. \A q \in 1..n : r[q] = s[q]
  BY <1>1, <1>2, <1>4
<1> QED BY <1>2, <1>3, <1>5, SeqEqual DEF r

\* The items of s that are in K, in order.
Picked(s, K) == ItemsAt(s, {p \in DOMAIN s : s[p] \in K})

\* They are items of s.
LEMMA PickedType ==
  ASSUME NEW S, NEW s \in Seq(S), NEW K
  PROVE  Picked(s, K) \in Seq(S)
  BY ItemsAtRank DEF Picked

\* Picking commutes with joining.
LEMMA PickedConcat ==
  ASSUME NEW S, NEW s \in Seq(S), NEW t \in Seq(S), NEW K
  PROVE  Picked(s \o t, K) = Picked(s, K) \o Picked(t, K)
<1> DEFINE n == Len(s)
           m == Len(t)
           r == s \o t
           P == {p \in DOMAIN r : r[p] \in K}
           Q == {p \in DOMAIN s : s[p] \in K}
           U == {p \in DOMAIN t : t[p] \in K}
           W == Shifted(P, n, m)
<1>0. n \in Nat /\ m \in Nat /\ DOMAIN s = 1..n /\ DOMAIN t = 1..m /\ DOMAIN r = 1..(n + m)
  BY ConcatProperties
<1>1. (\A p \in 1..n : r[p] = s[p]) /\ (\A q \in 1..m : r[q + n] = t[q])
  BY ConcatProperties
<1>2. ItemsAt(r, P) = ItemsAt(s, P) \o ItemsAt(t, W)
  <2> HIDE DEF P
  <2> QED BY ItemsAtConcat
<1>3. ItemsAt(s, P) = ItemsAt(s, Q)
  <2>1. \A p \in 1..n : p \in P <=> p \in Q
    BY <1>0, <1>1
  <2> HIDE DEF P, Q
  <2> QED BY <2>1, PlacesMatter
<1>4. ItemsAt(t, W) = ItemsAt(t, U)
  <2>1. \A q \in 1..m : q + n \in 1..(n + m)
    BY <1>0
  <2>2. \A q \in 1..m : q \in W <=> q \in U
    BY <1>0, <1>1, <2>1 DEF Shifted
  <2> HIDE DEF W, U
  <2> QED BY <2>2, PlacesMatter
<1> QED BY <1>2, <1>3, <1>4 DEF Picked

\* A sequence is its two parts at any document index.
LEMMA Cut ==
  ASSUME NEW S, NEW s \in Seq(S), NEW u \in 0..Len(s)
  PROVE  /\ SubSeq(s, 1, u) \in Seq(S)
         /\ Len(SubSeq(s, 1, u)) = u
         /\ SubSeq(s, u + 1, Len(s)) \in Seq(S)
         /\ Len(SubSeq(s, u + 1, Len(s))) = Len(s) - u
         /\ s = SubSeq(s, 1, u) \o SubSeq(s, u + 1, Len(s))
<1>1. Len(s) \in Nat
  OBVIOUS
<1>2. 1 \in 1..(Len(s) + 1) /\ u \in (1 - 1)..Len(s) /\ Len(s) \in u..Len(s)
  BY <1>1
<1>3. SubSeq(s, 1, u) \o SubSeq(s, u + 1, Len(s)) = SubSeq(s, 1, Len(s))
  BY <1>2, ConcatAdjacentSubSeq
<1>4. SubSeq(s, 1, u) \in Seq(S) /\ Len(SubSeq(s, 1, u)) = u
  OBVIOUS
<1>5. SubSeq(s, u + 1, Len(s)) \in Seq(S) /\ Len(SubSeq(s, u + 1, Len(s))) = Len(s) - u
  <2>1. u + 1 \in 1..(Len(s) + 1) /\ Len(s) \in u..Len(s)
    BY <1>1
  <2> QED BY <2>1
<1> QED BY <1>3, <1>4, <1>5, SubSeqFull

\* A sequence made of two, cut where they meet.
LEMMA CutBack ==
  ASSUME NEW S, NEW u \in Seq(S), NEW v \in Seq(S)
  PROVE  /\ SubSeq(u \o v, 1, Len(u)) = u
         /\ SubSeq(u \o v, Len(u) + 1, Len(u \o v)) = v
<1> DEFINE r == u \o v
           n == Len(u)
           m == Len(v)
<1>0. n \in Nat /\ m \in Nat /\ r \in Seq(S) /\ Len(r) = n + m
  OBVIOUS
<1>1. (\A p \in 1..n : r[p] = u[p]) /\ (\A q \in 1..m : r[n + q] = v[q])
  BY ConcatProperties
<1> HIDE DEF r
<1>2. SubSeq(r, 1, n) = u
  <2>1. SubSeq(r, 1, n) \in Seq(S) /\ Len(SubSeq(r, 1, n)) = n /\ \A p \in 1..n : SubSeq(r, 1, n)[p] = r[p]
    BY <1>0
  <2> QED BY <1>1, <2>1, SeqEqual
<1>3. SubSeq(r, n + 1, n + m) = v
  <2>1. \A i \in (n + 1)..(n + m) : r[i] \in S
    BY <1>0
  <2>2. SubSeq(r, n + 1, n + m) \in Seq(S)
        /\ Len(SubSeq(r, n + 1, n + m)) = (IF n + 1 <= n + m THEN (n + m) - (n + 1) + 1 ELSE 0)
        /\ \A i \in 1..((n + m) - (n + 1) + 1) : SubSeq(r, n + 1, n + m)[i] = r[(n + 1) + i - 1]
    <3>1. n + 1 \in Int /\ n + m \in Int
      BY <1>0
    <3> QED BY <2>1, <3>1, SubSeqProperties
  <2>3. Len(SubSeq(r, n + 1, n + m)) = m
    BY <1>0, <2>2
  <2>4. \A i \in 1..m : SubSeq(r, n + 1, n + m)[i] = v[i]
    <3> TAKE i \in 1..m
    <3>1. (n + m) - (n + 1) + 1 = m /\ (n + 1) + i - 1 = n + i
      BY <1>0
    <3> QED BY <1>1, <2>2, <3>1
  <2> QED BY <2>2, <2>3, <2>4, SeqEqual
<1> QED BY <1>0, <1>2, <1>3 DEF r

\* RubyInsert where it splits the sequence: String#insert and Array#insert.
LEMMA RubyInsertSplit ==
  ASSUME NEW S, NEW u \in Seq(S), NEW v \in Seq(S), NEW new, NEW i \in Int,
         Len(u) = insert_index(i, Len(u) + Len(v))
  PROVE  RubyInsert(u \o v, i, new) = u \o new \o v
<1> DEFINE cs == u \o v
           len == Len(u) + Len(v)
           x == IF i < 0 THEN len + i + 1 ELSE i
           D == {p \in 1..len : p <= x}
<1>0. Len(u) \in Nat /\ Len(v) \in Nat /\ len \in Nat /\ cs \in Seq(S) /\ Len(cs) = len /\ DOMAIN cs = 1..len
  BY ConcatProperties
<1>1. D = 1..Len(u)
  <2>1. Len(u) = IF x < 0 THEN 0 ELSE IF x > len THEN len ELSE x
    BY DEF insert_index, Clamp
  <2>2. x \in Int
    BY <1>0
  <2> HIDE DEF x
  <2> QED BY <1>0, <2>1, <2>2
<1>2. Cardinality(D) = Len(u)
  <2>1. Cardinality(1..Len(u)) = Len(u)
    BY <1>0, IntervalSize
  <2> QED BY <1>1, <2>1
<1>3. Cardinality({p \in DOMAIN cs : p <= (IF i < 0 THEN Len(cs) + i + 1 ELSE i)}) = Len(u)
  BY <1>0, <1>2
<1>4. SubSeq(cs, 1, Len(u)) = u /\ SubSeq(cs, Len(u) + 1, Len(cs)) = v
  BY CutBack
<1> HIDE DEF cs
<1>5. RubyInsert(cs, i, new) = u \o new \o v
  BY <1>3, <1>4 DEF RubyInsert
<1> QED BY <1>5 DEF cs

\* RubySlice outside, or of no length, removes nothing.
LEMMA RubySliceNone ==
  ASSUME NEW S, NEW cs \in Seq(S), NEW i \in Int, NEW n \in Nat,
         LET start == IF i < 0 THEN Len(cs) + i ELSE i IN start < 0 \/ start >= Len(cs) \/ n = 0
  PROVE  RubySlice(cs, i, n) = cs
<1> DEFINE start == IF i < 0 THEN Len(cs) + i ELSE i
           P == {p \in DOMAIN cs : start < 0 \/ p <= start \/ p > start + n}
<1>1. Len(cs) \in Nat /\ DOMAIN cs = 1..Len(cs) /\ start \in Int
  OBVIOUS
<1>2. RubySlice(cs, i, n) = ItemsAt(cs, P)
  BY DEF RubySlice
<1>3. \A p \in 1..Len(cs) : p \in P
  <2> HIDE DEF start
  <2> TAKE p \in 1..Len(cs)
  <2>1. p \in Int /\ 1 <= p /\ p <= Len(cs)
    BY <1>1
  <2>2. start < 0 \/ start >= Len(cs) \/ n = 0
    BY DEF start
  <2> QED BY <1>1, <2>1, <2>2
<1> HIDE DEF P
<1> QED BY <1>2, <1>3, ItemsAtAll

\* The n characters from place i of u \o m \o v are those of m, or what there
\* is of them.
Span(u, m, v, i, n) ==
    LET len == Len(u) + Len(m) + Len(v)
    IN  /\ Len(u) = IF i < 0 THEN len + i ELSE i
        /\ Len(m) = Clamp(n, 0, len - Len(u))

\* RubySlice removes the part it names.
LEMMA RubySliceSplit ==
  ASSUME NEW S, NEW u \in Seq(S), NEW m \in Seq(S), NEW v \in Seq(S), NEW i \in Int, NEW n \in Nat,
         Span(u, m, v, i, n)
  PROVE  RubySlice((u \o m) \o v, i, n) = u \o v
<1> DEFINE len == Len(u) + Len(m) + Len(v)
           cs == (u \o m) \o v
           start == IF i < 0 THEN Len(cs) + i ELSE i
           P == {p \in DOMAIN cs : start < 0 \/ p <= start \/ p > start + n}
           x == u \o m
           Q == Shifted(P, Len(x), Len(v))
           R == Shifted(P, Len(u), Len(m))
<1>0. Len(u) \in Nat /\ Len(m) \in Nat /\ Len(v) \in Nat
  OBVIOUS
<1>1. u \o m \in Seq(S) /\ Len(u \o m) = Len(u) + Len(m)
  BY ConcatProperties
<1>2. cs \in Seq(S) /\ Len(cs) = len /\ DOMAIN cs = 1..len
  BY <1>1, ConcatProperties
<1>3. start = Len(u)
  BY <1>2 DEF Span
<1>4. Len(m) = IF n > len - Len(u) THEN len - Len(u) ELSE n
  BY <1>0 DEF Clamp, Span
<1>5. \A p \in 1..len : p \in P <=> (p <= Len(u) \/ p > Len(u) + n)
  <2> HIDE DEF start, cs, len
  <2> QED BY <1>0, <1>2, <1>3
<1> HIDE DEF P
<1>6. \A p \in 1..Len(u) : p \in P
  BY <1>0, <1>5
<1>7. \A q \in 1..Len(m) : q \notin R
  <2> TAKE q \in 1..Len(m)
  <2>1. q + Len(u) \in 1..len /\ q <= n
    BY <1>0, <1>4
  <2>2. q + Len(u) \notin P
    <3> HIDE DEF P
    <3> QED BY <1>0, <1>5, <2>1
  <2> QED BY <2>2 DEF Shifted
<1>8. \A q \in 1..Len(v) : q \in Q
  <2> TAKE q \in 1..Len(v)
  <2>1. q + Len(u \o m) \in 1..len
    BY <1>0, <1>1
  <2>2. Len(m) = n
    BY <1>0, <1>4
  <2>3. q + Len(u \o m) \in P
    <3> HIDE DEF P
    <3> QED BY <1>0, <1>1, <1>5, <2>1, <2>2
  <2> QED BY <2>3 DEF Shifted
<1>9. RubySlice(cs, i, n) = ItemsAt(cs, P)
  BY DEF RubySlice, P
<1>10. ItemsAt(x \o v, P) = ItemsAt(x, P) \o ItemsAt(v, Q)
  <2>1. x \in Seq(S)
    BY <1>1
  <2> HIDE DEF x
  <2> QED BY <2>1, ItemsAtConcat
<1>11. ItemsAt(u \o m, P) = ItemsAt(u, P) \o ItemsAt(m, R)
  BY ItemsAtConcat
<1> HIDE DEF Q, R
<1>12. ItemsAt(u, P) = u /\ ItemsAt(m, R) = <<>> /\ ItemsAt(v, Q) = v
  BY <1>6, <1>7, <1>8, ItemsAtAll, ItemsAtNone
<1>13. u \o <<>> = u
  BY ConcatEmptySeq
<1> QED BY <1>9, <1>10, <1>11, <1>12, <1>13

-----------------------------------------------------------------------------
(* The characters of a sequence.                                            *)

\* The kinds of item a document's sequence holds, and the one Ruby sees a wide
\* character as.
Kinds == {"a", "hi", "lo", "wide", "m", "e", "block"}

\* The items of a sequence: units, embeds and blocks.
Item == [k : Kinds, id : {0, Root} \union Block]

\* The items a character starts with.
NotLo == {x \in Item : x.k # "lo"}

\* A sequence with the first unit of each wide character shown as the character.
Shown(s) == [p \in DOMAIN s |-> IF s[p].k = "hi" THEN Unit("wide") ELSE s[p]]

\* Units are items.
LEMMA UnitIsItem == \A k \in Kinds : Unit(k) \in Item
  BY DEF Unit, Item

\* What two joined sequences hold, place by place.
LEMMA ConcatParts ==
  ASSUME NEW S, NEW s \in Seq(S), NEW t \in Seq(S)
  PROVE  /\ \A i \in 1..Len(s) : (s \o t)[i] = s[i]
         /\ \A i \in 1..Len(t) : (s \o t)[Len(s) + i] = t[i]
  BY ConcatProperties

\* Sequences that split no character, joined, split none.
LEMMA PairedConcat ==
  ASSUME NEW S, NEW s \in Seq(S), NEW t \in Seq(S), Paired(s), Paired(t)
  PROVE  Paired(s \o t)
<1> DEFINE r == s \o t
           n == Len(s)
           m == Len(t)
<1>1. n \in Nat /\ m \in Nat /\ DOMAIN s = 1..n /\ DOMAIN t = 1..m /\ r \in Seq(S) /\ Len(r) = n + m
      /\ DOMAIN r = 1..(n + m)
  BY ConcatProperties
<1>2. (\A i \in 1..n : r[i] = s[i]) /\ (\A i \in 1..m : r[n + i] = t[i])
  BY ConcatProperties
<1>3. \A q \in 1..n : (s[q].k = "hi" => q < n /\ s[q + 1].k = "lo") /\ (s[q].k = "lo" => q > 1 /\ s[q - 1].k = "hi")
  BY <1>1 DEF Paired
<1>4. \A q \in 1..m : (t[q].k = "hi" => q < m /\ t[q + 1].k = "lo") /\ (t[q].k = "lo" => q > 1 /\ t[q - 1].k = "hi")
  BY <1>1 DEF Paired
<1> HIDE DEF r, n, m
<1>5. ASSUME NEW i \in 1..(n + m)
      PROVE  /\ r[i].k = "hi" => i < n + m /\ r[i + 1].k = "lo"
             /\ r[i].k = "lo" => i > 1 /\ r[i - 1].k = "hi"
  <2>1. CASE i <= n
    <3>1. i \in 1..n /\ r[i] = s[i]
      BY <1>1, <1>2, <2>1
    <3>2. ASSUME r[i].k = "hi" PROVE i < n + m /\ r[i + 1].k = "lo"
      <4>1. i + 1 \in 1..n /\ s[i + 1].k = "lo" /\ i < n + m
        BY <1>1, <1>3, <3>1, <3>2
      <4> QED BY <1>2, <4>1
    <3>3. ASSUME r[i].k = "lo" PROVE i > 1 /\ r[i - 1].k = "hi"
      <4>1. i - 1 \in 1..n /\ s[i - 1].k = "hi" /\ i > 1
        BY <1>1, <1>3, <3>1, <3>3
      <4> QED BY <1>2, <4>1
    <3> QED BY <3>2, <3>3
  <2>2. CASE i > n
    <3>1. i - n \in 1..m /\ n + (i - n) = i
      BY <1>1, <2>2
    <3>2. r[i] = t[i - n]
      BY <1>2, <3>1
    <3>3. ASSUME r[i].k = "hi" PROVE i < n + m /\ r[i + 1].k = "lo"
      <4>1. i - n < m /\ t[(i - n) + 1].k = "lo"
        BY <1>4, <3>1, <3>2, <3>3
      <4>2. (i - n) + 1 \in 1..m /\ n + ((i - n) + 1) = i + 1 /\ i < n + m
        BY <1>1, <3>1, <4>1
      <4> QED BY <1>2, <4>1, <4>2
    <3>4. ASSUME r[i].k = "lo" PROVE i > 1 /\ r[i - 1].k = "hi"
      <4>1. i - n > 1 /\ t[(i - n) - 1].k = "hi"
        BY <1>4, <3>1, <3>2, <3>4
      <4>2. (i - n) - 1 \in 1..m /\ n + ((i - n) - 1) = i - 1 /\ i > 1
        BY <1>1, <3>1, <4>1
      <4> QED BY <1>2, <4>1, <4>2
    <3> QED BY <3>3, <3>4
  <2> QED BY <1>1, <2>1, <2>2
<1>6. Paired(r)
  BY <1>1, <1>5 DEF Paired
<1> QED BY <1>6 DEF r

\* Nor do the two parts of one cut between characters.
LEMMA PairedCut ==
  ASSUME NEW S, NEW s \in Seq(S), Paired(s), NEW u \in 0..Len(s), Whole(s, u)
  PROVE  Paired(SubSeq(s, 1, u)) /\ Paired(SubSeq(s, u + 1, Len(s)))
<1> DEFINE n == Len(s)
           a == SubSeq(s, 1, u)
           b == SubSeq(s, u + 1, n)
<1>1. n \in Nat /\ u \in 0..n /\ DOMAIN s = 1..n
  OBVIOUS
<1>2. \A q \in 1..n : (s[q].k = "hi" => q < n /\ s[q + 1].k = "lo") /\ (s[q].k = "lo" => q > 1 /\ s[q - 1].k = "hi")
  BY <1>1 DEF Paired
<1>3. 0 < u /\ u < n => s[u + 1].k # "lo"
  BY DEF Whole
<1>4. a \in Seq(S) /\ Len(a) = u /\ DOMAIN a = 1..u /\ \A i \in 1..u : a[i] = s[i]
  OBVIOUS
<1>5. b \in Seq(S) /\ Len(b) = n - u /\ DOMAIN b = 1..(n - u) /\ \A i \in 1..(n - u) : b[i] = s[u + i]
  <2>1. u + 1 \in 1..(n + 1) /\ n \in u..n
    BY <1>1
  <2> QED BY <2>1
<1> HIDE DEF n, a, b
<1>6. Paired(a)
  <2> SUFFICES ASSUME NEW p \in 1..u
               PROVE  /\ a[p].k = "hi" => p < u /\ a[p + 1].k = "lo"
                      /\ a[p].k = "lo" => p > 1 /\ a[p - 1].k = "hi"
    BY <1>4 DEF Paired
  <2>1. p \in 1..n /\ a[p] = s[p]
    BY <1>1, <1>4
  <2>2. ASSUME a[p].k = "hi" PROVE p < u /\ a[p + 1].k = "lo"
    <3>1. p < n /\ s[p + 1].k = "lo"
      BY <1>2, <2>1, <2>2
    <3>2. p # u
      BY <1>1, <1>3, <3>1
    <3>3. p + 1 \in 1..u
      BY <1>1, <3>2
    <3> QED BY <1>4, <3>1, <3>3
  <2>3. ASSUME a[p].k = "lo" PROVE p > 1 /\ a[p - 1].k = "hi"
    <3>1. p > 1 /\ s[p - 1].k = "hi"
      BY <1>2, <2>1, <2>3
    <3>2. p - 1 \in 1..u
      BY <1>1, <3>1
    <3> QED BY <1>4, <3>1, <3>2
  <2> QED BY <2>2, <2>3
<1>7. Paired(b)
  <2> SUFFICES ASSUME NEW p \in 1..(n - u)
               PROVE  /\ b[p].k = "hi" => p < n - u /\ b[p + 1].k = "lo"
                      /\ b[p].k = "lo" => p > 1 /\ b[p - 1].k = "hi"
    BY <1>5 DEF Paired
  <2>1. u + p \in 1..n /\ b[p] = s[u + p]
    BY <1>1, <1>5
  <2>2. ASSUME b[p].k = "hi" PROVE p < n - u /\ b[p + 1].k = "lo"
    <3>1. u + p < n /\ s[(u + p) + 1].k = "lo"
      BY <1>2, <2>1, <2>2
    <3>2. p + 1 \in 1..(n - u) /\ u + (p + 1) = (u + p) + 1
      BY <1>1, <3>1
    <3> QED BY <1>1, <1>5, <3>1, <3>2
  <2>3. ASSUME b[p].k = "lo" PROVE p > 1 /\ b[p - 1].k = "hi"
    <3>1. u + p > 1 /\ s[(u + p) - 1].k = "hi" /\ s[u + p].k = "lo"
      BY <1>2, <2>1, <2>3
    <3>2. p # 1
      <4> SUFFICES ASSUME p = 1 PROVE FALSE
        OBVIOUS
      <4>1. 0 < u /\ u < n /\ s[u + 1].k = "lo"
        BY <1>1, <2>1, <3>1
      <4> QED BY <1>3, <4>1
    <3>3. p - 1 \in 1..(n - u) /\ u + (p - 1) = (u + p) - 1
      BY <1>1, <3>2
    <3> QED BY <1>1, <1>5, <3>1, <3>3
  <2> QED BY <2>2, <2>3
<1> QED BY <1>6, <1>7 DEF a, b, n

\* A shown character stands where it starts.
LEMMA ShownType ==
  ASSUME NEW s \in Seq(Item)
  PROVE  /\ Shown(s) \in Seq(Item) /\ Len(Shown(s)) = Len(s)
         /\ \A p \in 1..Len(s) : Shown(s)[p] \in NotLo <=> s[p].k # "lo"
<1>1. Len(s) \in Nat /\ DOMAIN s = 1..Len(s)
  OBVIOUS
<1>2. Unit("wide") \in Item /\ Unit("wide").k = "wide"
  <2>1. Unit("wide") \in Item
    <3>1. "wide" \in Kinds
      BY DEF Kinds
    <3> QED BY <3>1, UnitIsItem, Zenon
  <2>2. Unit("wide").k = "wide"
    BY DEF Unit
  <2> QED BY <2>1, <2>2
<1>3. \A p \in 1..Len(s) : Shown(s)[p] = (IF s[p].k = "hi" THEN Unit("wide") ELSE s[p]) /\ s[p] \in Item
  BY <1>1 DEF Shown
<1>4. Shown(s) \in [1..Len(s) -> Item]
  BY <1>1, <1>2, <1>3 DEF Shown
<1>5. Shown(s) \in Seq(Item) /\ Len(Shown(s)) = Len(s)
  <2>1. \A f \in [1..Len(s) -> Item] : f \in Seq(Item) /\ Len(f) = Len(s)
    BY <1>1
  <2> QED BY <1>4, <2>1
<1>6. \A p \in 1..Len(s) : Shown(s)[p] \in NotLo <=> s[p].k # "lo"
  <2> HIDE DEF NotLo
  <2>1. \A x \in Item : x \in NotLo <=> x.k # "lo"
    BY DEF NotLo
  <2> QED BY <1>2, <1>3, <2>1
<1> QED BY <1>5, <1>6

\* Showing commutes with joining.
LEMMA ShownConcat ==
  ASSUME NEW s \in Seq(Item), NEW t \in Seq(Item)
  PROVE  Shown(s \o t) = Shown(s) \o Shown(t)
<1> DEFINE r == s \o t
           n == Len(s)
           m == Len(t)
           w == Shown(s) \o Shown(t)
<1>1. n \in Nat /\ m \in Nat /\ r \in Seq(Item) /\ Len(r) = n + m /\ DOMAIN r = 1..(n + m)
      /\ DOMAIN s = 1..n /\ DOMAIN t = 1..m
  BY ConcatProperties
<1>2. (\A i \in 1..n : r[i] = s[i]) /\ (\A i \in 1..m : r[n + i] = t[i])
  BY ConcatProperties
<1>3. Shown(s) \in Seq(Item) /\ Len(Shown(s)) = n /\ Shown(t) \in Seq(Item) /\ Len(Shown(t)) = m
  BY ShownType
<1>4. w \in Seq(Item) /\ Len(w) = n + m
      /\ (\A i \in 1..n : w[i] = Shown(s)[i]) /\ (\A i \in 1..m : w[n + i] = Shown(t)[i])
  <2> DEFINE x == Shown(s)
             y == Shown(t)
  <2>1. x \in Seq(Item) /\ Len(x) = n /\ y \in Seq(Item) /\ Len(y) = m
    BY <1>3
  <2> HIDE DEF x, y, n, m
  <2>2. x \o y \in Seq(Item) /\ Len(x \o y) = n + m
    BY <2>1, ConcatProperties
  <2>3. (\A i \in 1..n : (x \o y)[i] = x[i]) /\ (\A i \in 1..m : (x \o y)[n + i] = y[i])
    BY <2>1, ConcatParts
  <2> QED BY <2>2, <2>3 DEF x, y
<1> HIDE DEF r, w, n, m
<1>6. Shown(r) \in Seq(Item) /\ Len(Shown(r)) = n + m
  BY <1>1, ShownType
<1>7. \A i \in 1..(n + m) : Shown(r)[i] = w[i]
  <2> TAKE i \in 1..(n + m)
  <2>0. Shown(r)[i] = IF r[i].k = "hi" THEN Unit("wide") ELSE r[i]
    BY <1>1 DEF Shown
  <2>1. CASE i <= n
    <3>1. i \in 1..n
      BY <1>1, <2>1
    <3>2. Shown(s)[i] = IF s[i].k = "hi" THEN Unit("wide") ELSE s[i]
      BY <1>1, <3>1 DEF Shown
    <3> QED BY <1>2, <1>4, <2>0, <3>1, <3>2
  <2>2. CASE i > n
    <3>1. i - n \in 1..m /\ n + (i - n) = i
      BY <1>1, <2>2
    <3>2. Shown(t)[i - n] = IF t[i - n].k = "hi" THEN Unit("wide") ELSE t[i - n]
      BY <1>1, <3>1 DEF Shown
    <3>3. r[i] = t[i - n] /\ w[i] = Shown(t)[i - n]
      BY <1>2, <1>4, <3>1
    <3> QED BY <2>0, <3>2, <3>3
  <2> QED BY <1>1, <2>1, <2>2
<1>8. Shown(r) = w
  BY <1>4, <1>6, <1>7, SeqEqual
<1> QED BY <1>8 DEF r, w

\* The characters of a sequence are those shown where one starts: as many as
\* char_len says.
LEMMA CharsIs ==
  ASSUME NEW s \in Seq(Item), Paired(s)
  PROVE  /\ Chars(s) = Picked(Shown(s), NotLo)
         /\ Chars(s) \in Seq(Item)
         /\ Len(Chars(s)) = char_len(s)
<1> DEFINE n == Len(s)
           second == {p \in DOMAIN s : p > 1 /\ s[p].k = "lo" /\ s[p - 1].k = "hi"}
           shown == [p \in DOMAIN s |-> IF p + 1 \in second THEN Unit("wide") ELSE s[p]]
           P == {p \in DOMAIN Shown(s) : Shown(s)[p] \in NotLo}
<1>1. n \in Nat /\ DOMAIN s = 1..n
  OBVIOUS
<1>2. \A q \in 1..n : (s[q].k = "hi" => q < n /\ s[q + 1].k = "lo") /\ (s[q].k = "lo" => q > 1 /\ s[q - 1].k = "hi")
  BY <1>1 DEF Paired
<1>3. Shown(s) \in Seq(Item) /\ Len(Shown(s)) = n /\ \A p \in 1..n : Shown(s)[p] \in NotLo <=> s[p].k # "lo"
  BY ShownType
<1>4. DOMAIN Shown(s) = 1..n
  BY <1>3
<1>5. \A p \in 1..n : p \in second <=> s[p].k = "lo"
  BY <1>1, <1>2
<1>6. \A p \in 1..n : p + 1 \in second <=> s[p].k = "hi"
  <2> TAKE p \in 1..n
  <2>1. ASSUME p + 1 \in second PROVE s[p].k = "hi"
    <3>1. p + 1 \in DOMAIN s /\ s[(p + 1) - 1].k = "hi" /\ (p + 1) - 1 = p
      BY <2>1
    <3> QED BY <3>1
  <2>2. ASSUME s[p].k = "hi" PROVE p + 1 \in second
    <3>1. p + 1 \in 1..n /\ s[p + 1].k = "lo"
      BY <1>1, <1>2, <2>2
    <3> HIDE DEF second
    <3> QED BY <1>5, <3>1
  <2> QED BY <2>1, <2>2
<1>7. shown = Shown(s)
  <2> HIDE DEF second
  <2> QED BY <1>1, <1>6 DEF Shown
<1>8. DOMAIN s \ second = P
  <2>1. \A p \in 1..n : p \notin second <=> Shown(s)[p] \in NotLo
    <3> HIDE DEF second
    <3> QED BY <1>3, <1>5
  <2> HIDE DEF second
  <2> QED BY <1>1, <1>4, <2>1
<1>9. Chars(s) = ItemsAt(shown, DOMAIN s \ second)
  BY DEF Chars
<1>10. Chars(s) = ItemsAt(Shown(s), P)
  <2> HIDE DEF second, shown, P
  <2> QED BY <1>7, <1>8, <1>9
<1>11. P = CharStarts(s) /\ PlacesIn(Shown(s), P) = P
  BY <1>1, <1>3, <1>4 DEF CharStarts, PlacesIn
<1> HIDE DEF P
<1>12. Chars(s) \in Seq(Item) /\ Len(Chars(s)) = Cardinality(P)
  BY <1>3, <1>10, <1>11, ItemsAtRank
<1> QED BY <1>10, <1>11, <1>12 DEF P, Picked, char_len

\* The characters of two joined sequences are those of both.
LEMMA CharsConcat ==
  ASSUME NEW s \in Seq(Item), NEW t \in Seq(Item), Paired(s), Paired(t)
  PROVE  Chars(s \o t) = Chars(s) \o Chars(t)
<1>1. s \o t \in Seq(Item) /\ Paired(s \o t)
  BY PairedConcat, ConcatProperties
<1>2. Chars(s \o t) = Picked(Shown(s \o t), NotLo)
  BY <1>1, CharsIs
<1>3. Chars(s) = Picked(Shown(s), NotLo) /\ Chars(t) = Picked(Shown(t), NotLo)
  BY CharsIs
<1>4. Picked(Shown(s) \o Shown(t), NotLo) = Picked(Shown(s), NotLo) \o Picked(Shown(t), NotLo)
  <2>1. Shown(s) \in Seq(Item) /\ Shown(t) \in Seq(Item)
    BY ShownType
  <2> QED BY <2>1, PickedConcat, SMTT(30)
<1> QED BY <1>2, <1>3, <1>4, ShownConcat

\* The characters up to a document index are those that start before it.
LEMMA CharLenOfPrefix ==
  ASSUME NEW S, NEW s \in Seq(S), NEW u \in 0..Len(s)
  PROVE  char_len(SubSeq(s, 1, u)) = CountTo(CharStarts(s), u)
<1> DEFINE a == SubSeq(s, 1, u)
<1>1. DOMAIN a = 1..u /\ (\A i \in 1..u : a[i] = s[i]) /\ DOMAIN s = 1..Len(s) /\ Len(s) \in Nat
  OBVIOUS
<1>2. \A i \in 1..Len(s) : i <= u <=> i \in 1..u
  BY <1>1
<1>3. \A i \in 1..u : i \in 1..Len(s)
  BY <1>1
<1> HIDE DEF a
<1>4. CharStarts(a) = {p \in CharStarts(s) : p <= u}
  BY <1>1, <1>2, <1>3 DEF CharStarts
<1> QED BY <1>4 DEF char_len, CountTo, a

-----------------------------------------------------------------------------
(* What insert, insert_embed and delete do to them.                         *)

\* What Ruby writes has no half of a character.
LEMMA ChunksAreText == \A c \in Chunks : c \in Seq(Item) /\ Paired(c)
<1> TAKE c \in Chunks
<1>0. Unit("a") \in Item /\ Unit("hi") \in Item /\ Unit("lo") \in Item
  BY UnitIsItem DEF Kinds
<1>1. Unit("a").k = "a" /\ Unit("hi").k = "hi" /\ Unit("lo").k = "lo"
  BY DEF Unit
<1>2. CASE c = Narrow
  <2>1. c = <<Unit("a")>>
    BY <1>2 DEF Narrow
  <2>2. c \in Seq(Item) /\ Len(c) = 1 /\ DOMAIN c = 1..1 /\ c[1] = Unit("a")
    BY <1>0, <2>1
  <2> QED BY <1>1, <2>2 DEF Paired
<1>3. CASE c = Wide
  <2>1. c = <<Unit("hi"), Unit("lo")>>
    BY <1>3 DEF Wide
  <2>2. c \in Seq(Item) /\ Len(c) = 2 /\ DOMAIN c = 1..2 /\ c[1] = Unit("hi") /\ c[2] = Unit("lo")
    BY <1>0, <2>1
  <2>3. \A p \in 1..2 : p = 1 \/ p = 2
    OBVIOUS
  <2> QED BY <1>1, <2>2, <2>3 DEF Paired
<1> QED BY <1>2, <1>3 DEF Chunks

\* An embed, or a block, shows as itself.
LEMMA OneItem ==
  ASSUME NEW x \in Item, x.k \notin {"hi", "lo"}
  PROVE  <<x>> \in Seq(Item) /\ Paired(<<x>>) /\ Chars(<<x>>) = <<x>>
<1> DEFINE c == <<x>>
<1>1. c \in Seq(Item) /\ Len(c) = 1 /\ DOMAIN c = 1..1 /\ c[1] = x
  OBVIOUS
<1> HIDE DEF c
<1>2. Paired(c)
  BY <1>1 DEF Paired
<1>3. Shown(c) \in Seq(Item) /\ Len(Shown(c)) = 1 /\ (Shown(c)[1] \in NotLo <=> c[1].k # "lo")
  BY <1>1, ShownType
<1>4. Shown(c)[1] = c[1]
  BY <1>1 DEF Shown
<1>5. Shown(c) = c
  <2>1. \A i \in 1..Len(c) : Shown(c)[i] = c[i]
    BY <1>1, <1>4
  <2> QED BY <1>1, <1>3, <2>1, SeqEqual
<1>6. Picked(c, NotLo) = c
  <2> DEFINE P == {p \in DOMAIN c : c[p] \in NotLo}
  <2>1. \A p \in 1..Len(c) : p \in P
    BY <1>1, <1>3, <1>4
  <2> HIDE DEF P
  <2>2. ItemsAt(c, P) = c
    BY <1>1, <2>1, ItemsAtAll
  <2> QED BY <2>2 DEF P, Picked
<1>7. Chars(c) = c
  BY <1>1, <1>2, <1>5, <1>6, CharsIs
<1> QED BY <1>1, <1>2, <1>7 DEF c

\* A write where no character is split does to the characters what String#insert does.
LEMMA SplicedChars ==
  ASSUME NEW s \in Seq(Item), Paired(s), NEW new \in Seq(Item), Paired(new), NEW i \in Int,
         NEW at \in 0..Len(s), Whole(s, at), CountTo(CharStarts(s), at) = insert_index(i, char_len(s))
  PROVE  Chars(Spliced(s, at, new)) = RubyInsert(Chars(s), i, Chars(new))
<1> DEFINE a == SubSeq(s, 1, at)
           b == SubSeq(s, at + 1, Len(s))
           c == a \o new
           u == Chars(a)
           v == Chars(b)
           w == Chars(new)
<1>1. a \in Seq(Item) /\ b \in Seq(Item) /\ s = a \o b
  BY Cut
<1>2. Paired(a) /\ Paired(b)
  BY PairedCut
<1>3. Spliced(s, at, new) = c \o b
  BY DEF Spliced
<1>4. char_len(a) = insert_index(i, char_len(s))
  BY CharLenOfPrefix
<1> HIDE DEF a, b
<1>5. c \in Seq(Item) /\ Paired(c) /\ Chars(c) = u \o w
  BY <1>1, <1>2, PairedConcat, CharsConcat, ConcatProperties
<1> HIDE DEF c
<1>6. Chars(c \o b) = Chars(c) \o v
  BY <1>1, <1>2, <1>5, CharsConcat
<1>7. Chars(s) = u \o v
  BY <1>1, <1>2, CharsConcat
<1>8. u \in Seq(Item) /\ v \in Seq(Item) /\ Len(u) = char_len(a) /\ Len(Chars(s)) = char_len(s)
  BY <1>1, <1>2, CharsIs
<1> HIDE DEF u, v
<1>9. Len(u \o v) = Len(u) + Len(v)
  BY <1>8, ConcatProperties
<1>10. Len(u) = insert_index(i, Len(u) + Len(v))
  BY <1>4, <1>7, <1>8, <1>9
<1>11. RubyInsert(u \o v, i, w) = u \o w \o v
  <2> HIDE DEF w
  <2> QED BY <1>8, <1>10, RubyInsertSplit
<1> QED BY <1>3, <1>5, <1>6, <1>7, <1>11

\* insert does to the characters what String#insert does, at every index and
\* whatever embeds and blocks the sequence holds.
LEMMA InsertedChars ==
  ASSUME NEW s \in Seq(Item), Paired(s), NEW new \in Seq(Item), Paired(new), NEW i \in Int
  PROVE  Chars(Inserted(s, i, new)) = RubyInsert(Chars(s), i, Chars(new))
<1> DEFINE at == end_or_units(s, i)
<1>1. at \in 0..Len(s) /\ Whole(s, at)
  BY EndOrUnits
<1>2. char_len(s) \in Nat /\ char_len(s) = CountTo(CharStarts(s), Len(s))
  BY CharLen
<1>3. CountTo(CharStarts(s), at) = insert_index(i, char_len(s))
  <2>1. CASE i = -1
    <3>1. at = Len(s)
      BY <2>1 DEF end_or_units
    <3>2. insert_index(i, char_len(s)) = char_len(s)
      BY <1>2, <2>1 DEF insert_index, Clamp
    <3> QED BY <1>2, <3>1, <3>2
  <2>2. CASE i # -1
    <3> DEFINE c == insert_index(i, char_len(s))
    <3>1. c \in 0..char_len(s)
      BY <1>2, InsertIndexRange
    <3>2. at = to_units(s, c)
      BY <2>2 DEF end_or_units
    <3> HIDE DEF c, at
    <3>3. CountTo(CharStarts(s), to_units(s, c)) = c
      BY <3>1, ToUnits
    <3> QED BY <3>2, <3>3 DEF c
  <2> QED BY <2>1, <2>2
<1>4. Inserted(s, i, new) = Spliced(s, at, new)
  BY DEF Inserted
<1> HIDE DEF at
<1> QED BY <1>1, <1>3, <1>4, SplicedChars

\* insert_embed puts an embed where String#insert puts a character.
LEMMA EmbedInsertedChars ==
  ASSUME NEW s \in Seq(Item), Paired(s), NEW x \in Item, x.k \notin {"hi", "lo"}, NEW i \in Int
  PROVE  Chars(EmbedInserted(s, i, x)) = RubyInsert(Chars(s), i, <<x>>)
<1> DEFINE c == insert_index(i, char_len(s))
           at == to_units(s, c)
<1>1. char_len(s) \in Nat
  BY CharLen
<1>2. c \in 0..char_len(s)
  BY <1>1, InsertIndexRange
<1>3. EmbedInserted(s, i, x) = Spliced(s, at, <<x>>)
  BY DEF EmbedInserted
<1>4. at \in 0..Len(s) /\ Whole(s, at) /\ CountTo(CharStarts(s), at) = insert_index(i, char_len(s))
  <2> HIDE DEF c
  <2>1. at \in 0..Len(s) /\ Whole(s, at) /\ CountTo(CharStarts(s), at) = c
    BY <1>2, ToUnits DEF Whole
  <2> QED BY <2>1 DEF c
<1>5. <<x>> \in Seq(Item) /\ Paired(<<x>>) /\ Chars(<<x>>) = <<x>>
  BY OneItem
<1> DEFINE new == <<x>>
<1> HIDE DEF at, new
<1>6. Chars(Spliced(s, at, new)) = RubyInsert(Chars(s), i, Chars(new))
  BY <1>4, <1>5, SplicedChars DEF new
<1> QED BY <1>3, <1>5, <1>6 DEF new

\* What delete removes is whole characters: those String#slice! removes.
LEMMA DeletedChars ==
  ASSUME NEW s \in Seq(Item), Paired(s), NEW i \in Int, NEW n \in Nat
  PROVE  Chars(Deleted(s, i, n)) = RubySlice(Chars(s), i, n)
<1> DEFINE len == char_len(s)
           span == delete_span(i, n, len)
           start == IF i < 0 THEN len + i ELSE i
           from == to_units(s, span[1])
           to == to_units(s, span[2])
           C == CharStarts(s)
<1>0. len \in Nat /\ Len(s) \in Nat /\ C \in SUBSET (1..Len(s))
  BY CharLen, CharStartsSet
<1>1. Chars(s) \in Seq(Item) /\ Len(Chars(s)) = len
  BY CharsIs
<1>2. span[1] \in 0..len /\ span[2] \in 0..len
  <2> HIDE DEF len
  <2> QED BY <1>0, DeleteSpanRange
<1>3. Deleted(s, i, n) = IF to > from THEN RemoveRange(s, from, to - from) ELSE s
  BY DEF Deleted, delete_units
<1>4. start < 0 \/ start > len => span[1] = 0 /\ span[2] = 0
  BY DEF delete_span
<1>5. ~ (start < 0 \/ start > len) => span[1] = start /\ span[2] = start + Clamp(n, 0, len - start)
  BY DEF delete_span
<1>6. start \in Int
  BY <1>0
<1>7. /\ from \in 0..Len(s) /\ CountTo(C, from) = span[1] /\ Whole(s, from)
      /\ to \in 0..Len(s) /\ CountTo(C, to) = span[2] /\ Whole(s, to)
  <2> HIDE DEF span
  <2> QED BY <1>2, ToUnits DEF Whole
<1>8. start = IF i < 0 THEN Len(Chars(s)) + i ELSE i
  BY <1>1
<1>9. CASE to > from
  <2> DEFINE x == SubSeq(s, 1, to)
             b == SubSeq(s, to + 1, Len(s))
             a == SubSeq(x, 1, from)
             m == SubSeq(x, from + 1, Len(x))
  <2>0. ~ (start < 0 \/ start > len)
    <3> SUFFICES ASSUME start < 0 \/ start > len PROVE FALSE
      OBVIOUS
    <3>1. span[1] = span[2]
      BY <1>4
    <3>2. from = to
      BY <3>1
    <3> HIDE DEF from, to
    <3> QED BY <1>7, <1>9, <3>2
  <2> HIDE DEF from, to, span, start
  <2>1. x \in Seq(Item) /\ Len(x) = to /\ b \in Seq(Item) /\ s = x \o b
    <3>1. to \in 0..Len(s)
      BY <1>7
    <3>2. x \in Seq(Item) /\ Len(x) = to
      BY <3>1, Cut
    <3>3. b \in Seq(Item) /\ s = x \o b
      BY <3>1, Cut
    <3> QED BY <3>2, <3>3
  <2>2. Paired(x) /\ Paired(b)
    BY <1>7, PairedCut
  <2>3. \A p \in 1..to : x[p] = s[p]
    BY <1>7
  <2>4. from \in 0..Len(x) /\ Whole(x, from)
    <3>1. 0 < from => from + 1 \in 1..to /\ s[from + 1].k # "lo"
      BY <1>0, <1>7, <1>9 DEF Whole
    <3>2. from \in 0..to
      BY <1>0, <1>7, <1>9
    <3> HIDE DEF x
    <3> QED BY <2>1, <2>3, <3>1, <3>2 DEF Whole
  <2>5. a = SubSeq(s, 1, from)
    <3>1. a \in Seq(Item) /\ Len(a) = from /\ \A p \in 1..from : a[p] = x[p]
      <4> HIDE DEF x
      <4> QED BY <2>1, <2>4
    <3>2. SubSeq(s, 1, from) \in Seq(Item) /\ Len(SubSeq(s, 1, from)) = from
          /\ \A p \in 1..from : SubSeq(s, 1, from)[p] = s[p]
      BY <1>7
    <3>3. \A p \in 1..from : p \in 1..to
      BY <1>0, <1>7, <1>9
    <3> HIDE DEF a, x
    <3>4. \A p \in 1..from : a[p] = SubSeq(s, 1, from)[p]
      BY <2>3, <3>1, <3>2, <3>3
    <3> QED BY <3>1, <3>2, <3>4, SeqEqual
  <2>6. RemoveRange(s, from, to - from) = a \o b
    <3>1. from + (to - from) + 1 = to + 1
      BY <1>0, <1>7
    <3> HIDE DEF a
    <3> QED BY <2>5, <3>1 DEF RemoveRange
  <2>7. char_len(x) = span[2] /\ char_len(a) = span[1]
    BY <1>7, <2>5, CharLenOfPrefix
  <2> HIDE DEF x, b
  <2>8. a \in Seq(Item) /\ m \in Seq(Item) /\ x = a \o m /\ Paired(a) /\ Paired(m)
    BY <2>1, <2>2, <2>4, Cut, PairedCut
  <2> HIDE DEF a, m
  <2> DEFINE u == Chars(a)
             y == Chars(m)
             v == Chars(b)
  <2>9. Chars(x) = u \o y /\ Chars(s) = Chars(x) \o v /\ Chars(a \o b) = u \o v
    BY <2>1, <2>2, <2>8, CharsConcat
  <2>10. u \in Seq(Item) /\ y \in Seq(Item) /\ v \in Seq(Item) /\ Len(u) = char_len(a) /\ Len(Chars(x)) = char_len(x)
    BY <2>1, <2>2, <2>8, CharsIs
  <2> HIDE DEF u, y, v, len
  <2>11. Len(u) = start /\ Len(Chars(x)) = start + Clamp(n, 0, len - start) /\ Len(Chars(s)) = len
    BY <1>1, <1>5, <2>0, <2>7, <2>10
  <2>12. Len(u) \in Nat /\ Len(y) \in Nat /\ Len(v) \in Nat
    BY <2>10
  <2>13. u \o y \in Seq(Item) /\ Len(u \o y) = Len(u) + Len(y)
    BY <2>10, ConcatProperties
  <2>14. Len((u \o y) \o v) = Len(u \o y) + Len(v)
    BY <2>10, <2>13, ConcatProperties
  <2>15. len = Len(u) + Len(y) + Len(v)
    BY <2>9, <2>11, <2>13, <2>14
  <2>16. Len(y) = Clamp(n, 0, len - Len(u))
    <3>1. Clamp(n, 0, len - start) \in Int
      BY <1>0, <1>6 DEF Clamp
    <3> QED BY <1>6, <2>9, <2>11, <2>12, <2>13, <3>1
  <2>17. Len(u) = IF i < 0 THEN len + i ELSE i
    BY <2>11 DEF start
  <2>18. Span(u, y, v, i, n)
    <3> HIDE DEF start
    <3> QED BY <2>15, <2>16, <2>17 DEF Span
  <2>19. RubySlice((u \o y) \o v, i, n) = u \o v
    BY <2>10, <2>18, RubySliceSplit
  <2> QED BY <1>3, <1>9, <2>6, <2>9, <2>19
<1>10. CASE ~ (to > from)
  <2>1. start < 0 \/ start >= len \/ n = 0
    <3> SUFFICES ASSUME ~ (start < 0 \/ start > len) PROVE start >= len \/ n = 0
      BY <1>0, <1>6
    <3>1. CountTo(C, to) <= CountTo(C, from)
      <4>1. from \in to..Len(s)
        <5> HIDE DEF from, to
        <5> QED BY <1>0, <1>7, <1>10
      <4> HIDE DEF from, to, C
      <4> QED BY <1>0, <1>7, <4>1, CountMonotone
    <3>2. span[2] <= span[1]
      <4> HIDE DEF from, to, C, span
      <4> QED BY <1>7, <3>1
    <3>3. start + Clamp(n, 0, len - start) <= start
      <4> HIDE DEF span, start
      <4> QED BY <1>5, <3>2
    <3> HIDE DEF start, len
    <3> QED BY <1>0, <1>6, <3>3 DEF Clamp
  <2>2. Deleted(s, i, n) = s
    BY <1>3, <1>10
  <2>3. RubySlice(Chars(s), i, n) = Chars(s)
    <3>1. LET st == IF i < 0 THEN Len(Chars(s)) + i ELSE i IN st < 0 \/ st >= Len(Chars(s)) \/ n = 0
      BY <1>1, <1>8, <2>1
    <3> QED BY <1>1, <3>1, RubySliceNone
  <2> QED BY <2>2, <2>3
<1> QED BY <1>9, <1>10

-----------------------------------------------------------------------------
(* The blocks of a sequence, and what insert_xml_text and delete_xml_text do. *)

\* Block identities, and 0 for what has none.
Ids == {0, Root} \union Block

\* The blocks among the items.
BlocksIn == {x \in Item : x.k = "block"}

\* Where they stand.
BlockPlaces(s) == {p \in DOMAIN s : IsBlock(s[p])}

\* Their identities.
IdsOf(blocks) == [i \in DOMAIN blocks |-> blocks[i].id]

\* The identities of a sequence of items.
LEMMA IdsOfType ==
  ASSUME NEW a \in Seq(Item)
  PROVE  IdsOf(a) \in Seq(Ids) /\ Len(IdsOf(a)) = Len(a) /\ \A i \in 1..Len(a) : IdsOf(a)[i] = a[i].id
<1>1. Len(a) \in Nat /\ DOMAIN a = 1..Len(a) /\ \A i \in 1..Len(a) : a[i] \in Item
  OBVIOUS
<1>2. \A i \in 1..Len(a) : a[i].id \in Ids
  BY <1>1 DEF Item, Ids
<1>3. IdsOf(a) \in [1..Len(a) -> Ids]
  BY <1>1, <1>2 DEF IdsOf
<1>4. \A i \in 1..Len(a) : IdsOf(a)[i] = a[i].id
  BY <1>1 DEF IdsOf
<1>5. \A n \in Nat : \A f \in [1..n -> Ids] : f \in Seq(Ids) /\ Len(f) = n
  OBVIOUS
<1> QED BY <1>1, <1>3, <1>4, <1>5

\* Those of two joined sequences.
LEMMA IdsConcat ==
  ASSUME NEW a \in Seq(Item), NEW b \in Seq(Item)
  PROVE  IdsOf(a \o b) = IdsOf(a) \o IdsOf(b)
<1> DEFINE n == Len(a)
           m == Len(b)
           x == IdsOf(a)
           y == IdsOf(b)
           r == a \o b
           z == IdsOf(r)
<1>1. n \in Nat /\ m \in Nat /\ r \in Seq(Item) /\ Len(r) = n + m
  BY ConcatProperties
<1>2. (\A i \in 1..n : r[i] = a[i]) /\ (\A i \in 1..m : r[n + i] = b[i])
  BY ConcatParts
<1>3. x \in Seq(Ids) /\ Len(x) = n /\ \A i \in 1..n : x[i] = a[i].id
  BY IdsOfType
<1>4. y \in Seq(Ids) /\ Len(y) = m /\ \A i \in 1..m : y[i] = b[i].id
  BY IdsOfType
<1> HIDE DEF r
<1>5. z \in Seq(Ids) /\ Len(z) = n + m /\ \A i \in 1..(n + m) : z[i] = r[i].id
  BY <1>1, IdsOfType
<1> HIDE DEF x, y, z, n, m
<1>6. x \o y \in Seq(Ids) /\ Len(x \o y) = n + m
  BY <1>3, <1>4, ConcatProperties
<1>7. (\A i \in 1..n : (x \o y)[i] = x[i]) /\ (\A i \in 1..m : (x \o y)[n + i] = y[i])
  BY <1>3, <1>4, ConcatParts
<1>8. ASSUME NEW i \in 1..(n + m) PROVE z[i] = (x \o y)[i]
  <2>1. CASE i <= n
    <3>1. i \in 1..n
      BY <1>1, <2>1
    <3>2. z[i] = a[i].id
      BY <1>2, <1>5, <3>1
    <3>3. (x \o y)[i] = x[i]
      BY <1>7, <3>1
    <3> QED BY <1>3, <3>1, <3>2, <3>3
  <2>2. CASE ~ (i <= n)
    <3>1. PICK j \in 1..m : i = n + j
      <4>1. i - n \in 1..m /\ i = n + (i - n)
        BY <1>1, <2>2
      <4> QED BY <4>1
    <3>2. z[i] = b[j].id
      BY <1>2, <1>5, <3>1
    <3>3. (x \o y)[i] = y[j]
      BY <1>7, <3>1
    <3> QED BY <1>4, <3>2, <3>3
  <2> QED BY <2>1, <2>2
<1>9. z = x \o y
  <2> HIDE DEF r
  <2>1. \A i \in 1..Len(z) : z[i] = (x \o y)[i]
    BY <1>5, <1>8
  <2> QED BY <1>5, <1>6, <2>1, SeqEqual
<1> QED BY <1>9 DEF x, y, z, r

\* embedded_xml_texts gives the blocks of a sequence, as many as there are
\* places with one.
LEMMA BlocksAre ==
  ASSUME NEW s \in Seq(Item)
  PROVE  /\ embedded_xml_texts(s) = IdsOf(Picked(s, BlocksIn))
         /\ embedded_xml_texts(s) \in Seq(Ids)
         /\ Len(embedded_xml_texts(s)) = Cardinality(BlockPlaces(s))
         /\ Len(embedded_xml_texts(s)) = CountTo(BlockPlaces(s), Len(s))
         /\ BlockPlaces(s) \in SUBSET (1..Len(s))
<1> DEFINE P == BlockPlaces(s)
<1>1. Len(s) \in Nat /\ DOMAIN s = 1..Len(s) /\ \A p \in 1..Len(s) : s[p] \in Item
  OBVIOUS
<1>2. P = {p \in DOMAIN s : s[p] \in BlocksIn}
  BY <1>1 DEF BlockPlaces, BlocksIn, IsBlock
<1>3. P \in SUBSET (1..Len(s))
  BY <1>1 DEF BlockPlaces
<1>4. embedded_xml_texts(s) = IdsOf(ItemsAt(s, P))
  BY DEF embedded_xml_texts, IdsOf, BlockPlaces
<1> HIDE DEF P
<1>5. PlacesIn(s, P) = P
  BY <1>3 DEF PlacesIn
<1>6. ItemsAt(s, P) \in Seq(Item) /\ Len(ItemsAt(s, P)) = Cardinality(PlacesIn(s, P))
  BY ItemsAtRank
<1>7. CountTo(P, Len(s)) = Cardinality(P)
  BY <1>1, <1>3, CountFacts
<1>8. ItemsAt(s, P) = Picked(s, BlocksIn)
  BY <1>2 DEF Picked
<1>9. IdsOf(ItemsAt(s, P)) \in Seq(Ids) /\ Len(IdsOf(ItemsAt(s, P))) = Cardinality(P)
  BY <1>5, <1>6, IdsOfType
<1> QED BY <1>3, <1>4, <1>7, <1>8, <1>9 DEF P

\* The blocks of two joined sequences are those of both.
LEMMA BlocksConcat ==
  ASSUME NEW s \in Seq(Item), NEW t \in Seq(Item)
  PROVE  embedded_xml_texts(s \o t) = embedded_xml_texts(s) \o embedded_xml_texts(t)
<1>1. s \o t \in Seq(Item)
  BY ConcatProperties
<1>2. Picked(s \o t, BlocksIn) = Picked(s, BlocksIn) \o Picked(t, BlocksIn)
  BY PickedConcat
<1>3. Picked(s, BlocksIn) \in Seq(Item) /\ Picked(t, BlocksIn) \in Seq(Item)
  BY PickedType
<1>4. IdsOf(Picked(s, BlocksIn) \o Picked(t, BlocksIn)) = IdsOf(Picked(s, BlocksIn)) \o IdsOf(Picked(t, BlocksIn))
  BY <1>3, IdsConcat
<1> QED BY <1>1, <1>2, <1>4, BlocksAre

\* The blocks before a document index, counted.
LEMMA BlocksOfPrefix ==
  ASSUME NEW s \in Seq(Item), NEW u \in 0..Len(s)
  PROVE  Len(embedded_xml_texts(SubSeq(s, 1, u))) = CountTo(BlockPlaces(s), u)
<1> DEFINE a == SubSeq(s, 1, u)
<1>1. a \in Seq(Item)
  BY Cut
<1>2. DOMAIN a = 1..u /\ (\A i \in 1..u : a[i] = s[i]) /\ DOMAIN s = 1..Len(s) /\ Len(s) \in Nat
  OBVIOUS
<1>3. \A i \in 1..Len(s) : i <= u <=> i \in 1..u
  BY <1>2
<1>4. \A i \in 1..u : i \in 1..Len(s)
  BY <1>2
<1> HIDE DEF a
<1>5. BlockPlaces(a) = {p \in BlockPlaces(s) : p <= u}
  BY <1>2, <1>3, <1>4 DEF BlockPlaces
<1>6. Len(embedded_xml_texts(a)) = Cardinality(BlockPlaces(a))
  BY <1>1, BlocksAre
<1> QED BY <1>5, <1>6 DEF CountTo, a

\* A block alone.
LEMMA OneBlock ==
  ASSUME NEW x \in Item, IsBlock(x)
  PROVE  <<x>> \in Seq(Item) /\ embedded_xml_texts(<<x>>) = <<x.id>>
<1> DEFINE c == <<x>>
<1>1. c \in Seq(Item) /\ Len(c) = 1 /\ DOMAIN c = 1..1 /\ c[1] = x
  OBVIOUS
<1> HIDE DEF c
<1>2. Picked(c, BlocksIn) = c
  <2> DEFINE P == {p \in DOMAIN c : c[p] \in BlocksIn}
  <2>1. \A p \in 1..Len(c) : p \in P
    BY <1>1 DEF BlocksIn, IsBlock
  <2> HIDE DEF P
  <2>2. ItemsAt(c, P) = c
    BY <1>1, <2>1, ItemsAtAll
  <2> QED BY <2>2 DEF P, Picked
<1>3. IdsOf(c) = <<x.id>>
  <2>1. IdsOf(c) \in Seq(Ids) /\ Len(IdsOf(c)) = 1 /\ IdsOf(c)[1] = x.id
    BY <1>1, IdsOfType
  <2> QED BY <2>1
<1> QED BY <1>1, <1>2, <1>3, BlocksAre DEF c

\* The place embedded_xml_text_index gives has n blocks before it, and the next
\* one, if there is one, starts there.
LEMMA BlockIndex ==
  ASSUME NEW s \in Seq(Item), NEW n \in 0..Len(embedded_xml_texts(s))
  PROVE  LET at == embedded_xml_text_index(s, n)
         IN  /\ at \in 0..Len(s)
             /\ CountTo(BlockPlaces(s), at) = n
             /\ at < Len(s) => IsBlock(s[at + 1])
             /\ n < Len(embedded_xml_texts(s)) => at < Len(s)
<1> DEFINE P == BlockPlaces(s)
           L == Len(s)
           nth == {i \in P : Cardinality({j \in P : j < i}) = n}
           at == embedded_xml_text_index(s, n)
<1>1. L \in Nat /\ DOMAIN s = 1..L
  OBVIOUS
<1>2. P \in SUBSET (1..L) /\ \A p \in P : IsBlock(s[p])
  BY <1>1 DEF BlockPlaces
<1>3. Len(embedded_xml_texts(s)) = Cardinality(P) /\ Cardinality(P) = CountTo(P, L)
  BY BlocksAre
<1>4. at = IF nth = {} THEN L ELSE (CHOOSE i \in nth : TRUE) - 1
  BY DEF embedded_xml_text_index, BlockPlaces
<1> HIDE DEF P, L
<1>5. \A p \in 0..L : CountTo(P, p) \in Nat
  BY <1>1, <1>2, CountFacts
<1>6. \A p \in P : CountTo(P, p) = CountTo(P, p - 1) + 1
  BY <1>1, <1>2, CountFacts
<1>7. ASSUME NEW i \in P PROVE Cardinality({j \in P : j < i}) = CountTo(P, i - 1)
  <2>1. i \in Nat /\ \A j \in P : j \in Nat
    BY <1>1, <1>2
  <2>2. \A j \in P : j < i <=> j <= i - 1
    BY <2>1
  <2>3. {j \in P : j < i} = {j \in P : j <= i - 1}
    BY <2>2
  <2> QED BY <2>3 DEF CountTo
<1>8. \A i \in P : i \in nth <=> CountTo(P, i - 1) = n
  BY <1>7
<1>9. \A i \in nth : i \in P
  OBVIOUS
<1> HIDE DEF nth
<1>10. CASE n < Cardinality(P)
  <2>1. n + 1 \in 1..Cardinality(P)
    BY <1>1, <1>3, <1>5, <1>10
  <2>2. PICK q \in P : CountTo(P, q) = n + 1
    BY <1>1, <1>2, <2>1, CountOnto
  <2>3. CountTo(P, q - 1) = n
    <3>1. q - 1 \in 0..L
      BY <1>1, <1>2
    <3> QED BY <1>5, <1>6, <2>2, <3>1
  <2>4. q \in nth
    BY <1>8, <2>3
  <2>5. PICK i \in nth : at = i - 1
    BY <1>4, <2>4
  <2>6. i \in P /\ CountTo(P, i - 1) = n
    BY <1>8, <1>9
  <2>7. i - 1 \in 0..L /\ i - 1 < L /\ (i - 1) + 1 = i
    BY <1>1, <1>2, <2>6
  <2> QED BY <1>2, <1>3, <2>5, <2>6, <2>7 DEF P, L
<1>11. CASE ~ (n < Cardinality(P))
  <2>1. n = Cardinality(P)
    BY <1>1, <1>3, <1>5, <1>11
  <2>2. ASSUME NEW i \in nth PROVE FALSE
    <3>0. i \in P /\ i \in 1..L
      BY <1>2, <1>9
    <3>1. i \in P /\ i \in 0..L /\ L \in i..L
      BY <1>1, <3>0
    <3>2. CountTo(P, i) <= CountTo(P, L)
      BY <1>1, <1>2, <3>1, CountMonotone
    <3>3. CountTo(P, i) = n + 1
      BY <1>6, <1>8, <3>1
    <3>4. CountTo(P, L) = n
      BY <1>3, <2>1
    <3> QED BY <3>2, <3>3, <3>4
  <2>3. at = L
    BY <1>4, <2>2
  <2> QED BY <1>1, <1>3, <2>1, <2>3 DEF P, L
<1> QED BY <1>10, <1>11

\* insert_xml_text puts a block where Array#insert puts an element.
LEMMA BlockInsertedAsRuby ==
  ASSUME NEW s \in Seq(Item), NEW i \in Int, NEW d \in Ids
  PROVE  embedded_xml_texts(BlockInserted(s, i, d)) = RubyInsert(embedded_xml_texts(s), i, <<d>>)
<1> DEFINE len == Len(embedded_xml_texts(s))
           n == insert_index(i, len)
           at == embedded_xml_text_index(s, n)
           a == SubSeq(s, 1, at)
           b == SubSeq(s, at + 1, Len(s))
           c == <<Embedded(d)>>
           u == embedded_xml_texts(a)
           v == embedded_xml_texts(b)
<1>1. BlockInserted(s, i, d) = (a \o c) \o b
  BY DEF BlockInserted, Spliced
<1>2. embedded_xml_texts(s) \in Seq(Ids) /\ len \in Nat
  BY BlocksAre
<1>3. n \in 0..len
  <2> HIDE DEF len
  <2> QED BY <1>2, InsertIndexRange
<1>4. at \in 0..Len(s) /\ CountTo(BlockPlaces(s), at) = n
  <2> HIDE DEF n
  <2> QED BY <1>3, BlockIndex
<1>5. Len(u) = n
  <2> HIDE DEF at, n
  <2> QED BY <1>4, BlocksOfPrefix
<1>6. a \in Seq(Item) /\ b \in Seq(Item) /\ s = a \o b
  <2> HIDE DEF at
  <2> QED BY <1>4, Cut
<1>7. c \in Seq(Item) /\ embedded_xml_texts(c) = <<d>>
  <2>1. Embedded(d) \in Item /\ IsBlock(Embedded(d)) /\ Embedded(d).id = d
    BY DEF Embedded, Item, Kinds, Ids, IsBlock
  <2> QED BY <2>1, OneBlock
<1> HIDE DEF a, b, c
<1>8. u \in Seq(Ids) /\ v \in Seq(Ids)
  BY <1>6, BlocksAre
<1>9. embedded_xml_texts(s) = u \o v
  BY <1>6, BlocksConcat
<1>10. a \o c \in Seq(Item)
  BY <1>6, <1>7, ConcatProperties
<1>11. embedded_xml_texts((a \o c) \o b) = (u \o <<d>>) \o v
  <2>1. embedded_xml_texts(a \o c) = u \o <<d>>
    BY <1>6, <1>7, BlocksConcat, ZenonT(30)
  <2>2. b \in Seq(Item)
    BY <1>6
  <2>3. embedded_xml_texts((a \o c) \o b) = embedded_xml_texts(a \o c) \o v
    BY <1>10, <2>2, BlocksConcat
  <2> QED BY <2>1, <2>3
<1> HIDE DEF u, v
<1>12. Len(u) = insert_index(i, Len(u) + Len(v))
  <2>1. len = Len(u) + Len(v)
    BY <1>8, <1>9, ConcatProperties
  <2> QED BY <1>5, <2>1
<1>13. RubyInsert(u \o v, i, <<d>>) = u \o <<d>> \o v
  BY <1>8, <1>12, RubyInsertSplit
<1> QED BY <1>1, <1>9, <1>11, <1>13

\* RemoveRange of one item takes it out from between what comes before and after.
LEMMA CutOut ==
  ASSUME NEW S, NEW s \in Seq(S), NEW at \in 0..Len(s), at < Len(s)
  PROVE  /\ SubSeq(s, 1, at) \in Seq(S) /\ SubSeq(s, at + 2, Len(s)) \in Seq(S) /\ s[at + 1] \in S
         /\ s = (SubSeq(s, 1, at) \o <<s[at + 1]>>) \o SubSeq(s, at + 2, Len(s))
         /\ RemoveRange(s, at, 1) = SubSeq(s, 1, at) \o SubSeq(s, at + 2, Len(s))
<1> DEFINE a == SubSeq(s, 1, at)
           x == SubSeq(s, 1, at + 1)
           b == SubSeq(s, at + 2, Len(s))
           y == <<s[at + 1]>>
<1>1. at \in Nat /\ at + 1 \in 0..Len(s) /\ (at + 1) + 1 = at + 2 /\ at + 1 \in 1..Len(s)
  OBVIOUS
<1>2. x \in Seq(S) /\ Len(x) = at + 1 /\ \A i \in 1..(at + 1) : x[i] = s[i]
  BY <1>1
<1>3. a \in Seq(S) /\ Len(a) = at /\ \A i \in 1..at : a[i] = s[i]
  BY <1>1
<1>4. b \in Seq(S) /\ s = x \o b
  BY <1>1, Cut, ZenonT(30)
<1>5. y \in Seq(S) /\ Len(y) = 1 /\ y[1] = s[at + 1]
  BY <1>1
<1>6. RemoveRange(s, at, 1) = a \o b
  BY <1>1 DEF RemoveRange
<1> HIDE DEF a, x, b, y
<1>7. a \o y \in Seq(S) /\ Len(a \o y) = at + 1
  <2>1. a \o y \in Seq(S) /\ Len(a \o y) = Len(a) + Len(y)
    BY <1>3, <1>5, ConcatProperties
  <2> QED BY <1>3, <1>5, <2>1
<1>8. (\A i \in 1..at : (a \o y)[i] = a[i]) /\ (a \o y)[at + 1] = s[at + 1]
  <2>1. 1 \in 1..Len(y)
    BY <1>5
  <2>2. a \in Seq(S) /\ y \in Seq(S)
    BY <1>3, <1>5
  <2>3. \A i \in 1..Len(a) : (a \o y)[i] = a[i]
    BY <2>2, ConcatParts
  <2>4. \A i \in 1..Len(y) : (a \o y)[Len(a) + i] = y[i]
    BY <2>2, ConcatParts
  <2>5. (a \o y)[Len(a) + 1] = y[1]
    BY <2>1, <2>4
  <2> QED BY <1>3, <1>5, <2>3, <2>5
<1>9. \A i \in 1..(at + 1) : i \in 1..at \/ i = at + 1
  BY <1>1
<1>10. \A i \in 1..(at + 1) : x[i] = (a \o y)[i]
  BY <1>2, <1>3, <1>8, <1>9
<1>11. x = a \o y
  BY <1>2, <1>7, <1>10, SeqEqual
<1>12. s[at + 1] \in S
  BY <1>1
<1> QED BY <1>3, <1>4, <1>6, <1>11, <1>12 DEF a, b, y

\* The units of text among the items.
TextOf == {x \in Item : IsText(x)}

\* TextIn picks them.
LEMMA TextIsPicked ==
  ASSUME NEW s \in Seq(Item)
  PROVE  TextIn(s) = Picked(s, TextOf)
<1>1. \A p \in DOMAIN s : s[p] \in Item
  OBVIOUS
<1>2. {p \in DOMAIN s : IsText(s[p])} = {p \in DOMAIN s : s[p] \in TextOf}
  BY <1>1 DEF TextOf
<1> QED BY <1>2 DEF TextIn, Picked

\* A block is no text.
LEMMA NoTextInBlock ==
  ASSUME NEW x \in Item, IsBlock(x)
  PROVE  Picked(<<x>>, TextOf) = <<>>
<1> DEFINE c == <<x>>
           P == {p \in DOMAIN c : c[p] \in TextOf}
<1>1. c \in Seq(Item) /\ Len(c) = 1 /\ DOMAIN c = 1..1 /\ c[1] = x
  OBVIOUS
<1> HIDE DEF c
<1>2. x \notin TextOf
  BY DEF TextOf, IsText, IsBlock
<1>3. \A p \in 1..Len(c) : p \notin P
  BY <1>1, <1>2
<1> HIDE DEF P
<1>4. ItemsAt(c, P) = <<>>
  BY <1>1, <1>3, ItemsAtNone
<1> QED BY <1>4 DEF P, Picked, c

\* Taking out what is no text leaves the text.
LEMMA TextOut ==
  ASSUME NEW a \in Seq(Item), NEW b \in Seq(Item), NEW c \in Seq(Item)
  PROVE  Picked(c, TextOf) = <<>> => TextIn((a \o c) \o b) = TextIn(a \o b)
<1> DEFINE d == a \o c
<1>1. d \in Seq(Item) /\ a \o b \in Seq(Item)
  BY ConcatProperties
<1>2. Picked(a \o b, TextOf) = Picked(a, TextOf) \o Picked(b, TextOf)
  BY PickedConcat
<1>3. Picked(d, TextOf) = Picked(a, TextOf) \o Picked(c, TextOf)
  BY PickedConcat
<1>4. Picked(a, TextOf) \o <<>> = Picked(a, TextOf)
  BY PickedType, ConcatEmptySeq
<1> HIDE DEF d
<1>5. d \o b \in Seq(Item)
  BY <1>1, ConcatProperties
<1>6. Picked(d \o b, TextOf) = Picked(d, TextOf) \o Picked(b, TextOf)
  <2>1. d \in Seq(Item)
    BY <1>1
  <2> QED BY <2>1, PickedConcat, SMTT(30)
<1>7. TextIn(d \o b) = Picked(d \o b, TextOf) /\ TextIn(a \o b) = Picked(a \o b, TextOf)
  BY <1>1, <1>5, TextIsPicked
<1> QED BY <1>2, <1>3, <1>4, <1>6, <1>7 DEF d

\* delete_xml_text takes out the block Array#slice! takes out, and no text.
LEMMA BlockDeletedAsRuby ==
  ASSUME NEW s \in Seq(Item), NEW i \in Int
  PROVE  /\ embedded_xml_texts(BlockDeleted(s, i)) = RubySlice(embedded_xml_texts(s), i, 1)
         /\ TextIn(BlockDeleted(s, i)) = TextIn(s)
<1> DEFINE E == embedded_xml_texts(s)
           len == Len(E)
           n == element_index(i, len)
           at == embedded_xml_text_index(s, n)
           a == SubSeq(s, 1, at)
           b == SubSeq(s, at + 2, Len(s))
           x == s[at + 1]
           c == <<x>>
           u == embedded_xml_texts(a)
           v == embedded_xml_texts(b)
           start == IF i < 0 THEN len + i ELSE i
<1>1. BlockDeleted(s, i) = IF n = -1 THEN s ELSE RemoveRange(s, at, 1)
  BY DEF BlockDeleted
<1>2. E \in Seq(Ids) /\ len \in Nat
  BY BlocksAre
<1>3. n = IF start \in 0..(len - 1) THEN start ELSE -1
  BY DEF element_index
<1>4. start \in Int
  BY <1>2
<1>5. CASE n = -1
  <2>1. start < 0 \/ start >= len
    <3> HIDE DEF start, n, len
    <3> QED BY <1>2, <1>3, <1>4, <1>5
  <2>2. LET st == IF i < 0 THEN Len(E) + i ELSE i IN st < 0 \/ st >= Len(E) \/ 1 = 0
    BY <2>1
  <2> HIDE DEF E
  <2>3. RubySlice(E, i, 1) = E
    BY <1>2, <2>2, RubySliceNone
  <2> QED BY <1>1, <1>5, <2>3 DEF E
<1>6. CASE n # -1
  <2>1. n = start /\ n \in 0..len /\ n < len
    <3> HIDE DEF start, n, len
    <3> QED BY <1>2, <1>3, <1>4, <1>6
  <2>2. at \in 0..Len(s) /\ CountTo(BlockPlaces(s), at) = n /\ at < Len(s) /\ IsBlock(x)
    <3> HIDE DEF n
    <3> QED BY <2>1, BlockIndex
  <2>3. Len(u) = n
    <3> HIDE DEF at, n
    <3> QED BY <2>2, BlocksOfPrefix
  <2>4. a \in Seq(Item) /\ b \in Seq(Item) /\ x \in Item /\ s = (a \o c) \o b /\ RemoveRange(s, at, 1) = a \o b
    <3> HIDE DEF at
    <3> QED BY <2>2, CutOut
  <2> HIDE DEF a, b, x, at, n, len
  <2>5. c \in Seq(Item) /\ embedded_xml_texts(c) = <<x.id>> /\ x.id \in Ids
    <3>1. x.id \in Ids
      BY <2>4 DEF Item, Ids
    <3> QED BY <2>2, <2>4, <3>1, OneBlock
  <2>6. Picked(c, TextOf) = <<>>
    BY <2>2, <2>4, NoTextInBlock
  <2> HIDE DEF c
  <2>7. a \o c \in Seq(Item) /\ a \o b \in Seq(Item)
    BY <2>4, <2>5, ConcatProperties
  <2>8. E = (u \o <<x.id>>) \o v
    <3>1. embedded_xml_texts(a \o c) = u \o <<x.id>>
      BY <2>4, <2>5, BlocksConcat
    <3>2. embedded_xml_texts((a \o c) \o b) = embedded_xml_texts(a \o c) \o v
      BY <2>4, <2>7, BlocksConcat
    <3> QED BY <2>4, <3>1, <3>2
  <2>9. embedded_xml_texts(a \o b) = u \o v
    BY <2>4, BlocksConcat
  <2>10. u \in Seq(Ids) /\ v \in Seq(Ids)
    BY <2>4, BlocksAre
  <2> HIDE DEF u, v, E
  <2>11. RubySlice((u \o <<x.id>>) \o v, i, 1) = u \o v
    <3> DEFINE m == <<x.id>>
    <3>1. m \in Seq(Ids) /\ Len(m) = 1
      BY <2>5
    <3> HIDE DEF m
    <3>2. u \o m \in Seq(Ids) /\ Len(u \o m) = Len(u) + Len(m)
      BY <2>10, <3>1, ConcatProperties
    <3>3. Len((u \o m) \o v) = Len(u \o m) + Len(v)
      BY <2>10, <3>2, ConcatProperties
    <3>4. len = Len(u) + Len(m) + Len(v)
      BY <2>8, <3>2, <3>3 DEF len, m
    <3>5. Len(u) \in Nat /\ Len(v) \in Nat
      BY <2>10
    <3>6. Len(m) = Clamp(1, 0, len - Len(u))
      BY <2>1, <2>3, <3>1, <3>4, <3>5 DEF Clamp
    <3>7. Span(u, m, v, i, 1)
      <4>1. Len(u) = IF i < 0 THEN len + i ELSE i
        BY <2>1, <2>3
      <4> QED BY <3>4, <3>6, <4>1 DEF Span
    <3>8. u \in Seq(Ids) /\ m \in Seq(Ids) /\ v \in Seq(Ids)
      BY <2>10, <3>1
    <3>9. RubySlice((u \o m) \o v, i, 1) = u \o v
      BY <3>7, <3>8, RubySliceSplit
    <3> QED BY <3>9 DEF m
  <2>12. TextIn(a \o b) = TextIn(s)
    <3>1. TextIn((a \o c) \o b) = TextIn(a \o b)
      BY <2>4, <2>5, <2>6, TextOut
    <3> QED BY <2>4, <3>1
  <2>13. BlockDeleted(s, i) = a \o b
    BY <1>1, <1>6, <2>4
  <2>14. embedded_xml_texts(BlockDeleted(s, i)) = RubySlice(E, i, 1)
    BY <2>8, <2>9, <2>11, <2>13
  <2>15. TextIn(BlockDeleted(s, i)) = TextIn(s)
    BY <2>12, <2>13
  <2> QED BY <2>14, <2>15 DEF E
<1> QED BY <1>5, <1>6

\* xml_text reads the block Array#[] reads, none outside.
LEMMA BlockRead ==
  ASSUME NEW s \in Seq(Item), NEW i \in Int
  PROVE  xml_text(s, i) = {embedded_xml_texts(s)[p] : p \in RubyPlace(i, Len(embedded_xml_texts(s)))}
<1> DEFINE E == embedded_xml_texts(s)
           len == Len(E)
           start == IF i < 0 THEN len + i ELSE i
           n == element_index(i, len)
           R == RubyPlace(i, len)
<1>1. len \in Nat
  BY BlocksAre
<1>2. n = IF start \in 0..(len - 1) THEN start ELSE -1
  BY DEF element_index
<1>3. start \in Int
  BY <1>1
<1>4. R = {p \in 1..len : p = start + 1}
  BY DEF RubyPlace
<1>5. xml_text(s, i) = IF n = -1 THEN {} ELSE {E[n + 1]}
  BY DEF xml_text
<1> HIDE DEF start, len, n
<1>6. CASE start \in 0..(len - 1)
  <2>1. R = {n + 1} /\ n # -1
    BY <1>1, <1>2, <1>3, <1>4, <1>6
  <2> QED BY <1>5, <2>1 DEF len
<1>7. CASE start \notin 0..(len - 1)
  <2>1. R = {} /\ n = -1
    BY <1>1, <1>2, <1>3, <1>4, <1>7
  <2> QED BY <1>5, <2>1 DEF len
<1> QED BY <1>6, <1>7

\* What the properties of one sequence say, of every sequence where no
\* character is split.
LEMMA TextEdits ==
  ASSUME NEW s \in Seq(Item), Paired(s)
  PROVE  TextEditsAsRuby(s)
<1> SUFFICES ASSUME NEW i \in Index
             PROVE  /\ \A c \in Chunks : Chars(Inserted(s, i, c)) = RubyInsert(Chars(s), i, Chars(c))
                    /\ Chars(EmbedInserted(s, i, Unit("m"))) = RubyInsert(Chars(s), i, <<Unit("m")>>)
                    /\ \A n \in 0..MaxIndex : Chars(Deleted(s, i, n)) = RubySlice(Chars(s), i, n)
  BY DEF TextEditsAsRuby
<1>1. i \in Int
  BY XmlTextConstants DEF Index
<1>2. ASSUME NEW c \in Chunks PROVE Chars(Inserted(s, i, c)) = RubyInsert(Chars(s), i, Chars(c))
  BY <1>1, ChunksAreText, InsertedChars
<1>3. Unit("m") \in Item /\ Unit("m").k \notin {"hi", "lo"}
  <2>1. Unit("m") \in Item
    BY UnitIsItem DEF Kinds
  <2> QED BY <2>1 DEF Unit
<1>4. Chars(EmbedInserted(s, i, Unit("m"))) = RubyInsert(Chars(s), i, <<Unit("m")>>)
  BY <1>1, <1>3, EmbedInsertedChars
<1>5. ASSUME NEW n \in 0..MaxIndex PROVE Chars(Deleted(s, i, n)) = RubySlice(Chars(s), i, n)
  <2>1. n \in Nat
    BY XmlTextConstants
  <2> QED BY <1>1, <2>1, DeletedChars
<1> QED BY <1>2, <1>4, <1>5

\* And of every sequence of items, for its blocks.
LEMMA BlockEdits ==
  ASSUME NEW s \in Seq(Item)
  PROVE  BlockEditsAsRuby(s)
<1> SUFFICES ASSUME NEW i \in Index
             PROVE  /\ embedded_xml_texts(BlockInserted(s, i, Root)) = RubyInsert(embedded_xml_texts(s), i, <<Root>>)
                    /\ embedded_xml_texts(BlockDeleted(s, i)) = RubySlice(embedded_xml_texts(s), i, 1)
                    /\ TextIn(BlockDeleted(s, i)) = TextIn(s)
                    /\ xml_text(s, i) = {embedded_xml_texts(s)[p] : p \in RubyPlace(i, Len(embedded_xml_texts(s)))}
  BY DEF BlockEditsAsRuby
<1>1. i \in Int
  BY XmlTextConstants DEF Index
<1>2. Root \in Ids
  BY DEF Ids
<1>3. embedded_xml_texts(BlockInserted(s, i, Root)) = RubyInsert(embedded_xml_texts(s), i, <<Root>>)
  BY <1>1, <1>2, BlockInsertedAsRuby
<1>4. xml_text(s, i) = {embedded_xml_texts(s)[p] : p \in RubyPlace(i, Len(embedded_xml_texts(s)))}
  BY <1>1, BlockRead
<1> QED BY <1>1, <1>3, <1>4, BlockDeletedAsRuby

-----------------------------------------------------------------------------
(* What every block of a document holds.                                    *)

\* A sequence of items where no character is split.
Unsplit(s) == s \in Seq(Item) /\ Paired(s)

\* A root's children: blocks and decorators.
OnlyBlocks(s) == \A p \in DOMAIN s : s[p].k \in {"block", "e"}

\* What the block b may hold.
Held(b, s) == Unsplit(s) /\ (b = Root => OnlyBlocks(s))

\* A document where every block holds what it may.
Tree(k) ==
    /\ k \in [{Root} \union Block -> Seq(Item)]
    /\ \A b \in {Root} \union Block : Held(b, k[b])

\* The inductive invariant of the handles.
XmlInvariant == Tree(kids)

\* An emptied block holds what it may.
LEMMA HeldEmpty == \A b : Held(b, <<>>)
<1> DEFINE e == <<>>
<1>1. e \in Seq(Item) /\ Len(e) = 0 /\ DOMAIN e = 1..0
  OBVIOUS
<1>2. \A p \in 1..0 : FALSE
  OBVIOUS
<1> HIDE DEF e
<1>3. Unsplit(e) /\ OnlyBlocks(e)
  BY <1>1, <1>2 DEF Unsplit, OnlyBlocks, Paired
<1> QED BY <1>3 DEF Held, e

\* So does one that holds two such sequences in a row.
LEMMA HeldConcat ==
  ASSUME NEW b, NEW s, NEW t, Held(b, s), Held(b, t)
  PROVE  Held(b, s \o t)
<1>1. s \in Seq(Item) /\ t \in Seq(Item) /\ Paired(s) /\ Paired(t)
  BY DEF Held, Unsplit
<1>2. s \o t \in Seq(Item) /\ Len(s \o t) = Len(s) + Len(t)
  BY <1>1, ConcatProperties
<1>3. Paired(s \o t)
  BY <1>1, PairedConcat
<1>4. ASSUME b = Root PROVE OnlyBlocks(s \o t)
  <2> DEFINE r == s \o t
             n == Len(s)
             m == Len(t)
  <2>1. n \in Nat /\ m \in Nat /\ DOMAIN s = 1..n /\ DOMAIN t = 1..m /\ DOMAIN r = 1..(n + m)
    BY <1>1, <1>2
  <2>2. (\A i \in 1..n : r[i] = s[i]) /\ (\A i \in 1..m : r[n + i] = t[i])
    BY <1>1, ConcatParts
  <2>3. (\A i \in 1..n : s[i].k \in {"block", "e"}) /\ (\A i \in 1..m : t[i].k \in {"block", "e"})
    BY <1>4, <2>1 DEF Held, OnlyBlocks
  <2> HIDE DEF r, n, m
  <2>4. ASSUME NEW i \in 1..(n + m) PROVE r[i].k \in {"block", "e"}
    <3>1. CASE i \in 1..n
      BY <2>2, <2>3, <3>1
    <3>2. CASE i \notin 1..n
      <4>1. i - n \in 1..m /\ i = n + (i - n)
        BY <2>1, <3>2
      <4>2. r[n + (i - n)] = t[i - n]
        BY <2>2, <4>1
      <4> QED BY <2>3, <4>1, <4>2
    <3> QED BY <3>1, <3>2
  <2> QED BY <2>1, <2>4 DEF OnlyBlocks, r
<1> QED BY <1>2, <1>3, <1>4 DEF Held, Unsplit

\* A root's children take one unit each: no place of it splits a character.
LEMMA RootWhole ==
  ASSUME NEW s, Held(Root, s), NEW u \in 0..Len(s)
  PROVE  Whole(s, u)
<1> SUFFICES ASSUME 0 < u, u < Len(s) PROVE s[u + 1].k # "lo"
  BY DEF Whole
<1>1. s \in Seq(Item) /\ \A p \in DOMAIN s : s[p].k \in {"block", "e"}
  BY DEF Held, Unsplit, OnlyBlocks
<1>2. u + 1 \in DOMAIN s
  BY <1>1
<1> QED BY <1>1, <1>2

\* And either part of one cut between characters.
LEMMA HeldCut ==
  ASSUME NEW b, NEW s, Held(b, s), NEW u \in 0..Len(s), Whole(s, u)
  PROVE  Held(b, SubSeq(s, 1, u)) /\ Held(b, SubSeq(s, u + 1, Len(s)))
<1> DEFINE x == SubSeq(s, 1, u)
           y == SubSeq(s, u + 1, Len(s))
<1>1. s \in Seq(Item) /\ Paired(s)
  BY DEF Held, Unsplit
<1>2. x \in Seq(Item) /\ y \in Seq(Item) /\ Paired(x) /\ Paired(y)
  BY <1>1, Cut, PairedCut
<1>3. ASSUME b = Root PROVE OnlyBlocks(x) /\ OnlyBlocks(y)
  <2>1. Len(s) \in Nat /\ DOMAIN s = 1..Len(s) /\ \A p \in 1..Len(s) : s[p].k \in {"block", "e"}
    BY <1>1, <1>3 DEF Held, OnlyBlocks
  <2>2. DOMAIN x = 1..u /\ \A i \in 1..u : x[i] = s[i]
    BY <1>1
  <2>3. DOMAIN y = 1..(Len(s) - u) /\ \A i \in 1..(Len(s) - u) : y[i] = s[u + i]
    BY <1>1
  <2>4. (\A i \in 1..u : i \in 1..Len(s)) /\ (\A i \in 1..(Len(s) - u) : u + i \in 1..Len(s))
    BY <2>1
  <2> HIDE DEF x, y
  <2>5. OnlyBlocks(x)
    BY <2>1, <2>2, <2>4 DEF OnlyBlocks
  <2>6. OnlyBlocks(y)
    BY <2>1, <2>3, <2>4 DEF OnlyBlocks
  <2> QED BY <2>5, <2>6
<1> QED BY <1>2, <1>3 DEF Held, Unsplit, x, y

\* A splice between characters keeps what a block may hold.
LEMMA SpliceHeld ==
  ASSUME NEW b, NEW s, Held(b, s), NEW t, Held(b, t), NEW at \in 0..Len(s), Whole(s, at)
  PROVE  Held(b, Spliced(s, at, t))
<1> DEFINE x == SubSeq(s, 1, at)
           y == SubSeq(s, at + 1, Len(s))
<1>1. Held(b, x) /\ Held(b, y)
  BY HeldCut
<1> HIDE DEF x, y
<1>2. Held(b, x \o t)
  BY <1>1, HeldConcat
<1>3. Held(b, (x \o t) \o y)
  BY <1>1, <1>2, HeldConcat
<1> QED BY <1>3 DEF Spliced, x, y

\* So does removing a range between two of them.
LEMMA RemoveHeld ==
  ASSUME NEW b, NEW s, Held(b, s), NEW from \in 0..Len(s), NEW n \in Nat, from + n <= Len(s),
         Whole(s, from), Whole(s, from + n)
  PROVE  Held(b, RemoveRange(s, from, n))
<1> DEFINE x == SubSeq(s, 1, from)
           y == SubSeq(s, from + n + 1, Len(s))
<1>0. s \in Seq(Item)
  BY DEF Held, Unsplit
<1>1. Held(b, x)
  BY HeldCut
<1>2. from + n \in 0..Len(s)
  BY <1>0
<1>3. Held(b, y)
  BY <1>2, HeldCut
<1> HIDE DEF x, y
<1>4. Held(b, x \o y)
  BY <1>1, <1>3, HeldConcat
<1> QED BY <1>4 DEF RemoveRange, x, y

-----------------------------------------------------------------------------
(* Each write keeps it.                                                     *)

\* insert writes between characters.
LEMMA InsertedHeld ==
  ASSUME NEW b, NEW s, Held(b, s), NEW t, Held(b, t), NEW i \in Int
  PROVE  Held(b, Inserted(s, i, t))
<1>1. s \in Seq(Item)
  BY DEF Held, Unsplit
<1>2. end_or_units(s, i) \in 0..Len(s) /\ Whole(s, end_or_units(s, i))
  BY <1>1, EndOrUnits
<1>3. Held(b, Spliced(s, end_or_units(s, i), t))
  BY <1>2, SpliceHeld
<1> QED BY <1>3 DEF Inserted

\* insert_embed writes between characters.
LEMMA EmbedInsertedHeld ==
  ASSUME NEW b, NEW s, Held(b, s), NEW x, Held(b, <<x>>), NEW i \in Int
  PROVE  Held(b, EmbedInserted(s, i, x))
<1> DEFINE c == insert_index(i, char_len(s))
           at == to_units(s, c)
           t == <<x>>
<1>1. s \in Seq(Item)
  BY DEF Held, Unsplit
<1>2. char_len(s) \in Nat
  BY <1>1, CharLen
<1>3. c \in 0..char_len(s)
  BY <1>2, InsertIndexRange
<1>4. at \in 0..Len(s) /\ Whole(s, at)
  <2> HIDE DEF c
  <2> QED BY <1>1, <1>3, ToUnits DEF Whole
<1> HIDE DEF at, t
<1>5. Held(b, Spliced(s, at, t))
  BY <1>4, SpliceHeld DEF t
<1> QED BY <1>5 DEF EmbedInserted, at, t

\* delete removes between characters.
LEMMA DeletedHeld ==
  ASSUME NEW b, NEW s, Held(b, s), NEW i \in Int, NEW n \in Int
  PROVE  Held(b, Deleted(s, i, n))
<1> DEFINE at == delete_units(s, i, n)
           from == at[1]
           to == at[2]
<1>1. s \in Seq(Item)
  BY DEF Held, Unsplit
<1>2. from \in 0..Len(s) /\ to \in 0..Len(s) /\ Whole(s, from) /\ Whole(s, to)
  BY <1>1, DeleteUnits
<1>3. Deleted(s, i, n) = IF to > from THEN RemoveRange(s, from, to - from) ELSE s
  BY DEF Deleted
<1> HIDE DEF from, to
<1>4. CASE to > from
  <2>1. to - from \in Nat /\ from + (to - from) = to /\ to <= Len(s)
    BY <1>1, <1>2, <1>4
  <2>2. from + (to - from) <= Len(s) /\ Whole(s, from + (to - from))
    BY <1>2, <2>1
  <2>3. Held(b, RemoveRange(s, from, to - from))
    BY <1>2, <2>1, <2>2, RemoveHeld
  <2> QED BY <1>3, <1>4, <2>3
<1> QED BY <1>3, <1>4

\* A block stands alone: neither of its ends splits a character.
LEMMA BlockDeletedHeld ==
  ASSUME NEW b, NEW s, Held(b, s), NEW i \in Int
  PROVE  Held(b, BlockDeleted(s, i))
<1> DEFINE len == Len(embedded_xml_texts(s))
           n == element_index(i, len)
           at == embedded_xml_text_index(s, n)
           L == Len(s)
<1>1. s \in Seq(Item) /\ Paired(s)
  BY DEF Held, Unsplit
<1>2. BlockDeleted(s, i) = IF n = -1 THEN s ELSE RemoveRange(s, at, 1)
  BY DEF BlockDeleted
<1>3. len \in Nat
  BY <1>1, BlocksAre
<1>4. CASE n # -1
  <2>1. n \in 0..len /\ n < len
    <3> HIDE DEF len
    <3> QED BY <1>3, <1>4 DEF element_index
  <2>2. at \in 0..L /\ at < L /\ IsBlock(s[at + 1])
    <3> HIDE DEF n
    <3> QED BY <1>1, <2>1, BlockIndex
  <2> HIDE DEF at
  <2>3. L \in Nat /\ DOMAIN s = 1..L
    BY <1>1
  <2>4. Whole(s, at)
    BY <2>2 DEF Whole, IsBlock
  <2>5. Whole(s, at + 1)
    <3> SUFFICES ASSUME at + 1 < L, s[(at + 1) + 1].k = "lo" PROVE FALSE
      BY DEF Whole
    <3>1. at + 2 \in DOMAIN s /\ (at + 1) + 1 = at + 2 /\ (at + 2) - 1 = at + 1
      BY <2>2, <2>3
    <3>2. s[at + 2].k = "lo" => s[(at + 2) - 1].k = "hi"
      BY <1>1, <3>1 DEF Paired
    <3>3. s[at + 1].k = "hi"
      BY <3>1, <3>2
    <3> QED BY <2>2, <3>3 DEF IsBlock
  <2>6. at + 1 <= L /\ 1 \in Nat
    BY <2>2, <2>3
  <2> HIDE DEF L
  <2>7. Held(b, RemoveRange(s, at, 1))
    BY <2>2, <2>4, <2>5, <2>6, RemoveHeld DEF L
  <2> QED BY <1>2, <1>4, <2>7
<1> QED BY <1>2, <1>4

\* Any block may hold a block.
LEMMA BlockHeld ==
  ASSUME NEW b, NEW d \in Ids
  PROVE  Held(b, <<Embedded(d)>>)
<1> DEFINE t == <<Embedded(d)>>
<1>1. Embedded(d) \in Item /\ Embedded(d).k = "block"
  BY DEF Embedded, Item, Kinds, Ids
<1>2. t \in Seq(Item) /\ DOMAIN t = 1..1 /\ t[1].k = "block"
  BY <1>1
<1>3. Paired(t)
  BY <1>1, OneItem
<1> HIDE DEF t
<1>4. OnlyBlocks(t)
  BY <1>2 DEF OnlyBlocks
<1> QED BY <1>2, <1>3, <1>4 DEF Held, Unsplit, t

\* insert_xml_text writes before a block or at the end, so between characters.
LEMMA BlockInsertedHeld ==
  ASSUME NEW b, NEW s, Held(b, s), NEW i \in Int, NEW d \in Ids
  PROVE  Held(b, BlockInserted(s, i, d))
<1> DEFINE len == Len(embedded_xml_texts(s))
           n == insert_index(i, len)
           at == embedded_xml_text_index(s, n)
           t == <<Embedded(d)>>
<1>1. s \in Seq(Item)
  BY DEF Held, Unsplit
<1>2. len \in Nat
  BY <1>1, BlocksAre
<1>3. n \in 0..len
  <2> HIDE DEF len
  <2> QED BY <1>2, InsertIndexRange
<1>4. at \in 0..Len(s) /\ (at < Len(s) => IsBlock(s[at + 1]))
  <2> HIDE DEF n
  <2> QED BY <1>1, <1>3, BlockIndex
<1>5. Held(b, t)
  BY BlockHeld
<1> HIDE DEF at, t
<1>6. Whole(s, at)
  BY <1>4 DEF Whole, IsBlock
<1>7. Held(b, Spliced(s, at, t))
  BY <1>4, <1>5, <1>6, SpliceHeld
<1> QED BY <1>7 DEF BlockInserted, at, t

\* An embed may be held, by a root only a decorator.
LEMMA UnitHeld ==
  ASSUME NEW b, NEW k \in {"m", "e"}, b = Root => k = "e"
  PROVE  Held(b, <<Unit(k)>>)
<1> DEFINE t == <<Unit(k)>>
<1>1. Unit(k) \in Item /\ Unit(k).k = k
  <2>1. k \in Kinds
    BY DEF Kinds
  <2> QED BY <2>1, UnitIsItem DEF Unit
<1>2. t \in Seq(Item) /\ DOMAIN t = 1..1 /\ t[1].k = k
  BY <1>1
<1>3. Paired(t)
  BY <1>1, OneItem
<1> HIDE DEF t
<1>4. b = Root => OnlyBlocks(t)
  BY <1>2 DEF OnlyBlocks
<1> QED BY <1>2, <1>3, <1>4 DEF Held, Unsplit, t

\* Text may be held by any block but a root.
LEMMA ChunkHeld ==
  ASSUME NEW b, b # Root, NEW c \in Chunks
  PROVE  Held(b, c)
  BY ChunksAreText DEF Held, Unsplit

\* append_text writes at the end, with a marker of its own where it needs one.
LEMMA AppendedHeld ==
  ASSUME NEW b, b # Root, NEW s, Held(b, s), NEW c \in Chunks
  PROVE  Held(b, TextAppended(s, c))
<1> DEFINE x == IF s = <<>> \/ ends_with_xml_text(s) THEN Append(s, Unit("m")) ELSE s
<1>1. s \in Seq(Item)
  BY DEF Held, Unsplit
<1>2. Held(b, c) /\ Held(b, <<Unit("m")>>)
  BY ChunkHeld, UnitHeld
<1>3. Held(b, s \o <<Unit("m")>>)
  BY <1>2, HeldConcat
<1>4. Append(s, Unit("m")) = s \o <<Unit("m")>>
  <2>1. Unit("m") \in Item
    BY UnitIsItem DEF Kinds
  <2> QED BY <1>1, <2>1
<1>5. Held(b, x)
  BY <1>3, <1>4
<1> HIDE DEF x
<1>6. Held(b, x \o c)
  BY <1>2, <1>5, HeldConcat
<1> QED BY <1>6 DEF TextAppended, x

\* The content Ruby's writers make has whole characters.
LEMMA ContentHeld ==
  ASSUME NEW b, b # Root, NEW t, NEW c \in Content(t)
  PROVE  Held(b, c.units) /\ Held(b, c.inner)
<1> DEFINE Run(chunk) == <<Unit("m")>> \o chunk
           texts == IF "text" \in Holds[t] THEN {<<>>} \union {Run(x) : x \in Chunks} ELSE {<<>>}
           inner == Holds[t] \intersect {"paragraph", "listitem", "link"}
<1>1. Held(b, <<>>)
  BY HeldEmpty
<1>2. ASSUME NEW x \in Chunks PROVE Held(b, Run(x))
  <2>1. Held(b, <<Unit("m")>>) /\ Held(b, x)
    BY ChunkHeld, UnitHeld
  <2> QED BY <2>1, HeldConcat
<1>3. Narrow \in Chunks
  BY DEF Chunks
<1> HIDE DEF Run
<1>4. \A x \in texts : Held(b, x)
  BY <1>1, <1>2
<1> HIDE DEF inner, texts
<1>5. \/ c \in [units : texts, nested : {"none"}, inner : {<<>>}]
      \/ c \in [units : {<<>>}, nested : inner, inner : {Run(Narrow)}]
  BY DEF Content, inner, texts, Run
<1>6. \/ c.units \in texts /\ c.inner = <<>>
      \/ c.units = <<>> /\ c.inner = Run(Narrow)
  BY <1>5
<1> QED BY <1>1, <1>2, <1>3, <1>4, <1>6

-----------------------------------------------------------------------------
(* A transaction keeps it, and so it holds of what a document starts as.    *)

\* A document with another sequence in one block.
LEMMA TreeChanged ==
  ASSUME NEW k, Tree(k), NEW b \in {Root} \union Block, NEW s, Held(b, s)
  PROVE  Tree([k EXCEPT ![b] = s])
<1>1. s \in Seq(Item)
  BY DEF Held, Unsplit
<1>2. [k EXCEPT ![b] = s] \in [{Root} \union Block -> Seq(Item)]
  BY <1>1 DEF Tree
<1>3. \A d \in {Root} \union Block : [k EXCEPT ![b] = s][d] = IF d = b THEN s ELSE k[d]
  BY DEF Tree
<1>4. \A d \in {Root} \union Block : Held(d, [k EXCEPT ![b] = s][d])
  BY <1>3 DEF Tree
<1> QED BY <1>2, <1>4 DEF Tree

\* What a transaction empties, it leaves as it may be.
LEMMA CommitKeeps ==
  ASSUME NEW k, Tree(k), NEW t, Commit(k, t)
  PROVE  XmlInvariant'
<1> DEFINE alive == Below(k)[Root]
<1>1. DOMAIN k = {Root} \union Block /\ \A b \in {Root} \union Block : k[b] \in Seq(Item) /\ Held(b, k[b])
  BY DEF Tree
<1>2. kids' = [b \in {Root} \union Block |-> IF b \in alive THEN k[b] ELSE <<>>]
  BY <1>1 DEF Commit
<1> HIDE DEF alive
<1>3. <<>> \in Seq(Item)
  OBVIOUS
<1>4. kids' \in [{Root} \union Block -> Seq(Item)]
  BY <1>1, <1>2, <1>3
<1>5. ASSUME NEW b \in {Root} \union Block PROVE Held(b, kids'[b])
  BY <1>1, <1>2, HeldEmpty
<1> QED BY <1>4, <1>5 DEF XmlInvariant, Tree

\* The document's root takes no text and no embedded map of its own.
LEMMA RootTakes == ~ Takes(Root, "text") /\ ~ Takes(Root, "m")
<1>1. TypeOf(Root) = "root"
  BY DEF TypeOf
<1>2. Holds["root"] = {"paragraph", "list", "box", "e"}
  BY DEF Holds
<1> QED BY <1>1, <1>2 DEF Takes

\* A handle that resolves is on a block of the document.
LEMMA AliveIn ==
  ASSUME XmlInvariant, NEW b \in Alive
  PROVE  b \in {Root} \union Block /\ Held(b, kids[b])
  BY DEF XmlInvariant, Tree, Alive

\* A fresh identity is one no block has.
LEMMA FreshIsBlock ==
  ASSUME NEW taken, NEW d \in Fresh(taken)
  PROVE  d \in Block /\ d \notin taken
<1>1. ~ (Block \subseteq taken)
  BY DEF Fresh
<1>2. d = CHOOSE b \in Block \ taken : TRUE
  BY <1>1 DEF Fresh
<1>3. \E b \in Block \ taken : TRUE
  BY <1>1
<1> QED BY <1>2, <1>3

\* The invariant holds of an empty document.
LEMMA XmlStart == Init => XmlInvariant
<1> SUFFICES ASSUME Init PROVE XmlInvariant
  OBVIOUS
<1>1. kids = [b \in {Root} \union Block |-> <<>>]
  BY DEF Init
<1>2. <<>> \in Seq(Item)
  OBVIOUS
<1>3. kids \in [{Root} \union Block -> Seq(Item)]
  BY <1>1, <1>2
<1>4. ASSUME NEW b \in {Root} \union Block PROVE Held(b, kids[b])
  BY <1>1, HeldEmpty
<1> QED BY <1>3, <1>4 DEF XmlInvariant, Tree

-----------------------------------------------------------------------------
(* The tree of blocks, and what Below computes on it.                       *)

\* The root and the blocks, and the blocks each holds.
Nodes == {Root} \union Block

ChildrenOf(k, b) == ToSet(embedded_xml_texts(k[b]))

\* No block is in two places of a tree.
OneParent(k) ==
    /\ \A b \in Nodes : IsInjective(embedded_xml_texts(k[b])) /\ ChildrenOf(k, b) \subseteq Block
    /\ \A b, c \in Nodes : b # c => ChildrenOf(k, b) \intersect ChildrenOf(k, c) = {}

\* Going down ends: some height falls from each block to its children.
Descends(k, h) == \A b \in Nodes : \A c \in ChildrenOf(k, b) : h[c] < h[b]

Founded(k) == \E h \in [Nodes -> Nat] : Descends(k, h)

\* What is below b: the blocks of every set that holds b and the children of each
\* of its blocks.
Closed(k, S) == \A b \in S : ChildrenOf(k, b) \subseteq S

Reach(k, b) == {d \in Nodes : \A S \in SUBSET Nodes : b \in S /\ Closed(k, S) => d \in S}

\* What the recursive function in Below is to satisfy.
IsBelow(f, k) ==
    f = [b \in DOMAIN k |-> {b} \union UNION {f[c] : c \in ToSet(embedded_xml_texts(k[b]))}]

\* Reach is what a block and its children reach.
LEMMA ReachUnfolds ==
  ASSUME NEW k, OneParent(k), NEW b \in Nodes
  PROVE  /\ Reach(k, b) = {b} \union UNION {Reach(k, c) : c \in ChildrenOf(k, b)}
         /\ Closed(k, Reach(k, b)) /\ b \in Reach(k, b) /\ Reach(k, b) \subseteq Nodes
<1>1. \A d \in Nodes : ChildrenOf(k, d) \subseteq Nodes
  BY DEF OneParent, Nodes
<1>2. \A d \in Nodes : d \in Reach(k, d) /\ Reach(k, d) \subseteq Nodes
  BY DEF Reach
<1>3. \A d \in Nodes : Closed(k, Reach(k, d))
  <2> SUFFICES ASSUME NEW d \in Nodes, NEW x \in Reach(k, d), NEW c \in ChildrenOf(k, x)
               PROVE  c \in Reach(k, d)
    BY DEF Closed
  <2>1. x \in Nodes /\ c \in Nodes
    BY <1>1 DEF Reach
  <2>2. ASSUME NEW S \in SUBSET Nodes, d \in S, Closed(k, S) PROVE c \in S
    <3>1. x \in S
      BY <2>2 DEF Reach
    <3> QED BY <2>2, <3>1 DEF Closed
  <2> QED BY <2>1, <2>2 DEF Reach
<1>4. ASSUME NEW S \in SUBSET Nodes, NEW d \in Nodes, d \in S, Closed(k, S)
      PROVE  Reach(k, d) \subseteq S
  BY <1>4 DEF Reach
<1> DEFINE U == {b} \union UNION {Reach(k, c) : c \in ChildrenOf(k, b)}
<1>5. U \subseteq Reach(k, b)
  <2> SUFFICES ASSUME NEW c \in ChildrenOf(k, b) PROVE Reach(k, c) \subseteq Reach(k, b)
    BY <1>2
  <2>1. c \in Reach(k, b) /\ c \in Nodes
    BY <1>1, <1>2, <1>3 DEF Closed
  <2> QED BY <1>2, <1>3, <1>4, <2>1
<1>6. Reach(k, b) \subseteq U
  <2>1. U \in SUBSET Nodes /\ b \in U
    BY <1>1, <1>2
  <2>2. Closed(k, U)
    <3> SUFFICES ASSUME NEW x \in U, NEW c \in ChildrenOf(k, x) PROVE c \in U
      BY DEF Closed
    <3>1. CASE x = b
      BY <1>1, <1>2, <3>1
    <3>2. CASE x # b
      <4>1. PICK y \in ChildrenOf(k, b) : x \in Reach(k, y)
        BY <3>2
      <4>2. c \in Reach(k, y)
        BY <1>1, <1>3, <4>1 DEF Closed
      <4> QED BY <4>1, <4>2
    <3> QED BY <3>1, <3>2
  <2> HIDE DEF U
  <2> QED BY <1>4, <2>1, <2>2
<1> QED BY <1>2, <1>3, <1>5, <1>6

\* Reach is the least set that is closed.
LEMMA ReachLeast ==
  ASSUME NEW k, NEW b \in Nodes, NEW S \in SUBSET Nodes, b \in S, Closed(k, S)
  PROVE  Reach(k, b) \subseteq S
  BY DEF Reach

\* Below computes it.
LEMMA BelowIsReach ==
  ASSUME NEW k, DOMAIN k = Nodes, OneParent(k), Founded(k)
  PROVE  DOMAIN Below(k) = Nodes /\ \A b \in Nodes : Below(k)[b] = Reach(k, b)
<1> DEFINE g == [b \in DOMAIN k |-> Reach(k, b)]
           f == CHOOSE e : IsBelow(e, k)
<1>1. f = Below(k)
  BY DEF Below, IsBelow
<1>2. IsBelow(g, k)
  <2>1. ASSUME NEW b \in Nodes
        PROVE  g[b] = {b} \union UNION {g[c] : c \in ToSet(embedded_xml_texts(k[b]))}
    <3>1. \A c \in ToSet(embedded_xml_texts(k[b])) : c \in Nodes /\ g[c] = Reach(k, c)
      BY DEF OneParent, ChildrenOf, Nodes
    <3>2. g[b] = Reach(k, b)
      OBVIOUS
    <3>3. Reach(k, b) = {b} \union UNION {Reach(k, c) : c \in ToSet(embedded_xml_texts(k[b]))}
      BY ReachUnfolds DEF ChildrenOf
    <3> HIDE DEF g
    <3>4. {Reach(k, c) : c \in ToSet(embedded_xml_texts(k[b]))} = {g[c] : c \in ToSet(embedded_xml_texts(k[b]))}
      BY <3>1
    <3> QED BY <3>2, <3>3, <3>4
  <2>2. g = [b \in DOMAIN k |-> g[b]]
    OBVIOUS
  <2> HIDE DEF g
  <2> QED BY <2>1, <2>2 DEF IsBelow
<1>3. IsBelow(f, k)
  <2> HIDE DEF g
  <2> QED BY <1>2
<1> HIDE DEF f, g
<1>4. DOMAIN f = Nodes
  BY <1>3 DEF IsBelow
<1>5. \A b \in Nodes : f[b] = {b} \union UNION {f[c] : c \in ChildrenOf(k, b)}
  BY <1>3 DEF IsBelow, ChildrenOf
<1>6. PICK h \in [Nodes -> Nat] : Descends(k, h)
  BY DEF Founded
<1> DEFINE T == {n \in Nat : \A b \in Nodes : h[b] < n => f[b] = Reach(k, b)}
<1>7. 0 \in T
  OBVIOUS
<1>8. ASSUME NEW n \in Nat, n \in T PROVE n + 1 \in T
  <2> SUFFICES ASSUME NEW b \in Nodes, h[b] < n + 1 PROVE f[b] = Reach(k, b)
    OBVIOUS
  <2>1. ASSUME NEW c \in ChildrenOf(k, b) PROVE f[c] = Reach(k, c)
    <3>1. c \in Nodes /\ h[c] < h[b] /\ h[c] \in Nat /\ h[b] \in Nat
      BY <1>6 DEF OneParent, Nodes, Descends
    <3>2. h[c] < n
      BY <3>1
    <3> QED BY <1>8, <3>1, <3>2
  <2>2. {f[c] : c \in ChildrenOf(k, b)} = {Reach(k, c) : c \in ChildrenOf(k, b)}
    BY <2>1
  <2>3. f[b] = {b} \union UNION {f[c] : c \in ChildrenOf(k, b)}
    BY <1>5
  <2>4. Reach(k, b) = {b} \union UNION {Reach(k, c) : c \in ChildrenOf(k, b)}
    BY ReachUnfolds
  <2> QED BY <2>2, <2>3, <2>4
<1>9. Nat \subseteq T
  <2> HIDE DEF T
  <2> QED BY <1>7, <1>8, NatSetInduction
<1>10. ASSUME NEW b \in Nodes PROVE f[b] = Reach(k, b)
  <2>1. h[b] \in Nat /\ h[b] + 1 \in Nat /\ h[b] < h[b] + 1
    OBVIOUS
  <2> QED BY <1>9, <2>1
<1> QED BY <1>1, <1>4, <1>10

-----------------------------------------------------------------------------
(* The blocks a write adds to a sequence and takes out of it.               *)

\* The elements of two sequences joined are those of both.
LEMMA SetConcat ==
  ASSUME NEW S, NEW a \in Seq(S), NEW b \in Seq(S)
  PROVE  ToSet(a \o b) = ToSet(a) \union ToSet(b)
<1> DEFINE r == a \o b
           n == Len(a)
           m == Len(b)
<1>1. n \in Nat /\ m \in Nat /\ DOMAIN a = 1..n /\ DOMAIN b = 1..m /\ DOMAIN r = 1..(n + m)
  BY ConcatProperties
<1>2. (\A i \in 1..n : r[i] = a[i]) /\ (\A i \in 1..m : r[n + i] = b[i])
  BY ConcatParts
<1> HIDE DEF r, n, m
<1>3. \A i \in 1..(n + m) : i \in 1..n \/ (i - n \in 1..m /\ i = n + (i - n))
  BY <1>1
<1>4. \A i \in 1..m : n + i \in 1..(n + m)
  BY <1>1
<1>5. \A i \in 1..n : i \in 1..(n + m)
  BY <1>1
<1>6. ASSUME NEW x \in ToSet(r) PROVE x \in ToSet(a) \union ToSet(b)
  <2>1. PICK i \in 1..(n + m) : x = r[i]
    BY <1>1 DEF ToSet
  <2>2. CASE i \in 1..n
    BY <1>1, <1>2, <2>1, <2>2 DEF ToSet
  <2>3. CASE i \notin 1..n
    <3>1. i - n \in 1..m /\ r[i] = b[i - n]
      BY <1>2, <1>3, <2>3
    <3> QED BY <1>1, <2>1, <3>1 DEF ToSet
  <2> QED BY <2>2, <2>3
<1>7. ToSet(a) \union ToSet(b) \subseteq ToSet(r)
  BY <1>1, <1>2, <1>4, <1>5 DEF ToSet
<1> QED BY <1>6, <1>7 DEF r

\* They are all different if and only if those of each are, and none is in both.
LEMMA InjectiveConcat ==
  ASSUME NEW S, NEW a \in Seq(S), NEW b \in Seq(S)
  PROVE  IsInjective(a \o b) <=> IsInjective(a) /\ IsInjective(b) /\ ToSet(a) \intersect ToSet(b) = {}
<1> DEFINE r == a \o b
           n == Len(a)
           m == Len(b)
<1>1. n \in Nat /\ m \in Nat /\ DOMAIN a = 1..n /\ DOMAIN b = 1..m /\ DOMAIN r = 1..(n + m)
  BY ConcatProperties
<1>2. (\A i \in 1..n : r[i] = a[i]) /\ (\A i \in 1..m : r[n + i] = b[i])
  BY ConcatParts
<1> HIDE DEF r, n, m
<1>3. \A i \in 1..(n + m) : i \in 1..n \/ (i - n \in 1..m /\ i = n + (i - n) /\ r[i] = b[i - n])
  BY <1>1, <1>2
<1>4. \A i \in 1..m : n + i \in 1..(n + m)
  BY <1>1
<1>5. \A i \in 1..n : i \in 1..(n + m)
  BY <1>1
<1>6. ASSUME IsInjective(r) PROVE IsInjective(a) /\ IsInjective(b) /\ ToSet(a) \intersect ToSet(b) = {}
  <2>1. IsInjective(a)
    BY <1>1, <1>2, <1>5, <1>6 DEF IsInjective
  <2>2. ASSUME NEW i \in 1..m, NEW j \in 1..m, b[i] = b[j] PROVE i = j
    <3>1. r[n + i] = r[n + j]
      BY <1>2, <2>2
    <3>2. n + i = n + j
      BY <1>1, <1>4, <1>6, <3>1 DEF IsInjective
    <3> QED BY <1>1, <3>2
  <2>3. ASSUME NEW i \in 1..n, NEW j \in 1..m, a[i] = b[j] PROVE FALSE
    <3>1. r[i] = r[n + j]
      BY <1>2, <2>3
    <3>2. i = n + j
      BY <1>1, <1>4, <1>5, <1>6, <3>1 DEF IsInjective
    <3> QED BY <1>1, <3>2
  <2> QED BY <1>1, <2>1, <2>2, <2>3 DEF IsInjective, ToSet
<1>7. ASSUME IsInjective(a), IsInjective(b), ToSet(a) \intersect ToSet(b) = {} PROVE IsInjective(r)
  <2>1. ASSUME NEW i \in 1..n, NEW j \in 1..m PROVE a[i] # b[j]
    <3>1. a[i] \in ToSet(a) /\ b[j] \in ToSet(b)
      BY <1>1 DEF ToSet
    <3> QED BY <1>7, <3>1
  <2>2. ASSUME NEW i \in 1..(n + m), NEW j \in 1..(n + m), r[i] = r[j] PROVE i = j
    <3>1. CASE i \in 1..n /\ j \in 1..n
      BY <1>1, <1>2, <1>7, <2>2, <3>1 DEF IsInjective
    <3>2. CASE i \in 1..n /\ j \notin 1..n
      <4>1. j - n \in 1..m /\ r[j] = b[j - n] /\ r[i] = a[i]
        BY <1>2, <1>3, <3>2
      <4> QED BY <2>1, <2>2, <3>2, <4>1
    <3>3. CASE i \notin 1..n /\ j \in 1..n
      <4>1. i - n \in 1..m /\ r[i] = b[i - n] /\ r[j] = a[j]
        BY <1>2, <1>3, <3>3
      <4> QED BY <2>1, <2>2, <3>3, <4>1
    <3>4. CASE i \notin 1..n /\ j \notin 1..n
      <4>1. i - n \in 1..m /\ j - n \in 1..m /\ b[i - n] = b[j - n]
        BY <1>3, <2>2, <3>4
      <4>2. i - n = j - n
        BY <1>1, <1>7, <4>1 DEF IsInjective
      <4> QED BY <1>1, <4>2
    <3> QED BY <3>1, <3>2, <3>3, <3>4
  <2> QED BY <1>1, <2>2 DEF IsInjective
<1> QED BY <1>6, <1>7 DEF r

\* The sequence t has each of its blocks once, and beside blocks of s only some of X.
Keeps(s, t, X) ==
    /\ IsInjective(embedded_xml_texts(t))
    /\ ToSet(embedded_xml_texts(t)) \subseteq ToSet(embedded_xml_texts(s)) \union X

\* No block is twice in s.
Apart(s) == s \in Seq(Item) /\ IsInjective(embedded_xml_texts(s))

\* Nothing but units and embeds.
LEMMA NoBlocks ==
  ASSUME NEW s \in Seq(Item), \A p \in DOMAIN s : ~ IsBlock(s[p])
  PROVE  embedded_xml_texts(s) = <<>>
<1>1. BlockPlaces(s) = {}
  BY DEF BlockPlaces
<1>2. Cardinality({}) = 0
  BY FS_EmptySet
<1>3. embedded_xml_texts(s) \in Seq(Ids) /\ Len(embedded_xml_texts(s)) = 0
  BY <1>1, <1>2, BlocksAre
<1> QED BY <1>3

\* No element, so none twice.
LEMMA EmptyApart == IsInjective(<<>>) /\ ToSet(<<>>) = {}
<1> DEFINE e == <<>>
<1>1. DOMAIN e = {}
  OBVIOUS
<1> HIDE DEF e
<1>2. IsInjective(e) /\ ToSet(e) = {}
  BY <1>1 DEF IsInjective, ToSet
<1> QED BY <1>2 DEF e

\* Splicing in a sequence with other blocks.
LEMMA SpliceKeeps ==
  ASSUME NEW s, Apart(s), NEW t, Apart(t), NEW at \in 0..Len(s),
         ToSet(embedded_xml_texts(s)) \intersect ToSet(embedded_xml_texts(t)) = {}
  PROVE  /\ Keeps(s, Spliced(s, at, t), ToSet(embedded_xml_texts(t)))
         /\ ToSet(embedded_xml_texts(Spliced(s, at, t)))
               = ToSet(embedded_xml_texts(s)) \union ToSet(embedded_xml_texts(t))
<1> DEFINE x == SubSeq(s, 1, at)
           y == SubSeq(s, at + 1, Len(s))
           E(u) == embedded_xml_texts(u)
<1>1. x \in Seq(Item) /\ y \in Seq(Item) /\ t \in Seq(Item) /\ s = x \o y
  <2>1. s \in Seq(Item)
    BY DEF Apart
  <2> QED BY <2>1, Cut DEF Apart
<1>2. Spliced(s, at, t) = (x \o t) \o y
  BY DEF Spliced
<1> HIDE DEF x, y
<1>3. x \o t \in Seq(Item)
  BY <1>1, ConcatProperties
<1>4. E(s) = E(x) \o E(y) /\ E((x \o t) \o y) = (E(x) \o E(t)) \o E(y)
  BY <1>1, <1>3, BlocksConcat
<1>5. E(x) \in Seq(Ids) /\ E(y) \in Seq(Ids) /\ E(t) \in Seq(Ids)
  BY <1>1, BlocksAre
<1>6. IsInjective(E(s)) /\ IsInjective(E(t)) /\ ToSet(E(s)) \intersect ToSet(E(t)) = {}
  BY DEF Apart
<1> HIDE DEF E
<1>7. E(x) \o E(t) \in Seq(Ids)
  BY <1>5, ConcatProperties
<1>8. IsInjective(E(x)) /\ IsInjective(E(y)) /\ ToSet(E(x)) \intersect ToSet(E(y)) = {}
  BY <1>4, <1>5, <1>6, InjectiveConcat
<1>9. ToSet(E(s)) = ToSet(E(x)) \union ToSet(E(y))
  BY <1>4, <1>5, SetConcat
<1>10. ToSet(E(x) \o E(t)) = ToSet(E(x)) \union ToSet(E(t))
  BY <1>5, SetConcat
<1>11. IsInjective(E(x) \o E(t))
  BY <1>5, <1>6, <1>8, <1>9, InjectiveConcat
<1> DEFINE w == E(x) \o E(t)
<1>12. IsInjective(w \o E(y)) /\ ToSet(w \o E(y)) = ToSet(w) \union ToSet(E(y))
  <2>1. w \in Seq(Ids) /\ IsInjective(w) /\ ToSet(w) \intersect ToSet(E(y)) = {}
    BY <1>6, <1>7, <1>8, <1>9, <1>10, <1>11
  <2> HIDE DEF w
  <2> QED BY <1>5, <1>8, <2>1, InjectiveConcat, SetConcat
<1> QED BY <1>2, <1>4, <1>9, <1>10, <1>12 DEF E, Keeps

\* Taking out a range.
LEMMA RemoveKeeps ==
  ASSUME NEW s, Apart(s), NEW from \in 0..Len(s), NEW n \in Nat, from + n <= Len(s)
  PROVE  /\ Keeps(s, RemoveRange(s, from, n), {})
         /\ RemoveRange(s, from, n) \in Seq(Item)
<1> DEFINE x == SubSeq(s, 1, from)
           r == SubSeq(s, from + 1, Len(s))
           y == SubSeq(s, from + n + 1, Len(s))
           v == SubSeq(r, 1, n)
           E(u) == embedded_xml_texts(u)
<1>1. s \in Seq(Item) /\ IsInjective(E(s))
  BY DEF Apart
<1>2. x \in Seq(Item) /\ r \in Seq(Item) /\ s = x \o r /\ Len(r) = Len(s) - from
  BY <1>1, Cut
<1>3. n \in 0..Len(r)
  BY <1>1, <1>2
<1>4. v \in Seq(Item) /\ SubSeq(r, n + 1, Len(r)) \in Seq(Item) /\ r = v \o SubSeq(r, n + 1, Len(r))
  <2> HIDE DEF r
  <2> QED BY <1>2, <1>3, Cut
<1>5. y = SubSeq(r, n + 1, Len(r))
  <2>1. from + n \in 0..Len(s) /\ y \in Seq(Item) /\ Len(y) = Len(s) - (from + n)
    <3>1. from + n \in 0..Len(s)
      BY <1>1
    <3> QED BY <1>1, <3>1, Cut
  <2>2. Len(SubSeq(r, n + 1, Len(r))) = Len(r) - n
    <3> HIDE DEF r
    <3> QED BY <1>2, <1>3, Cut
  <2>3. \A i \in 1..(Len(s) - (from + n)) : y[i] = s[from + n + i]
    BY <1>1
  <2>4. \A i \in 1..Len(r) : r[i] = s[from + i]
    <3>1. \A i \in 1..(Len(s) - from) : r[i] = s[from + i]
      BY <1>1
    <3> QED BY <1>2, <3>1
  <2>5. \A i \in 1..(Len(r) - n) : SubSeq(r, n + 1, Len(r))[i] = r[n + i]
    <3> HIDE DEF r
    <3> QED BY <1>2, <1>3
  <2> DEFINE z == SubSeq(r, n + 1, Len(r))
  <2> HIDE DEF y, z, r
  <2>6. Len(y) = Len(z) /\ Len(s) - (from + n) = Len(r) - n /\ Len(y) = Len(r) - n
    BY <1>1, <1>2, <2>1, <2>2 DEF z
  <2>7. \A i \in 1..Len(y) : y[i] = z[i]
    <3> SUFFICES ASSUME NEW i \in 1..Len(y) PROVE y[i] = z[i]
      OBVIOUS
    <3>1. i \in 1..(Len(r) - n) /\ i \in 1..(Len(s) - (from + n)) /\ n + i \in 1..Len(r)
      BY <1>1, <1>2, <2>6
    <3>2. y[i] = s[from + n + i] /\ z[i] = r[n + i] /\ r[n + i] = s[from + (n + i)]
      BY <2>3, <2>4, <2>5, <3>1 DEF z
    <3>3. from + n + i = from + (n + i)
      BY <3>1
    <3> QED BY <3>2, <3>3
  <2>8. z \in Seq(Item)
    BY <1>4 DEF z
  <2>9. y = z
    BY <2>1, <2>6, <2>7, <2>8, SeqEqual
  <2> QED BY <2>9 DEF z
<1>6. RemoveRange(s, from, n) = x \o y
  BY DEF RemoveRange
<1>7. y \in Seq(Item) /\ r = v \o y
  BY <1>4, <1>5
<1> HIDE DEF x, r, y, v
<1>8. E(s) = E(x) \o (E(v) \o E(y)) /\ E(x \o y) = E(x) \o E(y)
  <2>1. E(x \o r) = E(x) \o E(r)
    BY <1>2, BlocksConcat
  <2>2. E(v \o y) = E(v) \o E(y)
    BY <1>4, <1>7, BlocksConcat
  <2>3. E(x \o y) = E(x) \o E(y)
    BY <1>2, <1>7, BlocksConcat
  <2> HIDE DEF E
  <2>4. E(s) = E(x \o r) /\ E(r) = E(v \o y)
    BY <1>2, <1>7, Zenon
  <2> QED BY <2>1, <2>2, <2>3, <2>4, Zenon
<1>9. E(x) \in Seq(Ids) /\ E(y) \in Seq(Ids) /\ E(v) \in Seq(Ids)
  BY <1>2, <1>4, <1>7, BlocksAre
<1> DEFINE w == E(v) \o E(y)
<1> HIDE DEF E
<1>10. w \in Seq(Ids) /\ ToSet(w) = ToSet(E(v)) \union ToSet(E(y)) /\ (IsInjective(w) => IsInjective(E(y)))
  BY <1>9, ConcatProperties, InjectiveConcat, SetConcat
<1>11. E(s) = E(x) \o w
  BY <1>8
<1> HIDE DEF w
<1>12. IsInjective(E(x)) /\ IsInjective(w) /\ ToSet(E(x)) \intersect ToSet(w) = {}
  BY <1>1, <1>9, <1>10, <1>11, InjectiveConcat
<1>13. ToSet(E(s)) = ToSet(E(x)) \union ToSet(w)
  BY <1>9, <1>10, <1>11, SetConcat
<1>14. IsInjective(E(x) \o E(y)) /\ ToSet(E(x) \o E(y)) = ToSet(E(x)) \union ToSet(E(y))
  BY <1>9, <1>10, <1>12, InjectiveConcat, SetConcat
<1>15. x \o y \in Seq(Item)
  BY <1>2, <1>7, ConcatProperties
<1> QED BY <1>6, <1>8, <1>10, <1>13, <1>14, <1>15 DEF E, Keeps

\* Splicing in units and embeds adds no block.
LEMMA SpliceUnits ==
  ASSUME NEW s, Apart(s), NEW t \in Seq(Item), \A p \in DOMAIN t : ~ IsBlock(t[p]), NEW at \in 0..Len(s)
  PROVE  Keeps(s, Spliced(s, at, t), {})
<1>1. embedded_xml_texts(t) = <<>>
  BY NoBlocks
<1>2. Apart(t) /\ ToSet(embedded_xml_texts(t)) = {}
  BY <1>1, EmptyApart DEF Apart
<1>3. ToSet(embedded_xml_texts(s)) \intersect ToSet(embedded_xml_texts(t)) = {}
  BY <1>2
<1>4. Keeps(s, Spliced(s, at, t), ToSet(embedded_xml_texts(t)))
  BY <1>2, <1>3, SpliceKeeps
<1> QED BY <1>2, <1>4

\* Text is no block.
LEMMA ChunkUnits == \A c \in Chunks : c \in Seq(Item) /\ \A p \in DOMAIN c : ~ IsBlock(c[p])
<1>1. Unit("a") \in Item /\ Unit("hi") \in Item /\ Unit("lo") \in Item
  BY UnitIsItem DEF Kinds
<1>2. ~ IsBlock(Unit("a")) /\ ~ IsBlock(Unit("hi")) /\ ~ IsBlock(Unit("lo"))
  BY DEF Unit, IsBlock
<1> DEFINE a == Unit("a")
           hi == Unit("hi")
           lo == Unit("lo")
           n == <<a>>
           w == <<hi, lo>>
<1>3. Chunks = {n, w}
  BY DEF Chunks, Narrow, Wide
<1>4. a \in Item /\ hi \in Item /\ lo \in Item /\ ~ IsBlock(a) /\ ~ IsBlock(hi) /\ ~ IsBlock(lo)
  BY <1>1, <1>2
<1> HIDE DEF a, hi, lo
<1>5. n \in Seq(Item) /\ DOMAIN n = 1..1 /\ n[1] = a
  BY <1>4
<1>6. w \in Seq(Item) /\ DOMAIN w = 1..2 /\ w[1] = hi /\ w[2] = lo
  BY <1>4
<1>7. \A p \in 1..2 : p = 1 \/ p = 2
  OBVIOUS
<1>8. \A p \in 1..1 : p = 1
  OBVIOUS
<1> HIDE DEF n, w
<1> QED BY <1>3, <1>4, <1>5, <1>6, <1>7, <1>8

\* Nor is an embed.
LEMMA EmbedUnits ==
  ASSUME NEW k \in {"m", "e"}
  PROVE  LET t == <<Unit(k)>> IN t \in Seq(Item) /\ \A p \in DOMAIN t : ~ IsBlock(t[p])
<1>1. Unit(k) \in Item
  BY UnitIsItem DEF Kinds
<1>2. ~ IsBlock(Unit(k))
  BY DEF Unit, IsBlock
<1> QED BY <1>1, <1>2

\* insert adds no block.
LEMMA InsertedKeeps ==
  ASSUME NEW s, Apart(s), NEW c \in Chunks, NEW i \in Int
  PROVE  Keeps(s, Inserted(s, i, c), {})
<1>1. end_or_units(s, i) \in 0..Len(s)
  BY EndOrUnits DEF Apart
<1> QED BY <1>1, ChunkUnits, SpliceUnits DEF Inserted

\* insert_embed does not either.
LEMMA EmbedInsertedKeeps ==
  ASSUME NEW s, Apart(s), NEW i \in Int
  PROVE  Keeps(s, EmbedInserted(s, i, Unit("m")), {})
<1> DEFINE c == insert_index(i, char_len(s))
           t == <<Unit("m")>>
<1>1. s \in Seq(Item) /\ char_len(s) \in Nat
  BY CharLen DEF Apart
<1>2. c \in 0..char_len(s)
  BY <1>1, InsertIndexRange
<1>3. to_units(s, c) \in 0..Len(s)
  <2> HIDE DEF c
  <2> QED BY <1>1, <1>2, ToUnits
<1>4. t \in Seq(Item) /\ \A p \in DOMAIN t : ~ IsBlock(t[p])
  BY EmbedUnits
<1> HIDE DEF c, t
<1>5. Keeps(s, Spliced(s, to_units(s, c), t), {})
  BY <1>3, <1>4, SpliceUnits
<1> QED BY <1>5 DEF EmbedInserted, c, t

\* delete takes blocks out at most.
LEMMA DeletedKeeps ==
  ASSUME NEW s, Apart(s), NEW i \in Int, NEW n \in Int
  PROVE  Keeps(s, Deleted(s, i, n), {})
<1> DEFINE at == delete_units(s, i, n)
           from == at[1]
           to == at[2]
<1>1. s \in Seq(Item) /\ Len(s) \in Nat
  BY DEF Apart
<1>2. from \in 0..Len(s) /\ to \in 0..Len(s)
  BY <1>1, DeleteUnits
<1>3. Deleted(s, i, n) = IF to > from THEN RemoveRange(s, from, to - from) ELSE s
  BY DEF Deleted
<1> HIDE DEF from, to
<1>4. CASE to > from
  <2>1. to - from \in Nat /\ from + (to - from) <= Len(s)
    BY <1>1, <1>2, <1>4
  <2> QED BY <1>2, <1>3, <1>4, <2>1, RemoveKeeps
<1>5. CASE ~ (to > from)
  BY <1>3, <1>5 DEF Apart, Keeps
<1> QED BY <1>4, <1>5

\* delete_xml_text takes one out.
LEMMA BlockDeletedKeeps ==
  ASSUME NEW s, Apart(s), NEW i \in Int
  PROVE  Keeps(s, BlockDeleted(s, i), {})
<1> DEFINE len == Len(embedded_xml_texts(s))
           n == element_index(i, len)
           at == embedded_xml_text_index(s, n)
<1>1. s \in Seq(Item) /\ Len(s) \in Nat
  BY DEF Apart
<1>2. BlockDeleted(s, i) = IF n = -1 THEN s ELSE RemoveRange(s, at, 1)
  BY DEF BlockDeleted
<1>3. len \in Nat
  BY <1>1, BlocksAre
<1>4. CASE n # -1
  <2>1. n \in 0..len /\ n < len
    <3> HIDE DEF len
    <3> QED BY <1>3, <1>4 DEF element_index
  <2>2. at \in 0..Len(s) /\ at < Len(s)
    <3> HIDE DEF n
    <3> QED BY <1>1, <2>1, BlockIndex
  <2> HIDE DEF at
  <2>3. at + 1 <= Len(s) /\ 1 \in Nat
    BY <1>1, <2>2
  <2> QED BY <1>2, <1>4, <2>2, <2>3, RemoveKeeps
<1>5. CASE n = -1
  <2>1. BlockDeleted(s, i) = s
    BY <1>2, <1>5
  <2> QED BY <2>1 DEF Apart, Keeps
<1> QED BY <1>4, <1>5

\* insert_xml_text adds the one it inserts.
LEMMA BlockInsertedKeeps ==
  ASSUME NEW s, Apart(s), NEW i \in Int, NEW d \in Ids, d \notin ToSet(embedded_xml_texts(s))
  PROVE  Keeps(s, BlockInserted(s, i, d), {d})
<1> DEFINE len == Len(embedded_xml_texts(s))
           n == insert_index(i, len)
           at == embedded_xml_text_index(s, n)
           t == <<Embedded(d)>>
<1>1. s \in Seq(Item)
  BY DEF Apart
<1>2. len \in Nat
  BY <1>1, BlocksAre
<1>3. n \in 0..len
  <2> HIDE DEF len
  <2> QED BY <1>2, InsertIndexRange
<1>4. at \in 0..Len(s)
  <2> HIDE DEF n
  <2> QED BY <1>1, <1>3, BlockIndex
<1>5. Apart(t) /\ ToSet(embedded_xml_texts(t)) = {d}
  <2>1. Embedded(d) \in Item /\ IsBlock(Embedded(d)) /\ Embedded(d).id = d
    BY DEF Embedded, IsBlock, Item, Kinds, Ids
  <2>2. t \in Seq(Item) /\ embedded_xml_texts(t) = <<d>>
    BY <2>1, OneBlock
  <2>3. IsInjective(<<d>>) /\ ToSet(<<d>>) = {d}
    BY DEF IsInjective, ToSet
  <2> QED BY <2>2, <2>3 DEF Apart
<1> HIDE DEF at, t
<1>6. ToSet(embedded_xml_texts(s)) \intersect ToSet(embedded_xml_texts(t)) = {}
  BY <1>5
<1>7. Keeps(s, Spliced(s, at, t), ToSet(embedded_xml_texts(t)))
  BY <1>4, <1>5, <1>6, SpliceKeeps
<1> QED BY <1>5, <1>7 DEF BlockInserted, at, t

\* What is added at the end may be units, embeds and a block that is new.
LEMMA JoinKeeps ==
  ASSUME NEW s, Apart(s), NEW t, Apart(t),
         ToSet(embedded_xml_texts(s)) \intersect ToSet(embedded_xml_texts(t)) = {}
  PROVE  /\ Apart(s \o t)
         /\ ToSet(embedded_xml_texts(s \o t)) = ToSet(embedded_xml_texts(s)) \union ToSet(embedded_xml_texts(t))
         /\ Keeps(s, s \o t, ToSet(embedded_xml_texts(t)))
<1>1. s \in Seq(Item) /\ t \in Seq(Item)
  BY DEF Apart
<1>2. embedded_xml_texts(s \o t) = embedded_xml_texts(s) \o embedded_xml_texts(t) /\ s \o t \in Seq(Item)
  BY <1>1, BlocksConcat, ConcatProperties
<1>3. embedded_xml_texts(s) \in Seq(Ids) /\ embedded_xml_texts(t) \in Seq(Ids)
  BY <1>1, BlocksAre
<1>4. ToSet(embedded_xml_texts(s) \o embedded_xml_texts(t)) = ToSet(embedded_xml_texts(s)) \union ToSet(embedded_xml_texts(t))
  BY <1>3, SetConcat
<1>5. IsInjective(embedded_xml_texts(s) \o embedded_xml_texts(t))
  BY <1>3, InjectiveConcat DEF Apart
<1> QED BY <1>2, <1>4, <1>5 DEF Apart, Keeps

\* Units and embeds have no block.
LEMMA UnitsApart ==
  ASSUME NEW t \in Seq(Item), \A p \in DOMAIN t : ~ IsBlock(t[p])
  PROVE  Apart(t) /\ ToSet(embedded_xml_texts(t)) = {}
<1>1. embedded_xml_texts(t) = <<>>
  BY NoBlocks
<1> QED BY <1>1, EmptyApart DEF Apart

\* append_text adds none.
LEMMA AppendedKeeps ==
  ASSUME NEW s, Apart(s), NEW c \in Chunks
  PROVE  Keeps(s, TextAppended(s, c), {})
<1> DEFINE x == IF s = <<>> \/ ends_with_xml_text(s) THEN Append(s, Unit("m")) ELSE s
           m == <<Unit("m")>>
           E(u) == embedded_xml_texts(u)
<1>1. Apart(m) /\ ToSet(E(m)) = {} /\ Apart(c) /\ ToSet(E(c)) = {}
  BY UnitsApart, ChunkUnits, EmbedUnits
<1>2. Append(s, Unit("m")) = s \o m
  <2>1. Unit("m") \in Item /\ s \in Seq(Item)
    BY UnitIsItem DEF Kinds, Apart
  <2> QED BY <2>1
<1> HIDE DEF m
<1>3. Apart(s \o m) /\ ToSet(E(s \o m)) = ToSet(E(s))
  BY <1>1, JoinKeeps
<1>4. Apart(x) /\ ToSet(E(x)) = ToSet(E(s))
  BY <1>2, <1>3
<1> HIDE DEF x
<1>5. Apart(x \o c) /\ ToSet(E(x \o c)) = ToSet(E(s))
  BY <1>1, <1>4, JoinKeeps
<1> QED BY <1>5 DEF TextAppended, Apart, Keeps, x

\* The content Ruby's writers make has units, and a block only where it says so.
LEMMA ContentKeeps ==
  ASSUME NEW t, NEW c \in Content(t)
  PROVE  /\ Apart(c.units) /\ ToSet(embedded_xml_texts(c.units)) = {}
         /\ Apart(c.inner) /\ ToSet(embedded_xml_texts(c.inner)) = {}
         /\ c.nested \in Types \union {"none"}
<1> DEFINE Run(chunk) == <<Unit("m")>> \o chunk
           texts == IF "text" \in Holds[t] THEN {<<>>} \union {Run(x) : x \in Chunks} ELSE {<<>>}
           inner == Holds[t] \intersect {"paragraph", "listitem", "link"}
           Fine(u) == Apart(u) /\ ToSet(embedded_xml_texts(u)) = {}
<1>1. Fine(<<>>)
  <2> DEFINE e == <<>>
  <2>1. e \in Seq(Item) /\ DOMAIN e = {}
    OBVIOUS
  <2> HIDE DEF e
  <2>2. Fine(e)
    BY <2>1, UnitsApart
  <2> QED BY <2>2 DEF e
<1>2. ASSUME NEW x \in Chunks PROVE Fine(Run(x))
  <2> DEFINE m == <<Unit("m")>>
  <2>1. Fine(m) /\ Fine(x)
    BY UnitsApart, ChunkUnits, EmbedUnits
  <2> HIDE DEF m
  <2>2. Fine(m \o x)
    BY <2>1, JoinKeeps
  <2> QED BY <2>2 DEF m
<1>3. Narrow \in Chunks
  BY DEF Chunks
<1> HIDE DEF Run, Fine
<1>4. \A x \in texts : Fine(x)
  BY <1>1, <1>2
<1>5. inner \subseteq Types
  <2>1. DOMAIN Holds = {"root", "paragraph", "list", "listitem", "link", "mark", "box"}
    BY DEF Holds
  <2> QED BY <2>1 DEF Types
<1> HIDE DEF inner, texts
<1>6. \/ c \in [units : texts, nested : {"none"}, inner : {<<>>}]
      \/ c \in [units : {<<>>}, nested : inner, inner : {Run(Narrow)}]
  BY DEF Content, inner, texts, Run
<1>7. \/ c.units \in texts /\ c.inner = <<>> /\ c.nested = "none"
      \/ c.units = <<>> /\ c.inner = Run(Narrow) /\ c.nested \in inner
  BY <1>6
<1>8. Fine(c.units) /\ Fine(c.inner) /\ c.nested \in Types \union {"none"}
  BY <1>1, <1>2, <1>3, <1>4, <1>5, <1>7
<1> QED BY <1>8 DEF Fine

-----------------------------------------------------------------------------
(* A document stays a tree of live blocks.                                  *)

\* A tree k of blocks with types u: each block in it has one parent and a type.
Grown(k, u) ==
    /\ Tree(k) /\ OneParent(k) /\ Founded(k)
    /\ u \in [Block -> Types \union {"none"}]
    /\ \A b \in Nodes : \A c \in ChildrenOf(k, b) : u[c] # "none"

\* What is out of the tree has no type and is empty: its handle does not resolve.
Gone(k, u) ==
    /\ \A b \in Block : u[b] = "none" => k[b] = <<>>
    /\ {b \in Nodes : b # Root => u[b] # "none"} = Below(k)[Root]

\* The inductive invariant of a document: it is a tree, and the live handles are
\* those of the blocks in it.
TreeInvariant == Grown(kids, type) /\ Gone(kids, type)

\* A handle resolves if and only if its block has a type.
LEMMA AliveIs == XmlInvariant => Alive = {b \in Nodes : b # Root => type[b] # "none"}
<1> SUFFICES ASSUME XmlInvariant PROVE Alive = {b \in Nodes : b # Root => type[b] # "none"}
  OBVIOUS
<1>1. DOMAIN kids = Nodes
  BY DEF XmlInvariant, Tree, Nodes
<1> QED BY <1>1 DEF Alive, TypeOf

\* A transaction that makes a tree leaves a tree of live blocks.
LEMMA Committed ==
  ASSUME NEW k, NEW u, Grown(k, u),
         NEW j, j = [b \in DOMAIN k |-> IF b \in Below(k)[Root] THEN k[b] ELSE <<>>],
         NEW v, v = [b \in Block |-> IF b \in Below(k)[Root] THEN u[b] ELSE "none"],
         Tree(j)
  PROVE  /\ Grown(j, v) /\ Gone(j, v)
         /\ \A b \in Below(k)[Root] : Below(j)[b] = Below(k)[b] /\ j[b] = k[b]
<1> DEFINE A == Below(k)[Root]
           E == <<>>
<1>0. Root \in Nodes /\ Root \notin Block
  BY XmlTextConstants DEF Nodes
<1>1. DOMAIN k = Nodes /\ DOMAIN j = Nodes /\ OneParent(k) /\ Founded(k)
  BY DEF Grown, Tree, Nodes
<1>2. DOMAIN Below(k) = Nodes /\ \A b \in Nodes : Below(k)[b] = Reach(k, b)
  BY <1>1, BelowIsReach
<1>3. A = Reach(k, Root) /\ A \subseteq Nodes /\ Closed(k, A) /\ Root \in A
  BY <1>0, <1>1, <1>2, ReachUnfolds
<1>4. ToSet(embedded_xml_texts(E)) = {} /\ IsInjective(embedded_xml_texts(E))
  <2>1. E \in Seq(Item) /\ DOMAIN E = {}
    OBVIOUS
  <2> HIDE DEF E
  <2> QED BY <2>1, UnitsApart DEF Apart
<1>5. \A b \in Nodes : j[b] = IF b \in A THEN k[b] ELSE E
  BY <1>1
<1>6. \A b \in Block : v[b] = IF b \in A THEN u[b] ELSE "none"
  OBVIOUS
<1>7. v \in [Block -> Types \union {"none"}]
  <2>1. u \in [Block -> Types \union {"none"}]
    BY DEF Grown
  <2> HIDE DEF A
  <2> QED BY <2>1
<1> HIDE DEF A, E
<1>8. \A b \in Nodes : ChildrenOf(j, b) = IF b \in A THEN ChildrenOf(k, b) ELSE {}
  <2> SUFFICES ASSUME NEW b \in Nodes
               PROVE  ChildrenOf(j, b) = IF b \in A THEN ChildrenOf(k, b) ELSE {}
    OBVIOUS
  <2>1. CASE b \in A
    BY <1>5, <2>1 DEF ChildrenOf
  <2>2. CASE b \notin A
    <3>1. j[b] = E
      BY <1>5, <2>2
    <3> QED BY <1>4, <2>2, <3>1 DEF ChildrenOf
  <2> QED BY <2>1, <2>2
<1>9. \A b \in Nodes : IsInjective(embedded_xml_texts(j[b]))
  BY <1>1, <1>4, <1>5 DEF OneParent
<1>10. OneParent(j)
  BY <1>1, <1>8, <1>9 DEF OneParent
<1>11. Founded(j)
  <2>1. PICK h \in [Nodes -> Nat] : Descends(k, h)
    BY <1>1 DEF Founded
  <2>2. Descends(j, h)
    BY <1>8, <2>1 DEF Descends
  <2> QED BY <2>2 DEF Founded
<1>12. \A b \in Nodes : \A c \in ChildrenOf(k, b) : u[c] # "none" /\ c \in Block
  BY <1>1 DEF Grown, OneParent
<1>13. ASSUME NEW b \in Nodes, NEW c \in ChildrenOf(j, b) PROVE v[c] # "none"
  <2>1. b \in A /\ c \in ChildrenOf(k, b) /\ c \in A
    BY <1>3, <1>8 DEF Closed
  <2> QED BY <1>6, <1>12, <2>1
<1>14. Grown(j, v)
  BY <1>7, <1>10, <1>11, <1>13 DEF Grown
<1>15. ASSUME NEW b \in A, b # Root PROVE b \in Block /\ u[b] # "none"
  <2> DEFINE S == {c \in A : c # Root => c \in Block /\ u[c] # "none"}
  <2>1. S \in SUBSET Nodes /\ Root \in S
    BY <1>3
  <2>2. Closed(k, S)
    BY <1>3, <1>12 DEF Closed
  <2> HIDE DEF S
  <2>3. A \subseteq S
    BY <1>0, <1>3, <2>1, <2>2, ReachLeast
  <2> QED BY <1>15, <2>3 DEF S
<1>16. \A b \in Block : v[b] = "none" => j[b] = E
  <2> SUFFICES ASSUME NEW b \in Block, v[b] = "none" PROVE j[b] = E
    OBVIOUS
  <2>1. b \notin A /\ b \in Nodes
    BY <1>0, <1>6, <1>15 DEF Nodes
  <2> QED BY <1>5, <2>1
<1>17. \A b \in Nodes : Below(j)[b] = Reach(j, b)
  <2>1. DOMAIN j = Nodes /\ OneParent(j) /\ Founded(j)
    BY <1>1, <1>10, <1>11
  <2> QED BY <2>1, BelowIsReach
<1>18. ASSUME NEW b \in A PROVE Reach(j, b) = Reach(k, b)
  <2>1. b \in Nodes
    BY <1>3
  <2>2. Reach(k, b) \subseteq A
    BY <1>3, <2>1, ReachLeast
  <2>3. Closed(k, Reach(k, b)) /\ b \in Reach(k, b) /\ Reach(k, b) \in SUBSET Nodes
    BY <1>1, <2>1, ReachUnfolds
  <2>4. Closed(j, Reach(j, b)) /\ b \in Reach(j, b) /\ Reach(j, b) \in SUBSET Nodes
    BY <1>10, <2>1, ReachUnfolds
  <2>5. Closed(j, Reach(k, b))
    BY <1>8, <2>2, <2>3 DEF Closed
  <2>6. Reach(j, b) \subseteq Reach(k, b)
    BY <2>1, <2>3, <2>5, ReachLeast
  <2>7. Closed(k, Reach(j, b))
    BY <1>8, <2>2, <2>4, <2>6 DEF Closed
  <2>8. Reach(k, b) \subseteq Reach(j, b)
    BY <2>1, <2>4, <2>7, ReachLeast
  <2> QED BY <2>6, <2>8
<1>19. {b \in Nodes : b # Root => v[b] # "none"} = A
  <2>1. ASSUME NEW b \in Nodes, b # Root PROVE v[b] # "none" <=> b \in A
    <3>1. b \in Block
      BY <2>1 DEF Nodes
    <3> QED BY <1>6, <1>15, <2>1, <3>1
  <2> QED BY <1>0, <1>3, <2>1
<1>20. Below(j)[Root] = A
  BY <1>0, <1>3, <1>17, <1>18
<1>21. Gone(j, v)
  BY <1>16, <1>19, <1>20 DEF Gone, E
<1>22. \A b \in A : Below(j)[b] = Below(k)[b] /\ j[b] = k[b]
  BY <1>2, <1>3, <1>5, <1>17, <1>18
<1> QED BY <1>14, <1>21, <1>22 DEF A

\* A tree with another sequence in the block b, which keeps its own children and
\* takes some of X, blocks that were in no tree.
LEMMA Regrown ==
  ASSUME NEW k, NEW u, Grown(k, u), NEW b \in Nodes, NEW s, Held(b, s), NEW X \in SUBSET Block, Keeps(k[b], s, X),
         b \notin X, \A x \in X : ChildrenOf(k, x) = {}, \A x \in X : \A c \in Nodes : x \notin ChildrenOf(k, c),
         NEW v \in [Block -> Types \union {"none"}], \A c \in Block \ X : v[c] = u[c], \A x \in X : v[x] # "none"
  PROVE  Grown([k EXCEPT ![b] = s], v)
<1> DEFINE j == [k EXCEPT ![b] = s]
<1>1. Tree(j)
  BY TreeChanged DEF Grown, Nodes
<1>2. DOMAIN k = Nodes /\ \A c \in Nodes : j[c] = IF c = b THEN s ELSE k[c]
  BY DEF Grown, Tree, Nodes
<1> HIDE DEF j
<1>3. ChildrenOf(j, b) = ToSet(embedded_xml_texts(s)) /\ ChildrenOf(j, b) \subseteq ChildrenOf(k, b) \union X
  BY <1>2 DEF ChildrenOf, Keeps
<1>4. \A c \in Nodes : c # b => ChildrenOf(j, c) = ChildrenOf(k, c)
  BY <1>2 DEF ChildrenOf
<1>5. OneParent(k)
  BY DEF Grown
<1>6. OneParent(j)
  <2>1. ASSUME NEW c \in Nodes PROVE IsInjective(embedded_xml_texts(j[c])) /\ ChildrenOf(j, c) \subseteq Block
    <3>1. CASE c = b
      BY <1>2, <1>3, <1>5, <3>1 DEF OneParent, Keeps
    <3>2. CASE c # b
      BY <1>2, <1>4, <1>5, <3>2 DEF OneParent
    <3> QED BY <3>1, <3>2
  <2>2. ASSUME NEW c \in Nodes, NEW d \in Nodes, c # d PROVE ChildrenOf(j, c) \intersect ChildrenOf(j, d) = {}
    <3>1. \A e \in Nodes : e # b => ChildrenOf(j, e) \intersect ChildrenOf(j, b) = {}
      BY <1>3, <1>4, <1>5 DEF OneParent
    <3>2. CASE c # b /\ d # b
      BY <1>4, <1>5, <2>2, <3>2 DEF OneParent
    <3>3. CASE c = b \/ d = b
      BY <2>2, <3>1, <3>3
    <3> QED BY <3>2, <3>3
  <2> QED BY <2>1, <2>2 DEF OneParent
<1>7. Founded(j)
  <2>1. PICK h \in [Nodes -> Nat] : Descends(k, h)
    BY DEF Grown, Founded
  <2> DEFINE g == [c \in Nodes |-> IF c \in X THEN 0 ELSE h[c] + 1]
  <2>2. g \in [Nodes -> Nat]
    OBVIOUS
  <2>3. ASSUME NEW c \in Nodes, NEW d \in ChildrenOf(j, c) PROVE g[d] < g[c]
    <3>1. d \in Nodes
      BY <1>6 DEF OneParent, Nodes
    <3>2. c \notin X
      BY <1>4, <2>3
    <3>3. d \in X \/ h[d] < h[c]
      BY <1>3, <1>4, <2>1 DEF Descends
    <3>4. h[c] \in Nat /\ h[d] \in Nat
      BY <3>1
    <3> QED BY <3>1, <3>2, <3>3, <3>4
  <2> HIDE DEF g
  <2> QED BY <2>2, <2>3 DEF Founded, Descends
<1>8. ASSUME NEW c \in Nodes, NEW d \in ChildrenOf(j, c) PROVE v[d] # "none"
  <2>1. d \in Block /\ (d \in X \/ d \in ChildrenOf(k, c))
    BY <1>3, <1>4, <1>6 DEF OneParent
  <2>2. d \in ChildrenOf(k, c) => u[d] # "none"
    BY DEF Grown
  <2> QED BY <2>1, <2>2
<1> QED BY <1>1, <1>6, <1>7, <1>8 DEF Grown, j

\* A transaction's write is one that leaves a tree.
LEMMA CommitGrown ==
  ASSUME NEW k, NEW u, Grown(k, u), Commit(k, u)
  PROVE  /\ XmlInvariant' /\ TreeInvariant'
         /\ \A b \in Below(k)[Root] : Below(kids')[b] = Below(k)[b] /\ kids'[b] = k[b]
<1>1. Tree(k)
  BY DEF Grown
<1>2. XmlInvariant'
  BY <1>1, CommitKeeps
<1>3. Tree(kids')
  BY <1>2 DEF XmlInvariant
<1>4. /\ kids' = [b \in DOMAIN k |-> IF b \in Below(k)[Root] THEN k[b] ELSE <<>>]
      /\ type' = [b \in Block |-> IF b \in Below(k)[Root] THEN u[b] ELSE "none"]
  BY DEF Commit
<1>5. /\ Grown(kids', type') /\ Gone(kids', type')
      /\ \A b \in Below(k)[Root] : Below(kids')[b] = Below(k)[b] /\ kids'[b] = k[b]
  BY <1>3, <1>4, Committed
<1> QED BY <1>2, <1>5 DEF TreeInvariant

\* The invariant holds the other one, and says of a block with no type that it is
\* nowhere in the tree.
LEMMA TreeFacts ==
  ASSUME TreeInvariant
  PROVE  /\ XmlInvariant /\ Grown(kids, type) /\ DOMAIN kids = Nodes /\ Root \in Nodes
         /\ Alive = Below(kids)[Root] /\ Alive \subseteq Nodes /\ \A b \in Alive : b # Root => b \in Block
         /\ \A b \in Nodes : Apart(kids[b])
         /\ \A b \in Alive : Held(b, kids[b])
         /\ \A b \in Block \ Alive : kids[b] = <<>> /\ ChildrenOf(kids, b) = {} /\ \A c \in Nodes : b \notin ChildrenOf(kids, c)
<1>1. Grown(kids, type) /\ Gone(kids, type) /\ XmlInvariant
  BY DEF TreeInvariant, Grown, XmlInvariant
<1>2. Alive = {b \in Nodes : b # Root => type[b] # "none"}
  BY <1>1, AliveIs
<1>3. DOMAIN kids = Nodes /\ Root \in Nodes /\ \A b \in Nodes : kids[b] \in Seq(Item)
  BY <1>1 DEF XmlInvariant, Tree, Nodes
<1>4. \A b \in Nodes : Apart(kids[b])
  BY <1>1, <1>3 DEF Grown, OneParent, Apart
<1>5. \A b \in Alive : Held(b, kids[b])
  BY <1>1, AliveIn
<1>6. ASSUME NEW b \in Block \ Alive
      PROVE  kids[b] = <<>> /\ ChildrenOf(kids, b) = {} /\ \A c \in Nodes : b \notin ChildrenOf(kids, c)
  <2>1. type[b] = "none"
    BY <1>2, <1>6 DEF Nodes
  <2>2. kids[b] = <<>>
    BY <1>1, <2>1 DEF Gone
  <2>3. ToSet(embedded_xml_texts(<<>>)) = {}
    <3> DEFINE e == <<>>
    <3>1. e \in Seq(Item) /\ DOMAIN e = {}
      OBVIOUS
    <3> HIDE DEF e
    <3>2. ToSet(embedded_xml_texts(e)) = {}
      BY <3>1, UnitsApart
    <3> QED BY <3>2 DEF e
  <2> QED BY <1>1, <2>1, <2>2, <2>3 DEF Grown, ChildrenOf
<1>7. Alive = Below(kids)[Root]
  BY <1>1, <1>2 DEF Gone
<1> QED BY <1>1, <1>2, <1>3, <1>4, <1>5, <1>6, <1>7 DEF Nodes

\* A write that adds no block leaves a tree.
LEMMA WriteGrows ==
  ASSUME TreeInvariant, NEW b \in Nodes, NEW s, Held(b, s), Keeps(kids[b], s, {}), Write(b, s)
  PROVE  TreeInvariant'
<1>1. Grown(kids, type) /\ type \in [Block -> Types \union {"none"}]
  BY TreeFacts DEF Grown
<1>2. Grown([kids EXCEPT ![b] = s], type)
  <2> DEFINE X == {}
  <2>1. X \in SUBSET Block /\ b \notin X /\ \A x \in X : FALSE
    OBVIOUS
  <2>2. Keeps(kids[b], s, X)
    OBVIOUS
  <2> HIDE DEF X
  <2> QED BY <1>1, <2>1, <2>2, Regrown
<1>3. Commit([kids EXCEPT ![b] = s], type)
  BY DEF Write
<1> QED BY <1>2, <1>3, CommitGrown

\* An emptied block has none.
LEMMA EmptyKeeps == \A s, X : Keeps(s, <<>>, X)
<1> DEFINE e == <<>>
<1>1. e \in Seq(Item) /\ DOMAIN e = {}
  OBVIOUS
<1> HIDE DEF e
<1>2. Apart(e) /\ ToSet(embedded_xml_texts(e)) = {}
  BY <1>1, UnitsApart
<1>3. \A s, X : Keeps(s, e, X)
  BY <1>2 DEF Keeps, Apart
<1> QED BY <1>3 DEF e

\* The handle's own writes add no block.
LEMMA HandleGrows ==
  ASSUME TreeInvariant, NEW b \in Alive, NEW i \in Int,
         \/ \E c \in Chunks : insert(b, i, c)
         \/ insert_embed(b, i)
         \/ \E n \in Int : delete(b, i, n)
         \/ delete_xml_text(b, i)
         \/ \E c \in Chunks : append_text(b, c)
         \/ clear(b)
  PROVE  TreeInvariant'
<1>0. XmlInvariant /\ b \in Nodes /\ Held(b, kids[b]) /\ Apart(kids[b])
  BY TreeFacts
<1>1. ASSUME NEW c \in Chunks, insert(b, i, c) PROVE TreeInvariant'
  <2>1. b # Root /\ Write(b, Inserted(kids[b], i, c))
    BY <1>1, RootTakes DEF insert
  <2>2. Held(b, Inserted(kids[b], i, c)) /\ Keeps(kids[b], Inserted(kids[b], i, c), {})
    BY <1>0, <2>1, ChunkHeld, InsertedHeld, InsertedKeeps
  <2> QED BY <1>0, <2>1, <2>2, WriteGrows
<1>2. ASSUME insert_embed(b, i) PROVE TreeInvariant'
  <2>1. b # Root /\ Write(b, EmbedInserted(kids[b], i, Unit("m")))
    BY <1>2, RootTakes DEF insert_embed
  <2>2. Held(b, <<Unit("m")>>)
    BY <2>1, UnitHeld
  <2>3. Held(b, EmbedInserted(kids[b], i, Unit("m"))) /\ Keeps(kids[b], EmbedInserted(kids[b], i, Unit("m")), {})
    BY <1>0, <2>2, EmbedInsertedHeld, EmbedInsertedKeeps
  <2> QED BY <1>0, <2>1, <2>3, WriteGrows
<1>3. ASSUME NEW n \in Int, delete(b, i, n) PROVE TreeInvariant'
  <2>1. Write(b, Deleted(kids[b], i, n))
    BY <1>3 DEF delete
  <2>2. Held(b, Deleted(kids[b], i, n)) /\ Keeps(kids[b], Deleted(kids[b], i, n), {})
    BY <1>0, DeletedHeld, DeletedKeeps
  <2> QED BY <1>0, <2>1, <2>2, WriteGrows
<1>4. ASSUME delete_xml_text(b, i) PROVE TreeInvariant'
  <2>1. Write(b, BlockDeleted(kids[b], i))
    BY <1>4 DEF delete_xml_text
  <2>2. Held(b, BlockDeleted(kids[b], i)) /\ Keeps(kids[b], BlockDeleted(kids[b], i), {})
    BY <1>0, BlockDeletedHeld, BlockDeletedKeeps
  <2> QED BY <1>0, <2>1, <2>2, WriteGrows
<1>5. ASSUME NEW c \in Chunks, append_text(b, c) PROVE TreeInvariant'
  <2>1. b # Root /\ Write(b, TextAppended(kids[b], c))
    BY <1>5, RootTakes DEF append_text
  <2>2. Held(b, TextAppended(kids[b], c)) /\ Keeps(kids[b], TextAppended(kids[b], c), {})
    BY <1>0, <2>1, AppendedHeld, AppendedKeeps
  <2> QED BY <1>0, <2>1, <2>2, WriteGrows
<1>6. ASSUME clear(b) PROVE TreeInvariant'
  <2>1. Write(b, <<>>)
    BY <1>6 DEF clear
  <2>2. Held(b, <<>>) /\ Keeps(kids[b], <<>>, {})
    BY HeldEmpty, EmptyKeeps
  <2> QED BY <1>0, <2>1, <2>2, WriteGrows
<1> QED BY <1>1, <1>2, <1>3, <1>4, <1>5, <1>6

\* Writing content into a block grows the tree by its nested block at most.
LEMMA WrittenGrows ==
  ASSUME NEW k, NEW u, Grown(k, u), NEW b \in Block, NEW s, Held(b, s), Apart(s), Keeps(k[b], s, {}),
         NEW t, NEW c \in Content(t), NEW d,
         c.nested # "none" => /\ d \in Block /\ d # b /\ ChildrenOf(k, d) = {}
                              /\ \A e \in Nodes : d \notin ChildrenOf(k, e)
  PROVE  Grown(Written(k, b, s, c, d), Typed(u, c, d))
<1>0. b \in Nodes /\ b # Root /\ u \in [Block -> Types \union {"none"}]
  BY XmlTextConstants DEF Nodes, Grown
<1>1. Held(b, c.units) /\ Apart(c.units) /\ ToSet(embedded_xml_texts(c.units)) = {}
  BY <1>0, ContentHeld, ContentKeeps
<1> DEFINE r == s \o c.units
<1>2. Held(b, r) /\ Apart(r) /\ ToSet(embedded_xml_texts(r)) = ToSet(embedded_xml_texts(s))
  BY <1>1, HeldConcat, JoinKeeps
<1>3. Keeps(k[b], r, {})
  BY <1>2 DEF Keeps, Apart
<1>4. CASE c.nested = "none"
  <2>1. Written(k, b, s, c, d) = [k EXCEPT ![b] = r] /\ Typed(u, c, d) = u
    BY <1>4 DEF Written, Typed
  <2> DEFINE X == {}
  <2>2. X \in SUBSET Block /\ b \notin X /\ \A x \in X : FALSE
    OBVIOUS
  <2>3. Keeps(k[b], r, X)
    BY <1>3
  <2> HIDE DEF X, r
  <2>4. Grown([k EXCEPT ![b] = r], u)
    BY <1>0, <1>2, <2>2, <2>3, Regrown
  <2> QED BY <2>1, <2>4
<1>5. CASE c.nested # "none"
  <2> DEFINE w == r \o <<Embedded(d)>>
             v == [u EXCEPT ![d] = c.nested]
             j == [k EXCEPT ![b] = w]
             D == {d}
  <2>1. d \in Block /\ d # b /\ d # Root /\ d \in Ids /\ d \in Nodes
    BY <1>5, XmlTextConstants DEF Ids, Nodes
  <2>2. Apart(<<Embedded(d)>>) /\ ToSet(embedded_xml_texts(<<Embedded(d)>>)) = D
    <3>1. Embedded(d) \in Item /\ IsBlock(Embedded(d)) /\ Embedded(d).id = d
      BY <2>1 DEF Embedded, IsBlock, Item, Kinds
    <3>2. <<Embedded(d)>> \in Seq(Item) /\ embedded_xml_texts(<<Embedded(d)>>) = <<d>>
      BY <3>1, OneBlock
    <3>3. IsInjective(<<d>>) /\ ToSet(<<d>>) = {d}
      BY DEF IsInjective, ToSet
    <3> QED BY <3>2, <3>3 DEF Apart
  <2>3. d \notin ToSet(embedded_xml_texts(r))
    BY <1>0, <1>3, <1>5 DEF Keeps, ChildrenOf
  <2>4. Held(b, w)
    BY <1>2, <2>1, BlockHeld, HeldConcat
  <2>5. Apart(w) /\ ToSet(embedded_xml_texts(w)) = ToSet(embedded_xml_texts(r)) \union D
    <3> DEFINE m == <<Embedded(d)>>
    <3>1. Apart(m) /\ ToSet(embedded_xml_texts(m)) = D /\ ToSet(embedded_xml_texts(r)) \intersect ToSet(embedded_xml_texts(m)) = {}
      BY <2>2, <2>3
    <3> HIDE DEF r, m, D
    <3> QED BY <1>2, <3>1, JoinKeeps DEF m
  <2>6. Keeps(k[b], w, D)
    BY <1>3, <2>5 DEF Keeps, Apart
  <2>7. v \in [Block -> Types \union {"none"}] /\ v[d] # "none" /\ \A x \in Block \ D : v[x] = u[x]
    BY <1>0, <1>5, <2>1, ContentKeeps
  <2>8. /\ D \in SUBSET Block /\ b \notin D /\ \A x \in D : ChildrenOf(k, x) = {}
        /\ \A x \in D : \A e \in Nodes : x \notin ChildrenOf(k, e)
        /\ \A x \in D : v[x] # "none"
    BY <1>5, <2>1, <2>7
  <2>9. DOMAIN k = Nodes /\ j[d] = k[d]
    BY <2>1 DEF Grown, Tree, Nodes
  <2> HIDE DEF w, v, D
  <2>10. Grown(j, v)
    BY <1>0, <2>4, <2>6, <2>7, <2>8, Regrown
  <2>11. Written(k, b, s, c, d) = [j EXCEPT ![d] = c.inner] /\ Typed(u, c, d) = v
    BY <1>5 DEF Written, Typed, v, w
  <2> HIDE DEF j
  <2>12. Held(d, c.inner) /\ Apart(c.inner) /\ ToSet(embedded_xml_texts(c.inner)) = {}
    BY <2>1, ContentHeld, ContentKeeps
  <2> DEFINE X == {}
  <2>13. X \in SUBSET Block /\ d \notin X /\ \A x \in X : FALSE
    OBVIOUS
  <2>14. Keeps(j[d], c.inner, X)
    BY <2>12 DEF Keeps, Apart
  <2> HIDE DEF X
  <2>15. Grown([j EXCEPT ![d] = c.inner], v)
    BY <2>1, <2>7, <2>10, <2>12, <2>13, <2>14, Regrown
  <2> QED BY <2>11, <2>15
<1> QED BY <1>4, <1>5

\* The identity of content's nested block is one that no block of the tree has.
LEMMA FreshNested ==
  ASSUME TreeInvariant, NEW c, NEW taken, Alive \subseteq taken, NEW d \in FreshIn(c, taken), c.nested # "none"
  PROVE  d \in Block /\ d \notin taken /\ ChildrenOf(kids, d) = {} /\ \A e \in Nodes : d \notin ChildrenOf(kids, e)
<1>1. d \in Fresh(taken)
  BY DEF FreshIn
<1>2. d \in Block /\ d \notin taken
  BY <1>1, FreshIsBlock
<1> QED BY <1>2, TreeFacts

\* append and replace.
LEMMA WriteContentGrows ==
  ASSUME TreeInvariant, NEW b \in Alive \ {Root}, NEW emptied \in BOOLEAN, NEW t, NEW c \in Content(t),
         NEW d \in FreshIn(c, Alive), write_content(b, c, d, emptied)
  PROVE  TreeInvariant'
<1> DEFINE s == IF emptied THEN <<>> ELSE kids[b]
<1>1. b \in Block /\ b \in Nodes /\ Held(b, kids[b]) /\ Apart(kids[b]) /\ Grown(kids, type)
  BY TreeFacts
<1>2. Held(b, s)
  BY <1>1, HeldEmpty
<1>3. Keeps(kids[b], s, {})
  BY <1>1, EmptyKeeps DEF Keeps, Apart
<1>4. Commit(Written(kids, b, s, c, d), Typed(type, c, d))
  BY DEF write_content
<1> HIDE DEF s
<1>5. Apart(s)
  BY <1>2, <1>3 DEF Held, Unsplit, Apart, Keeps
<1>6. c.nested # "none" => /\ d \in Block /\ d # b /\ ChildrenOf(kids, d) = {}
                           /\ \A e \in Nodes : d \notin ChildrenOf(kids, e)
  BY FreshNested
<1>7. Grown(Written(kids, b, s, c, d), Typed(type, c, d))
  BY <1>1, <1>2, <1>3, <1>5, <1>6, WrittenGrows
<1> QED BY <1>4, <1>7, CommitGrown

\* insert_xml_text.
LEMMA InsertBlockGrows ==
  ASSUME TreeInvariant, NEW b \in Alive, NEW i \in Int, NEW t \in Types, NEW new \in Fresh(Alive), NEW c \in Content(t),
         NEW d \in FreshIn(c, Alive \union {new}), insert_xml_text(b, i, t, c, new, d)
  PROVE  TreeInvariant'
<1>1. b \in Nodes /\ Held(b, kids[b]) /\ Apart(kids[b]) /\ Grown(kids, type)
  BY TreeFacts
<1>2. new \in Block /\ new \in Ids /\ new \notin Alive /\ new # b
  BY FreshIsBlock DEF Ids
<1>3. kids[new] = <<>> /\ ChildrenOf(kids, new) = {} /\ \A e \in Nodes : new \notin ChildrenOf(kids, e)
  BY <1>2, TreeFacts
<1> DEFINE s == BlockInserted(kids[b], i, new)
           k == [kids EXCEPT ![b] = s]
           u == [type EXCEPT ![new] = t]
           X == {new}
<1>4. Held(b, s) /\ Keeps(kids[b], s, X)
  BY <1>1, <1>2, <1>3, BlockInsertedHeld, BlockInsertedKeeps DEF ChildrenOf
<1>5. t # "none" /\ type \in [Block -> Types \union {"none"}] /\ DOMAIN kids = Nodes
  <2>1. "none" \notin DOMAIN Holds
    BY DEF Holds
  <2> QED BY <2>1, TreeFacts DEF Types, Grown
<1>6. u \in [Block -> Types \union {"none"}] /\ u[new] = t /\ \A x \in Block \ X : u[x] = type[x]
  BY <1>2, <1>5
<1>7. /\ X \in SUBSET Block /\ b \notin X /\ \A x \in X : ChildrenOf(kids, x) = {}
      /\ \A x \in X : \A e \in Nodes : x \notin ChildrenOf(kids, e)
      /\ \A x \in X : u[x] # "none"
  BY <1>2, <1>3, <1>5, <1>6
<1>8. \A e \in Nodes : k[e] = IF e = b THEN s ELSE kids[e]
  BY <1>5
<1>9. Commit(Written(k, new, <<>>, c, d), Typed(u, c, d))
  BY DEF insert_xml_text
<1> HIDE DEF s, u, X
<1>10. Grown(k, u)
  BY <1>1, <1>4, <1>6, <1>7, Regrown
<1> HIDE DEF k
<1>11. ASSUME c.nested # "none"
       PROVE  d \in Block /\ d # new /\ ChildrenOf(k, d) = {} /\ \A e \in Nodes : d \notin ChildrenOf(k, e)
  <2>1. d \in Block /\ d \notin Alive \union {new} /\ ChildrenOf(kids, d) = {} /\ \A e \in Nodes : d \notin ChildrenOf(kids, e)
    <3>1. Alive \subseteq Alive \union {new}
      OBVIOUS
    <3> QED BY <1>11, <3>1, FreshNested
  <2>2. d \in Nodes /\ d # b
    BY <2>1 DEF Nodes
  <2>3. ChildrenOf(k, d) = {}
    BY <1>8, <2>1, <2>2 DEF ChildrenOf
  <2>4. ASSUME NEW e \in Nodes PROVE d \notin ChildrenOf(k, e)
    <3>1. e # b => ChildrenOf(k, e) = ChildrenOf(kids, e)
      BY <1>8 DEF ChildrenOf
    <3>2. ChildrenOf(k, b) \subseteq ChildrenOf(kids, b) \union {new}
      BY <1>1, <1>4, <1>8 DEF ChildrenOf, Keeps, X
    <3> QED BY <1>1, <2>1, <3>1, <3>2
  <2> QED BY <2>1, <2>3, <2>4
<1>12. Held(new, <<>>) /\ Keeps(k[new], <<>>, {})
  BY HeldEmpty, EmptyKeeps
<1>13. Apart(<<>>)
  BY <1>12 DEF Held, Unsplit, Apart, Keeps
<1> DEFINE e == <<>>
<1>14. Held(new, e) /\ Keeps(k[new], e, {}) /\ Apart(e)
  BY <1>12, <1>13
<1> HIDE DEF e
<1>15. Grown(Written(k, new, e, c, d), Typed(u, c, d))
  BY <1>2, <1>10, <1>11, <1>14, WrittenGrows
<1> QED BY <1>9, <1>15, CommitGrown DEF e

-----------------------------------------------------------------------------
(* A peer's update of the root's children.                                  *)

\* The sequence c is a and then b.
Joins(S, a, b, c) == a \in Seq(S) /\ b \in Seq(S) /\ c = a \o b

\* Its items are those of a and then those of b.
InTurn(a, b, c) ==
    /\ \A i \in 1..Len(a) : c[i] = a[i]
    /\ \A i \in 1..Len(b) : c[Len(a) + i] = b[i]

\* What a joined sequence holds.
LEMMA JoinFacts ==
  ASSUME NEW S, NEW a, NEW b, NEW c, Joins(S, a, b, c)
  PROVE  /\ a \in Seq(S) /\ b \in Seq(S) /\ c \in Seq(S)
         /\ Len(a) \in Nat /\ Len(b) \in Nat /\ Len(c) = Len(a) + Len(b)
         /\ ToSet(c) = ToSet(a) \union ToSet(b)
         /\ IsInjective(c) <=> IsInjective(a) /\ IsInjective(b) /\ ToSet(a) \intersect ToSet(b) = {}
         /\ InTurn(a, b, c)
<1>0. a \in Seq(S) /\ b \in Seq(S) /\ c = a \o b
  BY DEF Joins
<1>1. a \o b \in Seq(S) /\ Len(a \o b) = Len(a) + Len(b) /\ Len(a) \in Nat /\ Len(b) \in Nat
  BY <1>0, ConcatProperties
<1>2. ToSet(a \o b) = ToSet(a) \union ToSet(b)
  BY <1>0, SetConcat
<1>3. IsInjective(a \o b) <=> IsInjective(a) /\ IsInjective(b) /\ ToSet(a) \intersect ToSet(b) = {}
  BY <1>0, InjectiveConcat
<1>4. (\A i \in 1..Len(a) : (a \o b)[i] = a[i]) /\ (\A i \in 1..Len(b) : (a \o b)[Len(a) + i] = b[i])
  BY <1>0, ConcatParts
<1> QED BY <1>0, <1>1, <1>2, <1>3, <1>4 DEF InTurn

\* Three sequences joined, in whichever order.
LEMMA JoinRegroup ==
  ASSUME NEW S, NEW a, NEW b, NEW c, NEW ab, NEW bc, NEW d, Joins(S, a, b, ab), Joins(S, b, c, bc)
  PROVE  Joins(S, ab, c, d) <=> Joins(S, a, bc, d)
<1>1. a \in Seq(S) /\ b \in Seq(S) /\ c \in Seq(S) /\ ab = a \o b /\ bc = b \o c
  BY DEF Joins
<1>2. ab \in Seq(S) /\ bc \in Seq(S)
  BY JoinFacts
<1>3. (a \o b) \o c = a \o (b \o c)
  BY <1>1, ConcatAssociative
<1> QED BY <1>1, <1>2, <1>3 DEF Joins

\* A joined sequence is cut again where its parts meet.
LEMMA JoinCut ==
  ASSUME NEW S, NEW u, NEW v, NEW s, Joins(S, u, v, s)
  PROVE  SubSeq(s, 1, Len(u)) = u /\ SubSeq(s, Len(u) + 1, Len(s)) = v
  BY CutBack DEF Joins

\* A sequence cut in two is its parts joined.
LEMMA CutJoins ==
  ASSUME NEW S, NEW s \in Seq(S), NEW u \in 0..Len(s)
  PROVE  /\ Joins(S, SubSeq(s, 1, u), SubSeq(s, u + 1, Len(s)), s)
         /\ Len(SubSeq(s, 1, u)) = u
<1> DEFINE a == SubSeq(s, 1, u)
           b == SubSeq(s, u + 1, Len(s))
<1>1. a \in Seq(S) /\ Len(a) = u /\ b \in Seq(S) /\ s = a \o b
  BY Cut, Zenon
<1> HIDE DEF a, b
<1>2. Joins(S, a, b, s) /\ Len(a) = u
  BY <1>1, Zenon DEF Joins
<1> QED BY <1>2 DEF a, b

\* The blocks of a joined sequence are those of its parts.
LEMMA BlocksJoin ==
  ASSUME NEW a, NEW b, NEW c, Joins(Item, a, b, c)
  PROVE  Joins(Ids, embedded_xml_texts(a), embedded_xml_texts(b), embedded_xml_texts(c))
<1>1. a \in Seq(Item) /\ b \in Seq(Item) /\ c = a \o b
  BY DEF Joins
<1>2. embedded_xml_texts(a) \in Seq(Ids) /\ embedded_xml_texts(b) \in Seq(Ids)
  BY <1>1, BlocksAre
<1>3. embedded_xml_texts(a \o b) = embedded_xml_texts(a) \o embedded_xml_texts(b)
  BY <1>1, BlocksConcat
<1> QED BY <1>1, <1>2, <1>3 DEF Joins

\* The children after an update.
After(before, from, n, at, item) ==
    IF at <= from
    THEN Spliced(RemoveRange(before, from, n), at, item)
    ELSE RemoveRange(Spliced(before, at, item), from, n)

\* An update takes y out from between x and z, which leaves v, and puts item into
\* that between p and r.
Parts(S, before, after, item, x, y, z, w, p, r, v, o) ==
    /\ Joins(S, x, w, before) /\ Joins(S, y, z, w)
    /\ Joins(S, x, z, v) /\ Joins(S, p, r, v)
    /\ Joins(S, p, item, o) /\ Joins(S, o, r, after)

\* The item of an update goes to `place` of what is left.
Divided(before, from, n, at, item, place) ==
    \E x, y, z, w, p, r, v, o :
       /\ Parts(Item, before, After(before, from, n, at, item), item, x, y, z, w, p, r, v, o)
       /\ Len(x) = from /\ Len(y) = n /\ Len(p) = place

\* It does, when it inserts before what it takes out.
LEMMA UpdateBefore ==
  ASSUME NEW before \in Seq(Item), NEW item \in Seq(Item), NEW from \in 0..Len(before),
         NEW n \in Nat, from + n <= Len(before), NEW at \in 0..from
  PROVE  Divided(before, from, n, at, item, at)
<1> DEFINE L == Len(before)
           x == SubSeq(before, 1, from)
           w == SubSeq(before, from + 1, L)
           y == SubSeq(w, 1, n)
           z == SubSeq(w, n + 1, Len(w))
           u == x \o y
           v == x \o z
           p == SubSeq(v, 1, at)
           r == SubSeq(v, at + 1, Len(v))
           o == p \o item
           after == o \o r
<1>0. L \in Nat
  OBVIOUS
<1>1. Joins(Item, x, w, before) /\ Len(x) = from
  BY CutJoins
<1> HIDE DEF x, w
<1>2. w \in Seq(Item) /\ n \in 0..Len(w) /\ x \in Seq(Item) /\ L = from + Len(w)
  BY <1>0, <1>1, JoinFacts
<1>3. Joins(Item, y, z, w) /\ Len(y) = n
  BY <1>2, CutJoins
<1> HIDE DEF y, z
<1>4. y \in Seq(Item) /\ z \in Seq(Item)
  BY <1>3, JoinFacts
<1>5. Joins(Item, x, y, u) /\ Joins(Item, x, z, v)
  BY <1>2, <1>4 DEF Joins
<1> HIDE DEF u
<1>6. Joins(Item, u, z, before) /\ Len(u) = from + n
  BY <1>1, <1>3, <1>5, JoinFacts, JoinRegroup
<1>7. SubSeq(before, from + n + 1, L) = z
  BY <1>6, JoinCut
<1>8. RemoveRange(before, from, n) = v
  BY <1>7 DEF RemoveRange, x
<1> HIDE DEF v
<1>9. v \in Seq(Item) /\ at \in 0..Len(v)
  BY <1>1, <1>5, JoinFacts
<1>10. Joins(Item, p, r, v) /\ Len(p) = at
  BY <1>9, CutJoins
<1>11. After(before, from, n, at, item) = after
  <2>1. at <= from
    OBVIOUS
  <2>2. After(before, from, n, at, item) = Spliced(v, at, item)
    BY <1>8, <2>1, Zenon DEF After
  <2> QED BY <2>2 DEF Spliced
<1> HIDE DEF p, r
<1>12. Joins(Item, p, item, o)
  BY <1>10, JoinFacts DEF Joins
<1> HIDE DEF o
<1>13. Joins(Item, o, r, after)
  BY <1>10, <1>12, JoinFacts DEF Joins
<1>14. Parts(Item, before, After(before, from, n, at, item), item, x, y, z, w, p, r, v, o)
  BY <1>1, <1>3, <1>5, <1>10, <1>11, <1>12, <1>13 DEF Parts
<1> HIDE DEF after
<1> QED BY <1>1, <1>3, <1>10, <1>14 DEF Divided

\* And when it inserts behind it.
LEMMA UpdateBehind ==
  ASSUME NEW before \in Seq(Item), NEW item \in Seq(Item), NEW from \in 0..Len(before),
         NEW n \in Nat, from + n <= Len(before), NEW at \in (from + n)..Len(before), ~ (at <= from)
  PROVE  Divided(before, from, n, at, item, at - n)
<1> DEFINE L == Len(before)
           a == SubSeq(before, 1, at)
           r == SubSeq(before, at + 1, L)
           u == SubSeq(a, 1, from + n)
           e == SubSeq(a, from + n + 1, Len(a))
           x == SubSeq(u, 1, from)
           y == SubSeq(u, from + 1, Len(u))
           b == a \o item
           s == b \o r
           f == e \o item
           g == f \o r
           h == y \o g
           z == e \o r
           w == y \o z
           v == x \o z
           p == x \o e
           o == p \o item
<1>0. L \in Nat /\ at \in 0..L
  OBVIOUS
<1>1. Joins(Item, a, r, before) /\ Len(a) = at
  BY <1>0, CutJoins
<1>2. Spliced(before, at, item) = s
  BY DEF Spliced
<1> HIDE DEF a, r
<1>3. a \in Seq(Item) /\ r \in Seq(Item) /\ from + n \in 0..Len(a)
  BY <1>0, <1>1, JoinFacts
<1>4. Joins(Item, u, e, a) /\ Len(u) = from + n
  BY <1>3, CutJoins
<1> HIDE DEF u, e
<1>5. u \in Seq(Item) /\ e \in Seq(Item) /\ from \in 0..Len(u)
  BY <1>4, JoinFacts
<1>6. Joins(Item, x, y, u) /\ Len(x) = from
  BY <1>5, CutJoins
<1> HIDE DEF x, y
<1>7. x \in Seq(Item) /\ y \in Seq(Item) /\ Len(y) = n
  BY <1>4, <1>6, JoinFacts
<1>8. Joins(Item, a, item, b) /\ Joins(Item, e, item, f) /\ Joins(Item, e, r, z) /\ Joins(Item, x, e, p)
  BY <1>3, <1>5, <1>7 DEF Joins
<1>9. b \in Seq(Item) /\ f \in Seq(Item) /\ z \in Seq(Item) /\ p \in Seq(Item)
  BY <1>8, JoinFacts
<1> HIDE DEF b, f, z, p
<1>10. /\ Joins(Item, b, r, s) /\ Joins(Item, f, r, g) /\ Joins(Item, y, z, w) /\ Joins(Item, x, z, v)
       /\ Joins(Item, p, item, o)
  BY <1>3, <1>7, <1>9 DEF Joins
<1> HIDE DEF s, g, w, v, o
<1>11. Joins(Item, u, z, before)
  BY <1>1, <1>4, <1>8, JoinRegroup
<1>12. Joins(Item, x, w, before)
  BY <1>6, <1>10, <1>11, JoinRegroup
<1>13. Joins(Item, p, r, v)
  BY <1>8, <1>10, JoinRegroup
<1>14. Joins(Item, u, f, b)
  BY <1>4, <1>8, JoinRegroup
<1>15. Joins(Item, u, g, s)
  BY <1>10, <1>14, JoinRegroup
<1>16. Joins(Item, y, g, h)
  BY <1>7, <1>10, JoinFacts DEF Joins
<1> HIDE DEF h
<1>17. Joins(Item, x, h, s)
  BY <1>6, <1>15, <1>16, JoinRegroup
<1>18. SubSeq(s, 1, from) = x /\ SubSeq(s, from + n + 1, Len(s)) = g
  <2>1. Len(x) = from /\ Len(u) = from + n
    BY <1>4, <1>6
  <2>2. SubSeq(s, 1, Len(x)) = x
    BY <1>17, JoinCut
  <2>3. SubSeq(s, Len(u) + 1, Len(s)) = g
    BY <1>15, JoinCut
  <2> QED BY <2>1, <2>2, <2>3
<1> DEFINE after == x \o g
<1>19. After(before, from, n, at, item) = after
  BY <1>2, <1>18 DEF After, RemoveRange
<1>20. Joins(Item, x, g, after)
  BY <1>7, <1>10, JoinFacts DEF Joins
<1> HIDE DEF after
<1>21. Joins(Item, x, f, o)
  BY <1>8, <1>10, JoinRegroup
<1>22. Joins(Item, o, r, after)
  BY <1>10, <1>20, <1>21, JoinRegroup
<1>23. Len(p) = at - n
  <2>1. Len(a) = Len(u) + Len(e) /\ Len(e) \in Nat
    BY <1>4, JoinFacts
  <2>2. Len(p) = Len(x) + Len(e)
    BY <1>8, JoinFacts
  <2> QED BY <1>0, <1>1, <1>4, <1>6, <2>1, <2>2
<1>24. Parts(Item, before, After(before, from, n, at, item), item, x, y, z, w, p, r, v, o)
  BY <1>10, <1>12, <1>13, <1>19, <1>22 DEF Parts
<1> QED BY <1>6, <1>7, <1>23, <1>24 DEF Divided

\* What that does to the blocks: those of y are gone, those of item are new, and
\* the others are still there.
LEMMA PartsDiffer ==
  ASSUME NEW S, NEW was, NEW is, NEW q, NEW x, NEW y, NEW z, NEW w, NEW p, NEW r, NEW v, NEW o,
         Parts(S, was, is, q, x, y, z, w, p, r, v, o),
         IsInjective(was), IsInjective(q), ToSet(q) \intersect ToSet(was) = {}
  PROVE  /\ was \in Seq(S) /\ is \in Seq(S) /\ Len(x) \in Nat /\ Len(y) \in Nat /\ Len(p) \in Nat /\ Len(q) \in Nat
         /\ IsInjective(is) /\ ToSet(is) = (ToSet(was) \ ToSet(y)) \union ToSet(q)
         /\ {i \in DOMAIN was : was[i] \notin ToSet(is)} = (Len(x) + 1)..(Len(x) + Len(y))
         /\ {i \in DOMAIN is : is[i] \notin ToSet(was)} = (Len(p) + 1)..(Len(p) + Len(q))
<1>1. /\ Joins(S, x, w, was) /\ Joins(S, y, z, w) /\ Joins(S, x, z, v)
      /\ Joins(S, p, r, v) /\ Joins(S, p, q, o) /\ Joins(S, o, r, is)
  BY DEF Parts
<1>2. /\ x \in Seq(S) /\ y \in Seq(S) /\ z \in Seq(S) /\ w \in Seq(S) /\ p \in Seq(S)
      /\ q \in Seq(S) /\ r \in Seq(S) /\ o \in Seq(S) /\ was \in Seq(S) /\ is \in Seq(S)
  BY <1>1, JoinFacts
<1>3. /\ Len(x) \in Nat /\ Len(y) \in Nat /\ Len(z) \in Nat /\ Len(p) \in Nat /\ Len(q) \in Nat /\ Len(r) \in Nat
      /\ Len(was) = Len(x) + (Len(y) + Len(z)) /\ Len(w) = Len(y) + Len(z)
      /\ Len(is) = (Len(p) + Len(q)) + Len(r) /\ Len(o) = Len(p) + Len(q)
  <2>1. Len(x) \in Nat /\ Len(was) = Len(x) + Len(w)
    BY <1>1, JoinFacts
  <2>2. Len(y) \in Nat /\ Len(z) \in Nat /\ Len(w) = Len(y) + Len(z)
    BY <1>1, JoinFacts
  <2>3. Len(p) \in Nat /\ Len(q) \in Nat /\ Len(o) = Len(p) + Len(q)
    BY <1>1, JoinFacts
  <2>4. Len(r) \in Nat /\ Len(is) = Len(o) + Len(r)
    BY <1>1, JoinFacts
  <2> QED BY <2>1, <2>2, <2>3, <2>4
<1>4. /\ ToSet(was) = ToSet(x) \union ToSet(w) /\ ToSet(w) = ToSet(y) \union ToSet(z)
      /\ ToSet(x) \union ToSet(z) = ToSet(p) \union ToSet(r)
      /\ ToSet(o) = ToSet(p) \union ToSet(q) /\ ToSet(is) = ToSet(o) \union ToSet(r)
  <2>1. ToSet(was) = ToSet(x) \union ToSet(w)
    BY <1>1, JoinFacts
  <2>2. ToSet(w) = ToSet(y) \union ToSet(z)
    BY <1>1, JoinFacts
  <2>3. ToSet(v) = ToSet(x) \union ToSet(z)
    BY <1>1, JoinFacts
  <2>4. ToSet(v) = ToSet(p) \union ToSet(r)
    BY <1>1, JoinFacts
  <2>5. ToSet(o) = ToSet(p) \union ToSet(q)
    BY <1>1, JoinFacts
  <2>6. ToSet(is) = ToSet(o) \union ToSet(r)
    BY <1>1, JoinFacts
  <2> QED BY <2>1, <2>2, <2>3, <2>4, <2>5, <2>6
<1>5. /\ IsInjective(x) /\ IsInjective(w) /\ ToSet(x) \intersect ToSet(w) = {}
      /\ IsInjective(z) /\ ToSet(y) \intersect ToSet(z) = {}
  <2>1. IsInjective(x) /\ IsInjective(w) /\ ToSet(x) \intersect ToSet(w) = {}
    BY <1>1, JoinFacts
  <2>2. IsInjective(z) /\ ToSet(y) \intersect ToSet(z) = {}
    BY <1>1, <2>1, JoinFacts
  <2> QED BY <2>1, <2>2
<1>6. IsInjective(v)
  BY <1>1, <1>4, <1>5, JoinFacts
<1>7. IsInjective(p) /\ IsInjective(r) /\ ToSet(p) \intersect ToSet(r) = {}
  BY <1>1, <1>6, JoinFacts
<1>8. ToSet(p) \subseteq ToSet(was) /\ ToSet(r) \subseteq ToSet(was)
  BY <1>4
<1>9. IsInjective(o)
  BY <1>1, <1>7, <1>8, JoinFacts
<1>10. IsInjective(is)
  BY <1>1, <1>4, <1>7, <1>8, <1>9, JoinFacts
<1>11. ToSet(is) = (ToSet(was) \ ToSet(y)) \union ToSet(q)
  BY <1>4, <1>5
<1>12. /\ \A i \in 1..Len(x) : was[i] = x[i]
       /\ \A i \in 1..Len(w) : was[Len(x) + i] = w[i]
       /\ \A i \in 1..Len(y) : w[i] = y[i]
       /\ \A i \in 1..Len(z) : w[Len(y) + i] = z[i]
  <2>1. InTurn(x, w, was) /\ InTurn(y, z, w)
    BY <1>1, JoinFacts
  <2> QED BY <2>1, Zenon DEF InTurn
<1>13. /\ \A i \in 1..Len(o) : is[i] = o[i]
       /\ \A i \in 1..Len(r) : is[Len(o) + i] = r[i]
       /\ \A i \in 1..Len(p) : o[i] = p[i]
       /\ \A i \in 1..Len(q) : o[Len(p) + i] = q[i]
  <2>1. InTurn(o, r, is) /\ InTurn(p, q, o)
    BY <1>1, JoinFacts
  <2> QED BY <2>1, Zenon DEF InTurn
<1>14. /\ \A i \in 1..Len(x) : x[i] \in ToSet(x)
       /\ \A i \in 1..Len(y) : y[i] \in ToSet(y)
       /\ \A i \in 1..Len(z) : z[i] \in ToSet(z)
       /\ \A i \in 1..Len(p) : p[i] \in ToSet(p)
       /\ \A i \in 1..Len(q) : q[i] \in ToSet(q)
       /\ \A i \in 1..Len(r) : r[i] \in ToSet(r)
  BY <1>2 DEF ToSet
<1>15. DOMAIN was = 1..Len(was) /\ DOMAIN is = 1..Len(is)
  BY <1>2
<1> HIDE DEF Parts, Joins
<1>16. ASSUME NEW i \in 1..Len(was)
       PROVE  was[i] \notin ToSet(is) <=> i \in (Len(x) + 1)..(Len(x) + Len(y))
  <2>1. CASE i <= Len(x)
    <3>1. i \in 1..Len(x)
      BY <1>3, <2>1
    <3>2. was[i] = x[i] /\ x[i] \in ToSet(x)
      BY <1>12, <1>14, <3>1
    <3>3. was[i] \in ToSet(is)
      BY <1>4, <1>5, <1>11, <3>2
    <3> QED BY <1>3, <2>1, <3>3
  <2>2. CASE i > Len(x) /\ i <= Len(x) + Len(y)
    <3>1. i - Len(x) \in 1..Len(y) /\ i - Len(x) \in 1..Len(w) /\ Len(x) + (i - Len(x)) = i
      BY <1>3, <2>2
    <3>2. was[i] = y[i - Len(x)] /\ y[i - Len(x)] \in ToSet(y)
      BY <1>12, <1>14, <3>1
    <3>3. was[i] \in ToSet(was) /\ was[i] \notin ToSet(is)
      BY <1>4, <1>11, <3>2
    <3> QED BY <1>3, <2>2, <3>3
  <2>3. CASE i > Len(x) + Len(y)
    <3> DEFINE m == i - Len(x)
    <3>1. m \in 1..Len(w) /\ m - Len(y) \in 1..Len(z) /\ Len(x) + m = i /\ Len(y) + (m - Len(y)) = m
      BY <1>3, <2>3
    <3> HIDE DEF m
    <3>2. was[i] = w[m] /\ w[m] = z[m - Len(y)] /\ z[m - Len(y)] \in ToSet(z)
      BY <1>12, <1>14, <3>1
    <3>3. was[i] \in ToSet(is)
      BY <1>4, <1>5, <1>11, <3>2
    <3> QED BY <1>3, <2>3, <3>3
  <2> QED BY <1>3, <2>1, <2>2, <2>3
<1>17. ASSUME NEW i \in 1..Len(is)
       PROVE  is[i] \notin ToSet(was) <=> i \in (Len(p) + 1)..(Len(p) + Len(q))
  <2>1. CASE i <= Len(p)
    <3>1. i \in 1..Len(p) /\ i \in 1..Len(o)
      BY <1>3, <2>1
    <3>2. is[i] = p[i] /\ p[i] \in ToSet(p)
      BY <1>13, <1>14, <3>1
    <3>3. is[i] \in ToSet(was)
      BY <1>8, <3>2
    <3> QED BY <1>3, <2>1, <3>3
  <2>2. CASE i > Len(p) /\ i <= Len(p) + Len(q)
    <3>1. i - Len(p) \in 1..Len(q) /\ i \in 1..Len(o) /\ Len(p) + (i - Len(p)) = i
      BY <1>3, <2>2
    <3>2. is[i] = q[i - Len(p)] /\ q[i - Len(p)] \in ToSet(q)
      BY <1>13, <1>14, <3>1
    <3>3. is[i] \notin ToSet(was)
      BY <3>2
    <3> QED BY <1>3, <2>2, <3>3
  <2>3. CASE i > Len(p) + Len(q)
    <3>1. i - Len(o) \in 1..Len(r) /\ Len(o) + (i - Len(o)) = i
      BY <1>3, <2>3
    <3>2. is[i] = r[i - Len(o)] /\ r[i - Len(o)] \in ToSet(r)
      BY <1>13, <1>14, <3>1
    <3>3. is[i] \in ToSet(was)
      BY <1>8, <3>2
    <3> QED BY <1>3, <2>3, <3>3
  <2> QED BY <1>3, <2>1, <2>2, <2>3
<1>18. (Len(x) + 1)..(Len(x) + Len(y)) \subseteq 1..Len(was) /\ (Len(p) + 1)..(Len(p) + Len(q)) \subseteq 1..Len(is)
  <2>1. \A a, b, c \in Nat : (a + 1)..(a + b) \subseteq 1..(a + (b + c)) /\ (a + 1)..(a + b) \subseteq 1..((a + b) + c)
    OBVIOUS
  <2>2. (Len(x) + 1)..(Len(x) + Len(y)) \subseteq 1..(Len(x) + (Len(y) + Len(z)))
    BY <1>3, <2>1, Zenon
  <2>3. (Len(p) + 1)..(Len(p) + Len(q)) \subseteq 1..((Len(p) + Len(q)) + Len(r))
    BY <1>3, <2>1, Zenon
  <2> QED BY <1>3, <2>2, <2>3, Zenon
<1>19. {i \in 1..Len(was) : was[i] \notin ToSet(is)} = (Len(x) + 1)..(Len(x) + Len(y))
  BY <1>16, <1>18
<1>20. {i \in 1..Len(is) : is[i] \notin ToSet(was)} = (Len(p) + 1)..(Len(p) + Len(q))
  BY <1>17, <1>18
<1> QED BY <1>2, <1>3, <1>10, <1>11, <1>15, <1>19, <1>20

\* What the root holds after an update, it may hold.
LEMMA AfterHeld ==
  ASSUME NEW before, Held(Root, before), NEW item, Held(Root, item),
         NEW from \in 0..Len(before), NEW at \in 0..Len(before), NEW n \in Nat, from + n <= Len(before),
         at \in (0..from) \union ((from + n)..Len(before))
  PROVE  Held(Root, After(before, from, n, at, item))
<1>a. before \in Seq(Item) /\ item \in Seq(Item)
  BY DEF Held, Unsplit
<1>b. from \in Nat /\ at \in Nat /\ Len(before) \in Nat /\ Len(item) \in Nat
  BY <1>a
<1>1. CASE at <= from
  <2> DEFINE r == RemoveRange(before, from, n)
  <2>1. from + n \in 0..Len(before) /\ Whole(before, from) /\ Whole(before, from + n)
    <3>1. from + n \in 0..Len(before)
      BY <1>b
    <3> QED BY <1>a, <3>1, RootWhole
  <2>2. Held(Root, r)
    BY <1>a, <2>1, RemoveHeld
  <2>3. at \in 0..Len(r)
    <3> DEFINE x == SubSeq(before, 1, from)
               y == SubSeq(before, from + n + 1, Len(before))
    <3>1. x \in Seq(Item) /\ Len(x) = from /\ y \in Seq(Item)
      <4>1. from \in 0..Len(before)
        OBVIOUS
      <4>2. x \in Seq(Item) /\ Len(x) = from
        BY <1>a, <4>1, Cut
      <4>3. y \in Seq(Item)
        BY <1>a, <2>1, Cut
      <4> QED BY <4>2, <4>3
    <3>2. r = x \o y
      BY DEF RemoveRange
    <3> HIDE DEF x, y, r
    <3>3. Len(r) = Len(x) + Len(y)
      BY <3>1, <3>2, ConcatProperties
    <3>4. Len(y) \in Nat
      BY <3>1
    <3> QED BY <1>b, <1>1, <3>1, <3>3, <3>4
  <2> HIDE DEF r
  <2>4. Whole(r, at)
    BY <2>2, <2>3, RootWhole
  <2>5. Held(Root, Spliced(r, at, item))
    BY <2>2, <2>3, <2>4, SpliceHeld
  <2> QED BY <1>1, <2>5, Zenon DEF r, After
<1>2. CASE ~ (at <= from)
  <2> DEFINE r == Spliced(before, at, item)
  <2>1. at \in 0..Len(before)
    OBVIOUS
  <2>2. Whole(before, at)
    BY <1>a, <2>1, RootWhole
  <2>3. Held(Root, r)
    BY <1>a, <2>1, <2>2, SpliceHeld
  <2>4. Len(r) = Len(before) + Len(item)
    BY <1>a, <2>1, Splice
  <2> HIDE DEF r
  <2>5. from \in 0..Len(r) /\ from + n \in 0..Len(r) /\ from + n <= Len(r)
    BY <1>b, <2>4
  <2>6. Whole(r, from) /\ Whole(r, from + n)
    BY <2>3, <2>5, RootWhole
  <2>7. Held(Root, RemoveRange(r, from, n))
    BY <2>3, <2>5, <2>6, RemoveHeld
  <2> QED BY <1>2, <2>7, Zenon DEF r, After
<1> QED BY <1>1, <1>2

\* An update of the root's children, in parts.
LEMMA UpdateParts ==
  ASSUME NEW before \in Seq(Item), NEW item \in Seq(Item), NEW from \in 0..Len(before), NEW at \in 0..Len(before),
         NEW n \in Nat, from + n <= Len(before), at \in (0..from) \union ((from + n)..Len(before))
  PROVE  Divided(before, from, n, at, item, IF at <= from THEN at ELSE at - n)
<1>0. from \in Int /\ at \in Int
  OBVIOUS
<1>1. CASE at <= from
  <2>1. at \in 0..from
    BY <1>0, <1>1
  <2> QED BY <1>1, <2>1, UpdateBefore
<1>2. CASE ~ (at <= from)
  <2>1. at \in (from + n)..Len(before)
    BY <1>0, <1>2
  <2> QED BY <1>2, <2>1, UpdateBehind
<1> QED BY <1>1, <1>2

\* The same parts, of blocks.
LEMMA BlockParts ==
  ASSUME NEW before, NEW after, NEW item, NEW x, NEW y, NEW z, NEW w, NEW p, NEW r, NEW v, NEW o,
         Parts(Item, before, after, item, x, y, z, w, p, r, v, o)
  PROVE  LET E(s) == embedded_xml_texts(s)
         IN  Parts(Ids, E(before), E(after), E(item), E(x), E(y), E(z), E(w), E(p), E(r), E(v), E(o))
  BY BlocksJoin DEF Parts

\* An embed added to a block adds no block.
LEMMA EmbedAdded ==
  ASSUME NEW b, b # Root, NEW s, Held(b, s), Apart(s), NEW kind \in {"m", "e"}
  PROVE  LET t == Append(s, Unit(kind))
         IN  Held(b, t) /\ Apart(t) /\ ToSet(embedded_xml_texts(t)) = ToSet(embedded_xml_texts(s)) /\ t # s
<1> DEFINE u == <<Unit(kind)>>
           t == Append(s, Unit(kind))
<1>1. Unit(kind) \in Item /\ s \in Seq(Item)
  BY UnitIsItem DEF Kinds, Apart
<1>2. t = s \o u /\ Len(t) = Len(s) + 1 /\ Len(s) \in Nat
  BY <1>1
<1>3. Held(b, u)
  BY UnitHeld
<1>4. Apart(u) /\ ToSet(embedded_xml_texts(u)) = {}
  BY UnitsApart, EmbedUnits
<1> HIDE DEF u
<1>5. Held(b, s \o u)
  BY <1>3, HeldConcat
<1>6. Apart(s \o u) /\ ToSet(embedded_xml_texts(s \o u)) = ToSet(embedded_xml_texts(s))
  BY <1>4, JoinKeeps
<1>7. t # s
  BY <1>2
<1> QED BY <1>2, <1>5, <1>6, <1>7

\* What an update adds: at most one item, whose block is new.
Adds(item, t) ==
    /\ Held(Root, item) /\ Apart(item) /\ Len(item) <= 1
    /\ ToSet(embedded_xml_texts(item)) \subseteq Block \ Alive
    /\ t \in [Block -> Types \union {"none"}]
    /\ \A c \in Block \ ToSet(embedded_xml_texts(item)) : t[c] = type[c]
    /\ \A c \in ToSet(embedded_xml_texts(item)) : t[c] # "none"

\* The tree an update makes, before what is out of it is gone.
Updated(after, edited) ==
    [b \in DOMAIN kids |-> IF b = Root THEN after
                           ELSE IF b \in edited.blocks THEN Append(kids[b], Unit(edited.kind))
                           ELSE kids[b]]

\* The root of it.
LEMMA RootUpdated ==
  ASSUME TreeInvariant, NEW item, NEW t, Adds(item, t), NEW after,
         NEW x, NEW y, NEW z, NEW w, NEW p, NEW r, NEW v, NEW o,
         Parts(Item, kids[Root], after, item, x, y, z, w, p, r, v, o), Held(Root, after)
  PROVE  Grown([kids EXCEPT ![Root] = after], t)
<1> DEFINE E(s) == embedded_xml_texts(s)
           X == ToSet(E(item))
<1>1. Grown(kids, type) /\ Root \in Nodes /\ Root \notin Block /\ Apart(kids[Root]) /\ Apart(item)
  BY TreeFacts, XmlTextConstants DEF Adds
<1>2. X \in SUBSET Block /\ Root \notin X
  BY <1>1 DEF Adds
<1>3. \A c \in X : ChildrenOf(kids, c) = {} /\ \A b \in Nodes : c \notin ChildrenOf(kids, b)
  BY TreeFacts DEF Adds
<1>4. Parts(Ids, E(kids[Root]), E(after), E(item), E(x), E(y), E(z), E(w), E(p), E(r), E(v), E(o))
  BY BlockParts
<1>5. IsInjective(E(kids[Root])) /\ IsInjective(E(item)) /\ X \intersect ToSet(E(kids[Root])) = {}
  BY <1>1, <1>3 DEF Apart, ChildrenOf
<1>6. Keeps(kids[Root], after, X)
  <2>1. IsInjective(E(after)) /\ ToSet(E(after)) = (ToSet(E(kids[Root])) \ ToSet(E(y))) \union X
    BY <1>4, <1>5, PartsDiffer
  <2> QED BY <2>1 DEF Keeps
<1>7. t \in [Block -> Types \union {"none"}] /\ (\A c \in Block \ X : t[c] = type[c]) /\ \A c \in X : t[c] # "none"
  BY DEF Adds
<1> HIDE DEF X
<1> QED BY <1>1, <1>2, <1>3, <1>6, <1>7, Regrown

\* An update makes a tree.
LEMMA UpdateGrown ==
  ASSUME TreeInvariant, NEW item, NEW t, Adds(item, t), NEW after, NEW edited \in Edited,
         NEW x, NEW y, NEW z, NEW w, NEW p, NEW r, NEW v, NEW o,
         Parts(Item, kids[Root], after, item, x, y, z, w, p, r, v, o), Held(Root, after)
  PROVE  /\ Grown(Updated(after, edited), t)
         /\ \A b \in Nodes : ChildrenOf(Updated(after, edited), b)
                                = IF b = Root THEN ToSet(embedded_xml_texts(after)) ELSE ChildrenOf(kids, b)
<1> DEFINE j == [kids EXCEPT ![Root] = after]
<1>1. Grown(j, t)
  BY RootUpdated
<1>2. DOMAIN kids = Nodes /\ Root \in Nodes
  BY TreeFacts
<1>3. \A b \in Nodes : j[b] = IF b = Root THEN after ELSE kids[b]
  BY <1>2
<1>4. DOMAIN j = Nodes
  BY <1>2
<1>5. edited.blocks = {} \/ \E e \in Alive \ {Root} : edited.blocks = {e}
  BY DEF Edited
<1>6. edited.kind \in {"m", "e"}
  BY DEF Edited
<1>7. CASE edited.blocks = {}
  <2>1. Updated(after, edited) = j
    BY <1>7 DEF Updated
  <2>2. \A b \in Nodes : ChildrenOf(j, b) = IF b = Root THEN ToSet(embedded_xml_texts(after)) ELSE ChildrenOf(kids, b)
    BY <1>3 DEF ChildrenOf
  <2> QED BY <1>1, <2>1, <2>2
<1>8. ASSUME NEW e \in Alive \ {Root}, edited.blocks = {e}
      PROVE  /\ Grown(Updated(after, edited), t)
             /\ \A b \in Nodes : ChildrenOf(Updated(after, edited), b)
                                    = IF b = Root THEN ToSet(embedded_xml_texts(after)) ELSE ChildrenOf(kids, b)
  <2> DEFINE s == Append(kids[e], Unit(edited.kind))
             k == [j EXCEPT ![e] = s]
             X == {}
  <2>1. e \in Block /\ e \in Nodes /\ e # Root /\ Held(e, kids[e]) /\ Apart(kids[e])
    BY TreeFacts
  <2>2. j[e] = kids[e]
    BY <1>3, <2>1
  <2>3. Held(e, s) /\ Apart(s) /\ ToSet(embedded_xml_texts(s)) = ToSet(embedded_xml_texts(kids[e]))
    BY <1>6, <2>1, EmbedAdded
  <2>4. Keeps(j[e], s, X)
    BY <2>2, <2>3 DEF Keeps, Apart
  <2>5. X \in SUBSET Block /\ e \notin X /\ \A c \in X : FALSE
    OBVIOUS
  <2>6. t \in [Block -> Types \union {"none"}]
    BY DEF Adds
  <2>7. Updated(after, edited) = k
    BY <1>2, <1>8, <2>1 DEF Updated
  <2>8. \A b \in Nodes : k[b] = IF b = Root THEN after ELSE IF b = e THEN s ELSE kids[b]
    BY <1>2, <2>1
  <2> HIDE DEF j, s, X
  <2>9. Grown(k, t)
    BY <1>1, <2>1, <2>3, <2>4, <2>5, <2>6, Regrown
  <2> HIDE DEF k
  <2>10. ASSUME NEW b \in Nodes
         PROVE  ChildrenOf(k, b) = IF b = Root THEN ToSet(embedded_xml_texts(after)) ELSE ChildrenOf(kids, b)
    BY <2>1, <2>3, <2>8 DEF ChildrenOf
  <2> QED BY <2>7, <2>9, <2>10
<1> QED BY <1>5, <1>7, <1>8

\* A peer's update keeps a tree.
LEMMA UpdateGrows ==
  ASSUME TreeInvariant, NEW from \in 0..Len(kids[Root]), NEW at \in 0..Len(kids[Root]), NEW n \in Nat,
         from + n <= Len(kids[Root]), at \in (0..from) \union ((from + n)..Len(kids[Root])),
         NEW item, NEW t, Adds(item, t), NEW edited \in Edited,
         apply_update_changes(from, n, at, item, edited, t)
  PROVE  TreeInvariant'
<1> DEFINE before == kids[Root]
           after == After(before, from, n, at, item)
<1>1. Held(Root, before) /\ before \in Seq(Item) /\ Held(Root, item) /\ item \in Seq(Item)
  BY TreeFacts DEF Adds, XmlInvariant, Tree, Held, Unsplit
<1>2. Held(Root, after)
  BY <1>1, AfterHeld
<1>3. PICK x, y, z, w, p, r, v, o : Parts(Item, before, after, item, x, y, z, w, p, r, v, o)
  BY <1>1, UpdateParts DEF Divided
<1>4. Commit(Updated(after, edited), t)
  BY DEF apply_update_changes, Updated, After
<1> HIDE DEF after
<1>5. Grown(Updated(after, edited), t)
  BY <1>2, <1>3, UpdateGrown
<1> QED BY <1>4, <1>5, CommitGrown

\* What an update may add: nothing, a decorator or a paragraph.
LEMMA ItemsAdd ==
  ASSUME TreeInvariant
  PROVE  /\ Adds(<<>>, type) /\ Adds(<<Unit("e")>>, type)
         /\ \A new \in Fresh(Alive) : Adds(<<Embedded(new)>>, [type EXCEPT ![new] = "paragraph"])
<1>1. type \in [Block -> Types \union {"none"}]
  BY TreeFacts DEF Grown
<1>2. Adds(<<>>, type)
  <2> DEFINE e == <<>>
  <2>1. e \in Seq(Item) /\ DOMAIN e = {} /\ Len(e) <= 1
    OBVIOUS
  <2>2. Held(Root, e)
    BY HeldEmpty
  <2> HIDE DEF e
  <2>3. Apart(e) /\ ToSet(embedded_xml_texts(e)) = {}
    BY <2>1, UnitsApart
  <2>4. Adds(e, type)
    BY <1>1, <2>1, <2>2, <2>3 DEF Adds
  <2> QED BY <2>4 DEF e
<1>3. Adds(<<Unit("e")>>, type)
  <2> DEFINE e == <<Unit("e")>>
  <2>1. e \in Seq(Item) /\ (\A p \in DOMAIN e : ~ IsBlock(e[p])) /\ Len(e) <= 1
    BY EmbedUnits
  <2>2. Held(Root, e)
    BY UnitHeld
  <2> HIDE DEF e
  <2>3. Apart(e) /\ ToSet(embedded_xml_texts(e)) = {}
    BY <2>1, UnitsApart
  <2>4. Adds(e, type)
    BY <1>1, <2>1, <2>2, <2>3 DEF Adds
  <2> QED BY <2>4 DEF e
<1>4. ASSUME NEW new \in Fresh(Alive)
      PROVE  Adds(<<Embedded(new)>>, [type EXCEPT ![new] = "paragraph"])
  <2> DEFINE e == <<Embedded(new)>>
             t == [type EXCEPT ![new] = "paragraph"]
  <2>1. new \in Block /\ new \notin Alive /\ new \in Ids
    BY FreshIsBlock DEF Ids
  <2>2. Embedded(new) \in Item /\ IsBlock(Embedded(new)) /\ Embedded(new).id = new
    BY <2>1 DEF Embedded, IsBlock, Item, Kinds
  <2>3. e \in Seq(Item) /\ embedded_xml_texts(e) = <<new>> /\ Len(e) <= 1
    BY <2>2, OneBlock
  <2>4. IsInjective(<<new>>) /\ ToSet(<<new>>) = {new}
    BY DEF IsInjective, ToSet
  <2>5. Held(Root, e)
    BY <2>1, BlockHeld
  <2>6. "paragraph" \in Types /\ "paragraph" # "none"
    BY DEF Types, Holds
  <2>7. t \in [Block -> Types \union {"none"}] /\ t[new] = "paragraph" /\ \A c \in Block \ {new} : t[c] = type[c]
    BY <1>1, <2>1, <2>6
  <2> HIDE DEF e, t
  <2>8. Adds(e, t)
    BY <2>1, <2>3, <2>4, <2>5, <2>6, <2>7 DEF Adds, Apart
  <2> QED BY <2>8 DEF e, t
<1> QED BY <1>2, <1>3, <1>4

\* ApplyUpdateChanges is an update of what it adds.
LEMMA UpdateAdds ==
  ASSUME TreeInvariant, ApplyUpdateChanges
  PROVE  \E from \in 0..Len(kids[Root]), at \in 0..Len(kids[Root]), n \in Nat, edited \in Edited :
            /\ from + n <= Len(kids[Root])
            /\ at \in (0..from) \union ((from + n)..Len(kids[Root]))
            /\ \E item, t : Adds(item, t) /\ apply_update_changes(from, n, at, item, edited, t)
<1>1. PICK from \in 0..Len(kids[Root]), at \in 0..Len(kids[Root]), n \in 0..2, edited \in Edited :
         /\ from + n <= Len(kids[Root])
         /\ at \in (0..from) \union ((from + n)..Len(kids[Root]))
         /\ \/ apply_update_changes(from, n, at, <<>>, edited, type)
            \/ apply_update_changes(from, n, at, <<Unit("e")>>, edited, type)
            \/ \E new \in Fresh(Alive) :
                  apply_update_changes(from, n, at, <<Embedded(new)>>, edited,
                                       [type EXCEPT ![new] = "paragraph"])
  BY ZenonT(30) DEF ApplyUpdateChanges
<1>2. n \in Nat
  OBVIOUS
<1>3. \E item, t : Adds(item, t) /\ apply_update_changes(from, n, at, item, edited, t)
  BY <1>1, ItemsAdd, Zenon
<1> QED BY <1>1, <1>2, <1>3

\* A document starts as one empty root.
LEMMA TreeStart == Init => TreeInvariant
<1> SUFFICES ASSUME Init PROVE TreeInvariant
  OBVIOUS
<1> DEFINE e == <<>>
<1>1. XmlInvariant /\ kids = [b \in Nodes |-> e] /\ type = [b \in Block |-> "none"] /\ Root \in Nodes
  BY XmlStart DEF Init, Nodes
<1>2. e \in Seq(Item) /\ DOMAIN e = {}
  OBVIOUS
<1> HIDE DEF e
<1>3. Apart(e) /\ ToSet(embedded_xml_texts(e)) = {}
  BY <1>2, UnitsApart
<1>4. \A b \in Nodes : kids[b] = e /\ ChildrenOf(kids, b) = {} /\ IsInjective(embedded_xml_texts(kids[b]))
  BY <1>1, <1>3 DEF ChildrenOf, Apart
<1>5. OneParent(kids)
  BY <1>4 DEF OneParent
<1>6. Founded(kids)
  <2>1. [b \in Nodes |-> 0] \in [Nodes -> Nat]
    OBVIOUS
  <2> QED BY <1>4, <2>1 DEF Founded, Descends
<1>7. type \in [Block -> Types \union {"none"}] /\ \A b \in Block : type[b] = "none"
  BY <1>1
<1>8. Grown(kids, type)
  BY <1>1, <1>4, <1>5, <1>6, <1>7 DEF Grown, XmlInvariant
<1>9. Below(kids)[Root] = {Root}
  <2>1. DOMAIN kids = Nodes
    BY <1>1
  <2>2. Below(kids)[Root] = Reach(kids, Root)
    BY <1>1, <1>5, <1>6, <2>1, BelowIsReach
  <2>3. Reach(kids, Root) = {Root} \union UNION {Reach(kids, c) : c \in ChildrenOf(kids, Root)}
    BY <1>1, <1>5, ReachUnfolds
  <2> QED BY <1>1, <1>4, <2>2, <2>3
<1>10. {b \in Nodes : b # Root => type[b] # "none"} = {Root}
  BY <1>1, <1>7 DEF Nodes
<1>11. \A b \in Block : kids[b] = <<>>
  BY <1>4 DEF Nodes, e
<1> QED BY <1>8, <1>9, <1>10, <1>11 DEF TreeInvariant, Gone

\* Every step keeps it.
LEMMA TreeStep == TreeInvariant /\ [Next]_vars => TreeInvariant'
<1> SUFFICES ASSUME TreeInvariant, [Next]_vars PROVE TreeInvariant'
  OBVIOUS
<1>1. ASSUME NEW b \in Alive, NEW i \in WriteIndex,
             \/ \E c \in Chunks : insert(b, i, c)
             \/ insert_embed(b, i)
             \/ \E n \in 1..MaxIndex : delete(b, i, n)
             \/ delete_xml_text(b, i)
      PROVE  TreeInvariant'
  <2>1. i \in Int /\ \A n \in 1..MaxIndex : n \in Int
    BY XmlTextConstants DEF WriteIndex
  <2> QED BY <1>1, <2>1, HandleGrows
<1>2. ASSUME NEW b \in Alive, NEW i \in WriteIndex, NEW t \in Types \intersect Holds[TypeOf(b)],
             NEW new \in Fresh(Alive), NEW c \in Content(t), NEW d \in FreshIn(c, Alive \union {new}),
             insert_xml_text(b, i, t, c, new, d)
      PROVE  TreeInvariant'
  <2>1. i \in Int
    BY XmlTextConstants DEF WriteIndex
  <2> QED BY <1>2, <2>1, InsertBlockGrows
<1>3. ASSUME NEW b \in Alive, NEW c \in Chunks, append_text(b, c) PROVE TreeInvariant'
  <2>1. 0 \in Int
    OBVIOUS
  <2> QED BY <1>3, <2>1, HandleGrows
<1>4. ASSUME NEW b \in Alive, clear(b) PROVE TreeInvariant'
  <2>1. 0 \in Int
    OBVIOUS
  <2> QED BY <1>4, <2>1, HandleGrows
<1>5. ASSUME NEW b \in Alive \ {Root}, NEW emptied \in BOOLEAN, NEW c \in Content(type[b]),
             NEW d \in FreshIn(c, Alive), write_content(b, c, d, emptied)
      PROVE  TreeInvariant'
  BY <1>5, WriteContentGrows
<1>6. ASSUME ApplyUpdateChanges PROVE TreeInvariant'
  <2>1. PICK from \in 0..Len(kids[Root]), at \in 0..Len(kids[Root]), n \in Nat, edited \in Edited :
           /\ from + n <= Len(kids[Root])
           /\ at \in (0..from) \union ((from + n)..Len(kids[Root]))
           /\ \E item, t : Adds(item, t) /\ apply_update_changes(from, n, at, item, edited, t)
    BY <1>6, UpdateAdds
  <2> QED BY <2>1, UpdateGrows
<1>7. CASE UNCHANGED vars
  <2>1. kids' = kids /\ type' = type
    BY <1>7 DEF vars
  <2> QED BY <2>1 DEF TreeInvariant
<1>8. CASE Next
  <2>1. \/ \E b \in Alive, i \in WriteIndex :
              \/ \E c \in Chunks : insert(b, i, c)
              \/ insert_embed(b, i)
              \/ \E n \in 1..MaxIndex : delete(b, i, n)
              \/ delete_xml_text(b, i)
        \/ \E b \in Alive, i \in WriteIndex :
              \E t \in Types \intersect Holds[TypeOf(b)], new \in Fresh(Alive) :
                 \E c \in Content(t) : \E d \in FreshIn(c, Alive \union {new}) :
                    insert_xml_text(b, i, t, c, new, d)
        \/ \E b \in Alive, c \in Chunks : append_text(b, c)
        \/ \E b \in Alive : clear(b)
        \/ \E b \in Alive \ {Root}, emptied \in BOOLEAN :
              \E c \in Content(type[b]) : \E d \in FreshIn(c, Alive) : write_content(b, c, d, emptied)
        \/ ApplyUpdateChanges
    BY <1>8 DEF Next
  <2> QED BY <1>1, <1>2, <1>3, <1>4, <1>5, <1>6, <2>1
<1> QED BY <1>7, <1>8

\* Whatever is written and whatever a peer sends, a document stays a tree.
THEOREM TreeInvariantHolds == Spec => []TreeInvariant
<1> QED BY TreeStart, TreeStep, PTL DEF Spec

\* Through every write of every handle, and every peer's update, each block holds
\* whole characters, and the root's children take one unit each.
THEOREM XmlInvariantHolds == Spec => []XmlInvariant
<1> QED BY TreeInvariantHolds, TreeFacts, PTL

\* Whatever a handle's block holds, each edit of it is Ruby's own.
LEMMA TreeEdits == XmlInvariant => EditsAsRuby
<1> SUFFICES ASSUME XmlInvariant, NEW b \in Alive
             PROVE  TextEditsAsRuby(kids[b]) /\ BlockEditsAsRuby(kids[b])
  BY DEF EditsAsRuby
<1>1. kids[b] \in Seq(Item) /\ Paired(kids[b])
  BY AliveIn DEF Held, Unsplit
<1> QED BY <1>1, TextEdits, BlockEdits

\* Through every handle, at every index, insert, insert_embed, delete,
\* insert_xml_text, delete_xml_text and xml_text do what Ruby's String and Array
\* do.
THEOREM EditsAreRubys == Spec => []EditsAsRuby
<1> QED BY XmlInvariantHolds, TreeEdits, PTL

-----------------------------------------------------------------------------
(* The ordinals root_positions finds.                                       *)

\* Where its walk is: in the root as it was, in the root as it is now, and the
\* ordinals so far.
At(old, new, hits) == [old |-> old, new |-> new, hits |-> hits]

\* The walk over the entries of a delta leads from a to b.
Walks(delta, before, after, a, b) ==
    \E f : /\ DOMAIN f = 0..Len(delta)
           /\ f[0] = a /\ f[Len(delta)] = b
           /\ \A i \in 1..Len(delta) : f[i] = delta_entry(f[i - 1], delta[i], before, after)

\* The function root_positions makes.
IsWalk(f, delta, before, after) ==
    f = [i \in 0..Len(delta) |-> IF i = 0 THEN At(0, 0, {}) ELSE delta_entry(f[i - 1], delta[i], before, after)]

\* root_positions is what the walk ends with.
LEMMA WalkIs ==
  ASSUME NEW S, NEW delta \in Seq(S), NEW before, NEW after, NEW b, Walks(delta, before, after, At(0, 0, {}), b)
  PROVE  root_positions(delta, before, after) = b.hits
<1> DEFINE n == Len(delta)
           f == CHOOSE h : IsWalk(h, delta, before, after)
           start == At(0, 0, {})
           E(a, i) == delta_entry(a, delta[i], before, after)
<1>0. n \in Nat
  OBVIOUS
<1>1. PICK g : /\ DOMAIN g = 0..n /\ g[0] = start /\ g[n] = b
               /\ \A i \in 1..n : g[i] = E(g[i - 1], i)
  BY DEF Walks
<1>2. root_positions(delta, before, after) = f[n].hits
  BY DEF root_positions, IsWalk, At
<1> DEFINE h == [i \in 0..n |-> g[i]]
<1> HIDE DEF E, start, n
<1>3. h = [i \in 0..n |-> IF i = 0 THEN start ELSE E(h[i - 1], i)]
  <2>1. ASSUME NEW i \in 0..n PROVE g[i] = IF i = 0 THEN start ELSE E(h[i - 1], i)
    <3>1. CASE i = 0
      BY <1>1, <3>1
    <3>2. CASE i # 0
      <4>1. i \in 1..n /\ i - 1 \in 0..n
        BY <1>0, <3>2
      <4>2. h[i - 1] = g[i - 1]
        BY <4>1
      <4> QED BY <1>1, <3>2, <4>1, <4>2
    <3> QED BY <3>1, <3>2
  <2> HIDE DEF h
  <2>2. \A i \in 0..n : h[i] = g[i]
    BY DEF h
  <2>3. h = [i \in 0..n |-> h[i]]
    BY DEF h
  <2> QED BY <2>1, <2>2, <2>3
<1>4. IsWalk(f, delta, before, after)
  <2>1. IsWalk(h, delta, before, after)
    <3> HIDE DEF h
    <3> QED BY <1>3 DEF IsWalk, E, start, n
  <2> HIDE DEF h
  <2> QED BY <2>1
<1> HIDE DEF f, h
<1>5. f = [i \in 0..n |-> IF i = 0 THEN start ELSE E(f[i - 1], i)]
  BY <1>4 DEF IsWalk, E, start, n
<1>6. f[0] = start /\ \A i \in 1..n : f[i] = E(f[i - 1], i)
  <2>1. \A i \in 0..n : f[i] = IF i = 0 THEN start ELSE E(f[i - 1], i)
    BY <1>5
  <2>2. \A i \in 1..n : i \in 0..n /\ i # 0
    BY <1>0
  <2>3. f[0] = start
    BY <1>0, <2>1
  <2> QED BY <2>1, <2>2, <2>3
<1> DEFINE T == {i \in Nat : i <= n => f[i] = g[i]}
<1>7. 0 \in T
  BY <1>1, <1>6
<1>8. ASSUME NEW i \in Nat, i \in T PROVE i + 1 \in T
  <2> SUFFICES ASSUME i + 1 <= n PROVE f[i + 1] = g[i + 1]
    OBVIOUS
  <2>1. f[i] = g[i] /\ i + 1 \in 1..n /\ (i + 1) - 1 = i
    BY <1>0, <1>8
  <2> QED BY <2>1, <1>1, <1>6
<1>9. Nat \subseteq T
  <2> HIDE DEF T
  <2> QED BY <1>7, <1>8, NatSetInduction
<1>10. f[n] = b
  BY <1>0, <1>1, <1>9
<1> QED BY <1>2, <1>10 DEF n

\* No entry leads nowhere, one to where its event does.
LEMMA WalkShort ==
  ASSUME NEW before, NEW after, NEW a
  PROVE  /\ Walks(<<>>, before, after, a, a)
         /\ \A d : Walks(<<d>>, before, after, a, delta_entry(a, d, before, after))
<1>1. Walks(<<>>, before, after, a, a)
  <2> DEFINE e == <<>>
             f == [i \in 0..0 |-> a]
  <2>1. Len(e) = 0 /\ DOMAIN f = 0..0 /\ f[0] = a /\ \A i \in 1..0 : FALSE
    OBVIOUS
  <2> HIDE DEF e, f
  <2>2. Walks(e, before, after, a, a)
    BY <2>1 DEF Walks
  <2> QED BY <2>2 DEF e
<1>2. ASSUME NEW d PROVE Walks(<<d>>, before, after, a, delta_entry(a, d, before, after))
  <2> DEFINE e == <<d>>
             b == delta_entry(a, d, before, after)
             f == [i \in 0..1 |-> IF i = 0 THEN a ELSE b]
  <2>1. Len(e) = 1 /\ e[1] = d
    OBVIOUS
  <2>2. DOMAIN f = 0..1 /\ f[0] = a /\ f[1] = b
    <3> HIDE DEF b
    <3> QED OBVIOUS
  <2>3. \A i \in 1..1 : i = 1 /\ i - 1 = 0
    OBVIOUS
  <2> HIDE DEF e, f
  <2>4. \A i \in 1..1 : f[i] = delta_entry(f[i - 1], e[i], before, after)
    BY <2>1, <2>2, <2>3 DEF b
  <2> HIDE DEF b
  <2>5. Walks(e, before, after, a, b)
    BY <2>1, <2>2, <2>4 DEF Walks
  <2> QED BY <2>5 DEF e, b
<1> QED BY <1>1, <1>2

\* Two walks in a row are one.
LEMMA WalkJoin ==
  ASSUME NEW S, NEW d1 \in Seq(S), NEW d2 \in Seq(S), NEW before, NEW after, NEW a, NEW b, NEW c,
         Walks(d1, before, after, a, b), Walks(d2, before, after, b, c)
  PROVE  Walks(d1 \o d2, before, after, a, c)
<1> DEFINE n == Len(d1)
           m == Len(d2)
           r == d1 \o d2
<1>1. n \in Nat /\ m \in Nat /\ Len(r) = n + m
  BY ConcatProperties
<1>2. (\A i \in 1..n : r[i] = d1[i]) /\ (\A i \in 1..m : r[n + i] = d2[i])
  BY ConcatParts
<1>3. PICK f : /\ DOMAIN f = 0..n /\ f[0] = a /\ f[n] = b
               /\ \A i \in 1..n : f[i] = delta_entry(f[i - 1], d1[i], before, after)
  BY DEF Walks
<1>4. PICK g : /\ DOMAIN g = 0..m /\ g[0] = b /\ g[m] = c
               /\ \A i \in 1..m : g[i] = delta_entry(g[i - 1], d2[i], before, after)
  BY DEF Walks
<1> HIDE DEF n, m, r
<1> DEFINE h == [i \in 0..(n + m) |-> IF i <= n THEN f[i] ELSE g[i - n]]
<1>5. DOMAIN h = 0..(n + m) /\ h[0] = a
  BY <1>1, <1>3
<1>6. h[n + m] = c
  <2>1. CASE m = 0
    BY <1>1, <1>3, <1>4, <2>1
  <2>2. CASE m # 0
    BY <1>1, <1>4, <2>2
  <2> QED BY <2>1, <2>2
<1>7. ASSUME NEW i \in 1..(n + m) PROVE h[i] = delta_entry(h[i - 1], r[i], before, after)
  <2>1. CASE i <= n
    <3>1. i \in 1..n /\ i \in 0..(n + m) /\ i - 1 \in 0..(n + m) /\ i - 1 <= n
      BY <1>1, <2>1
    <3>2. h[i] = f[i] /\ h[i - 1] = f[i - 1]
      BY <2>1, <3>1
    <3> HIDE DEF h
    <3> QED BY <1>2, <1>3, <3>1, <3>2
  <2>2. CASE ~ (i <= n)
    <3>1. i - n \in 1..m /\ i \in 0..(n + m) /\ i - 1 \in 0..(n + m) /\ n + (i - n) = i /\ (i - 1) - n = (i - n) - 1
      BY <1>1, <2>2
    <3>2. h[i] = g[i - n]
      BY <2>2, <3>1
    <3>3. h[i - 1] = g[(i - n) - 1]
      <4>1. CASE i - 1 <= n
        <5>1. i - 1 = n /\ (i - n) - 1 = 0
          BY <1>1, <2>2, <4>1
        <5> QED BY <1>1, <1>3, <1>4, <3>1, <5>1
      <4>2. CASE ~ (i - 1 <= n)
        BY <3>1, <4>2
      <4> QED BY <4>1, <4>2
    <3>4. r[i] = d2[i - n]
      BY <1>2, <3>1
    <3> HIDE DEF h
    <3> QED BY <1>4, <3>1, <3>2, <3>3, <3>4
  <2> QED BY <2>1, <2>2
<1> HIDE DEF h
<1>8. Walks(r, before, after, a, c)
  BY <1>1, <1>5, <1>6, <1>7 DEF Walks
<1> QED BY <1>8 DEF r

\* The entries of a delta.
Entries == [op : {"retain", "deleted"}, n : Nat] \union [op : {"insert"}, item : Item]

\* The three parts Delta is made of.
Retain(m) == IF m > 0 THEN <<[op |-> "retain", n |-> m]>> ELSE <<>>

Removal(n) == IF n > 0 THEN <<[op |-> "deleted", n |-> n]>> ELSE <<>>

Insertion(item) == IF item = <<>> THEN <<>> ELSE <<[op |-> "insert", item |-> Head(item)]>>

\* The ordinals of what is removed, and of what is inserted.
Lost(before, from, n) == ordinal(before, from)..(ordinal(before, from) + blocks_in(before, from, from + n) - 1)

Got(after, item, at) == IF item # <<>> /\ IsBlock(Head(item)) THEN {ordinal(after, at)} ELSE {}

\* A part that is empty, and one that is an entry.
LEMMA WalkPart ==
  ASSUME NEW before, NEW after, NEW a
  PROVE  /\ <<>> \in Seq(Entries) /\ Walks(<<>>, before, after, a, a)
         /\ \A d \in Entries : \A b : delta_entry(a, d, before, after) = b
                                     => <<d>> \in Seq(Entries) /\ Walks(<<d>>, before, after, a, b)
<1>1. <<>> \in Seq(Entries)
  OBVIOUS
<1>2. ASSUME NEW d \in Entries PROVE <<d>> \in Seq(Entries)
  OBVIOUS
<1>3. Walks(<<>>, before, after, a, a) /\ \A d : Walks(<<d>>, before, after, a, delta_entry(a, d, before, after))
  BY WalkShort, Zenon
<1>4. ASSUME NEW d \in Entries, NEW b, delta_entry(a, d, before, after) = b
      PROVE  <<d>> \in Seq(Entries) /\ Walks(<<d>>, before, after, a, b)
  BY <1>2, <1>3, <1>4, Zenon
<1> QED BY <1>1, <1>3, <1>4, Zenon

\* A retain moves on in both.
LEMMA WalkRetain ==
  ASSUME NEW before, NEW after, NEW old \in Nat, NEW new \in Nat, NEW hits, NEW m \in Nat
  PROVE  /\ Retain(m) \in Seq(Entries)
         /\ Walks(Retain(m), before, after, At(old, new, hits), At(old + m, new + m, hits))
<1> DEFINE d == [op |-> "retain", n |-> m]
           a == At(old, new, hits)
<1>1. CASE m = 0
  <2>1. Retain(m) = <<>> /\ At(old + m, new + m, hits) = a
    BY <1>1 DEF Retain
  <2> HIDE DEF a
  <2>2. <<>> \in Seq(Entries) /\ Walks(<<>>, before, after, a, a)
    BY WalkPart, Zenon
  <2> QED BY <2>1, <2>2, Zenon DEF a
<1>2. CASE m # 0
  <2>1. Retain(m) = <<d>>
    BY <1>2 DEF Retain
  <2>2. d \in Entries
    BY DEF Entries
  <2>3. delta_entry(a, d, before, after) = At(old + m, new + m, hits)
    BY DEF delta_entry, At
  <2> HIDE DEF d, a
  <2>4. <<d>> \in Seq(Entries) /\ Walks(<<d>>, before, after, a, At(old + m, new + m, hits))
    BY <2>2, <2>3, WalkPart, Zenon
  <2> QED BY <2>1, <2>4, Zenon DEF a
<1> QED BY <1>1, <1>2

\* A removal moves on in the root as it was.
LEMMA WalkRemoval ==
  ASSUME NEW before \in Seq(Item), NEW after, NEW old \in Nat, NEW new \in Nat, NEW hits, NEW n \in Nat, old <= Len(before)
  PROVE  /\ Removal(n) \in Seq(Entries)
         /\ Walks(Removal(n), before, after, At(old, new, hits), At(old + n, new, hits \union Lost(before, old, n)))
<1> DEFINE d == [op |-> "deleted", n |-> n]
           a == At(old, new, hits)
<1>1. CASE n = 0
  <2>0. old \in 0..Len(before)
    OBVIOUS
  <2>1. blocks_in(before, old, old + n) = 0 /\ ordinal(before, old) \in Nat
    <3>1. SubSeq(before, old + 1, old + n) = <<>>
      BY <1>1
    <3>2. Len(embedded_xml_texts(<<>>)) = 0
      <4> DEFINE e == <<>>
      <4>1. e \in Seq(Item) /\ DOMAIN e = {}
        OBVIOUS
      <4> HIDE DEF e
      <4>2. embedded_xml_texts(e) = <<>>
        BY <4>1, NoBlocks
      <4> QED BY <4>2 DEF e
    <3>3. SubSeq(before, 1, old) \in Seq(Item)
      BY <2>0, Cut
    <3>4. embedded_xml_texts(SubSeq(before, 1, old)) \in Seq(Ids)
      BY <3>3, BlocksAre
    <3>5. Len(embedded_xml_texts(SubSeq(before, 1, old))) \in Nat
      BY <3>4
    <3> QED BY <3>1, <3>2, <3>5 DEF blocks_in, ordinal
  <2>2. Lost(before, old, n) = {}
    BY <2>1 DEF Lost
  <2>3. Removal(n) = <<>> /\ At(old + n, new, hits \union Lost(before, old, n)) = a
    <3>1. old + n = old /\ hits \union Lost(before, old, n) = hits
      BY <1>1, <2>2
    <3>2. Removal(n) = <<>>
      <4>1. ~ (n > 0)
        BY <1>1
      <4> QED BY <4>1, Zenon DEF Removal
    <3> QED BY <3>1, <3>2, Zenon
  <2> HIDE DEF a
  <2>4. <<>> \in Seq(Entries) /\ Walks(<<>>, before, after, a, a)
    BY WalkPart, Zenon
  <2> QED BY <2>3, <2>4, Zenon DEF a
<1>2. CASE n # 0
  <2>1. Removal(n) = <<d>>
    BY <1>2 DEF Removal
  <2>2. d \in Entries
    BY DEF Entries
  <2>3. delta_entry(a, d, before, after) = At(old + n, new, hits \union Lost(before, old, n))
    BY DEF delta_entry, At, Lost
  <2> HIDE DEF d, a
  <2>4. <<d>> \in Seq(Entries) /\ Walks(<<d>>, before, after, a, At(old + n, new, hits \union Lost(before, old, n)))
    BY <2>2, <2>3, WalkPart, Zenon
  <2> QED BY <2>1, <2>4, Zenon DEF a
<1> QED BY <1>1, <1>2

\* An insertion moves on in the root as it is now.
LEMMA WalkInsertion ==
  ASSUME NEW before, NEW after, NEW old \in Nat, NEW new \in Nat, NEW hits, NEW item \in Seq(Item), Len(item) <= 1
  PROVE  /\ Insertion(item) \in Seq(Entries)
         /\ Walks(Insertion(item), before, after, At(old, new, hits),
                  At(old, new + Len(item), hits \union Got(after, item, new)))
<1> DEFINE d == [op |-> "insert", item |-> Head(item)]
           a == At(old, new, hits)
<1>1. CASE item = <<>>
  <2>1. Insertion(item) = <<>> /\ At(old, new + Len(item), hits \union Got(after, item, new)) = a
    BY <1>1 DEF Insertion, Got
  <2> HIDE DEF a
  <2>2. <<>> \in Seq(Entries) /\ Walks(<<>>, before, after, a, a)
    BY WalkPart, Zenon
  <2> QED BY <2>1, <2>2, Zenon DEF a
<1>2. CASE item # <<>>
  <2>0. Len(item) = 1 /\ Head(item) \in Item
    <3>1. Len(item) \in Nat /\ Len(item) # 0
      BY <1>2
    <3> DEFINE l == Len(item)
    <3>2. l \in Nat /\ l # 0 /\ l <= 1
      BY <3>1
    <3> HIDE DEF l
    <3>3. l = 1
      BY <3>2
    <3>4. Head(item) \in Item
      BY <1>2
    <3> QED BY <3>3, <3>4 DEF l
  <2>1. Insertion(item) = <<d>>
    BY <1>2 DEF Insertion
  <2>2. d \in Entries
    BY <2>0 DEF Entries
  <2>3. delta_entry(a, d, before, after) = At(old, new + Len(item), hits \union Got(after, item, new))
    BY <1>2, <2>0 DEF delta_entry, At, Got
  <2> HIDE DEF d, a
  <2>4. <<d>> \in Seq(Entries) /\ Walks(<<d>>, before, after, a, At(old, new + Len(item), hits \union Got(after, item, new)))
    BY <2>2, <2>3, WalkPart, Zenon
  <2> QED BY <2>1, <2>4, Zenon DEF a
<1> QED BY <1>1, <1>2

\* The ordinals of an update's event on the root.
LEMMA UpdatePositions ==
  ASSUME NEW before \in Seq(Item), NEW after, NEW item \in Seq(Item), Len(item) <= 1,
         NEW from \in 0..Len(before), NEW at \in 0..Len(before), NEW n \in Nat, from + n <= Len(before),
         at \in (0..from) \union ((from + n)..Len(before))
  PROVE  root_positions(Delta(from, n, at, item), before, after)
            = Lost(before, from, n) \union Got(after, item, IF at <= from THEN at ELSE at - n)
<1> DEFINE W(d, a, b) == Walks(d, before, after, a, b)
<1>0. from \in Nat /\ at \in Nat /\ Len(before) \in Nat /\ Len(item) \in Nat /\ from <= Len(before)
  OBVIOUS
<1>1. CASE at <= from
  <2> DEFINE d1 == Retain(at)
             d2 == Insertion(item)
             d3 == Retain(from - at)
             d4 == Removal(n)
             G == {} \union Got(after, item, at)
             a0 == At(0, 0, {})
             a1 == At(0 + at, 0 + at, {})
             a2 == At(0 + at, 0 + at + Len(item), G)
             a3 == At(from, at + Len(item) + (from - at), G)
             a4 == At(from + n, at + Len(item) + (from - at), G \union Lost(before, from, n))
  <2>1. from - at \in Nat /\ at + Len(item) \in Nat /\ at + Len(item) + (from - at) \in Nat
    BY <1>0, <1>1
  <2>2. d1 \in Seq(Entries) /\ W(d1, a0, a1)
    BY <1>0, WalkRetain
  <2>3. d2 \in Seq(Entries) /\ W(d2, a1, a2)
    BY <1>0, WalkInsertion
  <2>4. d3 \in Seq(Entries) /\ W(d3, a2, a3)
    <3>1. 0 + at = at /\ at + (from - at) = from
      BY <1>0
    <3> HIDE DEF G
    <3>2. Walks(d3, before, after, At(at, at + Len(item), G), At(at + (from - at), at + Len(item) + (from - at), G))
      BY <1>0, <2>1, WalkRetain
    <3> QED BY <2>1, <3>1, <3>2, WalkRetain
  <2>5. d4 \in Seq(Entries) /\ W(d4, a3, a4)
    <3> HIDE DEF G
    <3> QED BY <1>0, <2>1, WalkRemoval
  <2>6. Delta(from, n, at, item) = ((d1 \o d2) \o d3) \o d4
    BY <1>1 DEF Delta, Retain, Insertion, Removal
  <2>7. a4.hits = Lost(before, from, n) \union Got(after, item, at)
    BY DEF At
  <2>8. (IF at <= from THEN at ELSE at - n) = at
    BY <1>1
  <2> HIDE DEF d1, d2, d3, d4, a1, a2, a3, a4, W, G
  <2>9. d1 \o d2 \in Seq(Entries) /\ W(d1 \o d2, a0, a2)
    BY <2>2, <2>3, WalkJoin, ConcatProperties DEF W
  <2>10. (d1 \o d2) \o d3 \in Seq(Entries) /\ W((d1 \o d2) \o d3, a0, a3)
    <3> DEFINE e == d1 \o d2
    <3>1. e \in Seq(Entries) /\ W(e, a0, a2)
      BY <2>9
    <3> HIDE DEF e
    <3>2. e \o d3 \in Seq(Entries) /\ W(e \o d3, a0, a3)
      BY <2>4, <3>1, WalkJoin, ConcatProperties DEF W
    <3> QED BY <3>2 DEF e
  <2>11. ((d1 \o d2) \o d3) \o d4 \in Seq(Entries) /\ W(((d1 \o d2) \o d3) \o d4, a0, a4)
    <3> DEFINE e == (d1 \o d2) \o d3
    <3>1. e \in Seq(Entries) /\ W(e, a0, a3)
      BY <2>10
    <3> HIDE DEF e
    <3>2. e \o d4 \in Seq(Entries) /\ W(e \o d4, a0, a4)
      BY <2>5, <3>1, WalkJoin, ConcatProperties DEF W
    <3> QED BY <3>2 DEF e
  <2> DEFINE d == ((d1 \o d2) \o d3) \o d4
  <2>12. d \in Seq(Entries) /\ W(d, a0, a4)
    BY <2>11
  <2> HIDE DEF d
  <2>13. root_positions(d, before, after) = a4.hits
    BY <2>12, WalkIs DEF W
  <2> QED BY <2>6, <2>7, <2>8, <2>13 DEF d
<1>2. CASE ~ (at <= from)
  <2> DEFINE m == at - from - n
             d1 == Retain(from)
             d2 == Removal(n)
             d3 == Retain(m)
             d4 == Insertion(item)
             G == {} \union Lost(before, from, n)
             a0 == At(0, 0, {})
             a1 == At(from, from, {})
             a2 == At(from + n, from, G)
             a3 == At(from + n + m, from + m, G)
             a4 == At(from + n + m, from + m + Len(item), G \union Got(after, item, from + m))
  <2>1. m \in Nat /\ from + n \in Nat /\ from + m \in Nat /\ from + n + m \in Nat /\ from + m = at - n
    BY <1>0, <1>2
  <2>2. d1 \in Seq(Entries) /\ W(d1, a0, a1)
    <3>1. Walks(d1, before, after, At(0, 0, {}), At(0 + from, 0 + from, {}))
      BY <1>0, WalkRetain
    <3>2. 0 + from = from
      BY <1>0
    <3> QED BY <1>0, <3>1, <3>2, WalkRetain
  <2> HIDE DEF m
  <2>3. d2 \in Seq(Entries) /\ W(d2, a1, a2)
    BY <1>0, WalkRemoval
  <2>4. d3 \in Seq(Entries) /\ W(d3, a2, a3)
    <3> HIDE DEF G
    <3> QED BY <1>0, <2>1, WalkRetain
  <2>5. d4 \in Seq(Entries) /\ W(d4, a3, a4)
    <3> HIDE DEF G
    <3> QED BY <1>0, <2>1, WalkInsertion
  <2>6. Delta(from, n, at, item) = ((d1 \o d2) \o d3) \o d4
    BY <1>2 DEF Delta, Retain, Insertion, Removal, m
  <2>7. a4.hits = Lost(before, from, n) \union Got(after, item, at - n)
    BY <2>1 DEF At
  <2>8. (IF at <= from THEN at ELSE at - n) = at - n
    BY <1>2
  <2> HIDE DEF d1, d2, d3, d4, a1, a2, a3, a4, W, G
  <2>9. d1 \o d2 \in Seq(Entries) /\ W(d1 \o d2, a0, a2)
    BY <2>2, <2>3, WalkJoin, ConcatProperties DEF W
  <2>10. (d1 \o d2) \o d3 \in Seq(Entries) /\ W((d1 \o d2) \o d3, a0, a3)
    <3> DEFINE e == d1 \o d2
    <3>1. e \in Seq(Entries) /\ W(e, a0, a2)
      BY <2>9
    <3> HIDE DEF e
    <3>2. e \o d3 \in Seq(Entries) /\ W(e \o d3, a0, a3)
      BY <2>4, <3>1, WalkJoin, ConcatProperties DEF W
    <3> QED BY <3>2 DEF e
  <2>11. ((d1 \o d2) \o d3) \o d4 \in Seq(Entries) /\ W(((d1 \o d2) \o d3) \o d4, a0, a4)
    <3> DEFINE e == (d1 \o d2) \o d3
    <3>1. e \in Seq(Entries) /\ W(e, a0, a3)
      BY <2>10
    <3> HIDE DEF e
    <3>2. e \o d4 \in Seq(Entries) /\ W(e \o d4, a0, a4)
      BY <2>5, <3>1, WalkJoin, ConcatProperties DEF W
    <3> QED BY <3>2 DEF e
  <2> DEFINE d == ((d1 \o d2) \o d3) \o d4
  <2>12. d \in Seq(Entries) /\ W(d, a0, a4)
    BY <2>11
  <2> HIDE DEF d
  <2>13. root_positions(d, before, after) = a4.hits
    BY <2>12, WalkIs DEF W
  <2> QED BY <2>6, <2>7, <2>8, <2>13 DEF d
<1> QED BY <1>1, <1>2

\* What stands in the middle of a sequence.
LEMMA MiddleCut ==
  ASSUME NEW S, NEW x, NEW y, NEW z, NEW w, NEW s, Joins(S, x, w, s), Joins(S, y, z, w)
  PROVE  SubSeq(s, Len(x) + 1, Len(x) + Len(y)) = y
<1> DEFINE a == Len(x)
           n == Len(y)
           t == SubSeq(s, a + 1, a + n)
<1>1. /\ a \in Nat /\ n \in Nat /\ s \in Seq(S) /\ y \in Seq(S) /\ Len(s) = a + Len(w) /\ InTurn(x, w, s)
  BY JoinFacts
<1>2. Len(w) = n + Len(z) /\ Len(z) \in Nat /\ InTurn(y, z, w)
  BY JoinFacts
<1>3. t \in Seq(S) /\ Len(t) = n /\ \A i \in 1..n : t[i] = s[a + i]
  <2>1. a + n <= Len(s)
    BY <1>1, <1>2
  <2> HIDE DEF a, n
  <2> QED BY <1>1, <2>1
<1> HIDE DEF t
<1>4. \A i \in 1..n : i \in 1..Len(w)
  BY <1>1, <1>2
<1>5. (\A i \in 1..Len(w) : s[a + i] = w[i]) /\ \A i \in 1..n : w[i] = y[i]
  BY <1>1, <1>2, Zenon DEF InTurn
<1>6. \A i \in 1..Len(t) : t[i] = y[i]
  BY <1>3, <1>4, <1>5
<1> HIDE DEF n
<1>7. t = y
  BY <1>1, <1>3, <1>6, SeqEqual DEF n
<1> QED BY <1>7 DEF t, n

\* The blocks there.
LEMMA MiddleBlocks ==
  ASSUME NEW x, NEW y, NEW z, NEW w, NEW s, Joins(Item, x, w, s), Joins(Item, y, z, w)
  PROVE  blocks_in(s, Len(x), Len(x) + Len(y)) = Len(embedded_xml_texts(y))
<1>1. SubSeq(s, Len(x) + 1, Len(x) + Len(y)) = y
  BY MiddleCut
<1> QED BY <1>1, Zenon DEF blocks_in

\* The blocks of one item.
LEMMA OneAtMost ==
  ASSUME NEW item \in Seq(Item), Len(item) <= 1
  PROVE  Len(embedded_xml_texts(item)) = IF item # <<>> /\ IsBlock(Head(item)) THEN 1 ELSE 0
<1>1. CASE item = <<>>
  <2>1. DOMAIN item = {}
    BY <1>1
  <2>2. embedded_xml_texts(item) = <<>>
    BY <2>1, NoBlocks
  <2> QED BY <1>1, <2>2
<1>2. CASE item # <<>>
  <2> DEFINE l == Len(item)
             x == item[1]
  <2>1. l \in Nat /\ l # 0 /\ l <= 1
    BY <1>2
  <2> HIDE DEF l
  <2>2. l = 1
    BY <2>1
  <2>3. x \in Item /\ Head(item) = x /\ item = <<x>> /\ DOMAIN item = 1..1
    BY <1>2, <2>2 DEF l
  <2>4. CASE IsBlock(x)
    <3> HIDE DEF x
    <3>1. embedded_xml_texts(<<x>>) = <<x.id>>
      BY <2>3, <2>4, OneBlock
    <3> QED BY <1>2, <2>3, <2>4, <3>1
  <2>5. CASE ~ IsBlock(x)
    <3>1. \A p \in DOMAIN item : ~ IsBlock(item[p])
      BY <2>3, <2>5
    <3>2. embedded_xml_texts(item) = <<>>
      BY <3>1, NoBlocks
    <3> QED BY <1>2, <2>3, <2>5, <3>2
  <2> QED BY <2>4, <2>5
<1> QED BY <1>1, <1>2

\* How many blocks come before what an update takes out, how many are in it, and
\* how many come before what it puts in.
LEMMA PartOrdinals ==
  ASSUME NEW before, NEW after, NEW item, NEW x, NEW y, NEW z, NEW w, NEW p, NEW r, NEW v, NEW o,
         Parts(Item, before, after, item, x, y, z, w, p, r, v, o)
  PROVE  /\ ordinal(before, Len(x)) = Len(embedded_xml_texts(x))
         /\ blocks_in(before, Len(x), Len(x) + Len(y)) = Len(embedded_xml_texts(y))
         /\ ordinal(after, Len(p)) = Len(embedded_xml_texts(p))
         /\ p \in Seq(Item)
<1>1. /\ Joins(Item, x, w, before) /\ Joins(Item, y, z, w)
      /\ Joins(Item, p, item, o) /\ Joins(Item, o, r, after)
  BY DEF Parts
<1>2. ordinal(before, Len(x)) = Len(embedded_xml_texts(x))
  <2>1. SubSeq(before, 1, Len(x)) = x
    BY <1>1, JoinCut
  <2> QED BY <2>1 DEF ordinal
<1>3. blocks_in(before, Len(x), Len(x) + Len(y)) = Len(embedded_xml_texts(y))
  BY <1>1, MiddleBlocks
<1>4. ordinal(after, Len(p)) = Len(embedded_xml_texts(p))
  <2> DEFINE u == item \o r
  <2>1. Joins(Item, item, r, u)
    BY <1>1 DEF Joins
  <2> HIDE DEF u
  <2>2. Joins(Item, p, u, after)
    BY <1>1, <2>1, JoinRegroup
  <2>3. SubSeq(after, 1, Len(p)) = p
    BY <2>2, JoinCut
  <2> QED BY <2>3 DEF ordinal
<1>5. p \in Seq(Item)
  BY <1>1 DEF Joins
<1> QED BY <1>2, <1>3, <1>4, <1>5

\* The ordinals of the blocks an update takes out and puts in.
LEMMA RootReport ==
  ASSUME NEW before, NEW after, NEW item, NEW x, NEW y, NEW z, NEW w, NEW p, NEW r, NEW v, NEW o,
         Parts(Item, before, after, item, x, y, z, w, p, r, v, o), Len(item) <= 1
  PROVE  LET E(s) == Len(embedded_xml_texts(s))
         IN  /\ Lost(before, Len(x), Len(y)) = E(x)..(E(x) + E(y) - 1)
             /\ Got(after, item, Len(p)) = E(p)..(E(p) + E(item) - 1)
<1> DEFINE E(s) == Len(embedded_xml_texts(s))
           m == E(p)
           l == E(item)
<1>1. /\ ordinal(before, Len(x)) = E(x) /\ blocks_in(before, Len(x), Len(x) + Len(y)) = E(y)
      /\ ordinal(after, Len(p)) = E(p) /\ p \in Seq(Item)
  BY PartOrdinals
<1>2. item \in Seq(Item)
  BY DEF Parts, Joins
<1>3. E(item) = IF item # <<>> /\ IsBlock(Head(item)) THEN 1 ELSE 0
  BY <1>2, OneAtMost
<1>4. m \in Nat
  <2>1. embedded_xml_texts(p) \in Seq(Ids)
    BY <1>1, BlocksAre
  <2> QED BY <2>1
<1> HIDE DEF m, l, E
<1>5. CASE item # <<>> /\ IsBlock(Head(item))
  <2>1. l = 1 /\ Got(after, item, Len(p)) = {m}
    BY <1>1, <1>3, <1>5, Zenon DEF Got, m, l
  <2>2. {m} = m..(m + 1 - 1)
    BY <1>4
  <2>3. Got(after, item, Len(p)) = E(p)..(E(p) + E(item) - 1)
    BY <2>1, <2>2 DEF m, l
  <2> QED BY <1>1, <2>3 DEF Lost, E
<1>6. CASE ~ (item # <<>> /\ IsBlock(Head(item)))
  <2>1. l = 0 /\ Got(after, item, Len(p)) = {}
    BY <1>1, <1>3, <1>6, Zenon DEF Got, m, l
  <2>2. {} = m..(m + 0 - 1)
    BY <1>4
  <2>3. Got(after, item, Len(p)) = E(p)..(E(p) + E(item) - 1)
    BY <2>1, <2>2 DEF m, l
  <2> QED BY <1>1, <2>3 DEF Lost, E
<1> QED BY <1>5, <1>6

-----------------------------------------------------------------------------
(* The child of the root a changed block is below.                          *)

\* A block below another is the child of one below it.
LEMMA ReachedBy ==
  ASSUME NEW k, OneParent(k), NEW c \in Nodes, NEW e \in Reach(k, c), e # c
  PROVE  \E d \in Reach(k, c) : e \in ChildrenOf(k, d)
<1> SUFFICES ASSUME \A d \in Reach(k, c) : e \notin ChildrenOf(k, d) PROVE FALSE
  OBVIOUS
<1> DEFINE S == Reach(k, c) \ {e}
<1>1. Closed(k, Reach(k, c)) /\ c \in Reach(k, c) /\ Reach(k, c) \subseteq Nodes
  BY ReachUnfolds
<1>2. S \in SUBSET Nodes /\ c \in S
  BY <1>1
<1>3. Closed(k, S)
  BY <1>1 DEF Closed
<1> HIDE DEF S
<1>4. Reach(k, c) \subseteq S
  BY <1>2, <1>3, ReachLeast
<1> QED BY <1>4 DEF S

\* Below a block there are blocks only.
LEMMA ReachBlocks ==
  ASSUME NEW k, OneParent(k), NEW c \in Block
  PROVE  Reach(k, c) \subseteq Block /\ Root \notin Reach(k, c)
<1>1. c \in Nodes /\ Block \in SUBSET Nodes /\ Closed(k, Block)
  BY DEF Nodes, OneParent, Closed
<1>2. Reach(k, c) \subseteq Block
  BY <1>1, ReachLeast
<1> QED BY <1>2, XmlTextConstants

\* What is below one child of the root is below no other.
LEMMA ApartBelow ==
  ASSUME NEW k, OneParent(k), NEW a \in ChildrenOf(k, Root), NEW c \in ChildrenOf(k, Root), a # c
  PROVE  Reach(k, a) \intersect Reach(k, c) = {}
<1> DEFINE S == Reach(k, a) \ Reach(k, c)
<1>1. Root \in Nodes /\ a \in Block /\ c \in Block /\ a \in Nodes /\ c \in Nodes
  BY DEF Nodes, OneParent
<1>2. /\ a \in Reach(k, a) /\ Closed(k, Reach(k, a)) /\ Reach(k, a) \subseteq Nodes
      /\ Closed(k, Reach(k, c)) /\ Reach(k, c) \subseteq Nodes
  BY <1>1, ReachUnfolds
<1>3. Root \notin Reach(k, a) /\ Root \notin Reach(k, c)
  BY <1>1, ReachBlocks
<1>4. \A d, b \in Nodes : \A e \in ChildrenOf(k, d) : e \in ChildrenOf(k, b) => d = b
  BY DEF OneParent
<1>5. ASSUME NEW d \in Reach(k, a), NEW e \in ChildrenOf(k, d), e \in Reach(k, c) PROVE d \in Reach(k, c)
  <2>1. CASE e = c
    BY <1>1, <1>2, <1>3, <1>4, <1>5, <2>1
  <2>2. CASE e # c
    <3>1. PICK b \in Reach(k, c) : e \in ChildrenOf(k, b)
      BY <1>1, <1>5, <2>2, ReachedBy
    <3> QED BY <1>2, <1>4, <1>5, <3>1
  <2> QED BY <2>1, <2>2
<1>6. a \notin Reach(k, c)
  <2> SUFFICES ASSUME a \in Reach(k, c) PROVE FALSE
    OBVIOUS
  <2>1. PICK b \in Reach(k, c) : a \in ChildrenOf(k, b)
    BY <1>1, ReachedBy
  <2> QED BY <1>1, <1>2, <1>3, <1>4, <2>1
<1>7. S \in SUBSET Nodes /\ a \in S
  BY <1>2, <1>6
<1>8. Closed(k, S)
  BY <1>2, <1>5 DEF Closed
<1> HIDE DEF S
<1>9. Reach(k, a) \subseteq S
  BY <1>1, <1>7, <1>8, ReachLeast
<1> QED BY <1>9 DEF S

\* Trees in which the blocks have the same children.
SameBelow(k, j) == \A b \in Block : ChildrenOf(k, b) = ChildrenOf(j, b)

\* Half of the next lemma.
LEMMA ReachWithin ==
  ASSUME NEW k, NEW j, OneParent(k), SameBelow(k, j), NEW b \in Block
  PROVE  Reach(j, b) \subseteq Reach(k, b)
<1>1. b \in Nodes
  BY DEF Nodes
<1>2. b \in Reach(k, b) /\ Closed(k, Reach(k, b)) /\ Reach(k, b) \subseteq Nodes
  BY <1>1, ReachUnfolds
<1>3. Reach(k, b) \subseteq Block
  BY ReachBlocks
<1>4. Closed(j, Reach(k, b))
  BY <1>2, <1>3 DEF Closed, SameBelow
<1> QED BY <1>1, <1>2, <1>4, ReachLeast

\* They have the same blocks below each.
LEMMA SameReach ==
  ASSUME NEW k, NEW j, OneParent(k), OneParent(j), SameBelow(k, j), NEW b \in Block
  PROVE  Reach(k, b) = Reach(j, b)
<1>1. SameBelow(j, k)
  BY DEF SameBelow
<1> QED BY <1>1, ReachWithin

\* The block at a place of a sequence has the ordinal of that place.
LEMMA OrdinalOf ==
  ASSUME NEW s \in Seq(Item), NEW i \in BlockPlaces(s)
  PROVE  /\ ordinal(s, i - 1) \in Nat
         /\ ordinal(s, i - 1) + 1 \in 1..Len(embedded_xml_texts(s))
         /\ embedded_xml_texts(s)[ordinal(s, i - 1) + 1] = s[i].id
<1> DEFINE P == BlockPlaces(s)
           L == Len(s)
           E == embedded_xml_texts(s)
           d == Picked(s, BlocksIn)
           m == CountTo(P, i)
<1>1. L \in Nat /\ DOMAIN s = 1..L /\ \A p \in 1..L : s[p] \in Item
  OBVIOUS
<1>2. P \in SUBSET (1..L) /\ E = IdsOf(d) /\ E \in Seq(Ids) /\ Len(E) = Cardinality(P)
  BY BlocksAre
<1>3. P = {p \in 1..L : s[p] \in BlocksIn}
  BY <1>1 DEF BlockPlaces, BlocksIn, IsBlock
<1>4. PlacesIn(s, P) = P
  BY <1>2 DEF PlacesIn
<1>5. d = ItemsAt(s, P)
  BY <1>1, <1>3 DEF Picked
<1> HIDE DEF P, L, d, E
<1>6. i \in P /\ i \in 1..L /\ i - 1 \in 0..L
  BY <1>1, <1>2 DEF P
<1>7. d \in Seq(Item) /\ Len(d) = Cardinality(P) /\ m \in 1..Cardinality(P) /\ d[m] = s[i]
  BY <1>4, <1>5, <1>6, ItemsAtRank
<1>8. CountTo(P, i - 1) \in Nat /\ m = CountTo(P, i - 1) + 1
  BY <1>1, <1>2, <1>6, CountFacts
<1>9. ordinal(s, i - 1) = CountTo(P, i - 1)
  BY <1>6, BlocksOfPrefix DEF ordinal, P, L
<1> HIDE DEF m
<1>10. E[m] = d[m].id /\ m \in 1..Len(E)
  BY <1>2, <1>7, IdsOfType
<1> QED BY <1>7, <1>8, <1>9, <1>10 DEF E

\* Every block of a sequence is at a place of it.
LEMMA BlockHasPlace ==
  ASSUME NEW s \in Seq(Item), NEW c \in ToSet(embedded_xml_texts(s))
  PROVE  \E i \in BlockPlaces(s) : s[i].id = c
<1> DEFINE P == BlockPlaces(s)
           L == Len(s)
           E == embedded_xml_texts(s)
<1>1. P \in SUBSET (1..L) /\ E \in Seq(Ids) /\ Len(E) = Cardinality(P) /\ L \in Nat
  BY BlocksAre
<1>2. PICK m \in 1..Len(E) : E[m] = c
  BY <1>1 DEF ToSet
<1> HIDE DEF P, L, E
<1>3. PICK i \in P : CountTo(P, i) = m
  BY <1>1, <1>2, CountOnto
<1>4. ordinal(s, i - 1) = CountTo(P, i - 1)
  <2>1. i - 1 \in 0..L
    BY <1>1
  <2> QED BY <2>1, BlocksOfPrefix DEF ordinal, P, L
<1>5. CountTo(P, i) = CountTo(P, i - 1) + 1
  BY <1>1, CountFacts
<1>6. ordinal(s, i - 1) + 1 = m
  BY <1>3, <1>4, <1>5
<1>7. E[m] = s[i].id
  <2>1. i \in BlockPlaces(s)
    BY DEF P
  <2> QED BY <1>6, <2>1, OrdinalOf, Zenon DEF E
<1> QED BY <1>2, <1>7 DEF P

\* The ordinal at the head of an event's path is the one block_at looks up.
LEMMA PathIsBlock ==
  ASSUME NEW k, DOMAIN k = Nodes, OneParent(k), Founded(k), k[Root] \in Seq(Item),
         NEW j, j[Root] = k[Root], \A c \in ChildrenOf(k, Root) : Below(j)[c] = Below(k)[c],
         NEW b, b \in Below(k)[Root], b # Root
  PROVE  PathOrdinal(k, b) = block_at(j, b)
<1> DEFINE s == k[Root]
           E == embedded_xml_texts(s)
           Holder(i) == IsBlock(s[i]) /\ b \in Below(k)[s[i].id]
           i == CHOOSE x \in DOMAIN s : Holder(x)
           q == ordinal(s, i - 1) + 1
           I == {x \in 1..Len(E) : contains_branch(j, E[x], b)}
<1>1. Root \in Nodes /\ ToSet(E) = ChildrenOf(k, Root) /\ ChildrenOf(k, Root) \subseteq Block /\ IsInjective(E)
  BY DEF Nodes, OneParent, ChildrenOf
<1>2. \A c \in Nodes : Below(k)[c] = Reach(k, c)
  BY BelowIsReach
<1>3. s \in Seq(Item) /\ BlockPlaces(s) = {x \in DOMAIN s : IsBlock(s[x])} /\ E \in Seq(Ids)
  BY BlocksAre DEF BlockPlaces
<1>4. PICK c \in ChildrenOf(k, Root) : b \in Reach(k, c)
  <2>1. Reach(k, Root) = {Root} \union UNION {Reach(k, d) : d \in ChildrenOf(k, Root)}
    BY <1>1, ReachUnfolds
  <2> QED BY <1>1, <1>2, <2>1
<1>5. \A d \in ChildrenOf(k, Root) : b \in Below(k)[d] => d = c
  <2> SUFFICES ASSUME NEW d \in ChildrenOf(k, Root), b \in Below(k)[d], d # c PROVE FALSE
    OBVIOUS
  <2>1. b \in Reach(k, d)
    BY <1>1, <1>2 DEF Nodes
  <2>2. Reach(k, d) \intersect Reach(k, c) = {}
    BY ApartBelow
  <2> QED BY <1>4, <2>1, <2>2
<1>6. \E x \in DOMAIN s : Holder(x)
  <2>1. PICK x \in BlockPlaces(s) : s[x].id = c
    BY <1>1, <1>3, <1>4, BlockHasPlace
  <2>2. b \in Below(k)[c]
    BY <1>1, <1>2, <1>4 DEF Nodes
  <2> QED BY <1>3, <2>1, <2>2
<1>7. i \in DOMAIN s /\ Holder(i)
  BY <1>6, Zenon
<1>8. PathOrdinal(k, b) = ordinal(s, i - 1)
  BY DEF PathOrdinal
<1> HIDE DEF i
<1>9. i \in BlockPlaces(s)
  BY <1>3, <1>7
<1>10. /\ ordinal(s, i - 1) \in Nat /\ q \in 1..Len(E) /\ E[q] = s[i].id
  BY <1>3, <1>9, OrdinalOf, Zenon
<1> HIDE DEF E, s
<1>11. E[q] = c
  <2>1. E[q] \in ToSet(E)
    BY <1>3, <1>10 DEF ToSet
  <2> QED BY <1>1, <1>5, <1>7, <1>10, <2>1
<1>12. I = {q}
  <2>1. ASSUME NEW x \in 1..Len(E) PROVE contains_branch(j, E[x], b) <=> x = q
    <3>1. E[x] \in ChildrenOf(k, Root)
      BY <1>1, <1>3 DEF ToSet
    <3>2. Below(j)[E[x]] = Below(k)[E[x]]
      BY <3>1
    <3>3. contains_branch(j, E[x], b) <=> b \in Below(k)[E[x]]
      BY <3>2 DEF contains_branch
    <3>4. b \in Below(k)[c] /\ E[q] = c
      BY <1>7, <1>10, <1>11
    <3>5. b \in Below(k)[E[x]] <=> E[x] = c
      BY <1>5, <3>1, <3>4
    <3>6. E[x] = E[q] => x = q
      BY <1>1, <1>3, <1>10 DEF IsInjective
    <3> QED BY <3>3, <3>4, <3>5, <3>6
  <2> QED BY <1>10, <2>1
<1>13. block_at(j, b) = (IF I # {} THEN Min(I) ELSE 0) - 1
  BY DEF block_at, SelectInSeq, E, s
<1> HIDE DEF I
<1>14. Min({q}) = q
  BY <1>10 DEF Min
<1> QED BY <1>8, <1>10, <1>12, <1>13, <1>14

-----------------------------------------------------------------------------
(* What an update reports.                                                  *)

\* The blocks that changed below a child of the root that stayed are those an
\* update edits: h is the tree it finds, k the one it makes, and j what is left
\* of that in the document.
LEMMA BlocksTouched ==
  ASSUME NEW h, DOMAIN h = Nodes, OneParent(h), Founded(h),
         NEW k, DOMAIN k = Nodes, OneParent(k), Founded(k), SameBelow(h, k),
         NEW j, \A c \in Below(k)[Root] : Below(j)[c] = Below(k)[c] /\ j[c] = k[c],
         NEW D \in SUBSET Block, \A c \in Block : h[c] # k[c] <=> c \in D,
         \A c \in D : c \in Below(h)[Root] /\ c \in Below(k)[Root],
         \A c \in ChildrenOf(k, Root) \ ChildrenOf(h, Root) : c \notin Below(h)[Root] /\ ChildrenOf(h, c) = {}
  PROVE  D = {c \in UNION {Below(h)[b] \intersect Below(j)[b] : b \in ChildrenOf(h, Root) \intersect ChildrenOf(j, Root)} :
                 h[c] # j[c]}
<1> DEFINE stayed == UNION {Below(h)[b] \intersect Below(j)[b] : b \in ChildrenOf(h, Root) \intersect ChildrenOf(j, Root)}
<1>1. Root \in Nodes /\ ChildrenOf(h, Root) \subseteq Block /\ ChildrenOf(k, Root) \subseteq Block /\ Block \subseteq Nodes
  BY DEF Nodes, OneParent
<1>2. (\A c \in Nodes : Below(h)[c] = Reach(h, c)) /\ (\A c \in Nodes : Below(k)[c] = Reach(k, c))
  <2>1. \A c \in Nodes : Below(h)[c] = Reach(h, c)
    BY BelowIsReach
  <2>2. \A c \in Nodes : Below(k)[c] = Reach(k, c)
    BY BelowIsReach
  <2> QED BY <2>1, <2>2
<1>3. Reach(k, Root) = {Root} \union UNION {Reach(k, c) : c \in ChildrenOf(k, Root)}
  BY <1>1, ReachUnfolds
<1>4. Root \in Reach(k, Root) /\ \A c \in ChildrenOf(k, Root) : c \in Reach(k, c) /\ c \in Reach(k, Root)
  <2>1. \A c \in Nodes : c \in Reach(k, c)
    BY ReachUnfolds
  <2> QED BY <1>1, <1>3, <2>1
<1>5. j[Root] = k[Root] /\ ChildrenOf(j, Root) = ChildrenOf(k, Root)
  BY <1>1, <1>2, <1>4 DEF ChildrenOf
<1>6. \A b \in Block : Reach(h, b) = Reach(k, b)
  BY SameReach
<1>7. \A b \in ChildrenOf(h, Root) \intersect ChildrenOf(j, Root) :
         Below(h)[b] = Reach(k, b) /\ Below(j)[b] = Reach(k, b)
  BY <1>1, <1>2, <1>4, <1>5, <1>6
<1>8. stayed = UNION {Reach(k, b) : b \in ChildrenOf(h, Root) \intersect ChildrenOf(k, Root)}
  BY <1>5, <1>7
<1> HIDE DEF stayed
<1>9. ASSUME NEW c \in stayed PROVE c \in Block /\ j[c] = k[c]
  <2>1. PICK b \in ChildrenOf(k, Root) : c \in Reach(k, b)
    BY <1>8
  <2>2. c \in Reach(k, Root)
    BY <1>3, <2>1
  <2>3. b \in Block
    BY <1>1, <2>1
  <2>4. c \in Block
    BY <2>1, <2>3, ReachBlocks
  <2>5. c \in Below(k)[Root]
    BY <1>1, <1>2, <2>2
  <2> QED BY <2>4, <2>5
<1>10. ASSUME NEW c \in D PROVE c \in stayed
  <2>1. c \in Reach(h, Root) /\ c \in Reach(k, Root) /\ c \in Block /\ c # Root
    BY <1>1, <1>2, XmlTextConstants
  <2>2. PICK b \in ChildrenOf(k, Root) : c \in Reach(k, b)
    BY <1>3, <2>1
  <2>3. b \in Block /\ b \in Nodes
    BY <1>1, <2>2
  <2>4. CASE b \in ChildrenOf(h, Root)
    BY <1>8, <2>2, <2>4
  <2>5. CASE b \notin ChildrenOf(h, Root)
    <3>1. b \notin Reach(h, Root) /\ ChildrenOf(h, b) = {}
      BY <1>1, <1>2, <2>2, <2>5
    <3>2. Reach(h, b) = {b} \union UNION {Reach(h, d) : d \in ChildrenOf(h, b)}
      BY <2>3, ReachUnfolds
    <3>3. Reach(h, b) = {b}
      BY <3>1, <3>2
    <3>4. c = b
      BY <1>6, <2>2, <2>3, <3>3
    <3> QED BY <2>1, <3>1, <3>4
  <2> QED BY <2>4, <2>5
<1>11. \A c : c \in D <=> c \in stayed /\ h[c] # j[c]
  BY <1>9, <1>10
<1>12. D = {c \in stayed : h[c] # j[c]}
  BY <1>11
<1> QED BY <1>12 DEF stayed

\* An interval of places, as ordinals.
LEMMA PlacesAsOrdinals ==
  ASSUME NEW a \in Nat, NEW l \in Nat
  PROVE  {i - 1 : i \in (a + 1)..(a + l)} = a..(a + l - 1)
<1>1. \A m \in a..(a + l - 1) : m + 1 \in (a + 1)..(a + l) /\ m = (m + 1) - 1
  OBVIOUS
<1>2. \A i \in (a + 1)..(a + l) : i - 1 \in a..(a + l - 1)
  OBVIOUS
<1> QED BY <1>1, <1>2

\* The ordinals, in two sequences, of what the other lacks.
Differ(was, is) ==
    {i - 1 : i \in {m \in DOMAIN was : was[m] \notin ToSet(is)}}
    \union {i - 1 : i \in {m \in DOMAIN is : is[m] \notin ToSet(was)}}

\* What an update reports of the root's children.
Reported(before, after, item, x, y, p) ==
    Lost(before, Len(x), Len(y)) \union Got(after, item, Len(p))
        = Differ(embedded_xml_texts(before), embedded_xml_texts(after))

\* They are those it takes out and puts in.
LEMMA PartsReported ==
  ASSUME NEW before, NEW after, NEW item, NEW x, NEW y, NEW z, NEW w, NEW p, NEW r, NEW v, NEW o,
         Parts(Item, before, after, item, x, y, z, w, p, r, v, o), Len(item) <= 1,
         IsInjective(embedded_xml_texts(before)), IsInjective(embedded_xml_texts(item)),
         ToSet(embedded_xml_texts(item)) \intersect ToSet(embedded_xml_texts(before)) = {}
  PROVE  Reported(before, after, item, x, y, p)
<1> DEFINE E(s) == embedded_xml_texts(s)
<1>1. /\ Lost(before, Len(x), Len(y)) = Len(E(x))..(Len(E(x)) + Len(E(y)) - 1)
      /\ Got(after, item, Len(p)) = Len(E(p))..(Len(E(p)) + Len(E(item)) - 1)
  BY RootReport
<1>2. Parts(Ids, E(before), E(after), E(item), E(x), E(y), E(z), E(w), E(p), E(r), E(v), E(o))
  BY BlockParts
<1>3. IsInjective(E(before)) /\ IsInjective(E(item)) /\ ToSet(E(item)) \intersect ToSet(E(before)) = {}
  OBVIOUS
<1> HIDE DEF E
<1>4. /\ Len(E(x)) \in Nat /\ Len(E(y)) \in Nat /\ Len(E(p)) \in Nat /\ Len(E(item)) \in Nat
      /\ {m \in DOMAIN E(before) : E(before)[m] \notin ToSet(E(after))} = (Len(E(x)) + 1)..(Len(E(x)) + Len(E(y)))
      /\ {m \in DOMAIN E(after) : E(after)[m] \notin ToSet(E(before))} = (Len(E(p)) + 1)..(Len(E(p)) + Len(E(item)))
  BY <1>2, <1>3, PartsDiffer
<1>5. {i - 1 : i \in (Len(E(x)) + 1)..(Len(E(x)) + Len(E(y)))} = Len(E(x))..(Len(E(x)) + Len(E(y)) - 1)
  BY <1>4, PlacesAsOrdinals
<1>6. {i - 1 : i \in (Len(E(p)) + 1)..(Len(E(p)) + Len(E(item)))} = Len(E(p))..(Len(E(p)) + Len(E(item)) - 1)
  BY <1>4, PlacesAsOrdinals
<1> QED BY <1>1, <1>4, <1>5, <1>6 DEF Reported, Differ, E

\* So it is with an update from a peer.
LEMMA RootTouched ==
  ASSUME NEW before \in Seq(Item), IsInjective(embedded_xml_texts(before)),
         NEW item \in Seq(Item), IsInjective(embedded_xml_texts(item)), Len(item) <= 1,
         ToSet(embedded_xml_texts(item)) \intersect ToSet(embedded_xml_texts(before)) = {},
         NEW from \in 0..Len(before), NEW at \in 0..Len(before), NEW n \in Nat, from + n <= Len(before),
         at \in (0..from) \union ((from + n)..Len(before)),
         NEW after, after = After(before, from, n, at, item)
  PROVE  root_positions(Delta(from, n, at, item), before, after)
            = Differ(embedded_xml_texts(before), embedded_xml_texts(after))
<1> DEFINE place == IF at <= from THEN at ELSE at - n
<1>1. Divided(before, from, n, at, item, place)
  BY UpdateParts
<1>2. PICK x, y, z, w, p, r, v, o :
         /\ Parts(Item, before, after, item, x, y, z, w, p, r, v, o)
         /\ Len(x) = from /\ Len(y) = n /\ Len(p) = place
  BY <1>1, Zenon DEF Divided
<1>3. Reported(before, after, item, x, y, p)
  BY <1>2, PartsReported, Zenon
<1>4. root_positions(Delta(from, n, at, item), before, after) = Lost(before, from, n) \union Got(after, item, place)
  BY UpdatePositions
<1> HIDE DEF place
<1> QED BY <1>2, <1>3, <1>4 DEF Reported

\* The blocks an update edits.
LEMMA EditedAre ==
  ASSUME TreeInvariant, NEW edited \in Edited
  PROVE  /\ edited.blocks \subseteq Block /\ edited.blocks \subseteq Alive /\ edited.kind \in {"m", "e"}
         /\ \A after : \A c \in Block : kids[c] # Updated(after, edited)[c] <=> c \in edited.blocks
<1>1. edited.blocks \subseteq Alive \ {Root} /\ edited.kind \in {"m", "e"}
  BY DEF Edited
<1>2. edited.blocks \subseteq Block
  BY <1>1, TreeFacts
<1>3. DOMAIN kids = Nodes /\ Block \subseteq Nodes
  BY TreeFacts DEF Nodes
<1>4. ASSUME NEW after, NEW c \in Block PROVE kids[c] # Updated(after, edited)[c] <=> c \in edited.blocks
  <2>1. c # Root /\ c \in DOMAIN kids
    BY <1>3, XmlTextConstants
  <2>2. CASE c \in edited.blocks
    <3>1. Updated(after, edited)[c] = Append(kids[c], Unit(edited.kind))
      BY <2>1, <2>2 DEF Updated
    <3>2. Held(c, kids[c]) /\ Apart(kids[c])
      BY <1>1, <1>3, <2>2, TreeFacts
    <3>3. Append(kids[c], Unit(edited.kind)) # kids[c]
      BY <1>1, <2>1, <3>2, EmbedAdded
    <3> QED BY <2>2, <3>1, <3>3
  <2>3. CASE c \notin edited.blocks
    BY <2>1, <2>3 DEF Updated
  <2> QED BY <2>2, <2>3
<1> QED BY <1>1, <1>2, <1>4

\* What an update reports is what it touched.
LEMMA UpdateReported ==
  ASSUME TreeInvariant, NEW from \in 0..Len(kids[Root]), NEW at \in 0..Len(kids[Root]), NEW n \in Nat,
         from + n <= Len(kids[Root]), at \in (0..from) \union ((from + n)..Len(kids[Root])),
         NEW item, NEW t, Adds(item, t), NEW edited \in Edited,
         apply_update_changes(from, n, at, item, edited, t)
  PROVE  changed' = Touched(kids, kids')
<1> DEFINE before == kids[Root]
           after == After(before, from, n, at, item)
           k == Updated(after, edited)
           D == edited.blocks
           E(s) == embedded_xml_texts(s)
           stayed == UNION {Below(kids)[b] \intersect Below(kids')[b] : b \in ToSet(E(before)) \intersect ToSet(E(kids'[Root]))}
<1>1. Held(Root, before) /\ before \in Seq(Item) /\ Held(Root, item) /\ item \in Seq(Item)
  BY TreeFacts DEF Adds, XmlInvariant, Tree, Held, Unsplit
<1>2. Held(Root, after) /\ after \in Seq(Item)
  BY <1>1, AfterHeld DEF Held, Unsplit
<1>3. PICK x, y, z, w, p, r, v, o : Parts(Item, before, after, item, x, y, z, w, p, r, v, o)
  BY <1>1, UpdateParts DEF Divided
<1>4. /\ Commit(k, t)
      /\ \A b \in D : b \in Below(k)[Root]
      /\ changed' = {PathOrdinal(k, b) : b \in D} \union root_positions(Delta(from, n, at, item), before, after)
  BY DEF apply_update_changes, Updated, After
<1>5. \A c \in Block : kids[c] # k[c] <=> c \in D
  BY EditedAre
<1>6. k[Root] = after
  BY TreeFacts DEF Updated
<1> HIDE DEF after
<1>7. /\ Grown(k, t)
      /\ \A b \in Nodes : ChildrenOf(k, b) = IF b = Root THEN ToSet(E(after)) ELSE ChildrenOf(kids, b)
  BY <1>2, <1>3, UpdateGrown
<1> HIDE DEF k
<1>8. \A b \in Below(k)[Root] : Below(kids')[b] = Below(k)[b] /\ kids'[b] = k[b]
  BY <1>4, <1>7, CommitGrown
<1>9. DOMAIN k = Nodes /\ OneParent(k) /\ Founded(k)
  BY <1>7 DEF Grown, Tree, Nodes
<1>10. DOMAIN kids = Nodes /\ OneParent(kids) /\ Founded(kids) /\ Root \in Nodes /\ Block \subseteq Nodes
  BY TreeFacts DEF Grown, Nodes
<1>11. SameBelow(kids, k)
  BY <1>7, <1>10, XmlTextConstants DEF SameBelow
<1>12. D \in SUBSET Block /\ \A c \in D : c \in Below(kids)[Root] /\ c \in Below(k)[Root]
  BY <1>4, EditedAre, TreeFacts
<1>13. ToSet(E(item)) \subseteq Block \ Alive /\ Apart(item) /\ Len(item) <= 1
  BY DEF Adds
<1>14. IsInjective(E(before)) /\ IsInjective(E(item)) /\ ToSet(E(item)) \intersect ToSet(E(before)) = {}
  <2>1. Apart(before)
    BY <1>10, TreeFacts
  <2>2. ToSet(E(before)) = ChildrenOf(kids, Root)
    BY DEF ChildrenOf
  <2>3. \A c \in Block \ Alive : c \notin ChildrenOf(kids, Root)
    BY <1>10, TreeFacts
  <2> HIDE DEF before
  <2> QED BY <1>13, <2>1, <2>2, <2>3 DEF Apart
<1>15. ToSet(E(after)) \subseteq ToSet(E(before)) \union ToSet(E(item))
  <2> HIDE DEF before, E
  <2>2. Parts(Ids, E(before), E(after), E(item), E(x), E(y), E(z), E(w), E(p), E(r), E(v), E(o))
    BY <1>3, BlockParts DEF E
  <2>3. ToSet(E(after)) = (ToSet(E(before)) \ ToSet(E(y))) \union ToSet(E(item))
    BY <1>14, <2>2, PartsDiffer
  <2> QED BY <2>3
<1>16. ChildrenOf(k, Root) = ToSet(E(after)) /\ ChildrenOf(kids, Root) = ToSet(E(before))
  BY <1>7, <1>10 DEF ChildrenOf
<1>17. \A c \in ChildrenOf(k, Root) \ ChildrenOf(kids, Root) : c \notin Below(kids)[Root] /\ ChildrenOf(kids, c) = {}
  BY <1>13, <1>15, <1>16, TreeFacts
<1>18. \A c \in Nodes : Below(k)[c] = Reach(k, c)
  BY <1>9, BelowIsReach
<1>19. Root \in Below(k)[Root] /\ \A c \in ChildrenOf(k, Root) : c \in Below(k)[Root]
  <2>1. Root \in Reach(k, Root) /\ Closed(k, Reach(k, Root))
    BY <1>9, <1>10, ReachUnfolds
  <2> QED BY <1>10, <1>18, <2>1 DEF Closed
<1>20. kids'[Root] = after
  BY <1>6, <1>8, <1>19
<1>21. D = {c \in stayed : kids[c] # kids'[c]}
  <2>1. ChildrenOf(kids', Root) = ToSet(E(kids'[Root]))
    BY DEF ChildrenOf
  <2>2. D = {c \in UNION {Below(kids)[b] \intersect Below(kids')[b] : b \in ChildrenOf(kids, Root) \intersect ChildrenOf(kids', Root)} :
                kids[c] # kids'[c]}
    <3> HIDE DEF D
    <3> DEFINE j == kids'
    <3>1. \A c \in Below(k)[Root] : Below(j)[c] = Below(k)[c] /\ j[c] = k[c]
      BY <1>8
    <3> HIDE DEF j
    <3>2. D = {c \in UNION {Below(kids)[b] \intersect Below(j)[b] : b \in ChildrenOf(kids, Root) \intersect ChildrenOf(j, Root)} :
                  kids[c] # j[c]}
      BY <1>5, <1>9, <1>10, <1>11, <1>12, <1>17, <3>1, BlocksTouched
    <3> QED BY <3>2 DEF j
  <2> QED BY <1>16, <2>1, <2>2
<1>22. ASSUME NEW b \in D PROVE PathOrdinal(k, b) = block_at(kids', b)
  <2> DEFINE j == kids'
  <2>1. j[Root] = k[Root] /\ \A c \in ChildrenOf(k, Root) : Below(j)[c] = Below(k)[c]
    BY <1>8, <1>19
  <2>2. b \in Below(k)[Root] /\ b # Root
    BY <1>12, XmlTextConstants
  <2>3. k[Root] \in Seq(Item)
    BY <1>2, <1>6
  <2> HIDE DEF j, D
  <2>4. PathOrdinal(k, b) = block_at(j, b)
    BY <1>9, <2>1, <2>2, <2>3, PathIsBlock
  <2> QED BY <2>4 DEF j
<1>23. {PathOrdinal(k, b) : b \in D} = {block_at(kids', b) : b \in {c \in stayed : kids[c] # kids'[c]}}
  BY <1>21, <1>22
<1>24. root_positions(Delta(from, n, at, item), before, after)
         = Differ(E(before), E(after))
  <2>1. after = After(before, from, n, at, item)
    BY DEF after
  <2>2. from \in 0..Len(before) /\ at \in 0..Len(before) /\ from + n <= Len(before)
          /\ at \in (0..from) \union ((from + n)..Len(before))
    OBVIOUS
  <2>3. item \in Seq(Item) /\ Len(item) <= 1 /\ before \in Seq(Item)
    BY <1>1, <1>13
  <2> HIDE DEF before, D, stayed
  <2> QED BY <1>14, <2>1, <2>2, <2>3, RootTouched
<1> HIDE DEF D, stayed, before
<1>25. Touched(kids, kids')
         = Differ(E(before), E(kids'[Root]))
           \union {block_at(kids', b) : b \in {c \in stayed : kids[c] # kids'[c]}}
  BY Zenon DEF Touched, Differ, before, stayed
<1> QED BY <1>4, <1>20, <1>23, <1>24, <1>25

\* A step that reports is an update, and reports what it touched.
LEMMA ReportStep ==
  TreeInvariant /\ [Next]_vars => [changed' # NoReport => changed' = Touched(kids, kids')]_vars
<1> SUFFICES ASSUME TreeInvariant, Next, changed' # NoReport PROVE changed' = Touched(kids, kids')
  OBVIOUS
<1>1. /\ \A b, i, c : ~ insert(b, i, c)
      /\ \A b, i : ~ insert_embed(b, i)
      /\ \A b, i, n : ~ delete(b, i, n)
      /\ \A b, i : ~ delete_xml_text(b, i)
      /\ \A b, c : ~ append_text(b, c)
      /\ \A b : ~ clear(b)
  <2>1. \A b, s : ~ Write(b, s)
    BY Zenon DEF Write
  <2> QED BY <2>1, Zenon DEF insert, insert_embed, delete, delete_xml_text, append_text, clear
<1>2. \A b, i, t, c, new, d : ~ insert_xml_text(b, i, t, c, new, d)
  BY Zenon DEF insert_xml_text
<1>3. \A b, c, d, emptied : ~ write_content(b, c, d, emptied)
  BY Zenon DEF write_content
<1>4. ApplyUpdateChanges
  BY <1>1, <1>2, <1>3, Zenon DEF Next
<1>5. PICK from \in 0..Len(kids[Root]), at \in 0..Len(kids[Root]), n \in Nat, edited \in Edited :
         /\ from + n <= Len(kids[Root])
         /\ at \in (0..from) \union ((from + n)..Len(kids[Root]))
         /\ \E item, t : Adds(item, t) /\ apply_update_changes(from, n, at, item, edited, t)
  BY <1>4, UpdateAdds
<1>6. PICK item, t : Adds(item, t) /\ apply_update_changes(from, n, at, item, edited, t)
  BY <1>5
<1> QED BY <1>5, <1>6, UpdateReported

\* apply_update_changes returns the ordinals of the blocks an update touches.
THEOREM ChangesReported == Spec => ChangesAreReported
<1>1. TreeInvariant /\ [Next]_vars => [changed' # NoReport => changed' = Touched(kids, kids')]_vars
  BY ReportStep
<1>2. Spec => []TreeInvariant
  BY TreeInvariantHolds
<1> QED BY <1>1, <1>2, PTL DEF Spec, ChangesAreReported
=============================================================================
