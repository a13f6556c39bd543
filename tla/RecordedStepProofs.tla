-------------------------- MODULE RecordedStepProofs -------------------------
(***************************************************************************)
(* Safety of a recorded step, for any runners that keep to                 *)
(* RunnersAssumption, any scenes, any items of a page and any number of    *)
(* changes of the page.                                                    *)
(*                                                                         *)
(* The first part says what a look at a page finds: the n-th of a finite   *)
(* set of numbers is one of them, an order of a finite set has an element  *)
(* of every rank, so that the plan of resolveSelector consists of the ways *)
(* it was made from, and all ways of a flow carry the anchor of the step.  *)
(***************************************************************************)
EXTENDS RecordedPage, FiniteSetTheorems, TLAPS

-----------------------------------------------------------------------------
(* What a look finds.                                                      *)

(* Those before a, in an order R of T.                                     *)
Before(T, R, a) == {b \in T : <<b, a>> \in R}
Order(T, R) == /\ \A a, b \in T : a # b => <<a, b>> \in R \/ <<b, a>> \in R
               /\ \A a \in T : <<a, a>> \notin R
               /\ \A a, b, c \in T : <<a, b>> \in R /\ <<b, c>> \in R => <<a, c>> \in R

\* Of two elements of an ordered set the later one has more before it.
LEMMA BeforeGrows ==
    ASSUME NEW T, IsFiniteSet(T), NEW R, Order(T, R), NEW a \in T, NEW b \in T, <<a, b>> \in R
    PROVE  Cardinality(Before(T, R, a)) < Cardinality(Before(T, R, b))
<1>1. Before(T, R, a) \in SUBSET Before(T, R, b)
  BY DEF Before, Order
<1>2. a \in Before(T, R, b) /\ a \notin Before(T, R, a)
  BY DEF Before, Order
<1>3. IsFiniteSet(Before(T, R, b))
  <2>1. Before(T, R, b) \in SUBSET T
    BY DEF Before
  <2>2. QED
    BY <2>1, FS_Subset
<1>4. /\ IsFiniteSet(Before(T, R, a))
      /\ Cardinality(Before(T, R, a)) <= Cardinality(Before(T, R, b))
      /\ Cardinality(Before(T, R, b)) = Cardinality(Before(T, R, a)) => Before(T, R, b) = Before(T, R, a)
  BY <1>1, <1>3, FS_Subset
<1>5. Cardinality(Before(T, R, a)) \in Nat /\ Cardinality(Before(T, R, b)) \in Nat
  BY <1>3, <1>4, FS_CardinalityType
<1>6. Cardinality(Before(T, R, a)) # Cardinality(Before(T, R, b))
  BY <1>2, <1>4
<1>7. QED
  BY <1>4, <1>5, <1>6

\* Before an element of a finite ordered set there are fewer than all.
LEMMA RankBound ==
    ASSUME NEW T, IsFiniteSet(T), NEW R, Order(T, R), NEW a \in T
    PROVE  Cardinality(T) \in Nat /\ Cardinality(Before(T, R, a)) \in 0 .. Cardinality(T) - 1
<1>1. Before(T, R, a) \in SUBSET (T \ {a})
  BY DEF Before, Order
<1>2. IsFiniteSet(T \ {a}) /\ Cardinality(T \ {a}) = IF a \in T THEN Cardinality(T) - 1 ELSE Cardinality(T)
  BY FS_RemoveElement
<1>3. IsFiniteSet(Before(T, R, a)) /\ Cardinality(Before(T, R, a)) <= Cardinality(T \ {a})
  BY <1>1, <1>2, FS_Subset
<1>4. Cardinality(Before(T, R, a)) \in Nat /\ Cardinality(T) \in Nat
  BY <1>3, FS_CardinalityType
<1>5. QED
  BY <1>2, <1>3, <1>4

\* In a finite ordered set some element has n before it, for every n below the
\* size of the set.
LEMMA RankExists ==
    ASSUME NEW T, IsFiniteSet(T), NEW R, Order(T, R), NEW n \in Nat, n < Cardinality(T)
    PROVE  \E a \in T : Cardinality(Before(T, R, a)) = n
<1> DEFINE c == Cardinality(T)
           rank == [a \in T |-> Cardinality(Before(T, R, a))]
           Ranks == (0 .. c - 1) \ {n}
<1>1. c \in Nat
  BY FS_CardinalityType
<1>2. \A a \in T : rank[a] \in 0 .. c - 1
  BY RankBound
<1>3. \A a, b \in T : a # b => rank[a] # rank[b]
  <2>1. SUFFICES ASSUME NEW a \in T, NEW b \in T, <<a, b>> \in R PROVE rank[a] # rank[b]
    BY DEF Order
  <2>2. rank[a] < rank[b] /\ rank[a] \in Int /\ rank[b] \in Int
    BY <1>1, <1>2, <2>1, BeforeGrows
  <2>3. QED
    BY <2>2
<1>4. SUFFICES ASSUME \A a \in T : rank[a] # n PROVE FALSE
  OBVIOUS
<1>5. rank \in [T -> Ranks]
  BY <1>2, <1>4
<1>6. IsFiniteSet(Ranks) /\ Cardinality(Ranks) = c - 1
  <2>1. n \in 0 .. c - 1
    BY <1>1
  <2>2. \A m \in Int : IsFiniteSet(0 .. m) /\ Cardinality(0 .. m) = IF 0 > m THEN 0 ELSE m - 0 + 1
    BY FS_Interval
  <2>3. c - 1 \in Int /\ c - 1 >= 0
    BY <1>1, <2>1
  <2>4. IsFiniteSet(0 .. c - 1) /\ Cardinality(0 .. c - 1) = c
    <3> HIDE DEF c
    <3>1. c - 1 - 0 + 1 = c
      BY <1>1
    <3>2. ~(0 > c - 1)
      BY <2>3
    <3>3. QED
      BY <2>2, <2>3, <3>1, <3>2
  <2>5. /\ IsFiniteSet(Ranks)
        /\ Cardinality(Ranks) = IF n \in 0 .. c - 1 THEN Cardinality(0 .. c - 1) - 1 ELSE Cardinality(0 .. c - 1)
    BY <2>4, FS_RemoveElement
  <2>6. QED
    BY <2>1, <2>4, <2>5
<1>7. Cardinality(Ranks) < Cardinality(T)
  BY <1>1, <1>6
<1> HIDE DEF rank, Ranks
<1>8. \E x, y \in T : x # y /\ rank[x] = rank[y]
  BY <1>5, <1>6, <1>7, FS_PigeonHole
<1>9. QED
  BY <1>3, <1>8

\* The n-th of a finite set of integers is one of them, if there are so many.
LEMMA NthOf ==
    ASSUME NEW T, IsFiniteSet(T), T \subseteq Int, NEW n \in Nat
    PROVE  /\ Cardinality(T) <= n => Nth(T, n) = 0
           /\ Cardinality(T) > n => Nth(T, n) \in T
           /\ Nth(T, n) \in T \cup {0}
<1>1. ASSUME n < Cardinality(T) PROVE Nth(T, n) \in T
  <2> DEFINE R == {p \in T \X T : p[1] < p[2]}
  <2>1. \A a, b \in T : <<a, b>> \in R <=> a < b
    OBVIOUS
  <2>2. Order(T, R)
    BY <2>1 DEF Order
  <2> HIDE DEF R
  <2>3. PICK a \in T : Cardinality(Before(T, R, a)) = n
    BY <1>1, <2>2, RankExists
  <2>4. Before(T, R, a) = {j \in T : j < a}
    BY <2>1 DEF Before
  <2>5. Cardinality({j \in T : j < a}) = n
    BY <2>3, <2>4
  <2>6. Cardinality(T) \in Nat
    BY FS_CardinalityType
  <2>7. QED
    BY <1>1, <2>5, <2>6 DEF Nth
<1>2. Cardinality(T) <= n => Nth(T, n) = 0
  BY DEF Nth
<1>3. Cardinality(T) \in Nat
  BY FS_CardinalityType
<1>4. QED
  BY <1>1, <1>2, <1>3

-----------------------------------------------------------------------------
(* What a search is made of.                                                *)

WaysIn(kinds, anchors) == [kind : kinds, anchor : anchors, nth : Nat]
WayKinds == Kinds \cup {"checkbox", "control", "placeholder"}
StagesIn(anchors) == [ways : Seq(WaysIn(WayKinds, anchors)), again : BOOLEAN, ranked : BOOLEAN]

\* A function on the numbers up to m is a list.
LEMMA ListOf == ASSUME NEW m \in Nat, NEW T, NEW f \in [1 .. m -> T] PROVE f \in Seq(T)
  OBVIOUS

\* Wider kinds and anchors leave a list of ways a list of ways.
LEMMA WaysWiden ==
    ASSUME NEW K, NEW J, K \subseteq J, NEW A, NEW B, A \subseteq B, NEW w \in Seq(WaysIn(K, A))
    PROVE  w \in Seq(WaysIn(J, B))
<1>1. WaysIn(K, A) \subseteq WaysIn(J, B)
  BY DEF WaysIn
<1>2. QED
  BY <1>1

\* The ways of a step: of the kinds of the order, with the anchor and the number
\* that are given.
LEMMA WaysOf ==
    ASSUME NEW K, NEW order \in Seq(K), NEW l, NEW anchor, NEW nth \in Nat
    PROVE  Ways(order, l, anchor, nth) \in Seq(WaysIn(K, {anchor}))
<1> DEFINE has == {n \in DOMAIN order : order[n] \in l.kinds}
           c == Cardinality(has)
<1>1. Len(order) \in Nat /\ DOMAIN order = 1 .. Len(order) /\ \A n \in DOMAIN order : order[n] \in K
  OBVIOUS
<1>2. IsFiniteSet(has) /\ c \in Nat
  <2>1. IsFiniteSet(1 .. Len(order))
    BY <1>1, FS_Interval
  <2>2. has \in SUBSET (1 .. Len(order))
    BY <1>1
  <2>3. QED
    BY <2>1, <2>2, FS_Subset, FS_CardinalityType
<1>3. has \subseteq Int
  BY <1>1
<1>4. \A n \in 1 .. c : Nth(has, n - 1) \in has
  <2>1. SUFFICES ASSUME NEW n \in 1 .. c PROVE Nth(has, n - 1) \in has
    OBVIOUS
  <2>2. n - 1 \in Nat /\ c > n - 1
    BY <1>2
  <2> HIDE DEF has
  <2>3. QED
    BY <1>2, <1>3, <2>2, NthOf
<1>5. \A n \in 1 .. c : Way(order[Nth(has, n - 1)], anchor, nth) \in WaysIn(K, {anchor})
  BY <1>1, <1>4 DEF Way, WaysIn
<1>6. Ways(order, l, anchor, nth) = [n \in 1 .. c |-> Way(order[Nth(has, n - 1)], anchor, nth)]
  BY DEF Ways
<1> HIDE DEF has, c
<1>7. Ways(order, l, anchor, nth) \in [1 .. c -> WaysIn(K, {anchor})]
  BY <1>5, <1>6
<1>8. QED
  BY <1>2, <1>7, ListOf

\* A score is an integer, whatever was seen.
LEMMA ScoreType ==
    ASSUME NEW l, NEW w \in WaysIn(Kinds, BOOLEAN), NEW seen \in Diagnostics
    PROVE  Score(l, w, seen) \in Int
<1>1. BaseKindScore[w.kind] \in Int
  <2>1. w.kind \in {"role", "label", "text", "testId", "css", "xpath"}
    BY DEF WaysIn, Kinds
  <2>2. QED
    BY <2>1 DEF BaseKindScore
<1>2. seen.visible \in Nat
  BY DEF Diagnostics
<1>3. LiveScore(seen) \in Int
  BY <1>2 DEF LiveScore
<1>4. ContextScore(seen) \in Int
  BY DEF ContextScore
<1> DEFINE b == BaseKindScore[w.kind]
           live == LiveScore(seen)
           context == ContextScore(seen)
           bare == IF w.kind = "role" /\ l.bare THEN 28 ELSE 0
           anchored == IF w.anchor THEN IF seen.reduced THEN 18 ELSE 10 ELSE 0
           numbered == IF w.nth > 0 THEN 22 ELSE 0
           brittle == IF w.kind \in l.brittle THEN IF w.kind = "css" THEN 18 ELSE 20 ELSE 0
           exact == IF w.kind = "role" /\ l.exact THEN 8 ELSE 0
           stated == IF w.kind = "role" /\ l.stated THEN 8 ELSE 0
           sum == b - bare + exact + stated + anchored + context - numbered + live - brittle
<1>5. bare \in Int /\ exact \in Int /\ stated \in Int /\ anchored \in Int /\ numbered \in Int /\ brittle \in Int
  OBVIOUS
<1>6. Score(l, w, seen) = IF sum < 0 THEN 0 ELSE IF sum > 100 THEN 100 ELSE sum
  BY DEF Score
<1>7. b \in Int /\ live \in Int /\ context \in Int
  BY <1>1, <1>3, <1>4
<1> HIDE DEF b, live, context, bare, exact, stated, anchored, numbered, brittle
<1>8. QED
  BY <1>5, <1>6, <1>7

(* The first of its kind in a list, and what comes before what: a better   *)
(* score, or an earlier place.                                             *)
Once(ways, n) == \A j \in 1..(n - 1) : ways[j] # ways[n]
Precedes(l, ways, seen, i, j) ==
    \/ Score(l, ways[i], seen[i]) > Score(l, ways[j], seen[j])
    \/ Score(l, ways[i], seen[i]) = Score(l, ways[j], seen[j]) /\ i < j

\* The ranking of candidates names places of the list that is ranked, each of a
\* candidate that is not there before, all of these, and in their order.
LEMMA RankedOf ==
    ASSUME NEW l, NEW ways \in Seq(WaysIn(Kinds, BOOLEAN)), NEW seen \in [DOMAIN ways -> Diagnostics]
    PROVE  \E m \in Nat :
              LET order == Ranked(l, ways, seen)
              IN  /\ order \in [1 .. m -> DOMAIN ways]
                  /\ \A r \in 1 .. m : Once(ways, order[r])
                  /\ \A n \in DOMAIN ways : Once(ways, n) => \E r \in 1 .. m : order[r] = n
                  /\ \A p, q \in 1 .. m : p < q => Precedes(l, ways, seen, order[p], order[q])
<1> DEFINE once == {n \in DOMAIN ways : \A j \in 1..(n - 1) : ways[j] # ways[n]}
           scored == {<<Score(l, ways[n], seen[n]), n>> : n \in once}
           before(b, a) == b[1] > a[1] \/ (b[1] = a[1] /\ b[2] < a[2])
           c == Cardinality(once)
           R == {p \in scored \X scored : before(p[1], p[2])}
           f == [n \in once |-> <<Score(l, ways[n], seen[n]), n>>]
<1>1. Len(ways) \in Nat /\ DOMAIN ways = 1 .. Len(ways) /\ \A n \in DOMAIN ways : ways[n] \in WaysIn(Kinds, BOOLEAN)
  OBVIOUS
<1>2. IsFiniteSet(once) /\ c \in Nat
  <2>1. IsFiniteSet(1 .. Len(ways))
    BY <1>1, FS_Interval
  <2>2. once \in SUBSET (1 .. Len(ways))
    BY <1>1
  <2>3. QED
    BY <2>1, <2>2, FS_Subset, FS_CardinalityType
<1>3. \A a \in scored : a[1] \in Int /\ a[2] \in once /\ a = <<a[1], a[2]>> /\ a[1] = Score(l, ways[a[2]], seen[a[2]])
  <2>1. SUFFICES ASSUME NEW n \in once PROVE Score(l, ways[n], seen[n]) \in Int
    OBVIOUS
  <2>2. n \in DOMAIN ways
    OBVIOUS
  <2>3. ways[n] \in WaysIn(Kinds, BOOLEAN) /\ seen[n] \in Diagnostics
    BY <1>1, <2>2
  <2>4. QED
    BY <2>3, ScoreType
<1>4. once \subseteq Int
  BY <1>1
<1>5. IsFiniteSet(scored) /\ Cardinality(scored) = c
  <2> HIDE DEF once
  <2>1. f \in [once -> scored]
    OBVIOUS
  <2>2. \A m, n \in once : f[m] = f[n] => m = n
    OBVIOUS
  <2>3. \A a \in scored : \E n \in once : f[n] = a
    OBVIOUS
  <2> HIDE DEF f, scored
  <2>4. f \in Surjection(once, scored)
    BY <2>1, <2>3 DEF Surjection
  <2>5. f \in Injection(once, scored)
    BY <2>1, <2>2 DEF Injection, IsInjective
  <2>6. QED
    BY <1>2, <2>4, <2>5, FS_Surjection
<1>6. \A a, b \in scored : <<b, a>> \in R <=> before(b, a)
  BY DEF R
<1>7. Order(scored, R)
  <2>1. \A a, b \in scored : a # b => a[1] # b[1] \/ a[2] # b[2]
    BY <1>3
  <2>2. \A a \in scored : a[1] \in Int /\ a[2] \in Int
    BY <1>3, <1>4
  <2> HIDE DEF scored, R
  <2>3. \A a, b \in scored : a # b => before(a, b) \/ before(b, a)
    BY <2>1, <2>2
  <2>4. \A a \in scored : ~before(a, a)
    BY <2>2
  <2>5. \A a, b, e \in scored : before(a, b) /\ before(b, e) => before(a, e)
    BY <2>2
  <2> HIDE DEF before
  <2>6. QED
    BY <1>6, <2>3, <2>4, <2>5 DEF Order
<1>8. \A r \in 1 .. c : \E a \in scored : Cardinality({b \in scored : before(b, a)}) = r - 1
  <2> HIDE DEF scored, R, before
  <2>1. SUFFICES ASSUME NEW r \in 1 .. c
                 PROVE  \E a \in scored : Cardinality({b \in scored : before(b, a)}) = r - 1
    OBVIOUS
  <2>2. r - 1 \in Nat /\ r - 1 < Cardinality(scored)
    BY <1>2, <1>5
  <2>3. PICK a \in scored : Cardinality(Before(scored, R, a)) = r - 1
    BY <1>5, <1>7, <2>2, RankExists
  <2>4. Before(scored, R, a) = {b \in scored : before(b, a)}
    BY <1>6 DEF Before
  <2>5. QED
    BY <2>3, <2>4
<1> DEFINE of(r) == CHOOSE a \in scored : Cardinality({b \in scored : before(b, a)}) = r - 1
<1>9. Ranked(l, ways, seen) = [r \in 1 .. c |-> of(r)[2]]
  BY DEF Ranked
<1>10. \A r \in 1 .. c : of(r) \in scored
  <2> HIDE DEF scored, before
  <2>1. QED
    BY <1>8
<1>11. \A r \in 1 .. c : of(r)[2] \in DOMAIN ways
  <2>1. \A n \in once : n \in DOMAIN ways
    OBVIOUS
  <2> HIDE DEF of, scored, once
  <2>2. QED
    BY <1>3, <1>10, <2>1
<1>12. \A a \in scored : Before(scored, R, a) = {b \in scored : before(b, a)}
  <2> HIDE DEF scored, before, R
  <2>1. QED
    BY <1>6 DEF Before
<1>13. \A r \in 1 .. c : of(r) \in scored /\ Cardinality(Before(scored, R, of(r))) = r - 1
  <2> HIDE DEF scored, before, R
  <2>1. QED
    BY <1>8, <1>10, <1>12
<1>14. \A p, q \in 1 .. c : p < q => before(of(p), of(q))
  <2> HIDE DEF scored, before, R, of, c
  <2>1. SUFFICES ASSUME NEW p \in 1 .. c, NEW q \in 1 .. c, p < q PROVE before(of(p), of(q))
    OBVIOUS
  <2>2. of(p) \in scored /\ of(q) \in scored
    BY <1>13
  <2>3. Cardinality(Before(scored, R, of(p))) < Cardinality(Before(scored, R, of(q)))
    BY <1>2, <1>13, <2>1
  <2>4. Cardinality(Before(scored, R, of(p))) \in Int /\ Cardinality(Before(scored, R, of(q))) \in Int
    BY <1>2, <1>13
  <2>5. of(p) # of(q)
    BY <2>3, <2>4
  <2>6. ~(<<of(q), of(p)>> \in R)
    <3>1. SUFFICES ASSUME <<of(q), of(p)>> \in R PROVE FALSE
      OBVIOUS
    <3>2. Cardinality(Before(scored, R, of(q))) < Cardinality(Before(scored, R, of(p)))
      BY <1>5, <1>7, <2>2, <3>1, BeforeGrows
    <3>3. QED
      BY <2>3, <2>4, <3>2
  <2>7. QED
    BY <1>6, <1>7, <2>2, <2>5, <2>6 DEF Order
<1>15. \A n \in once : \E r \in 1 .. c : of(r)[2] = n
  <2>1. SUFFICES ASSUME NEW n \in once PROVE \E r \in 1 .. c : of(r)[2] = n
    OBVIOUS
  <2> DEFINE a == <<Score(l, ways[n], seen[n]), n>>
             r == Cardinality(Before(scored, R, a)) + 1
  <2>2. a \in scored /\ a[2] = n
    OBVIOUS
  <2> HIDE DEF scored, before, R, of, c, a, once
  <2>3. Cardinality(Before(scored, R, a)) \in 0 .. c - 1
    BY <1>5, <1>7, <2>2, RankBound
  <2>4. r \in 1 .. c /\ r - 1 = Cardinality(Before(scored, R, a))
    BY <1>2, <2>3
  <2>5. of(r) \in scored /\ Cardinality(Before(scored, R, of(r))) = Cardinality(Before(scored, R, a))
    BY <1>13, <2>4
  <2>6. ASSUME NEW x \in scored, NEW y \in scored, <<x, y>> \in R
        PROVE  Cardinality(Before(scored, R, x)) # Cardinality(Before(scored, R, y))
    <3>1. Cardinality(Before(scored, R, x)) < Cardinality(Before(scored, R, y))
      BY <1>5, <1>7, <2>6, BeforeGrows
    <3>2. Cardinality(Before(scored, R, x)) \in Int
      BY <1>2, <1>5, <1>7, RankBound
    <3>3. QED
      BY <3>1, <3>2
  <2>7. of(r) = a
    BY <1>7, <2>2, <2>5, <2>6 DEF Order
  <2>8. QED
    BY <2>2, <2>4, <2>7
<1>16. \A r \in 1 .. c : of(r)[2] \in once /\ of(r)[1] = Score(l, ways[of(r)[2]], seen[of(r)[2]])
  <2> HIDE DEF of, scored, once
  <2>1. QED
    BY <1>3, <1>10
<1>17. \A n \in DOMAIN ways : Once(ways, n) <=> n \in once
  BY DEF Once
<1>18. \A p, q \in 1 .. c : p < q => Precedes(l, ways, seen, of(p)[2], of(q)[2])
  <2>1. SUFFICES ASSUME NEW p \in 1 .. c, NEW q \in 1 .. c, p < q
                 PROVE  Precedes(l, ways, seen, of(p)[2], of(q)[2])
    OBVIOUS
  <2>2. before(of(p), of(q))
    BY <1>14, <2>1
  <2> HIDE DEF of, scored, once, c
  <2>3. QED
    BY <1>16, <2>2 DEF Precedes
<1> HIDE DEF of, c, once, scored, R, before
<1>19. Ranked(l, ways, seen) \in [1 .. c -> DOMAIN ways]
  BY <1>9, <1>11
<1>20. \A r \in 1 .. c : Once(ways, Ranked(l, ways, seen)[r])
  BY <1>9, <1>11, <1>16, <1>17
<1>21. \A n \in DOMAIN ways : Once(ways, n) => \E r \in 1 .. c : Ranked(l, ways, seen)[r] = n
  BY <1>9, <1>15, <1>17
<1>22. \A p, q \in 1 .. c : p < q =>
          Precedes(l, ways, seen, Ranked(l, ways, seen)[p], Ranked(l, ways, seen)[q])
  BY <1>9, <1>18
<1>23. QED
  BY <1>2, <1>19, <1>20, <1>21, <1>22

(* What the plan of resolveSelector ranks: candidates and selectors.        *)
OwnWays(l) == Ways(CandidateOrder, l, l.anchor, l.nth)
AllWays(l) == l.candidates \o OwnWays(l)
AllSeen(l) == l.seen \o [n \in DOMAIN OwnWays(l) |-> NotSeen]

\* The candidates come first, each with what was seen of it, and all have the
\* anchor of the step.
LEMMA AllOf ==
    ASSUME NEW l, Recording(l)
    PROVE  /\ OwnWays(l) \in Seq(WaysIn(Kinds, {l.anchor}))
           /\ AllWays(l) \in Seq(WaysIn(Kinds, {l.anchor})) /\ AllWays(l) \in Seq(WaysIn(Kinds, BOOLEAN))
           /\ AllSeen(l) \in [DOMAIN AllWays(l) -> Diagnostics]
           /\ \A n \in DOMAIN l.candidates : /\ n \in DOMAIN AllWays(l) /\ n >= 1
                                             /\ AllWays(l)[n] = l.candidates[n] /\ AllSeen(l)[n] = l.seen[n]
           /\ \A n \in DOMAIN AllWays(l) \ DOMAIN l.candidates :
                 \E j \in DOMAIN OwnWays(l) : AllWays(l)[n] = OwnWays(l)[j]
           /\ Len(l.candidates) \in Nat /\ DOMAIN l.candidates = 1 .. Len(l.candidates)
           /\ \A n \in DOMAIN AllWays(l) : n \in Nat /\ (n \notin DOMAIN l.candidates => n > Len(l.candidates))
<1> DEFINE W0 == WaysIn(Kinds, {l.anchor})
           own == OwnWays(l)
           all == AllWays(l)
           seen == AllSeen(l)
<1>1. own \in Seq(W0)
  <2>1. CandidateOrder \in Seq(Kinds)
    BY DEF CandidateOrder, Kinds
  <2>2. l.nth \in Nat
    BY DEF Recording
  <2>3. QED
    BY <2>1, <2>2, WaysOf DEF OwnWays
<1>2. l.candidates \in Seq(W0)
  <2>1. [kind : Kinds, anchor : {l.anchor}, nth : Nat] = W0
    BY DEF WaysIn
  <2>2. QED
    BY <2>1 DEF Recording
<1>3. l.seen \in Seq(Diagnostics) /\ Len(l.seen) = Len(l.candidates)
  <2>1. Len(l.candidates) \in Nat /\ DOMAIN l.candidates = 1 .. Len(l.candidates)
    BY <1>2
  <2>2. l.seen \in [1 .. Len(l.candidates) -> Diagnostics]
    BY <2>1 DEF Recording
  <2>3. l.seen \in Seq(Diagnostics)
    BY <2>1, <2>2, ListOf
  <2>4. QED
    BY <2>1, <2>2, <2>3
<1> DEFINE unseen == [n \in DOMAIN own |-> NotSeen]
<1>4. unseen \in Seq(Diagnostics) /\ Len(unseen) = Len(own)
  <2>1. NotSeen \in Diagnostics
    BY DEF NotSeen, Diagnostics
  <2>2. Len(own) \in Nat /\ DOMAIN own = 1 .. Len(own)
    BY <1>1
  <2>3. unseen \in [1 .. Len(own) -> Diagnostics]
    BY <2>1, <2>2
  <2>4. unseen \in Seq(Diagnostics)
    BY <2>2, <2>3, ListOf
  <2>5. QED
    BY <2>2, <2>3, <2>4
<1>5. all = l.candidates \o own /\ seen = l.seen \o unseen
  BY DEF AllWays, AllSeen
<1> HIDE DEF own, unseen, W0, all, seen
<1>6. all \in Seq(W0) /\ Len(all) = Len(l.candidates) + Len(own)
  BY <1>1, <1>2, <1>5
<1>7. seen \in Seq(Diagnostics) /\ Len(seen) = Len(l.seen) + Len(own)
  <2>1. \A x, y \in Seq(Diagnostics) : x \o y \in Seq(Diagnostics) /\ Len(x \o y) = Len(x) + Len(y)
    OBVIOUS
  <2>2. QED
    BY <1>3, <1>4, <1>5, <2>1
<1>8. DOMAIN all = 1 .. Len(all) /\ DOMAIN seen = 1 .. Len(seen) /\ Len(seen) = Len(all)
  BY <1>3, <1>6, <1>7
<1>9. seen \in [DOMAIN all -> Diagnostics]
  <2>1. seen \in [DOMAIN seen -> Diagnostics]
    BY <1>7
  <2>2. QED
    BY <1>8, <2>1
<1>10. all \in Seq(WaysIn(Kinds, BOOLEAN))
  <2>1. {l.anchor} \subseteq BOOLEAN
    BY DEF Recording
  <2>2. QED
    BY <1>6, <2>1, WaysWiden DEF W0
<1>11. \A n \in DOMAIN l.candidates : /\ n \in DOMAIN all /\ n >= 1
                                      /\ all[n] = l.candidates[n] /\ seen[n] = l.seen[n]
  BY <1>1, <1>2, <1>3, <1>4, <1>5
<1>12. \A n \in DOMAIN all \ DOMAIN l.candidates : \E j \in DOMAIN own : all[n] = own[j]
  <2>1. SUFFICES ASSUME NEW n \in DOMAIN all \ DOMAIN l.candidates
                 PROVE  n - Len(l.candidates) \in DOMAIN own /\ all[n] = own[n - Len(l.candidates)]
    OBVIOUS
  <2>2. QED
    BY <1>1, <1>2, <1>5, <1>6, <1>8
<1>13. Len(l.candidates) \in Nat /\ DOMAIN l.candidates = 1 .. Len(l.candidates)
  BY <1>2
<1>14. QED
  BY <1>1, <1>6, <1>8, <1>9, <1>10, <1>11, <1>12, <1>13 DEF W0, own, all, seen

\* The plan of resolveSelector consists of the candidates and the selectors of the
\* step, in the scope of the step.
LEMMA PlanOf ==
    ASSUME NEW l, Recording(l)
    PROVE  Plan(l) \in Seq(WaysIn(WayKinds, {l.anchor}))
<1> DEFINE W0 == WaysIn(Kinds, {l.anchor})
           order == Ranked(l, AllWays(l), AllSeen(l))
<1>1. AllWays(l) \in Seq(W0)
  BY AllOf
<1>2. PICK m \in Nat : order \in [1 .. m -> DOMAIN AllWays(l)]
  BY AllOf, RankedOf
<1>3. Plan(l) = [r \in DOMAIN order |-> AllWays(l)[order[r]]]
  BY DEF Plan, OwnWays, AllWays, AllSeen
<1> HIDE DEF order
<1>4. Plan(l) \in [1 .. m -> W0]
  BY <1>1, <1>2, <1>3
<1>5. Plan(l) \in Seq(W0)
  BY <1>4, ListOf
<1>6. QED
  <2>1. Kinds \subseteq WayKinds
    BY DEF WayKinds
  <2>2. QED
    BY <1>5, <2>1, WaysWiden DEF W0

\* So do the ways that are tried again and again after the plan.
LEMMA HealingOf ==
    ASSUME NEW l, Recording(l), NEW ordinals
    PROVE  HealingWays(l, ordinals) \in Seq(WaysIn(WayKinds, {l.anchor}))
<1> DEFINE W0 == WaysIn(WayKinds, {l.anchor})
           first == [n \in DOMAIN l.candidates |->
                        Way(l.candidates[n].kind, l.anchor,
                            IF ordinals = "own" THEN l.candidates[n].nth ELSE l.nth)]
           own == Ways(FlowOrder, l, l.anchor, l.nth)
<1>1. own \in Seq(W0)
  <2>1. FlowOrder \in Seq(WayKinds)
    BY DEF FlowOrder, WayKinds, Kinds
  <2>2. l.nth \in Nat
    BY DEF Recording
  <2>3. QED
    BY <2>1, <2>2, WaysOf
<1>2. first \in Seq(W0)
  <2> DEFINE c == l.candidates
  <2>1. c \in Seq([kind : Kinds, anchor : {l.anchor}, nth : Nat])
    BY DEF Recording
  <2>2. Len(c) \in Nat /\ DOMAIN c = 1 .. Len(c)
    BY <2>1
  <2>3. \A n \in DOMAIN c : c[n].kind \in WayKinds /\ c[n].nth \in Nat
    <3> DEFINE X == [kind : Kinds, anchor : {l.anchor}, nth : Nat]
    <3> HIDE DEF c, X
    <3>1. c \in Seq(X)
      BY <2>1 DEF X
    <3>2. \A n \in DOMAIN c : c[n] \in X
      BY <3>1
    <3>3. \A x \in X : x.kind \in WayKinds /\ x.nth \in Nat
      BY DEF X, WayKinds
    <3>4. QED
      BY <3>2, <3>3
  <2>4. l.nth \in Nat
    BY DEF Recording
  <2>5. first = [n \in DOMAIN c |-> Way(c[n].kind, l.anchor, IF ordinals = "own" THEN c[n].nth ELSE l.nth)]
    OBVIOUS
  <2> HIDE DEF c, first
  <2>6. first \in [1 .. Len(c) -> W0]
    BY <2>2, <2>3, <2>4, <2>5 DEF Way, WaysIn
  <2>7. QED
    BY <2>2, <2>6, ListOf
<1>3. HealingWays(l, ordinals) = first \o own
  BY DEF HealingWays
<1> HIDE DEF first, own, W0
<1>4. first \o own \in Seq(W0)
  BY <1>1, <1>2
<1>5. QED
  BY <1>3, <1>4 DEF W0

\* The ways of the replay are ways, with or without the anchor.
LEMMA ReplayOf ==
    ASSUME NEW l, Recording(l)
    PROVE  ReplayWays(l) \in Seq(WaysIn(WayKinds, BOOLEAN))
<1> DEFINE W0 == WaysIn(WayKinds, BOOLEAN)
           boxed == IF l.anchor THEN Ways(ReplayBoxOrder, l, TRUE, 0) ELSE <<>>
           plain == Ways(ReplayOrder, l, FALSE, l.nth)
           free == [n \in DOMAIN plain |->
                       LET w == plain[n] IN IF w.kind = "label" THEN [w EXCEPT !.nth = 0] ELSE w]
<1>1. boxed \in Seq(W0)
  <2>1. ReplayBoxOrder \in Seq(WayKinds)
    BY DEF ReplayBoxOrder, WayKinds, Kinds
  <2>2. Ways(ReplayBoxOrder, l, TRUE, 0) \in Seq(WaysIn(WayKinds, {TRUE}))
    BY <2>1, WaysOf
  <2>3. Ways(ReplayBoxOrder, l, TRUE, 0) \in Seq(W0)
    BY <2>2, WaysWiden
  <2>4. <<>> \in Seq(W0)
    OBVIOUS
  <2>5. CASE l.anchor
    BY <2>3, <2>5
  <2>6. CASE ~l.anchor
    BY <2>4, <2>6
  <2>7. QED
    BY <2>5, <2>6
<1>2. plain \in Seq(W0)
  <2>1. ReplayOrder \in Seq(WayKinds)
    BY DEF ReplayOrder, WayKinds, Kinds
  <2>2. l.nth \in Nat
    BY DEF Recording
  <2>3. plain \in Seq(WaysIn(WayKinds, {FALSE}))
    BY <2>1, <2>2, WaysOf
  <2>4. {FALSE} \subseteq BOOLEAN
    OBVIOUS
  <2> HIDE DEF plain
  <2>5. QED
    BY <2>3, <2>4, WaysWiden
<1>3. free \in Seq(W0)
  <2> HIDE DEF plain
  <2>1. Len(plain) \in Nat /\ DOMAIN plain = 1 .. Len(plain) /\ \A n \in DOMAIN plain : plain[n] \in W0
    BY <1>2
  <2>2. \A w \in W0 : [w EXCEPT !.nth = 0] \in W0
    BY DEF WaysIn
  <2> HIDE DEF W0
  <2>3. free \in [1 .. Len(plain) -> W0]
    BY <2>1, <2>2
  <2>4. QED
    BY <2>1, <2>3, ListOf
<1>4. ReplayWays(l) = boxed \o free
  BY DEF ReplayWays
<1> HIDE DEF boxed, plain, free, W0
<1>5. boxed \o free \in Seq(W0)
  BY <1>1, <1>3
<1>6. QED
  BY <1>4, <1>5 DEF W0

\* Short lists, and lists put together.
LEMMA OneOf == ASSUME NEW T, NEW x \in T PROVE <<x>> \in Seq(T) /\ Len(<<x>>) = 1 /\ Len(<<x>>) > 0
  OBVIOUS

LEMMA TwoOf == ASSUME NEW T, NEW x \in T, NEW y \in T PROVE <<x, y>> \in Seq(T) /\ Len(<<x, y>>) = 2
  OBVIOUS

LEMMA JoinOf ==
    ASSUME NEW T, NEW a \in Seq(T), NEW b \in Seq(T)
    PROVE  a \o b \in Seq(T) /\ Len(a \o b) = Len(a) + Len(b) /\ Len(a) \in Nat
  OBVIOUS

(* The anchors in a search: a flow stays in the row of the step's anchor.  *)
AnchorsOf(r, l) == IF l.anchor /\ ~Replays(r) THEN {TRUE} ELSE BOOLEAN

\* A search has a first stage and consists of lists of ways, all of them with the
\* anchor when the step has one and a flow carries it out.
LEMMA SearchOf ==
    ASSUME NEW s \in Scenes, NEW r \in s.runners
    PROVE  /\ Search(r, s.step) \in Seq(StagesIn(AnchorsOf(r, s.step.find)))
           /\ Len(Search(r, s.step)) > 0
<1> DEFINE l == s.step.find
           A == AnchorsOf(r, l)
           W0 == WaysIn(WayKinds, A)
           G0 == StagesIn(A)
<1>1. Recording(l) /\ (r.search = "fields" => ~l.anchor) /\ r \in Runners
  BY ScenesAssumption
<1>2. r.search \in {"once", "fields", "passes", "ranked", "queries", "points"}
  BY <1>1, RunnersAssumption DEF Runner
<1>3. l.anchor \in BOOLEAN /\ l.nth \in Nat
  BY <1>1 DEF Recording
<1>4. ~Replays(r) => l.anchor \in A
  BY <1>3 DEF AnchorsOf
<1>5. TRUE \in A /\ (r.search = "fields" => FALSE \in A) /\ A \subseteq BOOLEAN /\ (Replays(r) => A = BOOLEAN)
  BY <1>1 DEF AnchorsOf
<1>6. \A K, a, w : K \subseteq WayKinds /\ a \in A /\ w \in Seq(WaysIn(K, {a})) => w \in Seq(W0)
  <2>1. SUFFICES ASSUME NEW K, NEW a, NEW w, K \subseteq WayKinds, a \in A, w \in Seq(WaysIn(K, {a}))
                 PROVE  w \in Seq(W0)
    OBVIOUS
  <2>2. {a} \subseteq A
    BY <2>1
  <2> HIDE DEF A
  <2>3. QED
    BY <2>1, <2>2, WaysWiden
<1>7. \A ways, again, ranked : ways \in Seq(W0) /\ again \in BOOLEAN /\ ranked \in BOOLEAN
                                => Stage(ways, again, ranked) \in G0
  BY DEF Stage, StagesIn
<1>8. \A kind \in WayKinds : <<Way(kind, TRUE, 0)>> \in Seq(W0)
  <2>1. \A kind \in WayKinds : Way(kind, TRUE, 0) \in W0
    BY <1>5 DEF Way, WaysIn
  <2> HIDE DEF W0
  <2>2. QED
    BY <2>1, OneOf
<1>9. BoxFirst(l) \in Seq(G0)
  <2>1. "checkbox" \in WayKinds
    BY DEF WayKinds
  <2>2. Stage(<<Way("checkbox", TRUE, 0)>>, TRUE, FALSE) \in G0
    BY <1>7, <1>8, <2>1
  <2> HIDE DEF G0
  <2>3. <<Stage(<<Way("checkbox", TRUE, 0)>>, TRUE, FALSE)>> \in Seq(G0)
    BY <2>2, OneOf
  <2>4. BoxFirst(l) \in {<<Stage(<<Way("checkbox", TRUE, 0)>>, TRUE, FALSE)>>, <<>>}
    BY DEF BoxFirst
  <2>5. <<>> \in Seq(G0)
    OBVIOUS
  <2>6. QED
    BY <2>3, <2>4, <2>5
<1>10. PlainWays(l) \in Seq(WaysIn(WayKinds, {l.anchor}))
  <2>1. PlainOrder \in Seq(WayKinds)
    BY DEF PlainOrder, WayKinds, Kinds
  <2>2. QED
    BY <1>3, <2>1, WaysOf DEF PlainWays
<1>11. FieldWays(l) \in Seq(WaysIn(WayKinds, {FALSE}))
  <2>1. <<"label", "placeholder", "role">> \in Seq(WayKinds)
    BY DEF WayKinds, Kinds
  <2>2. QED
    BY <2>1, WaysOf DEF FieldWays
<1>12. Plan(l) \in Seq(WaysIn(WayKinds, {l.anchor}))
  BY <1>1, PlanOf
<1>13. HealingWays(l, r.ordinals) \in Seq(WaysIn(WayKinds, {l.anchor}))
  BY <1>1, HealingOf
<1>14. ReplayWays(l) \in Seq(WaysIn(WayKinds, BOOLEAN))
  BY <1>1, ReplayOf
<1> HIDE DEF l, A
<1>15. Replays(r) => ReplayWays(l) \in Seq(W0)
  BY <1>5, <1>14
<1>16. r.search = "fields" => FieldWays(l) \in Seq(W0)
  BY <1>5, <1>6, <1>11
<1>17. ~Replays(r) => PlainWays(l) \in Seq(W0) /\ Plan(l) \in Seq(W0) /\ HealingWays(l, r.ordinals) \in Seq(W0)
  BY <1>4, <1>6, <1>10, <1>12, <1>13
<1> HIDE DEF W0, G0
<1>18. Stages(r, l) \in Seq(G0) /\ Len(Stages(r, l)) > 0
  <2>1. CASE r.search = "once"
    <3>1. Stage(PlainWays(l), FALSE, FALSE) \in G0
      BY <1>7, <1>17, <2>1 DEF Replays
    <3>2. Stages(r, l) = <<Stage(PlainWays(l), FALSE, FALSE)>>
      BY <2>1 DEF Stages
    <3>3. QED
      BY <3>1, <3>2, OneOf
  <2>2. CASE r.search = "fields"
    <3>1. Stage(FieldWays(l), FALSE, FALSE) \in G0
      BY <1>7, <1>16, <2>2
    <3>2. Stages(r, l) = <<Stage(FieldWays(l), FALSE, FALSE)>>
      BY <2>2 DEF Stages
    <3>3. QED
      BY <3>1, <3>2, OneOf
  <2>3. CASE r.search = "passes"
    <3>1. Stage(PlainWays(l), TRUE, FALSE) \in G0
      BY <1>7, <1>17, <2>3 DEF Replays
    <3> DEFINE rest == <<Stage(PlainWays(l), TRUE, FALSE)>>
    <3>2. rest \in Seq(G0) /\ Len(rest) = 1
      BY <3>1, OneOf
    <3>3. Stages(r, l) = BoxFirst(l) \o rest
      BY <2>3 DEF Stages
    <3> HIDE DEF rest
    <3>4. /\ BoxFirst(l) \o rest \in Seq(G0) /\ Len(BoxFirst(l) \o rest) = Len(BoxFirst(l)) + Len(rest)
          /\ Len(BoxFirst(l)) \in Nat
      BY <1>9, <3>2, JoinOf
    <3>5. QED
      BY <3>2, <3>3, <3>4
  <2>4. CASE r.search = "ranked"
    <3> DEFINE rest == <<Stage(Plan(l), FALSE, TRUE), Stage(HealingWays(l, r.ordinals), TRUE, FALSE)>>
    <3>1. Stage(Plan(l), FALSE, TRUE) \in G0 /\ Stage(HealingWays(l, r.ordinals), TRUE, FALSE) \in G0
      BY <1>7, <1>17, <2>4 DEF Replays
    <3>2. rest \in Seq(G0) /\ Len(rest) = 2
      BY <3>1, TwoOf
    <3>3. Stages(r, l) = BoxFirst(l) \o rest
      BY <2>4 DEF Stages
    <3> HIDE DEF rest
    <3>4. /\ BoxFirst(l) \o rest \in Seq(G0) /\ Len(BoxFirst(l) \o rest) = Len(BoxFirst(l)) + Len(rest)
          /\ Len(BoxFirst(l)) \in Nat
      BY <1>9, <3>2, JoinOf
    <3>5. QED
      BY <3>2, <3>3, <3>4
  <2>5. CASE r.search \in {"queries", "points"}
    <3>1. Stage(ReplayWays(l), TRUE, FALSE) \in G0
      BY <1>7, <1>15, <2>5 DEF Replays
    <3>2. Stages(r, l) = <<Stage(ReplayWays(l), TRUE, FALSE)>>
      BY <2>5 DEF Stages
    <3>3. QED
      BY <3>1, <3>2, OneOf
  <2>6. QED
    BY <1>2, <2>1, <2>2, <2>3, <2>4, <2>5
<1>19. <<Stage(<<FormWay>>, TRUE, FALSE)>> \in Seq(G0) /\ Len(<<Stage(<<FormWay>>, TRUE, FALSE)>>) > 0
  <2>1. "control" \in WayKinds
    BY DEF WayKinds
  <2>2. Stage(<<FormWay>>, TRUE, FALSE) \in G0
    BY <1>7, <1>8, <2>1 DEF FormWay
  <2>3. QED
    BY <2>2, OneOf
<1>20. Search(r, s.step) \in Seq(G0) /\ Len(Search(r, s.step)) > 0
  BY <1>18, <1>19 DEF Search, l
<1>21. QED
  BY <1>20 DEF G0, A, l

\* The items of a drawing are finitely many, whichever states are asked for.
LEMMA ItemsFinite ==
    ASSUME NEW T \in SUBSET Items
    PROVE  IsFiniteSet(T) /\ T \subseteq Int /\ 0 \notin T
<1>1. IsFiniteSet(Items) /\ Items \subseteq Nat \ {0}
  BY ItemsAssumption
<1>2. IsFiniteSet(T)
  BY <1>1, FS_Subset
<1>3. QED
  BY <1>1, <1>2

\* What is inside of the anchor's row are items, and their row has the text of the
\* anchor.
LEMMA InsideOf ==
    ASSUME NEW p, p.box \in [Items -> Nat], NEW d \in [Items -> Drawn], NEW states
    PROVE  /\ Inside(p, d, states) \subseteq Items
           /\ \A i \in Inside(p, d, states) : p.box[i] \in p.named
<1> DEFINE items == In(d, states)
           boxes == {p.box[i] : i \in items}
           first == Nth(boxes \cap p.named, 0)
           f == [i \in items |-> p.box[i]]
<1>1. items \in SUBSET Items
  BY DEF In
<1>2. IsFiniteSet(items)
  BY <1>1, ItemsFinite
<1>3. Inside(p, d, states) = {i \in DOMAIN d : first # 0 /\ p.box[i] = first}
  BY DEF Inside
<1> HIDE DEF items
<1>4. IsFiniteSet(boxes) /\ boxes \subseteq Int
  <2>1. f \in [items -> boxes] /\ \A b \in boxes : \E i \in items : f[i] = b
    OBVIOUS
  <2>2. boxes \subseteq Int
    BY <1>1
  <2> HIDE DEF f, boxes
  <2>3. f \in Surjection(items, boxes)
    BY <2>1 DEF Surjection
  <2>4. QED
    BY <1>2, <2>2, <2>3, FS_Surjection
<1> HIDE DEF boxes
<1>5. boxes \cap p.named \in SUBSET boxes
  OBVIOUS
<1>6. IsFiniteSet(boxes \cap p.named) /\ boxes \cap p.named \subseteq Int
  BY <1>4, <1>5, FS_Subset
<1>7. first \in (boxes \cap p.named) \cup {0}
  BY <1>6, NthOf
<1> HIDE DEF first
<1>8. QED
  BY <1>3, <1>7

\* A locator finds an item or nothing; inside of its row only, if it has an anchor.
LEMMA LocatedIn ==
    ASSUME NEW p, p.box \in [Items -> Nat], NEW d \in [Items -> Drawn], NEW w, w.nth \in Nat
    PROVE  /\ Located(p, d, w) \in Items \cup {0}
           /\ w.anchor /\ Located(p, d, w) # 0 => p.box[Located(p, d, w)] \in p.named
<1> DEFINE states == IF w.kind \in {"role", "checkbox"} THEN {"shown"} ELSE {"hidden", "shown"}
           T == {i \in Scope(p, d, w) : d[i] \in states /\ w.kind \in p.answers[i]}
<1>1. /\ Scope(p, d, w) \subseteq Items
      /\ w.anchor => \A i \in Scope(p, d, w) : p.box[i] \in p.named
  <2>1. CASE w.anchor
    <3>1. Scope(p, d, w) = Inside(p, d, {"hidden", "shown"})
      BY <2>1 DEF Scope
    <3>2. QED
      BY <3>1, InsideOf
  <2>2. CASE ~w.anchor
    BY <2>2 DEF Scope
  <2>3. QED
    BY <2>1, <2>2
<1>2. T \subseteq Scope(p, d, w)
  OBVIOUS
<1>3. Located(p, d, w) = 0 \/ Located(p, d, w) = Nth(T, w.nth)
  BY DEF Located
<1> HIDE DEF T
<1>4. IsFiniteSet(T) /\ T \subseteq Int
  BY <1>1, <1>2, ItemsFinite
<1>5. Nth(T, w.nth) \in T \cup {0}
  BY <1>4, NthOf
<1>6. QED
  BY <1>1, <1>2, <1>3, <1>5

\* A query of the replay finds an item or nothing.
LEMMA QueriedIn ==
    ASSUME NEW p, p.box \in [Items -> Nat], NEW d \in [Items -> Drawn], NEW w, w.nth \in Nat
    PROVE  Queried(p, d, w) \in Items \cup {0}
<1> DEFINE T == {i \in QueryScope(p, d, w) : d[i] = "shown" /\ w.kind \in p.answers[i]}
<1>1. QueryScope(p, d, w) \subseteq Items
  <2>1. CASE w.anchor
    <3>1. QueryScope(p, d, w) = Inside(p, d, {"shown"})
      BY <2>1 DEF QueryScope
    <3>2. QED
      BY <3>1, InsideOf
  <2>2. CASE ~w.anchor
    BY <2>2 DEF QueryScope
  <2>3. QED
    BY <2>1, <2>2
<1>2. T \subseteq QueryScope(p, d, w)
  OBVIOUS
<1>3. Queried(p, d, w) = Nth(T, 0) \/ Queried(p, d, w) = Nth(T, w.nth)
  BY DEF Queried
<1> HIDE DEF T
<1>4. IsFiniteSet(T) /\ T \subseteq Int
  BY <1>1, <1>2, ItemsFinite
<1>5. Nth(T, 0) \in T \cup {0} /\ Nth(T, w.nth) \in T \cup {0}
  BY <1>4, NthOf
<1>6. QED
  BY <1>1, <1>2, <1>3, <1>5

-----------------------------------------------------------------------------
(* The steps.                                                               *)

(* What runs is a scene, carried out by one of its runners.                *)
SceneOK == \E s \in Scenes : /\ runner \in s.runners /\ step = s.step /\ page = s.page
                             /\ search = Search(runner, step)
Typed == SceneOK /\ TypeOK

\* What the variables that stay in place say about a step.
LEMMA SceneFacts ==
    ASSUME Typed
    PROVE  /\ runner \in Runners /\ runner \in Runner
           /\ IF Replays(runner) THEN ~runner.aria /\ runner.recalls = "no"
              ELSE runner.visible = "looks" /\ runner.rows # "held"
           /\ step.choices \in Seq(Kinds) /\ (step.form # "no" => step.choices = <<>>)
           /\ PageOf(page) /\ step.kind \in {"click", "act", "select", "rows"} /\ step.retries \in Nat
           /\ search \in Seq(StagesIn(AnchorsOf(runner, step.find))) /\ Len(search) > 0
<1>1. PICK s \in Scenes : /\ runner \in s.runners /\ step = s.step /\ page = s.page
                          /\ search = Search(runner, step)
  BY DEF Typed, SceneOK
<1>2. runner \in Runners
  BY <1>1, ScenesAssumption
<1>3. search \in Seq(StagesIn(AnchorsOf(runner, step.find))) /\ Len(search) > 0
  BY <1>1, SearchOf
<1>4. QED
  BY <1>1, <1>2, <1>3, ScenesAssumption, RunnersAssumption

\* A way of the search finds an item or nothing; for a flow with an anchor, one in
\* a row with the text of the anchor.
LEMMA FoundIn ==
    ASSUME Typed, NEW d \in [Items -> Drawn], NEW st \in 1..Len(search), NEW n \in DOMAIN search[st].ways
    PROVE  /\ Found(d, search[st].ways[n]) \in Item
           /\ ~Replays(runner) /\ step.find.anchor /\ Found(d, search[st].ways[n]) # 0
              => page.box[Found(d, search[st].ways[n])] \in page.named
<1> DEFINE A == AnchorsOf(runner, step.find)
           w == search[st].ways[n]
<1>1. search \in Seq(StagesIn(A)) /\ page.box \in [Items -> Nat]
  BY SceneFacts DEF PageOf
<1>2. w \in WaysIn(WayKinds, A)
  <2> HIDE DEF A
  <2>1. search[st] \in StagesIn(A)
    BY <1>1
  <2>2. search[st].ways \in Seq(WaysIn(WayKinds, A))
    BY <2>1 DEF StagesIn
  <2>3. QED
    BY <2>2
<1>3. w.nth \in Nat /\ (~Replays(runner) /\ step.find.anchor => w.anchor)
  BY <1>2 DEF WaysIn, AnchorsOf
<1> HIDE DEF w
<1>4. CASE Replays(runner)
  BY <1>1, <1>3, <1>4, QueriedIn DEF Found, Item, w
<1>5. CASE ~Replays(runner)
  <2>1. Found(d, w) = Located(page, d, w)
    BY <1>5 DEF Found
  <2>2. QED
    BY <1>1, <1>3, <1>5, <2>1, LocatedIn DEF Item, w
<1>6. QED
  BY <1>4, <1>5

\* The first choice of a search is an item or nothing.
LEMMA FirstChoiceIn ==
    ASSUME Typed, NEW d \in [Items -> Drawn]
    PROVE  FirstChoice(d) \in Item
<1>1. 1 \in 1..Len(search)
  <2>1. Len(search) \in Nat /\ Len(search) > 0
    BY SceneFacts
  <2>2. QED
    BY <2>1
<1>2. CASE 1 \in DOMAIN search[1].ways
  <2>1. Found(d, search[1].ways[1]) \in Item
    BY <1>1, <1>2, FoundIn
  <2>2. QED
    BY <2>1 DEF FirstChoice, Item
<1>3. CASE 1 \notin DOMAIN search[1].ways
  BY <1>3 DEF FirstChoice, Item
<1>4. QED
  BY <1>2, <1>3

\* An option that is picked is an item or nothing.
LEMMA PickedIn ==
    ASSUME Typed, NEW T \in SUBSET page.options, NEW n \in Nat
    PROVE  Nth(T, n) \in Item /\ (Nth(T, n) # 0 => Nth(T, n) \in T)
<1>1. T \in SUBSET Items
  BY SceneFacts DEF PageOf
<1>2. IsFiniteSet(T) /\ T \subseteq Int
  BY <1>1, ItemsFinite
<1>3. Nth(T, n) \in T \cup {0}
  BY <1>2, NthOf
<1>4. QED
  BY <1>1, <1>3 DEF Item

LEMMA ExactIn == ASSUME Typed, NEW d PROVE Exact(d) \in Item
  BY PickedIn DEF Exact

\* An option that is picked by a recorded candidate answers to that candidate.
LEMMA RecalledIn ==
    ASSUME Typed, ByCandidate
    PROVE  /\ OptionRecalled \in Item /\ runner.recalls # "no" /\ Recalled \in DOMAIN step.choices
           /\ OptionRecalled # 0 => /\ OptionRecalled \in page.options
                                    /\ step.choices[Recalled] \in page.recalled[OptionRecalled]
<1> DEFINE kind == step.choices[Recalled]
           T == {j \in page.options : /\ drawn[j] \in IF kind = "role" THEN {"shown"} ELSE {"hidden", "shown"}
                                      /\ kind \in page.recalled[j]}
<1>1. Recalled \in DOMAIN step.choices
  BY DEF ByCandidate
<1>2. runner.recalls # "no"
  <2>1. 0 \notin DOMAIN step.choices
    BY SceneFacts
  <2>2. QED
    BY <1>1, <2>1 DEF Recalled
<1>3. T \in SUBSET page.options
  OBVIOUS
<1>4. OptionRecalled = IF Shown(drawn, Nth(T, 0)) THEN Nth(T, 0) ELSE 0
  BY DEF OptionRecalled
<1>5. \A j \in T : j \in page.options /\ kind \in page.recalled[j]
  OBVIOUS
<1> HIDE DEF T, kind
<1>6. Nth(T, 0) \in Item /\ (Nth(T, 0) # 0 => Nth(T, 0) \in T)
  BY <1>3, PickedIn
<1>7. QED
  BY <1>1, <1>2, <1>4, <1>5, <1>6 DEF Item, kind

LEMMA OptionIn == ASSUME Typed PROVE Option \in Item
<1>1. runner.match \in {"substring", "prefix", "exactFirst", "words", "exactOrWords"}
  BY SceneFacts DEF Runner
<1>2. \A relations : Nth(Offered(relations), 0) \in Item
  BY PickedIn DEF Offered
<1>3. FirstHolding \in Item
  <2> DEFINE i == Nth({j \in page.options : drawn[j] # "gone" /\ page.reads[j] \in Holding}, 0)
  <2>1. i \in Item
    BY PickedIn
  <2>2. FirstHolding = IF Shown(drawn, i) THEN i ELSE 0
    BY DEF FirstHolding
  <2> HIDE DEF i
  <2>3. QED
    BY <2>1, <2>2 DEF Item
<1>4. \A relations : ExactElse(relations) \in Item
  BY <1>2, ExactIn DEF ExactElse
<1>5. OptionByText \in Item
  BY <1>1, <1>2, <1>3, <1>4 DEF OptionByText
<1>6. QED
  BY <1>5, RecalledIn DEF Option

LEMMA NativeIn == ASSUME Typed PROVE NativeOption \in Item
<1>1. \A relations : FirstOffered(relations) \in Item
  BY PickedIn DEF FirstOffered, Offered
<1>2. QED
  BY <1>1, ExactIn DEF NativeOption

\* The row of a number is an item that is in the document, or nothing.
LEMMA RowAtIn ==
    ASSUME Typed, NEW n \in Nat \ {0}
    PROVE  RowAt(n) \in Item
<1>1. In(drawn, {"hidden", "shown"}) \in SUBSET Items
  BY DEF In, Typed, TypeOK
<1>2. n - 1 \in Nat
  OBVIOUS
<1>3. Nth(In(drawn, {"hidden", "shown"}), n - 1) \in In(drawn, {"hidden", "shown"}) \cup {0}
  BY <1>1, <1>2, ItemsFinite, NthOf
<1>4. QED
  BY <1>1, <1>3 DEF RowAt, Item

-----------------------------------------------------------------------------
(* Types, and where a step of which kind is.                                *)

WorldOK == drawn \in [Items -> Drawn] /\ on \in [Items -> BOOLEAN] /\ value \in Item /\ redraws \in Nat
Places == {"guard", "search", "found", "click", "choose", "aimed", "verify", "rows", "tick"} \cup Over
PlaceOK == /\ pc \in Places /\ tries \in Nat /\ stage \in 1..Len(search) /\ k \in Nat \ {0}
           /\ clicks \in Nat \ {0}
RowsOK == told \subseteq Items /\ row \in Item
AimOK == spot \in Item /\ moved \in BOOLEAN
GhostsOK == acted \subseteq Items /\ steady \in Item /\ sure \in BOOLEAN

LEMMA TypeParts == Typed <=> SceneOK /\ WorldOK /\ PlaceOK /\ RowsOK /\ AimOK /\ GhostsOK
<1>1. SceneOK => runner \in Runners
  BY ScenesAssumption DEF SceneOK
<1>2. QED
  BY <1>1 DEF Typed, TypeOK, WorldOK, PlaceOK, RowsOK, AimOK, GhostsOK, Places

(* A row is read before it is ticked; a way was found before its element   *)
(* is acted on; and nothing is known of a first choice before the search.  *)
PlaceInv ==
    /\ pc \in {"rows", "tick"} => step.kind = "rows"
    /\ pc \in {"search", "found", "click"} => step.kind # "rows"
    /\ pc \in {"choose", "aimed", "verify"} => step.kind = "select"
    /\ pc = "click" => step.kind = "click" /\ step.aria # "no" /\ runner.aria
    /\ pc \in {"found", "click"} /\ ~Replays(runner) => k \in DOMAIN S.ways
    /\ pc = "tick" => row # 0
    /\ pc = "guard" => steady = 0

TypeInv == Typed /\ PlaceInv

\* The types hold at first.
LEMMA InitTypes == Init => TypeInv
<1>1. SUFFICES ASSUME Init PROVE TypeInv
  OBVIOUS
<1>2. PICK s \in Scenes : /\ runner \in s.runners /\ step = s.step /\ page = s.page
                          /\ search = Search(runner, s.step) /\ drawn = s.drawn /\ on = s.page.on
  BY <1>1 DEF Init
<1>3. SceneOK
  BY <1>2 DEF SceneOK
<1>4. Len(search) \in Nat /\ Len(search) > 0
  BY <1>2, SearchOf
<1>5. drawn \in [Items -> Drawn] /\ on \in [Items -> BOOLEAN]
  BY <1>2, ScenesAssumption DEF PageOf
<1>6. WorldOK /\ PlaceOK /\ RowsOK /\ AimOK /\ GhostsOK
  <2>1. /\ value = 0 /\ redraws = 0 /\ pc = "guard" /\ tries = 0 /\ stage = 1 /\ k = 1 /\ clicks = 1
        /\ told = {} /\ row = 0 /\ spot = 0 /\ moved = FALSE /\ acted = {} /\ steady = 0 /\ sure = TRUE
    BY <1>1 DEF Init
  <2>2. WorldOK /\ RowsOK /\ AimOK /\ GhostsOK
    BY <1>5, <2>1 DEF WorldOK, RowsOK, AimOK, GhostsOK, Item
  <2>3. PlaceOK
    BY <1>4, <2>1 DEF PlaceOK, Places
  <2>4. QED
    BY <2>2, <2>3
<1>7. PlaceInv
  BY <1>1 DEF Init, PlaceInv
<1>8. QED
  BY <1>3, <1>6, <1>7, TypeParts DEF TypeInv

\* The scene is never left.
LEMMA SceneKept == ASSUME Typed, UNCHANGED scene PROVE SceneOK'
  BY TypeParts DEF SceneOK, scene

\* A step that begins, or looks again, is in a place.
LEMMA BeginPlace ==
    ASSUME TypeInv, NEW n \in Nat \ {0}, Begin(n), UNCHANGED scene, tries' \in Nat
    PROVE  PlaceOK' /\ AimOK' /\ PlaceInv' /\ steady' \in Item /\ row' = 0
<1>1. FirstChoice(drawn) \in Item /\ Len(search) \in Nat /\ Len(search) > 0
  BY SceneFacts, FirstChoiceIn DEF TypeInv, Typed, TypeOK
<1>2. /\ stage' = 1 /\ k' = 1 /\ clicks' = n /\ row' = 0 /\ spot' = 0 /\ moved' = FALSE
      /\ pc' = IF step.kind = "rows" THEN "rows" ELSE "search"
      /\ steady' = IF step.kind = "rows" THEN 0 ELSE FirstChoice(drawn)
  BY DEF Begin
<1>3. UNCHANGED <<runner, step, page, search>>
  BY DEF scene
<1>4. PlaceOK'
  BY <1>1, <1>2, <1>3 DEF PlaceOK, Places
<1>5. AimOK' /\ steady' \in Item
  BY <1>1, <1>2 DEF AimOK, Item
<1>6. PlaceInv'
  BY <1>2, <1>3 DEF PlaceInv
<1>7. QED
  BY <1>2, <1>4, <1>5, <1>6

\* So is an attempt that failed.
LEMMA FailsPlace ==
    ASSUME TypeInv, AttemptFails, UNCHANGED scene
    PROVE  PlaceOK' /\ RowsOK' /\ AimOK' /\ PlaceInv' /\ steady' \in Item
<1>1. tries \in Nat /\ step.retries \in Nat /\ Len(search) \in Nat /\ Len(search) > 0
  BY SceneFacts DEF TypeInv, Typed, TypeOK
<1>2. told' = {}
  BY DEF AttemptFails
<1>3. UNCHANGED <<runner, step, page, search>>
  BY DEF scene
<1>4. CASE tries < step.retries /\ runner.again = "whole"
  <2>1. tries' = tries + 1 /\ ToGuard
    BY <1>4 DEF AttemptFails
  <2>2. /\ pc' = "guard" /\ stage' = 1 /\ k' = 1 /\ clicks' = 1
        /\ row' = 0 /\ spot' = 0 /\ moved' = FALSE /\ steady' = 0
    BY <2>1 DEF ToGuard
  <2>3. PlaceOK'
    BY <1>1, <1>3, <2>1, <2>2 DEF PlaceOK, Places
  <2>4. RowsOK' /\ AimOK' /\ steady' \in Item
    BY <1>2, <2>2 DEF RowsOK, AimOK, Item
  <2>5. PlaceInv'
    BY <2>2 DEF PlaceInv
  <2>6. QED
    BY <2>3, <2>4, <2>5
<1>5. CASE tries < step.retries /\ runner.again # "whole"
  <2>1. tries' = tries + 1 /\ Begin(1)
    BY <1>5 DEF AttemptFails
  <2>2. tries' \in Nat
    BY <1>1, <2>1
  <2>3. PlaceOK' /\ AimOK' /\ PlaceInv' /\ steady' \in Item /\ row' = 0
    BY <2>1, <2>2, BeginPlace
  <2>4. QED
    BY <1>2, <2>3 DEF RowsOK, Item
<1>6. CASE ~(tries < step.retries)
  <2>1. /\ pc' \in {"continued", "failed"}
        /\ UNCHANGED <<tries, stage, k, clicks, row, aim, steady>>
    BY <1>6 DEF AttemptFails
  <2>2. PlaceOK'
    BY <1>3, <2>1 DEF PlaceOK, Places, Over, TypeInv, Typed, TypeOK
  <2>3. RowsOK' /\ AimOK' /\ steady' \in Item
    BY <1>2, <2>1 DEF RowsOK, AimOK, aim, TypeInv, Typed, TypeOK
  <2>4. PlaceInv'
    BY <1>3, <2>1 DEF PlaceInv
  <2>5. QED
    BY <2>2, <2>3, <2>4
<1>7. QED
  BY <1>4, <1>5, <1>6

\* What a click may reach is an item or nothing; a flow reaches what its way finds.
LEMMA ReachedIn ==
    ASSUME TypeInv, pc \in {"found", "click"}, NEW i \in Reached
    PROVE  /\ i \in Item
           /\ ~Replays(runner) => /\ k \in DOMAIN S.ways
                                  /\ i = IF Shown(drawn, Found(drawn, W)) THEN Found(drawn, W) ELSE 0
           /\ ~Replays(runner) /\ step.find.anchor /\ i # 0 => page.box[i] \in page.named
           /\ runner.search = "queries" => i = spot
<1>1. CASE ~Replays(runner)
  <2>1. k \in DOMAIN S.ways /\ stage \in 1..Len(search) /\ drawn \in [Items -> Drawn]
    BY <1>1 DEF TypeInv, Typed, TypeOK, PlaceInv
  <2>2. /\ Found(drawn, W) \in Item
        /\ step.find.anchor /\ Found(drawn, W) # 0 => page.box[Found(drawn, W)] \in page.named
    BY <1>1, <2>1, FoundIn DEF TypeInv, S, W
  <2>3. i = IF Shown(drawn, Found(drawn, W)) THEN Found(drawn, W) ELSE 0
    <3>1. Reached = {IF Shown(drawn, Found(drawn, W)) THEN Found(drawn, W) ELSE 0}
      BY <1>1 DEF Reached, Replays
    <3>2. QED
      BY <3>1
  <2>4. QED
    BY <1>1, <2>1, <2>2, <2>3 DEF Item, Replays
<1>2. CASE Replays(runner)
  <2>1. In(drawn, {"shown"}) \subseteq Items /\ spot \in Item
    BY DEF In, TypeInv, Typed, TypeOK
  <2>2. i = spot \/ (runner.search # "queries" /\ i \in {0} \cup In(drawn, {"shown"}))
    BY <1>2 DEF Reached
  <2>3. QED
    BY <1>2, <2>1, <2>2 DEF Item
<1>3. QED
  BY <1>1, <1>2

\* Every step keeps the types.
LEMMA StepTypes == TypeInv /\ [Next]_vars => TypeInv'
<1>1. SUFFICES ASSUME TypeInv, [Next]_vars PROVE TypeInv'
  OBVIOUS
<1>2. SceneOK /\ WorldOK /\ PlaceOK /\ RowsOK /\ AimOK /\ GhostsOK /\ PlaceInv
  BY <1>1, TypeParts DEF TypeInv
<1>3. UNCHANGED scene
  BY <1>1 DEF Next, vars, scene, PassOver, Passes, GoAhead, Find, TryNext, GiveUp, ReplayFinds, LookAria,
         Click, ClickFails, SelectNative, Open, OpenFails, NextRecalled, Aim, Choose, Guess, Retype, NoOption,
         SelectDone, NotApplied, RowPassed, RowRead, Tick, TickFails, PassEnds, RowsEnd, Redraw, Rest
<1>4. SceneOK'
  BY <1>1, <1>3, SceneKept DEF TypeInv
<1>5. UNCHANGED <<runner, step, page, search>> /\ runner' \in Runners
  BY <1>1, <1>3, SceneFacts DEF scene, TypeInv
<1>6. SUFFICES WorldOK' /\ PlaceOK' /\ RowsOK' /\ AimOK' /\ GhostsOK' /\ PlaceInv'
  BY <1>4, <1>5 DEF TypeInv, Typed, TypeOK, WorldOK, PlaceOK, RowsOK, AimOK, GhostsOK, Places
<1>7. CASE UNCHANGED vars
  BY <1>2, <1>5, <1>7 DEF vars, WorldOK, PlaceOK, RowsOK, AimOK, GhostsOK, PlaceInv, Places, Over, Item, To, scene, world, place, rows, aim, ghosts, S, W
<1>8. CASE PassOver
  BY <1>2, <1>5, <1>8 DEF PassOver, WorldOK, PlaceOK, RowsOK, AimOK, GhostsOK, PlaceInv, Places, Over, Item, To, Passes, world, rows, aim, ghosts, S, W
<1>9. CASE GoAhead
  <2>1. Begin(1) /\ told' = {} /\ UNCHANGED <<drawn, value, redraws, tries, sure>> /\ tries' \in Nat
    BY <1>2, <1>9 DEF GoAhead, PlaceOK
  <2>2. PlaceOK' /\ AimOK' /\ PlaceInv' /\ steady' \in Item /\ row' = 0
    BY <1>1, <1>3, <2>1, BeginPlace
  <2>3. on' \in [Items -> BOOLEAN] /\ acted' \subseteq Items
    <3>1. CASE GuardClicks
      <4> DEFINE i == Located(page, drawn, Way("css", FALSE, 0))
      <4>1. on' = [on EXCEPT ![i] = ~on[i]] /\ acted' = acted \cup {i}
        BY <1>9, <3>1 DEF GoAhead
      <4>2. i \in Items
        <5>1. page.box \in [Items -> Nat] /\ Way("css", FALSE, 0).nth \in Nat
          BY <1>1, SceneFacts DEF TypeInv, PageOf, Way
        <5>2. i \in Items \cup {0}
          BY <1>2, <5>1, LocatedIn DEF WorldOK
        <5>3. i # 0
          BY <3>1 DEF GuardClicks, Shown
        <5>4. QED
          BY <5>2, <5>3
      <4> HIDE DEF i
      <4>3. QED
        BY <1>2, <4>1, <4>2 DEF WorldOK, GhostsOK
    <3>2. CASE ~GuardClicks
      BY <1>2, <1>9, <3>2 DEF GoAhead, WorldOK, GhostsOK
    <3>3. QED
      BY <3>1, <3>2
  <2>4. QED
    BY <1>2, <2>1, <2>2, <2>3 DEF WorldOK, RowsOK, GhostsOK, Item
<1>10. CASE Find
  <2>1. pc' = "found" /\ InSight /\ step.kind # "rows"
    BY <1>2, <1>10 DEF Find, To, PlaceInv
  <2>2. UNCHANGED <<drawn, on, value, redraws, tries, stage, k, clicks, told, row, spot, moved, acted, steady, sure>>
    BY <1>10 DEF Find, To, world, rows, aim, ghosts
  <2>3. QED
    BY <1>2, <1>5, <2>1, <2>2 DEF WorldOK, PlaceOK, RowsOK, AimOK, GhostsOK, PlaceInv, Places, InSight, S
<1>11. CASE TryNext
  <2>1. pc = "search" /\ pc' = pc
    BY <1>11 DEF TryNext
  <2>2. UNCHANGED <<drawn, on, value, redraws, tries, clicks, told, row, spot, moved, acted, steady, sure>>
    BY <1>11 DEF TryNext, world, rows, aim, ghosts
  <2>3. Len(search) \in Nat
    BY <1>1, SceneFacts DEF TypeInv
  <2>4. stage' \in 1..Len(search) /\ k' \in Nat \ {0}
    BY <1>2, <1>11, <2>3 DEF TryNext, PlaceOK
  <2>5. QED
    BY <1>2, <1>5, <2>1, <2>2, <2>4 DEF WorldOK, PlaceOK, RowsOK, AimOK, GhostsOK, PlaceInv, Places
<1>12. CASE GiveUp
  <2>1. AttemptFails /\ UNCHANGED <<drawn, on, value, redraws, acted, sure>>
    BY <1>12 DEF GiveUp, world
  <2>2. PlaceOK' /\ RowsOK' /\ AimOK' /\ PlaceInv' /\ steady' \in Item
    BY <1>1, <1>3, <2>1, FailsPlace
  <2>3. QED
    BY <1>2, <2>1, <2>2 DEF WorldOK, GhostsOK
<1>13. CASE OpenFails
  <2>1. AttemptFails /\ UNCHANGED <<drawn, on, value, redraws, acted, sure>>
    BY <1>13 DEF OpenFails, world
  <2>2. PlaceOK' /\ RowsOK' /\ AimOK' /\ PlaceInv' /\ steady' \in Item
    BY <1>1, <1>3, <2>1, FailsPlace
  <2>3. QED
    BY <1>2, <2>1, <2>2 DEF WorldOK, GhostsOK
<1>14. CASE NoOption
  <2>1. AttemptFails /\ UNCHANGED <<drawn, on, value, redraws, acted, sure>>
    BY <1>14 DEF NoOption, world
  <2>2. PlaceOK' /\ RowsOK' /\ AimOK' /\ PlaceInv' /\ steady' \in Item
    BY <1>1, <1>3, <2>1, FailsPlace
  <2>3. QED
    BY <1>2, <2>1, <2>2 DEF WorldOK, GhostsOK
<1>15. CASE TickFails
  <2>1. AttemptFails /\ UNCHANGED <<drawn, on, value, redraws, acted, sure>>
    BY <1>15 DEF TickFails, world
  <2>2. PlaceOK' /\ RowsOK' /\ AimOK' /\ PlaceInv' /\ steady' \in Item
    BY <1>1, <1>3, <2>1, FailsPlace
  <2>3. QED
    BY <1>2, <2>1, <2>2 DEF WorldOK, GhostsOK
<1>16. CASE ReplayFinds
  <2>1. PICK m \in DOMAIN S.ways : spot' = Found(drawn, S.ways[m])
    BY <1>16 DEF ReplayFinds
  <2>2. spot' \in Item
    BY <1>1, <1>2, <2>1, FoundIn DEF TypeInv, WorldOK, PlaceOK, S
  <2>3. QED
    BY <1>2, <1>5, <1>16, <2>2 DEF ReplayFinds, To, world, rows, ghosts,
           WorldOK, PlaceOK, RowsOK, AimOK, GhostsOK, PlaceInv, Places, S
<1>17. CASE LookAria
  <2>1. pc = "found" /\ step.kind = "click" /\ step.aria # "no" /\ runner.aria /\ pc' \in {"done", "click"}
    BY <1>17 DEF LookAria, To
  <2>2. UNCHANGED <<drawn, on, value, redraws, tries, stage, k, clicks, told, row, spot, moved, acted, steady, sure>>
    BY <1>17 DEF LookAria, To, world, rows, aim, ghosts
  <2>3. QED
    BY <1>2, <1>5, <2>1, <2>2 DEF WorldOK, PlaceOK, RowsOK, AimOK, GhostsOK, PlaceInv, Places, Over, S
<1>18. CASE Click
  <2>1. pc \in {"found", "click"}
    BY <1>18 DEF Click, ToClick, ActsDirectly
  <2>2. PICK i \in Reached : Toggle(i)
    BY <1>18 DEF Click
  <2>3. i \in Item
    BY <1>1, <2>1, ReachedIn
  <2>4. on' \in [Items -> BOOLEAN] /\ acted' \subseteq Items
    BY <1>2, <2>2, <2>3 DEF Toggle, WorldOK, GhostsOK, Item
  <2>5. QED
    BY <1>2, <1>5, <1>18, <2>4 DEF Click, To, rows, aim,
           WorldOK, PlaceOK, RowsOK, AimOK, GhostsOK, PlaceInv, Places, Over
<1>19. CASE ClickFails
  <2>1. pc \in {"found", "click"}
    BY <1>19 DEF ClickFails, ToClick, ActsDirectly
  <2>2. PICK i \in Reached \cup {0} : Toggle(i)
    BY <1>19 DEF ClickFails
  <2>3. i \in Item
    BY <1>1, <2>1, ReachedIn DEF Item
  <2>4. on' \in [Items -> BOOLEAN] /\ acted' \subseteq Items
    BY <1>2, <2>2, <2>3 DEF Toggle, WorldOK, GhostsOK, Item
  <2>5. UNCHANGED <<drawn, value, redraws, sure>>
    BY <1>19 DEF ClickFails
  <2>6. PlaceOK' /\ RowsOK' /\ AimOK' /\ PlaceInv' /\ steady' \in Item
    <3>1. CASE Begin(clicks + 1) /\ UNCHANGED <<told, tries>>
      <4>1. clicks + 1 \in Nat \ {0} /\ tries' \in Nat
        BY <1>2, <3>1 DEF PlaceOK
      <4>2. PlaceOK' /\ AimOK' /\ PlaceInv' /\ steady' \in Item /\ row' = 0
        BY <1>1, <1>3, <3>1, <4>1, BeginPlace
      <4>3. QED
        BY <1>2, <3>1, <4>2 DEF RowsOK, Item
    <3>2. CASE AttemptFails
      BY <1>1, <1>3, <3>2, FailsPlace
    <3>3. QED
      BY <1>19, <3>1, <3>2 DEF ClickFails
  <2>7. QED
    BY <1>2, <2>4, <2>5, <2>6 DEF WorldOK, GhostsOK
<1>20. CASE Open
  <2>1. pc = "found" /\ step.kind = "select" /\ pc' = "choose" /\ k' = 1
    BY <1>20 DEF Open
  <2>2. UNCHANGED <<on, value, redraws, tries, stage, clicks, told, row, spot, moved, sure>>
    BY <1>20 DEF Open, rows, aim
  <2>3. PICK i \in Reached : /\ acted' = acted \cup ({i} \ {0})
                             /\ drawn' = [j \in Items |-> IF j \in page.offers /\ i \notin {0} \cup page.options
                                                           THEN "shown" ELSE drawn[j]]
    BY <1>20 DEF Open
  <2>4. i \in Item
    BY <1>1, <2>1, ReachedIn
  <2>5. drawn' \in [Items -> Drawn] /\ acted' \subseteq Items
    BY <1>2, <2>3, <2>4 DEF WorldOK, GhostsOK, Item, Drawn
  <2>6. steady' \in Item
    BY <1>1, <1>20, ExactIn DEF Open, TypeInv
  <2>7. QED
    BY <1>2, <1>5, <2>1, <2>2, <2>5, <2>6 DEF WorldOK, PlaceOK, RowsOK, AimOK, GhostsOK, PlaceInv, Places
<1>21. CASE Aim
  <2>1. Option \in Item
    BY <1>1, OptionIn DEF TypeInv
  <2>2. QED
    BY <1>2, <1>5, <1>21, <2>1 DEF Aim, To, world, rows, ghosts,
           WorldOK, PlaceOK, RowsOK, AimOK, GhostsOK, PlaceInv, Places
<1>22. CASE Choose
  <2>1. pc \in {"choose", "aimed"} /\ pc' \in {"done", "verify"} /\ sure' \in BOOLEAN
    BY <1>2, <1>22 DEF Choose, To, GhostsOK
  <2>2. UNCHANGED <<drawn, on, redraws, tries, stage, k, clicks, told, row, spot, moved, acted, steady>>
    BY <1>22 DEF Choose, To, rows, aim
  <2>3. value' \in Item
    <3>1. Option \in Item
      BY <1>1, OptionIn DEF TypeInv
    <3>2. In(drawn, {"shown"}) \subseteq Items
      BY <1>2 DEF In, WorldOK
    <3>3. value' \in {Option, value, spot} \cup In(drawn, {"shown"})
      BY <1>22 DEF Choose
    <3>4. QED
      BY <1>2, <3>1, <3>2, <3>3 DEF WorldOK, AimOK, Item
  <2>4. QED
    BY <1>2, <1>5, <2>1, <2>2, <2>3 DEF WorldOK, PlaceOK, RowsOK, AimOK, GhostsOK, PlaceInv, Places, Over
<1>23. CASE Guess
  <2>1. pc = "choose" /\ pc' \in {"done", "verify"}
    BY <1>23 DEF Guess, To
  <2>2. UNCHANGED <<drawn, on, redraws, tries, stage, k, clicks, told, row, spot, moved, acted, steady, sure>>
    BY <1>23 DEF Guess, To, rows, aim, ghosts
  <2>3. value' \in Item
    <3>1. page.options \subseteq Items
      BY <1>1, SceneFacts DEF TypeInv, PageOf
    <3>2. value' \in {value} \cup page.options
      BY <1>23 DEF Guess, Offered
    <3>3. QED
      BY <1>2, <3>1, <3>2 DEF WorldOK, Item
  <2>4. QED
    BY <1>2, <1>5, <2>1, <2>2, <2>3 DEF WorldOK, PlaceOK, RowsOK, AimOK, GhostsOK, PlaceInv, Places, Over
<1>24. CASE Retype
  BY <1>2, <1>5, <1>24 DEF Retype, WorldOK, PlaceOK, RowsOK, AimOK, GhostsOK, PlaceInv, Places, Over, Item, To, world, rows, aim, ghosts, S, W
<1>25. CASE SelectDone
  BY <1>2, <1>5, <1>25 DEF SelectDone, WorldOK, PlaceOK, RowsOK, AimOK, GhostsOK, PlaceInv, Places, Over, Item, To, world, rows, aim, ghosts, S, W
<1>26. CASE NotApplied
  <2>1. pc = "verify" /\ UNCHANGED <<drawn, on, value, redraws, acted, sure>>
    BY <1>26 DEF NotApplied, world
  <2>2. CASE AttemptFails
    <3>1. PlaceOK' /\ RowsOK' /\ AimOK' /\ PlaceInv' /\ steady' \in Item
      BY <1>1, <1>3, <2>2, FailsPlace
    <3>2. QED
      BY <1>2, <2>1, <3>1 DEF WorldOK, GhostsOK
  <2>3. CASE pc' = "choose" /\ clicks' = clicks + 1 /\ UNCHANGED <<tries, stage, k, rows, aim, steady>>
    BY <1>2, <1>5, <2>1, <2>3 DEF rows, aim, WorldOK, PlaceOK, RowsOK, AimOK, GhostsOK, PlaceInv, Places
  <2>4. QED
    BY <1>26, <2>2, <2>3 DEF NotApplied
<1>27. CASE RowPassed
  BY <1>2, <1>5, <1>27 DEF RowPassed, WorldOK, PlaceOK, RowsOK, AimOK, GhostsOK, PlaceInv, Places, Over, Item, To, world, rows, aim, ghosts, S, W
<1>28. CASE RowRead
  <2>1. pc = "rows" /\ pc' = "tick" /\ row' = RowAt(k) /\ RowAt(k) # 0
    BY <1>28 DEF RowRead, To
  <2>2. UNCHANGED <<drawn, on, value, redraws, tries, stage, k, clicks, told, spot, moved, acted, steady, sure>>
    BY <1>28 DEF RowRead, To, world, aim, ghosts
  <2>3. RowAt(k) \in Item
    BY <1>1, <1>2, RowAtIn DEF TypeInv, PlaceOK
  <2>4. QED
    BY <1>2, <1>5, <2>1, <2>2, <2>3 DEF WorldOK, PlaceOK, RowsOK, AimOK, GhostsOK, PlaceInv, Places
<1>29. CASE Tick
  <2>1. PICK ticked \in BOOLEAN :
            /\ pc = "tick" /\ Ticked # 0 /\ on' = [on EXCEPT ![Ticked] = ticked]
            /\ told' = IF Tells(ticked) THEN told \cup {row} ELSE told
            /\ sure' = (sure /\ (runner.rows = "clicked" => ticked))
            /\ pc' = "rows" /\ k' = k + 1 /\ row' = 0
    BY <1>29 DEF Tick
  <2>2. UNCHANGED <<drawn, value, redraws, tries, stage, clicks, spot, moved, acted, steady>>
    BY <1>29 DEF Tick, aim
  <2>3. row \in Items
    BY <1>2, <2>1 DEF RowsOK, PlaceInv, Item
  <2>4. on' \in [Items -> BOOLEAN]
    BY <1>2, <2>1 DEF WorldOK
  <2>5. told' \subseteq Items
    BY <1>2, <2>1, <2>3 DEF RowsOK
  <2>6. sure' \in BOOLEAN
    BY <1>2, <2>1 DEF GhostsOK
  <2>7. QED
    BY <1>2, <1>5, <2>1, <2>2, <2>4, <2>5, <2>6
    DEF WorldOK, PlaceOK, RowsOK, AimOK, GhostsOK, PlaceInv, Places, Item
<1>30. CASE PassEnds
  BY <1>2, <1>5, <1>30 DEF PassEnds, WorldOK, PlaceOK, RowsOK, AimOK, GhostsOK, PlaceInv, Places, Over, Item, To, world, rows, aim, ghosts, S, W
<1>31. CASE RowsEnd
  <2>1. pc = "rows" /\ UNCHANGED <<drawn, on, value, redraws, acted, sure>>
    BY <1>31 DEF RowsEnd, world
  <2>2. CASE AttemptFails
    <3>1. PlaceOK' /\ RowsOK' /\ AimOK' /\ PlaceInv' /\ steady' \in Item
      BY <1>1, <1>3, <2>2, FailsPlace
    <3>2. QED
      BY <1>2, <2>1, <3>1 DEF WorldOK, GhostsOK
  <2>3. CASE To("done") /\ UNCHANGED <<rows, aim, steady>>
    BY <1>2, <1>5, <2>1, <2>3 DEF To, rows, aim, WorldOK, PlaceOK, RowsOK, AimOK, GhostsOK, PlaceInv, Places, Over
  <2>4. QED
    BY <1>31, <2>2, <2>3 DEF RowsEnd
<1>32. CASE Redraw
  <2>1. PICK i \in Items, state \in Drawn : drawn' = [drawn EXCEPT ![i] = state]
    BY <1>32 DEF Redraw
  <2>2. /\ UNCHANGED <<on, value, pc, tries, stage, k, clicks, told, row, spot, acted>> /\ pc # "guard"
        /\ redraws' = redraws + 1 /\ moved' = TRUE
        /\ steady' \in {steady, 0}
        /\ sure' = (sure /\ (pc \in {"click", "tick"} => runner.rows = "held"))
    BY <1>32 DEF Redraw, place, rows
  <2>3. drawn' \in [Items -> Drawn] /\ sure' \in BOOLEAN
    BY <1>2, <2>1, <2>2 DEF WorldOK, GhostsOK
  <2>4. QED
    BY <1>2, <1>5, <2>2, <2>3 DEF WorldOK, PlaceOK, RowsOK, AimOK, GhostsOK, PlaceInv, Places, Item, S
<1>33. CASE Rest
  BY <1>7, <1>33 DEF Rest
<1>34. CASE SelectNative
  <2>1. pc' = "done" /\ value' = NativeOption /\ steady' = Exact(drawn)
    BY <1>34 DEF SelectNative, To
  <2>2. UNCHANGED <<drawn, on, redraws, tries, stage, k, clicks, told, row, spot, moved, acted, sure>>
    BY <1>34 DEF SelectNative, To, rows, aim
  <2>3. value' \in Item /\ steady' \in Item
    BY <1>1, <2>1, ExactIn, NativeIn DEF TypeInv
  <2>4. QED
    BY <1>2, <1>5, <2>1, <2>2, <2>3 DEF WorldOK, PlaceOK, RowsOK, AimOK, GhostsOK, PlaceInv, Places, Over
<1>35. CASE NextRecalled
  <2>1. pc = "choose" /\ UNCHANGED <<pc, tries, stage, clicks>> /\ k' \in Nat \ {0}
    BY <1>2, <1>35 DEF NextRecalled, FirstRecalled, PlaceOK
  <2>2. UNCHANGED <<drawn, on, value, redraws, told, row, spot, moved, acted, steady, sure>>
    BY <1>35 DEF NextRecalled, world, rows, aim, ghosts
  <2>3. QED
    BY <1>2, <1>5, <2>1, <2>2 DEF WorldOK, PlaceOK, RowsOK, AimOK, GhostsOK, PlaceInv, Places
<1>36. QED
  BY <1>1, <1>7, <1>8, <1>9, <1>10, <1>11, <1>12, <1>13, <1>14, <1>15, <1>16, <1>17, <1>18, <1>19, <1>20, <1>21, <1>22, <1>23, <1>24, <1>25, <1>26, <1>27, <1>28, <1>29, <1>30, <1>31, <1>32, <1>33, <1>34, <1>35 DEF Next

\* Every variable keeps its type, whatever runner, scene and changes of the page:
\* what a step looks at, chooses and acts on are items of the page (TypeOK of
\* RecordedStep).
THEOREM TypeCorrect == Spec => []TypeOK
<1>1. TypeInv => TypeOK
  BY DEF TypeInv, Typed
<1>2. QED
  BY <1>1, InitTypes, StepTypes, PTL DEF Spec

-----------------------------------------------------------------------------
(* What a step acts on and leaves.                                          *)

(* Looked at, found, or to be clicked.                                     *)
Searching == pc \in {"search", "found", "click"}
StatesAria == step.kind = "click" /\ step.aria # "no" /\ runner.aria

ToggleInv ==
    StatesAria /\ page.exposed /\ sure
    => /\ \A i \in acted : on[i] = (step.aria = "on")
       /\ pc = "click" => ~AsRecorded(Found(drawn, W))

(* The runners of which the exact option is asked for, on a list where no  *)
(* candidate stands for another one.                                       *)
TakesExact == /\ runner.match \in {"exactFirst", "exactOrWords"}
              /\ NoOtherRecalled /\ ~(Native /\ Replays(runner))

OptionInv ==
    step.kind = "select"
    => /\ pc = "aimed" => Aims
       /\ steady # 0 /\ pc \in {"choose", "aimed", "verify"} => Exact(drawn) = steady
       /\ steady # 0 /\ pc \in {"verify", "done"} /\ sure /\ TakesExact => value = steady

RowsInv ==
    step.kind = "rows" /\ sure
    => /\ \A i \in told : on[i]
       /\ tries = 0 /\ pc \notin {"failed", "continued"}
          => \A i \in Items : on[i] => i \in told \cup acted \/ page.on[i]
       /\ pc = "tick" /\ runner.rows # "held" => row = RowAt(k)
       /\ pc = "guard" => told = {}

HasFirstChoice == /\ steady # 0 /\ step.kind \in {"click", "act"} /\ runner.search # "points"
                  /\ ~(search[1].ranked /\ search[1].ways[1].nth > 0)

FirstInv ==
    HasFirstChoice /\ Searching
    => /\ steady = FirstChoice(drawn) /\ stage = 1
       /\ Replays(runner) \/ k = 1
       /\ Replays(runner) /\ pc = "found" => spot = steady

\* An attempt that failed looks again, or is the last one.
LEMMA FailsWhere ==
    ASSUME Typed, AttemptFails
    PROVE  /\ told' = {} /\ pc' \in {"guard", "rows", "search", "continued", "failed"}
           /\ pc' \notin {"continued", "failed"} => tries' # 0
           /\ pc' = "rows" => step.kind = "rows"
<1>1. tries \in Nat
  BY DEF Typed, TypeOK
<1>2. QED
  BY <1>1 DEF AttemptFails, ToGuard, Begin

\* What is acted on: an element a flow or the replay found, or one that the replay
\* clicks to find out whether it is there.
LEMMA ActedEffect ==
    ASSUME TypeInv, [Next]_vars
    PROVE  \/ UNCHANGED acted
           \/ Replays(runner) /\ pc = "guard"
           \/ pc \in {"found", "click"} /\ \E i \in Reached : acted' = acted \cup ({i} \ {0})
<1>1. CASE GoAhead
  <2>1. CASE GuardClicks
    <3>1. runner.visible = "clicks"
      BY <2>1 DEF GuardClicks
    <3>2. Replays(runner)
      BY <3>1, SceneFacts DEF TypeInv
    <3>3. QED
      BY <1>1, <3>2 DEF GoAhead
  <2>2. CASE ~GuardClicks
    BY <1>1, <2>2 DEF GoAhead
  <2>3. QED
    BY <2>1, <2>2
<1>2. CASE Click
  <2>1. PICK i \in Reached : Toggle(i)
    BY <1>2 DEF Click
  <2>2. pc \in {"found", "click"}
    BY <1>2 DEF Click, ToClick, ActsDirectly
  <2>3. QED
    BY <2>1, <2>2 DEF Toggle
<1>3. CASE ClickFails
  <2>1. PICK i \in Reached \cup {0} : Toggle(i)
    BY <1>3 DEF ClickFails
  <2>2. pc \in {"found", "click"}
    BY <1>3 DEF ClickFails, ToClick, ActsDirectly
  <2>3. acted' = acted \cup ({i} \ {0})
    BY <2>1 DEF Toggle
  <2>4. i = 0 => UNCHANGED acted
    BY <2>3
  <2>5. QED
    BY <2>1, <2>2, <2>3, <2>4
<1>4. CASE Open
  BY <1>4 DEF Open
<1>5. CASE UNCHANGED acted
  BY <1>5
<1>6. QED
  BY <1>1, <1>2, <1>3, <1>4, <1>5 DEF Next, vars, ghosts, PassOver, Passes, Find, TryNext, GiveUp, ReplayFinds,
     LookAria, SelectNative, OpenFails, NextRecalled, Aim, Choose, Guess, Retype, NoOption, SelectDone, NotApplied,
     RowPassed, RowRead, Tick, TickFails, PassEnds, RowsEnd, Redraw, Rest

\* The scene stays.
LEMMA SceneStays == ASSUME [Next]_vars PROVE UNCHANGED <<runner, step, page, search>>
  BY DEF Next, vars, scene, PassOver, Passes, GoAhead, Find, TryNext, GiveUp, ReplayFinds, LookAria,
     Click, ClickFails, SelectNative, Open, OpenFails, NextRecalled, Aim, Choose, Guess, Retype, NoOption,
     SelectDone, NotApplied, RowPassed, RowRead, Tick, TickFails, PassEnds, RowsEnd, Redraw, Rest

\* A step keeps a flow to the rows of its anchor.
LEMMA StepAnchored == TypeInv /\ ActsOnTheAnchored /\ [Next]_vars => ActsOnTheAnchored'
<1>1. SUFFICES ASSUME TypeInv, ActsOnTheAnchored, [Next]_vars, ~Replays(runner), step.find.anchor
               PROVE  \A i \in acted' : page.box[i] \in page.named
  BY SceneStays DEF ActsOnTheAnchored
<1>2. \A i \in acted : page.box[i] \in page.named
  BY <1>1 DEF ActsOnTheAnchored
<1>3. CASE UNCHANGED acted
  BY <1>2, <1>3
<1>4. CASE pc \in {"found", "click"} /\ \E i \in Reached : acted' = acted \cup ({i} \ {0})
  <2>1. PICK i \in Reached : acted' = acted \cup ({i} \ {0})
    BY <1>4
  <2>2. i # 0 => page.box[i] \in page.named
    BY <1>1, <1>4, ReachedIn
  <2>3. QED
    BY <1>2, <2>1, <2>2
<1>5. QED
  BY <1>1, <1>3, <1>4, ActedEffect

\* A flow that looks in the row of its anchor never acts on anything outside of a
\* row with the anchor's text, for any page, any changes of it and any repeats
\* (ActsOnTheAnchored of RecordedStep).
THEOREM FlowsStayInTheRow == Spec => []ActsOnTheAnchored
<1>1. Init => ActsOnTheAnchored
  BY DEF Init, ActsOnTheAnchored
<1>2. QED
  BY <1>1, InitTypes, StepTypes, StepAnchored, PTL DEF Spec

\* What a step on a toggle with a recorded state may do.
LEMMA AriaSteps ==
    ASSUME TypeInv, [Next]_vars, StatesAria
    PROVE  \/ UNCHANGED <<on, acted, sure>> /\ pc' # "click"
           \/ LookAria \/ Click \/ ClickFails \/ Redraw \/ UNCHANGED vars
<1>1. step.kind = "click" /\ ~Replays(runner) /\ runner.visible = "looks"
  BY SceneFacts DEF TypeInv, StatesAria
<1>2. pc \notin {"choose", "aimed", "verify", "rows", "tick"}
  BY <1>1 DEF TypeInv, PlaceInv
<1>3. CASE PassOver \/ Find
  BY <1>3 DEF PassOver, Find, Passes, To, world, ghosts
<1>4. CASE GoAhead
  <2>1. ~GuardClicks
    BY <1>1 DEF GuardClicks
  <2>2. UNCHANGED <<on, acted, sure>> /\ Begin(1)
    BY <1>4, <2>1 DEF GoAhead
  <2>3. QED
    BY <2>2 DEF Begin
<1>5. CASE TryNext
  BY <1>5 DEF TryNext, world, ghosts
<1>6. CASE GiveUp
  <2>1. AttemptFails /\ UNCHANGED <<on, acted, sure>>
    BY <1>6 DEF GiveUp, world
  <2>2. QED
    BY <2>1, FailsWhere DEF TypeInv
<1>7. CASE ReplayFinds
  BY <1>1, <1>7 DEF ReplayFinds
<1>8. CASE SelectNative \/ Open \/ OpenFails
  BY <1>1, <1>8 DEF SelectNative, Open, OpenFails
<1>9. CASE NextRecalled \/ Aim \/ Choose \/ Guess \/ Retype \/ NoOption \/ SelectDone \/ NotApplied
  BY <1>2, <1>9 DEF NextRecalled, Aim, Choose, Guess, Retype, NoOption, SelectDone, NotApplied
<1>10. CASE RowPassed \/ RowRead \/ Tick \/ TickFails \/ PassEnds \/ RowsEnd
  BY <1>2, <1>10 DEF RowPassed, RowRead, Tick, TickFails, PassEnds, RowsEnd
<1>11. QED
  BY <1>3, <1>4, <1>5, <1>6, <1>7, <1>8, <1>9, <1>10 DEF Next, Rest

\* A step keeps toggles as they were recorded.
LEMMA StepToggles == TypeInv /\ ToggleInv /\ [Next]_vars => ToggleInv'
<1>1. SUFFICES ASSUME TypeInv, ToggleInv, [Next]_vars, StatesAria, page.exposed, sure'
               PROVE  /\ \A i \in acted' : on'[i] = (step.aria = "on")
                      /\ pc' = "click" => ~AsRecorded(Found(drawn, W))'
  <2>1. UNCHANGED <<runner, step, page, search>> \/ ~[Next]_vars
    BY SceneStays
  <2>2. QED
    BY <2>1 DEF ToggleInv, StatesAria
<1>2. on \in [Items -> BOOLEAN] /\ acted \subseteq Items /\ sure \in BOOLEAN
  BY <1>1 DEF TypeInv, Typed, TypeOK
<1>3. UNCHANGED <<runner, step, page, search>>
  BY <1>1, SceneStays
<1>4. step.kind = "click" /\ step.aria # "no" /\ runner.aria /\ ~Replays(runner) /\ runner.rows # "held"
  BY <1>1, SceneFacts DEF TypeInv, StatesAria
<1>5. ASSUME sure PROVE \A i \in acted : on[i] = (step.aria = "on")
  BY <1>1, <1>5 DEF ToggleInv
<1>6. CASE UNCHANGED <<on, acted, sure>> /\ pc' # "click"
  BY <1>1, <1>5, <1>6
<1>7. CASE LookAria
  <2>1. UNCHANGED <<on, acted, sure, drawn, k, stage>>
    BY <1>7 DEF LookAria, To, world, ghosts
  <2>2. pc' = IF AsRecorded(Found(drawn, W)) THEN "done" ELSE "click"
    BY <1>7 DEF LookAria, To
  <2>3. pc' = "click" => ~AsRecorded(Found(drawn, W))
    BY <2>2
  <2>4. QED
    BY <1>1, <1>3, <1>5, <2>1, <2>3 DEF AsRecorded, Found, S, W
<1>8. CASE Click \/ ClickFails
  <2>1. pc = "click" /\ UNCHANGED sure
    BY <1>1, <1>4, <1>8 DEF Click, ClickFails, ToClick, ActsDirectly, TypeInv, PlaceInv
  <2>2. PICK i \in Reached \cup {0} : Toggle(i)
    BY <1>8 DEF Click, ClickFails
  <2>3. i \in Item /\ (i # 0 => i = Found(drawn, W))
    BY <1>1, <1>4, <2>1, ReachedIn DEF Item
  <2>4. i # 0 => on[i] # (step.aria = "on")
    BY <1>1, <2>1, <2>3 DEF ToggleInv, AsRecorded
  <2>5. \A j \in acted' : on'[j] = (step.aria = "on")
    <3>1. CASE i = 0
      BY <1>1, <1>5, <2>1, <2>2, <3>1 DEF Toggle
    <3>2. CASE i # 0
      <4>1. i \in Items /\ on' = [on EXCEPT ![i] = ~on[i]] /\ acted' = acted \cup {i}
        BY <1>4, <2>2, <2>3, <3>2 DEF Toggle, Item
      <4>2. on'[i] = (step.aria = "on")
        <5>1. on'[i] = ~on[i] /\ on[i] \in BOOLEAN
          BY <1>2, <4>1
        <5>2. QED
          BY <2>4, <3>2, <5>1
      <4>3. \A j \in acted : j # i => on'[j] = on[j]
        BY <1>2, <4>1
      <4>4. QED
        BY <1>1, <1>5, <2>1, <4>1, <4>2, <4>3
    <3>3. QED
      BY <3>1, <3>2
  <2>6. pc' # "click"
    <3>1. CASE Click
      BY <3>1 DEF Click, To
    <3>2. CASE ClickFails
      <4>1. Begin(clicks + 1) \/ AttemptFails
        BY <3>2 DEF ClickFails
      <4>2. QED
        BY <1>1, <4>1, FailsWhere DEF Begin, TypeInv
    <3>3. QED
      BY <1>8, <3>1, <3>2
  <2>7. QED
    BY <2>5, <2>6
<1>9. CASE Redraw
  <2>1. /\ UNCHANGED <<on, acted, pc>>
        /\ sure' = (sure /\ (pc \in {"click", "tick"} => runner.rows = "held"))
    BY <1>9 DEF Redraw, place
  <2>2. sure /\ pc # "click"
    BY <1>1, <1>4, <2>1
  <2>3. QED
    BY <1>5, <2>1, <2>2
<1>10. CASE UNCHANGED vars
  <2>1. UNCHANGED <<on, acted, sure, pc, drawn, k, stage>>
    BY <1>10 DEF vars, world, place, ghosts
  <2>2. pc = "click" => ~AsRecorded(Found(drawn, W))
    BY <1>1, <2>1 DEF ToggleInv
  <2>3. QED
    BY <1>1, <1>3, <1>5, <2>1, <2>2 DEF AsRecorded, Found, S, W
<1>11. QED
  BY <1>1, <1>6, <1>7, <1>8, <1>9, <1>10, AriaSteps

\* A toggle that tells its state is left as it was recorded, however often the page
\* changes and clicks come through that were reported as failed (ToggleAsRecorded
\* of RecordedStep).
THEOREM TogglesAreLeft == Spec => []ToggleAsRecorded
<1>1. Init => ToggleInv
  BY DEF Init, ToggleInv
<1>2. ToggleInv => ToggleAsRecorded
  BY DEF ToggleInv, ToggleAsRecorded, StatesAria
<1>3. QED
  BY <1>1, <1>2, InitTypes, StepTypes, StepToggles, PTL DEF Spec

\* What a step that chooses an option may do.
LEMMA SelectSteps ==
    ASSUME TypeInv, [Next]_vars, step.kind = "select"
    PROVE  \/ pc' \in {"guard", "search", "found", "skipped", "account", "failed", "continued"}
           \/ SelectNative \/ Open \/ NextRecalled \/ Aim \/ Choose \/ Guess \/ Retype \/ SelectDone
           \/ NotApplied /\ pc' = "choose" /\ UNCHANGED steady
           \/ Redraw \/ UNCHANGED vars
<1>1. pc \notin {"click", "rows", "tick"}
  BY DEF TypeInv, PlaceInv
<1>2. ASSUME AttemptFails PROVE pc' \in {"guard", "search", "failed", "continued"}
  BY <1>2, FailsWhere DEF TypeInv
<1>3. CASE PassOver \/ Find \/ ReplayFinds
  BY <1>3 DEF PassOver, Find, ReplayFinds, Passes, To
<1>4. CASE GoAhead
  BY <1>4 DEF GoAhead, Begin
<1>5. CASE TryNext
  BY <1>5 DEF TryNext
<1>6. CASE GiveUp \/ OpenFails \/ NoOption
  BY <1>2, <1>6 DEF GiveUp, OpenFails, NoOption
<1>7. CASE LookAria \/ Click \/ ClickFails
  BY <1>1, <1>7 DEF LookAria, Click, ClickFails, ToClick, ActsDirectly
<1>8. CASE RowPassed \/ RowRead \/ Tick \/ TickFails \/ PassEnds \/ RowsEnd
  BY <1>1, <1>8 DEF RowPassed, RowRead, Tick, TickFails, PassEnds, RowsEnd
<1>9. CASE NotApplied
  BY <1>2, <1>9 DEF NotApplied
<1>10. QED
  BY <1>3, <1>4, <1>5, <1>6, <1>7, <1>8, <1>9 DEF Next, Rest

\* Of a list with an exact option that stays, the option that is to be clicked is
\* that one; a candidate may find none yet.
LEMMA OptionExact ==
    ASSUME TypeInv, TakesExact, steady # 0, Exact(drawn) = steady
    PROVE  /\ Option \in {steady, 0}
           /\ step.form # "no" \/ runner.recalls = "no" => Option = steady
<1>1. OptionByText = steady
  <2>1. \A relations : ExactElse(relations) = steady
    BY DEF ExactElse
  <2>2. QED
    BY <2>1 DEF OptionByText, TakesExact
<1>2. CASE ~ByCandidate
  BY <1>1, <1>2 DEF Option
<1>3. CASE ByCandidate
  <2>1. /\ runner.recalls # "no" /\ Recalled \in DOMAIN step.choices
        /\ OptionRecalled # 0 => /\ OptionRecalled \in page.options
                                 /\ step.choices[Recalled] \in page.recalled[OptionRecalled]
    BY <1>3, RecalledIn DEF TypeInv
  <2>2. OptionRecalled \in {steady, 0}
    BY <2>1 DEF TakesExact, NoOtherRecalled
  <2>3. step.form = "no"
    BY <2>1, SceneFacts DEF TypeInv
  <2>4. QED
    BY <1>3, <2>1, <2>2, <2>3 DEF Option
<1>4. QED
  BY <1>2, <1>3

\* A step keeps to the exact option.
LEMMA StepOptions == TypeInv /\ OptionInv /\ [Next]_vars => OptionInv'
<1>1. SUFFICES ASSUME TypeInv, OptionInv, [Next]_vars, step.kind = "select"
               PROVE  /\ pc' = "aimed" => Aims'
                      /\ steady' # 0 /\ pc' \in {"choose", "aimed", "verify"} => Exact(drawn)' = steady'
                      /\ steady' # 0 /\ pc' \in {"verify", "done"} /\ sure' /\ TakesExact' => value' = steady'
  BY SceneStays DEF OptionInv
<1>2. UNCHANGED <<runner, step, page, search>>
  BY <1>1, SceneStays
<1>3. pc = "aimed" => Aims
  BY <1>1 DEF OptionInv
<1>4. steady # 0 /\ pc \in {"choose", "aimed", "verify"} => Exact(drawn) = steady
  BY <1>1 DEF OptionInv
<1>5. steady # 0 /\ pc \in {"verify", "done"} /\ sure /\ TakesExact => value = steady
  BY <1>1 DEF OptionInv
<1>6. /\ Aims' = Aims
      /\ steady' = steady => TakesExact' = TakesExact
  BY <1>2 DEF Aims, TakesExact, NoOtherRecalled, Native, Replays
<1>7. CASE pc' \in {"guard", "search", "found", "skipped", "account", "failed", "continued"}
  BY <1>7
<1>8. CASE Open
  <2>1. pc' = "choose" /\ steady' = Exact(drawn')
    BY <1>8 DEF Open
  <2>2. Exact(drawn)' = Exact(drawn')
    BY <1>2 DEF Exact
  <2>3. QED
    BY <2>1, <2>2
<1>9. CASE SelectNative
  <2>1. pc' = "done" /\ steady' = Exact(drawn) /\ value' = NativeOption /\ Native
    BY <1>9 DEF SelectNative, To
  <2>2. TakesExact' => ~Replays(runner)
    BY <1>2, <2>1 DEF TakesExact, Native, Replays
  <2>3. QED
    BY <2>1, <2>2 DEF NativeOption
<1>10. CASE NextRecalled \/ Aim \/ Retype \/ (NotApplied /\ pc' = "choose" /\ UNCHANGED steady)
  <2>1. /\ pc \in {"choose", "verify"} /\ pc' \in {"choose", "aimed"} /\ UNCHANGED <<drawn, steady>>
        /\ pc' = "aimed" => Aims
    BY <1>10 DEF NextRecalled, Aim, Retype, NotApplied, To, world, ghosts
  <2>2. Exact(drawn)' = Exact(drawn)
    BY <1>2, <2>1 DEF Exact
  <2>3. QED
    BY <1>4, <1>6, <2>1, <2>2
<1>11. CASE Choose
  <2>1. /\ pc \in {"choose", "aimed"} /\ pc' \in {"verify", "done"} /\ UNCHANGED <<drawn, steady>>
        /\ sure' = (sure /\ value' = Option) /\ (pc = "choose" => Option # 0)
    BY <1>11 DEF Choose, To
  <2>2. Exact(drawn)' = Exact(drawn)
    BY <1>2, <2>1 DEF Exact
  <2>3. steady # 0 => Exact(drawn) = steady
    BY <1>4, <2>1
  <2>4. ASSUME steady # 0, TakesExact PROVE Option = steady
    <3>1. CASE pc = "choose"
      BY <1>1, <2>1, <2>3, <2>4, <3>1, OptionExact
    <3>2. CASE pc = "aimed"
      <4>1. runner.search = "points"
        BY <1>3, <2>4, <3>2 DEF Aims, TakesExact
      <4>2. runner.recalls = "no"
        BY <1>1, <4>1, SceneFacts DEF TypeInv, Replays
      <4>3. QED
        BY <1>1, <2>3, <2>4, <4>2, OptionExact
    <3>3. QED
      BY <2>1, <3>1, <3>2
  <2>5. sure' => value' = Option
    BY <2>1
  <2>6. TakesExact' => TakesExact
    BY <1>6, <2>1
  <2>7. QED
    BY <2>1, <2>2, <2>3, <2>4, <2>5, <2>6
<1>12. CASE Guess
  <2>1. pc = "choose" /\ Option = 0 /\ step.form # "no" /\ UNCHANGED <<drawn, steady>> /\ pc' \in {"verify", "done"}
    BY <1>12 DEF Guess, To, ghosts
  <2>2. Exact(drawn)' = Exact(drawn) /\ (steady # 0 => Exact(drawn) = steady)
    BY <1>2, <1>4, <2>1 DEF Exact
  <2>3. ~(steady # 0 /\ TakesExact)
    BY <1>1, <2>1, <2>2, OptionExact
  <2>4. QED
    BY <1>6, <2>1, <2>2, <2>3
<1>13. CASE SelectDone
  <2>1. pc = "verify" /\ pc' = "done" /\ UNCHANGED <<value, steady, sure>>
    BY <1>13 DEF SelectDone, To, world, ghosts
  <2>2. QED
    BY <1>5, <1>6, <2>1
<1>14. CASE Redraw
  <2>1. /\ pc \notin Over \cup {"guard"} /\ UNCHANGED <<pc, value>>
        /\ steady' = IF steady # 0 /\ Means(drawn') = steady THEN steady ELSE 0
        /\ sure' => sure
    BY <1>1, <1>14 DEF Redraw, place
  <2>2. steady' # 0 => steady # 0 /\ steady' = steady /\ Means(drawn') = steady
    BY <2>1
  <2>3. steady' # 0 /\ pc \in {"choose", "aimed", "verify"} => Exact(drawn)' = steady
    <3>1. Exact(drawn)' = Exact(drawn')
      BY <1>2 DEF Exact
    <3>2. QED
      BY <2>2, <3>1 DEF Means
  <2>4. QED
    BY <1>3, <1>5, <1>6, <2>1, <2>2, <2>3
<1>15. CASE UNCHANGED vars
  <2>1. UNCHANGED <<pc, drawn, value, steady, sure>>
    BY <1>15 DEF vars, world, place, ghosts
  <2>2. Exact(drawn)' = Exact(drawn)
    BY <1>2, <2>1 DEF Exact
  <2>3. QED
    BY <1>3, <1>4, <1>5, <1>6, <2>1, <2>2
<1>16. QED
  BY <1>1, <1>7, <1>8, <1>9, <1>10, <1>11, <1>12, <1>13, <1>14, <1>15, SelectSteps

\* A runner that looks for the exact text first chooses the exact option when it
\* stays on the list, for any list of any length and any candidates that are
\* recorded of options, if none of them answers to another option (ExactOptionWins
\* of RecordedStep).
THEOREM ExactOptionIsChosen == Spec => []ExactOptionWins
<1>1. Init => OptionInv
  BY DEF Init, OptionInv
<1>2. OptionInv => ExactOptionWins
  BY DEF OptionInv, ExactOptionWins, TakesExact
<1>3. QED
  BY <1>1, <1>2, InitTypes, StepTypes, StepOptions, PTL DEF Spec

\* What a step over rows may do.
LEMMA RowSteps ==
    ASSUME TypeInv, [Next]_vars, step.kind = "rows"
    PROVE  \/ pc' # "tick" /\ pc' # "guard" /\ UNCHANGED <<on, told, acted, sure, tries>>
           \/ GoAhead
           \/ AttemptFails /\ UNCHANGED <<on, acted, sure>>
           \/ RowRead \/ Tick \/ Redraw \/ UNCHANGED vars
<1>1. pc \notin {"search", "found", "click", "choose", "aimed", "verify"}
  BY DEF TypeInv, PlaceInv
<1>2. CASE PassOver
  BY <1>2 DEF PassOver, Passes, To, world, rows, ghosts
<1>3. CASE Find \/ TryNext \/ GiveUp \/ ReplayFinds \/ LookAria \/ Click \/ ClickFails \/ SelectNative \/ Open \/ OpenFails
  BY <1>1, <1>3 DEF Find, TryNext, GiveUp, ReplayFinds, LookAria, Click, ClickFails, SelectNative, Open, OpenFails,
     ToClick, ActsDirectly
<1>4. CASE NextRecalled \/ Aim \/ Choose \/ Guess \/ Retype \/ NoOption \/ SelectDone \/ NotApplied
  BY <1>1, <1>4 DEF NextRecalled, Aim, Choose, Guess, Retype, NoOption, SelectDone, NotApplied
<1>5. CASE RowPassed \/ PassEnds
  BY <1>5 DEF RowPassed, PassEnds, world, rows, ghosts
<1>6. CASE TickFails
  BY <1>6 DEF TickFails, world
<1>7. CASE RowsEnd
  BY <1>7 DEF RowsEnd, To, world, rows
<1>8. QED
  BY <1>2, <1>3, <1>4, <1>5, <1>6, <1>7 DEF Next, Rest

\* A step tells of the rows it ticks.
LEMMA StepRows == TypeInv /\ RowsInv /\ [Next]_vars => RowsInv'
<1> DEFINE Ticks == \A i \in Items : on[i] => i \in told \cup acted \/ page.on[i]
<1>1. SUFFICES ASSUME TypeInv, RowsInv, [Next]_vars, step.kind = "rows", sure'
               PROVE  /\ \A i \in told' : on'[i]
                      /\ tries' = 0 /\ pc' \notin {"failed", "continued"} => Ticks'
                      /\ pc' = "tick" /\ runner.rows # "held" => row' = RowAt(k)'
                      /\ pc' = "guard" => told' = {}
  BY SceneStays DEF RowsInv
<1>2. UNCHANGED <<runner, step, page, search>>
  BY <1>1, SceneStays
<1>3. on \in [Items -> BOOLEAN] /\ sure \in BOOLEAN /\ told \subseteq Items /\ acted \subseteq Items
  BY <1>1 DEF TypeInv, Typed, TypeOK
<1>4. ASSUME sure
      PROVE  /\ \A i \in told : on[i]
             /\ tries = 0 /\ pc \notin {"failed", "continued"} => Ticks
             /\ pc = "tick" /\ runner.rows # "held" => row = RowAt(k)
             /\ pc = "guard" => told = {}
  BY <1>1, <1>4 DEF RowsInv
<1>5. CASE pc' # "tick" /\ pc' # "guard" /\ UNCHANGED <<on, told, acted, sure, tries>>
  <2>1. pc \notin {"failed", "continued"} \/ UNCHANGED vars
    BY <1>1, <1>2 DEF Next, Over, PassOver, GoAhead, Find, TryNext, GiveUp, ReplayFinds, LookAria,
       Click, ClickFails, ToClick, ActsDirectly, SelectNative, Open, OpenFails, NextRecalled, Aim, Choose, Guess,
       Retype, NoOption, SelectDone, NotApplied, RowPassed, RowRead, Tick, TickFails, PassEnds, RowsEnd, Redraw, Rest
  <2>2. CASE UNCHANGED vars
    <3>1. pc' = pc
      BY <2>2 DEF vars, place
    <3>2. QED
      BY <1>1, <1>2, <1>4, <1>5, <3>1
  <2>3. CASE pc \notin {"failed", "continued"}
    BY <1>1, <1>2, <1>4, <1>5, <2>3
  <2>4. QED
    BY <2>1, <2>2, <2>3
<1>6. CASE GoAhead
  <2>1. pc = "guard" /\ pc' = "rows" /\ told' = {} /\ UNCHANGED <<tries, sure>>
    BY <1>1, <1>6 DEF GoAhead, Begin
  <2>2. CASE GuardClicks
    <3> DEFINE i == Located(page, drawn, Way("css", FALSE, 0))
    <3>1. on' = [on EXCEPT ![i] = ~on[i]] /\ acted' = acted \cup {i}
      BY <1>6, <2>2 DEF GoAhead
    <3> HIDE DEF i
    <3>2. tries = 0 => Ticks'
      BY <1>1, <1>2, <1>3, <1>4, <2>1, <3>1
    <3>3. QED
      BY <2>1, <3>2
  <2>3. CASE ~GuardClicks
    <3>1. UNCHANGED <<on, acted>>
      BY <1>6, <2>3 DEF GoAhead
    <3>2. tries = 0 => Ticks'
      BY <1>1, <1>2, <1>4, <2>1, <3>1
    <3>3. QED
      BY <2>1, <3>2
  <2>4. QED
    BY <2>2, <2>3
<1>7. CASE AttemptFails /\ UNCHANGED <<on, acted, sure>>
  BY <1>1, <1>7, FailsWhere DEF TypeInv
<1>8. CASE RowRead
  <2>1. /\ pc = "rows" /\ pc' = "tick" /\ row' = RowAt(k)
        /\ UNCHANGED <<drawn, k, on, told, acted, sure, tries>>
    BY <1>8 DEF RowRead, To, world, ghosts
  <2>2. RowAt(k)' = RowAt(k)
    BY <2>1 DEF RowAt
  <2>3. Ticks' = Ticks
    BY <1>2, <2>1
  <2>4. QED
    BY <1>1, <1>4, <2>1, <2>2, <2>3
<1>9. CASE Tick
  <2>1. PICK ticked \in BOOLEAN :
            /\ pc = "tick" /\ Ticked # 0 /\ (on[Ticked] => ticked)
            /\ on' = [on EXCEPT ![Ticked] = ticked]
            /\ told' = IF Tells(ticked) THEN told \cup {row} ELSE told
            /\ sure' = (sure /\ (runner.rows = "clicked" => ticked))
            /\ pc' = "rows" /\ UNCHANGED <<tries, acted>>
    BY <1>9 DEF Tick
  <2>2. sure /\ (runner.rows = "clicked" => ticked)
    BY <1>1, <1>3, <2>1
  <2>3. Ticked = row
    BY <1>4, <2>1, <2>2 DEF Ticked
  <2>4. Tells(ticked) <=> ticked
    BY <2>2 DEF Tells
  <2>5. row \in Items
    BY <1>1, <2>1 DEF TypeInv, Typed, TypeOK, PlaceInv, Item
  <2>6. on'[row] = ticked /\ \A i \in Items : i # row => on'[i] = on[i]
    BY <1>3, <2>1, <2>3, <2>5
  <2>7. \A i \in told' : on'[i]
    <3>1. CASE ticked
      BY <1>3, <1>4, <2>1, <2>2, <2>4, <2>6, <3>1
    <3>2. CASE ~ticked
      <4>1. told' = told /\ ~on[row]
        BY <2>1, <2>3, <2>4, <3>2
      <4>2. row \notin told
        BY <1>4, <2>2, <4>1
      <4>3. QED
        BY <1>3, <1>4, <2>2, <2>6, <4>1, <4>2
    <3>3. QED
      BY <3>1, <3>2
  <2>8. tries = 0 => Ticks'
    <3>1. SUFFICES ASSUME tries = 0, NEW i \in Items, on'[i] PROVE i \in told' \cup acted' \/ page'.on[i]
      OBVIOUS
    <3>2. CASE i = row
      BY <2>1, <2>4, <2>6, <3>1, <3>2
    <3>3. CASE i # row
      <4>1. i \in told \cup acted \/ page.on[i]
        BY <1>4, <2>1, <2>2, <2>6, <3>1, <3>3
      <4>2. told \subseteq told'
        BY <2>1
      <4>3. QED
        BY <1>2, <2>1, <4>1, <4>2
    <3>4. QED
      BY <3>2, <3>3
  <2>9. QED
    BY <2>1, <2>7, <2>8
<1>10. CASE Redraw
  <2>1. /\ UNCHANGED <<on, told, acted, pc, tries, row, k>> /\ pc # "guard"
        /\ sure' = (sure /\ (pc \in {"click", "tick"} => runner.rows = "held"))
    BY <1>10 DEF Redraw, place, rows
  <2>2. sure /\ ~(pc = "tick" /\ runner.rows # "held")
    BY <1>1, <1>3, <2>1
  <2>3. Ticks' = Ticks
    BY <1>2, <2>1
  <2>4. QED
    BY <1>2, <1>4, <2>1, <2>2, <2>3
<1>11. CASE UNCHANGED vars
  <2>1. UNCHANGED <<on, told, acted, pc, tries, row, k, drawn, sure>>
    BY <1>11 DEF vars, world, place, rows, ghosts
  <2>2. RowAt(k)' = RowAt(k)
    BY <2>1 DEF RowAt
  <2>3. Ticks' = Ticks
    BY <1>2, <2>1
  <2>4. QED
    BY <1>1, <1>2, <1>4, <2>1, <2>2, <2>3
<1>12. QED
  BY <1>1, <1>5, <1>6, <1>7, <1>8, <1>9, <1>10, <1>11, RowSteps

\* The rows a step tells of are ticked, and in a first attempt no others were
\* ticked, for any number of rows (RowsTold of RecordedStep).
THEOREM RowsAreTold == Spec => []RowsTold
<1>1. Init => RowsInv
  <2>1. SUFFICES ASSUME Init PROVE on = page.on /\ told = {} /\ pc = "guard"
    BY DEF RowsInv
  <2>2. QED
    BY <2>1 DEF Init
<1>2. RowsInv => RowsTold
  BY DEF RowsInv, RowsTold
<1>3. QED
  BY <1>1, <1>2, InitTypes, StepTypes, StepRows, PTL DEF Spec

\* The first choice of a search is what its first way finds, and is shown if found
\* by a flow.
LEMMA FirstWay ==
    ASSUME TypeInv, FirstChoice(drawn) # 0
    PROVE  /\ 1 \in DOMAIN search[1].ways
           /\ FirstChoice(drawn) = Found(drawn, search[1].ways[1])
           /\ Shown(drawn, Found(drawn, search[1].ways[1]))
  BY DEF FirstChoice

\* What a step with a first choice may do.
LEMMA FirstSteps ==
    ASSUME TypeInv, [Next]_vars, HasFirstChoice
    PROVE  \/ PassOver
           \/ Find \/ TryNext \/ GiveUp \/ ReplayFinds \/ LookAria \/ Click \/ ClickFails
           \/ Redraw \/ UNCHANGED vars
<1>1. pc \notin {"choose", "aimed", "verify", "rows", "tick", "guard"} /\ step.kind # "select"
  BY DEF TypeInv, PlaceInv, HasFirstChoice
<1>2. ~(GoAhead \/ SelectNative \/ Open \/ OpenFails)
  BY <1>1 DEF GoAhead, SelectNative, Open, OpenFails
<1>3. ~(NextRecalled \/ Aim \/ Choose \/ Guess \/ Retype \/ NoOption \/ SelectDone \/ NotApplied)
  BY <1>1 DEF NextRecalled, Aim, Choose, Guess, Retype, NoOption, SelectDone, NotApplied
<1>4. ~(RowPassed \/ RowRead \/ Tick \/ TickFails \/ PassEnds \/ RowsEnd)
  BY <1>1 DEF RowPassed, RowRead, Tick, TickFails, PassEnds, RowsEnd
<1>5. QED
  BY <1>2, <1>3, <1>4 DEF Next, Rest

\* While the first choice stays, a flow does not look further, and nobody gives up.
LEMMA FirstIsTaken ==
    ASSUME TypeInv, FirstInv, HasFirstChoice
    PROVE  /\ ~TryNext /\ ~GiveUp
           /\ pc = "search" /\ Replays(runner)
              => \A n \in DOMAIN S.ways : Hit(n) => Found(drawn, S.ways[n]) = steady
           /\ pc \in {"found", "click"} => \A i \in Reached : i \in {steady, 0}
<1> DEFINE w1 == search[1].ways[1]
<1>1. ASSUME Searching
      PROVE  /\ stage = 1 /\ (Replays(runner) \/ k = 1) /\ steady # 0
             /\ 1 \in DOMAIN search[1].ways /\ steady = Found(drawn, w1) /\ Shown(drawn, Found(drawn, w1))
             /\ ~(search[1].ranked /\ w1.nth > 0)
             /\ (Replays(runner) /\ pc = "found" => spot = steady)
  <2>1. steady = FirstChoice(drawn) /\ steady # 0
    BY <1>1 DEF FirstInv, HasFirstChoice
  <2>2. QED
    BY <1>1, <2>1, FirstWay DEF FirstInv, HasFirstChoice
<1>2. ~TryNext
  <2>1. SUFFICES ASSUME TryNext PROVE FALSE
    OBVIOUS
  <2>2. pc = "search" /\ ~Replays(runner)
    BY <2>1 DEF TryNext
  <2>3. Searching
    BY <2>2 DEF Searching
  <2>4. InSight /\ ~(S.ranked /\ W.nth > 0)
    BY <1>1, <2>2, <2>3 DEF InSight, S, W
  <2>5. QED
    BY <2>1, <2>4 DEF TryNext
<1>3. ~GiveUp
  <2>1. SUFFICES ASSUME GiveUp PROVE FALSE
    OBVIOUS
  <2>2. pc = "search"
    BY <2>1 DEF GiveUp
  <2>3. Searching
    BY <2>2 DEF Searching
  <2>4. CASE Replays(runner)
    <3>1. \A n \in DOMAIN S.ways : Found(drawn, S.ways[n]) = 0
      BY <2>1, <2>4 DEF GiveUp
    <3>2. QED
      BY <1>1, <2>3, <3>1 DEF S
  <2>5. CASE ~Replays(runner)
    <3>1. InSight
      BY <1>1, <2>3, <2>5 DEF InSight, S, W
    <3>2. QED
      BY <2>1, <2>5, <3>1 DEF GiveUp
  <2>6. QED
    BY <2>4, <2>5
<1>4. ASSUME pc = "search", Replays(runner), NEW n \in DOMAIN S.ways, Hit(n)
      PROVE  Found(drawn, S.ways[n]) = steady
  <2>1. /\ 1 \in DOMAIN S.ways /\ Found(drawn, S.ways[1]) = steady /\ steady # 0
    BY <1>1, <1>4 DEF Searching, S
  <2>2. n \in Nat \ {0}
    <3>1. stage \in 1..Len(search) /\ search \in Seq(StagesIn(AnchorsOf(runner, step.find)))
      BY SceneFacts DEF TypeInv, Typed, TypeOK
    <3>2. search[stage] \in StagesIn(AnchorsOf(runner, step.find))
      BY <3>1
    <3>3. S.ways \in Seq(WaysIn(WayKinds, AnchorsOf(runner, step.find)))
      BY <3>2 DEF StagesIn, S
    <3>4. QED
      BY <3>3
  <2>3. n = 1
    <3>1. SUFFICES ASSUME n # 1 PROVE FALSE
      OBVIOUS
    <3>2. 1 \in 1..(n - 1)
      BY <2>2, <3>1
    <3>3. QED
      BY <1>4, <2>1, <3>2 DEF Hit
  <2>4. QED
    BY <2>1, <2>3
<1>5. ASSUME pc \in {"found", "click"}, NEW i \in Reached PROVE i \in {steady, 0}
  <2>1. Searching
    BY <1>5 DEF Searching
  <2>2. CASE ~Replays(runner)
    <3>1. i = IF Shown(drawn, Found(drawn, W)) THEN Found(drawn, W) ELSE 0
      BY <1>5, <2>2, ReachedIn
    <3>2. Found(drawn, W) = steady
      BY <1>1, <2>1, <2>2 DEF S, W
    <3>3. QED
      BY <3>1, <3>2
  <2>3. CASE Replays(runner)
    <3>1. runner.search = "queries"
      BY <2>3 DEF HasFirstChoice, Replays
    <3>2. pc = "found"
      BY <1>5, <2>3, SceneFacts DEF TypeInv, PlaceInv
    <3>3. QED
      BY <1>1, <1>5, <2>1, <2>3, <3>1, <3>2, ReachedIn
  <2>4. QED
    BY <2>2, <2>3
<1>6. QED
  BY <1>2, <1>3, <1>4, <1>5

\* A step that begins knows its first choice.
LEMMA BeginFirst ==
    ASSUME TypeInv, NEW n, Begin(n), UNCHANGED <<runner, step, page, search, drawn>>
    PROVE  FirstInv'
<1>1. FirstChoice(drawn)' = FirstChoice(drawn)
  BY DEF FirstChoice, Found
<1>2. /\ stage' = 1 /\ k' = 1 /\ pc' \in {"rows", "search"}
      /\ steady' = IF step.kind = "rows" THEN 0 ELSE FirstChoice(drawn)
  BY DEF Begin
<1>3. QED
  BY <1>1, <1>2 DEF FirstInv, HasFirstChoice

\* So does one that repeats.
LEMMA FailsFirst ==
    ASSUME TypeInv, AttemptFails, UNCHANGED <<runner, step, page, search, drawn>>
    PROVE  FirstInv'
<1>1. CASE tries < step.retries /\ runner.again = "whole"
  BY <1>1 DEF AttemptFails, ToGuard, FirstInv, HasFirstChoice
<1>2. CASE tries < step.retries /\ runner.again # "whole"
  <2>1. Begin(1)
    BY <1>2 DEF AttemptFails
  <2>2. QED
    BY <2>1, BeginFirst
<1>3. CASE ~(tries < step.retries)
  <2>1. pc' \in {"continued", "failed"}
    BY <1>3 DEF AttemptFails
  <2>2. QED
    BY <2>1 DEF FirstInv, Searching
<1>4. QED
  BY <1>1, <1>2, <1>3

\* A step keeps what is known of the first choice.
LEMMA StepFirst == TypeInv /\ FirstInv /\ [Next]_vars => FirstInv'
<1>1. SUFFICES ASSUME TypeInv, FirstInv, [Next]_vars PROVE FirstInv'
  OBVIOUS
<1>2. UNCHANGED <<runner, step, page, search>>
  BY <1>1, SceneStays
<1>3. CASE UNCHANGED drawn /\ (AttemptFails \/ \E n \in {1, clicks + 1} : Begin(n))
  BY <1>1, <1>2, <1>3, FailsFirst, BeginFirst
<1>4. CASE UNCHANGED steady \/ Redraw
  <2>1. SUFFICES ASSUME HasFirstChoice', Searching' PROVE FirstInv'
    BY DEF FirstInv
  <2>2. HasFirstChoice /\ steady' = steady
    BY <1>2, <1>4, <2>1 DEF HasFirstChoice, Redraw
  <2>3. CASE PassOver \/ Click
    BY <2>1, <2>3 DEF PassOver, Click, Passes, To, Searching
  <2>4. CASE Find \/ LookAria
    <3>1. /\ Searching /\ ~Replays(runner) /\ UNCHANGED <<drawn, stage, k>>
      BY <1>1, <2>4, SceneFacts DEF Find, LookAria, To, world, Searching, TypeInv
    <3>2. FirstChoice(drawn)' = FirstChoice(drawn)
      BY <1>2, <3>1 DEF FirstChoice, Found
    <3>3. QED
      BY <1>1, <1>2, <2>2, <3>1, <3>2 DEF FirstInv, Replays
  <2>5. CASE ReplayFinds
    <3>1. PICK n \in DOMAIN S.ways : pc = "search" /\ Replays(runner) /\ Hit(n) /\ spot' = Found(drawn, S.ways[n])
      BY <2>5 DEF ReplayFinds
    <3>2. spot' = steady /\ Searching
      BY <1>1, <2>2, <3>1, FirstIsTaken DEF Searching
    <3>3. UNCHANGED <<drawn, stage, k>>
      BY <2>5 DEF ReplayFinds, To, world
    <3>4. FirstChoice(drawn)' = FirstChoice(drawn)
      BY <1>2, <3>3 DEF FirstChoice, Found
    <3>5. QED
      BY <1>1, <1>2, <2>2, <3>1, <3>2, <3>3, <3>4 DEF FirstInv, Replays
  <2>6. CASE TryNext \/ GiveUp
    BY <1>1, <2>2, <2>6, FirstIsTaken
  <2>7. CASE ClickFails
    <3>1. UNCHANGED drawn /\ (AttemptFails \/ Begin(clicks + 1))
      BY <2>7 DEF ClickFails
    <3>2. QED
      BY <1>1, <1>2, <3>1, FailsFirst, BeginFirst
  <2>8. CASE Redraw
    <3>1. /\ UNCHANGED <<pc, stage, k, spot>> /\ ~(runner.search = "queries" /\ pc = "found")
          /\ steady' = IF steady # 0 /\ Means(drawn') = steady THEN steady ELSE 0
      BY <2>8 DEF Redraw, place
    <3>2. Searching /\ steady # 0 /\ Means(drawn') = steady
      BY <2>1, <2>2, <3>1 DEF Searching, HasFirstChoice
    <3>3. FirstChoice(drawn)' = FirstChoice(drawn')
      BY <1>2 DEF FirstChoice, Found
    <3>4. steady' = FirstChoice(drawn)'
      BY <2>2, <3>2, <3>3 DEF Means, Searching
    <3>5. Replays(runner) => pc # "found"
      BY <2>2, <3>1 DEF HasFirstChoice, Replays
    <3>6. QED
      BY <1>1, <1>2, <2>2, <3>1, <3>2, <3>4, <3>5 DEF FirstInv, Replays
  <2>9. CASE UNCHANGED vars
    <3>1. UNCHANGED <<pc, stage, k, spot, drawn, steady>>
      BY <2>9 DEF vars, world, place, aim, ghosts
    <3>2. FirstChoice(drawn)' = FirstChoice(drawn)
      BY <1>2, <3>1 DEF FirstChoice, Found
    <3>3. QED
      BY <1>1, <1>2, <3>1, <3>2 DEF FirstInv, HasFirstChoice, Searching, Replays
  <2>10. QED
    BY <1>1, <2>2, <2>3, <2>4, <2>5, <2>6, <2>7, <2>8, <2>9, FirstSteps
<1>5. CASE SelectNative \/ Open
  <2>1. step.kind = "select"
    BY <1>5 DEF SelectNative, Open
  <2>2. QED
    BY <1>2, <2>1 DEF FirstInv, HasFirstChoice
<1>6. CASE ClickFails \/ NotApplied \/ RowsEnd
  <2>1. UNCHANGED drawn
    BY <1>6 DEF ClickFails, NotApplied, RowsEnd, world
  <2>2. AttemptFails \/ Begin(clicks + 1) \/ UNCHANGED steady
    BY <1>6 DEF ClickFails, NotApplied, RowsEnd
  <2>3. QED
    BY <1>3, <1>4, <2>1, <2>2
<1>7. CASE GoAhead
  BY <1>3, <1>7 DEF GoAhead
<1>8. CASE GiveUp \/ OpenFails \/ NoOption \/ TickFails
  BY <1>3, <1>8 DEF GiveUp, OpenFails, NoOption, TickFails, world
<1>9. QED
  BY <1>1, <1>4, <1>5, <1>6, <1>7, <1>8 DEF Next, vars, ghosts, PassOver, Passes, Find, TryNext, ReplayFinds,
     LookAria, Click, NextRecalled, Aim, Choose, Guess, Retype, SelectDone, RowPassed, RowRead, Tick, PassEnds, Rest

\* A step acts on nothing but its first choice, while that stays.
LEMMA StepTakesFirst ==
    ASSUME TypeInv, FirstInv, [Next]_vars, HasFirstChoice
    PROVE  /\ acted' \subseteq acted \cup {steady}
           /\ ~(pc = "search" /\ pc' \in {"failed", "continued"})
<1>1. acted' \subseteq acted \cup {steady}
  <2>1. pc # "guard"
    BY DEF TypeInv, PlaceInv, HasFirstChoice
  <2>2. CASE pc \in {"found", "click"} /\ \E i \in Reached : acted' = acted \cup ({i} \ {0})
    BY <2>2, FirstIsTaken
  <2>3. QED
    BY <2>1, <2>2, ActedEffect
<1>2. ~(pc = "search" /\ pc' \in {"failed", "continued"})
  <2>1. SUFFICES ASSUME pc = "search" PROVE pc' \notin {"failed", "continued"}
    OBVIOUS
  <2>2. ~TryNext /\ ~GiveUp
    BY FirstIsTaken
  <2>3. CASE UNCHANGED vars
    BY <2>1, <2>3 DEF vars, place
  <2>4. CASE Find \/ ReplayFinds \/ Redraw
    BY <2>1, <2>4 DEF Find, ReplayFinds, Redraw, To, place
  <2>5. ~(PassOver \/ LookAria \/ Click \/ ClickFails)
    BY <2>1 DEF PassOver, LookAria, Click, ClickFails, ToClick, ActsDirectly
  <2>6. QED
    BY <2>2, <2>3, <2>4, <2>5, FirstSteps
<1>3. QED
  BY <1>1, <1>2

\* As long as the first choice of a search stays the same element, shown, a flow or
\* the replay acts on no other and does not give up, for any ways, stages, rounds
\* and changes of the page (FirstChoiceWins of RecordedStep).
THEOREM FirstChoiceIsTaken == Spec => FirstChoiceWins
<1>1. Init => FirstInv
  BY DEF Init, FirstInv, HasFirstChoice
<1>2. TypeInv /\ FirstInv /\ [Next]_vars
      => [/\ steady # 0 /\ step.kind \in {"click", "act"} /\ runner.search # "points"
          /\ ~(search[1].ranked /\ search[1].ways[1].nth > 0)
          => /\ acted' \subseteq acted \cup {steady}
             /\ ~(pc = "search" /\ pc' \in {"failed", "continued"})]_vars
  BY StepTakesFirst DEF HasFirstChoice
<1>3. QED
  BY <1>1, <1>2, InitTypes, StepTypes, StepFirst, PTL DEF Spec, FirstChoiceWins

-----------------------------------------------------------------------------
(* The page a step was recorded on.                                         *)

\* Every element of a finite set of integers is the n-th of it, if n others are
\* smaller.
LEMMA NthHits ==
    ASSUME NEW T, IsFiniteSet(T), T \subseteq Int, NEW a \in T
    PROVE  \E n \in 0 .. Cardinality(T) - 1 : Nth(T, n) = a
<1> DEFINE R == {p \in T \X T : p[1] < p[2]}
<1>1. \A i, j \in T : <<i, j>> \in R <=> i < j
  OBVIOUS
<1>2. Order(T, R)
  BY <1>1 DEF Order
<1> HIDE DEF R
<1>3. \A i \in T : Before(T, R, i) = {j \in T : j < i}
  BY <1>1 DEF Before
<1>4. PICK n \in 0 .. Cardinality(T) - 1 : n = Cardinality(Before(T, R, a))
  BY <1>2, RankBound
<1>5. \A i \in T : Cardinality({j \in T : j < i}) = n => i = a
  <2>1. SUFFICES ASSUME NEW i \in T, Cardinality(Before(T, R, i)) = n, i # a PROVE FALSE
    BY <1>3
  <2>2. <<i, a>> \in R \/ <<a, i>> \in R
    BY <1>1, <2>1
  <2>3. \A b \in T : Cardinality(Before(T, R, b)) \in Int
    BY <1>2, RankBound
  <2>4. QED
    BY <1>2, <1>4, <2>1, <2>2, <2>3, BeforeGrows
<1>6. Cardinality({j \in T : j < a}) = n
  BY <1>3, <1>4
<1>7. Nth(T, n) = CHOOSE i \in T : Cardinality({j \in T : j < i}) = n
  <2>1. Cardinality(T) \in Nat
    BY <1>2, RankBound
  <2>2. QED
    BY <1>4, <2>1 DEF Nth
<1>8. QED
  BY <1>5, <1>6, <1>7

\* The only element of a set of integers is its first.
LEMMA NthOfOne == ASSUME NEW a \in Int PROVE Nth({a}, 0) = a
<1>1. IsFiniteSet({a}) /\ Cardinality({a}) = 1
  BY FS_Singleton
<1>2. QED
  BY <1>1, NthOf

\* What is in a list is there once before all repetitions of it.
LEMMA FirstOf ==
    ASSUME NEW T, NEW ways \in Seq(T), NEW n \in DOMAIN ways
    PROVE  \E j \in DOMAIN ways : ways[j] = ways[n] /\ Once(ways, j)
<1> DEFINE same == {i \in DOMAIN ways : ways[i] = ways[n]}
           R == {p \in same \X same : p[1] < p[2]}
<1>1. Len(ways) \in Nat /\ DOMAIN ways = 1 .. Len(ways)
  OBVIOUS
<1>2. IsFiniteSet(same) /\ n \in same
  <2>1. IsFiniteSet(1 .. Len(ways)) /\ same \in SUBSET (1 .. Len(ways))
    BY <1>1, FS_Interval
  <2>2. QED
    BY <2>1, FS_Subset
<1>3. \A i \in same : i \in DOMAIN ways /\ i \in Int /\ ways[i] = ways[n]
  BY <1>1
<1>4. \A i \in DOMAIN ways : ways[i] = ways[n] => i \in same
  OBVIOUS
<1>5. Cardinality(same) \in Nat /\ Cardinality(same) > 0
  <2> HIDE DEF same
  <2>1. Cardinality(same) \in Nat /\ same # {}
    BY <1>2, FS_CardinalityType
  <2>2. Cardinality(same) # 0
    BY <1>2, <2>1, FS_EmptySet
  <2>3. QED
    BY <2>1, <2>2
<1> HIDE DEF same
<1>6. \A i, j \in same : <<i, j>> \in R <=> i < j
  OBVIOUS
<1>7. Order(same, R)
  BY <1>3, <1>6 DEF Order
<1> HIDE DEF R
<1>8. PICK j \in same : Cardinality(Before(same, R, j)) = 0
  BY <1>2, <1>5, <1>7, RankExists
<1>9. Before(same, R, j) = {}
  <2>1. Before(same, R, j) \in SUBSET same
    BY DEF Before
  <2>2. IsFiniteSet(Before(same, R, j))
    BY <1>2, <2>1, FS_Subset
  <2>3. QED
    BY <1>8, <2>2, FS_EmptySet
<1>10. \A i \in same : ~(i < j)
  BY <1>6, <1>9 DEF Before
<1>11. Once(ways, j)
  <2>1. SUFFICES ASSUME NEW i \in 1 .. (j - 1), ways[i] = ways[j] PROVE FALSE
    BY DEF Once
  <2>2. i \in DOMAIN ways /\ i < j
    BY <1>1, <1>3
  <2>3. QED
    BY <1>3, <1>4, <1>10, <2>1, <2>2
<1>12. QED
  BY <1>3, <1>11

\* The ways of a step are one for each of its kinds that is in the order.
LEMMA WaysHave ==
    ASSUME NEW K, NEW order \in Seq(K), NEW l, NEW anchor, NEW nth
    PROVE  /\ \A n \in DOMAIN Ways(order, l, anchor, nth) : \E i \in DOMAIN order :
                 order[i] \in l.kinds /\ Ways(order, l, anchor, nth)[n] = Way(order[i], anchor, nth)
           /\ \A i \in DOMAIN order : order[i] \in l.kinds =>
                 \E n \in DOMAIN Ways(order, l, anchor, nth) :
                    Ways(order, l, anchor, nth)[n] = Way(order[i], anchor, nth)
<1> DEFINE has == {n \in DOMAIN order : order[n] \in l.kinds}
           c == Cardinality(has)
           ways == Ways(order, l, anchor, nth)
<1>1. Len(order) \in Nat /\ DOMAIN order = 1 .. Len(order)
  OBVIOUS
<1>2. IsFiniteSet(has) /\ has \subseteq Int /\ c \in Nat
  <2>1. IsFiniteSet(1 .. Len(order))
    BY <1>1, FS_Interval
  <2>2. has \in SUBSET (1 .. Len(order))
    BY <1>1
  <2>3. QED
    BY <2>1, <2>2, FS_Subset, FS_CardinalityType
<1>3. ways = [n \in 1 .. c |-> Way(order[Nth(has, n - 1)], anchor, nth)]
  BY DEF Ways
<1>4. DOMAIN ways = 1 .. c /\ \A n \in 1 .. c : ways[n] = Way(order[Nth(has, n - 1)], anchor, nth)
  BY <1>3
<1>5. \A i : i \in has <=> i \in DOMAIN order /\ order[i] \in l.kinds
  OBVIOUS
<1> HIDE DEF has, c, ways
<1>6. ASSUME NEW n \in DOMAIN ways
      PROVE  \E i \in DOMAIN order : order[i] \in l.kinds /\ ways[n] = Way(order[i], anchor, nth)
  <2>1. n - 1 \in Nat /\ c > n - 1
    BY <1>2, <1>4, <1>6
  <2>2. Nth(has, n - 1) \in has
    BY <1>2, <2>1, NthOf DEF c
  <2>3. QED
    BY <1>4, <1>5, <1>6, <2>2
<1>7. ASSUME NEW i \in DOMAIN order, order[i] \in l.kinds
      PROVE  \E n \in DOMAIN ways : ways[n] = Way(order[i], anchor, nth)
  <2>1. i \in has
    BY <1>5, <1>7
  <2>2. PICK n \in 0 .. c - 1 : Nth(has, n) = i
    BY <1>2, <2>1, NthHits DEF c
  <2>3. n + 1 \in 1 .. c /\ (n + 1) - 1 = n
    BY <1>2
  <2>4. ways[n + 1] = Way(order[i], anchor, nth)
    BY <1>4, <2>2, <2>3
  <2>5. QED
    BY <1>4, <2>3, <2>4
<1>8. QED
  BY <1>6, <1>7 DEF ways

(* Candidates by their score, with every selector of the step among them   *)
(* without a number.                                                       *)
Sorted(l) == \A n \in DOMAIN l.candidates :
                Score(l, l.candidates[n], l.seen[n]) <= Score(l, l.candidates[1], l.seen[1])
OwnFound(l) == \A kind \in l.kinds \cap Kinds :
                  \E n \in DOMAIN l.candidates : l.candidates[n] = Way(kind, l.anchor, 0)

\* Then nothing comes before the first candidate in the plan of resolveSelector but
\* ways by number, which it does not take.
LEMMA PlanBegins ==
    ASSUME NEW l, Recording(l), 1 \in DOMAIN l.candidates, Sorted(l), OwnFound(l)
    PROVE  \E p \in DOMAIN Plan(l) : /\ Plan(l)[p] = l.candidates[1]
                                     /\ \A n \in 1 .. (p - 1) : n \in DOMAIN Plan(l) /\ Plan(l)[n].nth > 0
<1> DEFINE all == AllWays(l)
           seen == AllSeen(l)
           order == Ranked(l, all, seen)
<1>1. /\ all \in Seq(WaysIn(Kinds, BOOLEAN)) /\ seen \in [DOMAIN all -> Diagnostics]
      /\ \A n \in DOMAIN l.candidates : /\ n \in DOMAIN all /\ n >= 1
                                        /\ all[n] = l.candidates[n] /\ seen[n] = l.seen[n]
      /\ \A n \in DOMAIN all \ DOMAIN l.candidates : \E j \in DOMAIN OwnWays(l) : all[n] = OwnWays(l)[j]
      /\ Len(l.candidates) \in Nat /\ DOMAIN l.candidates = 1 .. Len(l.candidates)
      /\ \A n \in DOMAIN all : n \in Nat /\ (n \notin DOMAIN l.candidates => n > Len(l.candidates))
  BY AllOf
<1>2. PICK m \in Nat : /\ order \in [1 .. m -> DOMAIN all]
                       /\ \A r \in 1 .. m : Once(all, order[r])
                       /\ \A n \in DOMAIN all : Once(all, n) => \E r \in 1 .. m : order[r] = n
                       /\ \A p, q \in 1 .. m : p < q => Precedes(l, all, seen, order[p], order[q])
  BY <1>1, RankedOf
<1>3. Plan(l) = [r \in DOMAIN order |-> all[order[r]]]
  BY DEF Plan, OwnWays, AllWays, AllSeen
<1>4. \A n \in DOMAIN all : Score(l, all[n], seen[n]) \in Int
  <2>1. \A n \in DOMAIN all : all[n] \in WaysIn(Kinds, BOOLEAN) /\ seen[n] \in Diagnostics
    BY <1>1
  <2>2. QED
    BY <2>1, ScoreType
<1> HIDE DEF order, all, seen
<1>5. DOMAIN Plan(l) = 1 .. m /\ \A r \in 1 .. m : Plan(l)[r] = all[order[r]] /\ order[r] \in DOMAIN all
  BY <1>2, <1>3
<1>6. 1 \in DOMAIN all /\ all[1] = l.candidates[1] /\ seen[1] = l.seen[1] /\ Once(all, 1)
  BY <1>1 DEF Once
<1>7. PICK p \in 1 .. m : order[p] = 1
  BY <1>2, <1>6
<1>8. ASSUME NEW n \in 1 .. (p - 1) PROVE n \in 1 .. m /\ Plan(l)[n].nth > 0
  <2> DEFINE i == order[n]
  <2>1. n \in 1 .. m /\ n < p /\ i \in DOMAIN all /\ i \in Nat
    BY <1>1, <1>2, <1>8
  <2>2. Precedes(l, all, seen, i, 1) /\ Once(all, i)
    BY <1>2, <1>7, <2>1
  <2>3. ~(i < 1)
    BY <1>1, <1>5, <2>1
  <2>4. Score(l, all[i], seen[i]) > Score(l, all[1], seen[1])
    BY <2>2, <2>3 DEF Precedes
  <2>5. i \notin DOMAIN l.candidates
    <3>1. SUFFICES ASSUME i \in DOMAIN l.candidates PROVE FALSE
      OBVIOUS
    <3>2. Score(l, all[i], seen[i]) <= Score(l, all[1], seen[1])
      BY <1>1, <1>6, <3>1 DEF Sorted
    <3>3. QED
      BY <1>4, <1>6, <2>1, <2>4, <3>2
  <2>6. PICK j \in DOMAIN OwnWays(l) : all[i] = OwnWays(l)[j]
    BY <1>1, <2>1, <2>5
  <2>7. PICK c \in DOMAIN CandidateOrder :
           CandidateOrder[c] \in l.kinds /\ all[i] = Way(CandidateOrder[c], l.anchor, l.nth)
    <3>1. CandidateOrder \in Seq(Kinds)
      BY DEF CandidateOrder, Kinds
    <3>2. QED
      BY <2>6, <3>1, WaysHave DEF OwnWays
  <2>8. l.nth # 0
    <3>1. SUFFICES ASSUME l.nth = 0 PROVE FALSE
      OBVIOUS
    <3>2. CandidateOrder[c] \in l.kinds \cap Kinds
      BY <2>7 DEF CandidateOrder, Kinds
    <3>3. PICK q \in DOMAIN l.candidates : l.candidates[q] = all[i]
      BY <2>7, <3>1, <3>2 DEF OwnFound
    <3>4. q \in 1 .. (i - 1) /\ all[q] = all[i]
      BY <1>1, <2>1, <2>5, <3>3
    <3>5. QED
      BY <2>2, <3>4 DEF Once
  <2>9. l.nth > 0
    BY <2>8 DEF Recording
  <2>10. QED
    BY <1>5, <2>1, <2>7, <2>9 DEF Way
<1>9. QED
  BY <1>5, <1>6, <1>7, <1>8

\* What a search for a candidate finds in a document are items of the page.
LEMMA MatchesIn ==
    ASSUME NEW doc, Document(doc), NEW e, NEW x, NEW d \in [Items -> Drawn], NEW kind, NEW anchored
    PROVE  /\ Matches(doc, e, x, d, kind, anchored) \subseteq Items
           /\ IsFiniteSet(Matches(doc, e, x, d, kind, anchored))
<1> DEFINE inside == Inside(BoxesOf(doc, e), d, {"hidden", "shown"})
           scope == IF anchored /\ inside # {} /\ kind # "xpath" THEN inside ELSE Els(doc)
           all == {i \in scope : d[i] # "gone" /\ i \in Matched(doc, e, x, kind)}
           marked == {i \in all : x.label \subseteq doc.els[i].marked}
           first == Nth(IF marked # {} THEN marked ELSE all, 0)
<1>1. scope \subseteq Items
  BY DEF Inside, Els, Document
<1>2. Matches(doc, e, x, d, kind, anchored) = IF kind = "label" THEN {first} \ {0} ELSE all
  BY DEF Matches
<1>3. all \in SUBSET Items /\ marked \in SUBSET all
  BY <1>1
<1> HIDE DEF all, marked
<1>4. first \in all \cup {0}
  <2>1. Nth(all, 0) \in all \cup {0}
    BY <1>3, ItemsFinite, NthOf
  <2>2. Nth(marked, 0) \in marked \cup {0}
    BY <1>3, ItemsFinite, NthOf
  <2>3. QED
    BY <1>3, <2>1, <2>2
<1>5. Matches(doc, e, x, d, kind, anchored) \in SUBSET Items
  BY <1>2, <1>3, <1>4
<1>6. QED
  BY <1>5, ItemsFinite

\* What is seen of a candidate is of the type of diagnostics.
LEMMA SeenType ==
    ASSUME NEW doc, Document(doc), NEW e, NEW x, NEW d \in [Items -> Drawn], NEW kind
    PROVE  Seen(doc, e, x, d, kind) \in Diagnostics
<1> DEFINE anchored == AnchorOf(doc, e) # {}
           found == Matches(doc, e, x, d, kind, anchored)
           plain == Matches(doc, e, x, d, kind, FALSE)
           within == Cardinality({i \in found : d[i] = "shown"}) + Wrappers(doc, kind, anchored)
           direct == Cardinality({i \in plain : d[i] = "shown"}) + Wrappers(doc, kind, FALSE)
           matched == Cardinality(found) + Wrappers(doc, kind, anchored)
           same == \E i \in found : d[i] = "shown" /\ i \in SameControl(doc, e)
<1>1. \A a \in BOOLEAN : Wrappers(doc, kind, a) \in Nat
  BY DEF Wrappers, Document
<1>2. found \subseteq Items /\ IsFiniteSet(found)
  BY MatchesIn
<1>3. Cardinality(found) \in Nat /\ Cardinality({i \in found : d[i] = "shown"}) \in Nat
  <2>1. {i \in found : d[i] = "shown"} \in SUBSET found
    OBVIOUS
  <2>2. IsFiniteSet({i \in found : d[i] = "shown"})
    BY <1>2, <2>1, FS_Subset
  <2>3. QED
    BY <1>2, <2>2, FS_CardinalityType
<1>4. matched \in Nat /\ within \in Nat
  <2>1. Wrappers(doc, kind, anchored) \in Nat
    BY <1>1
  <2>2. QED
    BY <1>3, <2>1
<1>5. Seen(doc, e, x, d, kind) =
        [live |-> TRUE, matched |-> matched, visible |-> within, target |-> Unique(same, within),
         reduced |-> anchored /\ direct > within /\ within > 0,
         mode |-> IF anchored THEN Mode(direct, within) ELSE "none"]
  BY DEF Seen, Tested
<1> HIDE DEF found, plain, within, direct, matched, same
<1>6. Unique(same, within) \in BOOLEAN
  BY DEF Unique, same
<1>7. Mode(direct, within) \in {"none", "primary", "fallback", "diagnostic"}
  BY DEF Mode
<1>8. QED
  BY <1>4, <1>5, <1>6, <1>7 DEF Diagnostics

\* A score depends on nothing of a step but what its name and state are and what of it
\* is brittle.
LEMMA ScoreSame ==
    ASSUME NEW l, NEW m, l.bare = m.bare, l.exact = m.exact, l.stated = m.stated,
           l.brittle = m.brittle, NEW w, NEW seen
    PROVE  Score(l, w, seen) = Score(m, w, seen)
  BY DEF Score

\* What the recorder writes down of an element: the selectors of its kinds, and
\* candidates that are sorted, that have all of these without a number, and the
\* best of which was seen as it says.
LEMMA CaptureOf ==
    ASSUME NEW doc, Document(doc), NEW e, NEW d \in [Items -> Drawn],
           NEW l, l = Capture(doc, e, d), l.seen # <<>>
    PROVE  /\ 1 \in DOMAIN l.candidates /\ l.anchor = (AnchorOf(doc, e) # {})
           /\ Sorted(l) /\ OwnFound(l)
           /\ \E kind \in Kinds : /\ l.candidates[1] = Way(kind, l.anchor, 0)
                                  /\ l.seen[1] = Seen(doc, e, Extracted(doc, e), d, kind)
<1> DEFINE x == Extracted(doc, e)
           anchored == AnchorOf(doc, e) # {}
           kinds == KindsOf(x) \cup {"xpath"}
           found == Ways(CandidateOrder, [kinds |-> kinds], anchored, 0)
           seen == [n \in DOMAIN found |-> Seen(doc, e, x, d, found[n].kind)]
           brittle == (IF doc.els[e].id = "none" THEN {"css"} ELSE {})
                      \cup (IF doc.els[e].id = "none" /\ Index(doc, e) # 0 THEN {"xpath"} ELSE {})
           rec == [kinds |-> KindsOf(x), anchor |-> anchored, nth |-> Ordinal(doc, e, x),
                   checkbox |-> x.role = "checkbox", bare |-> x.name = {}, exact |-> FALSE, stated |-> FALSE,
                   brittle |-> brittle, candidates |-> found, seen |-> seen]
           order == Ranked(rec, found, rec.seen)
<1>1. l = [rec EXCEPT !.candidates = [n \in DOMAIN order |-> found[order[n]]],
                      !.seen = [n \in DOMAIN order |-> rec.seen[order[n]]]]
  BY DEF Capture
<1>2. found \in Seq(WaysIn(Kinds, {anchored}))
  <2>1. CandidateOrder \in Seq(Kinds)
    BY DEF CandidateOrder, Kinds
  <2>2. QED
    BY <2>1, WaysOf
<1>3. /\ \A n \in DOMAIN found : \E i \in DOMAIN CandidateOrder : found[n] = Way(CandidateOrder[i], anchored, 0)
      /\ \A i \in DOMAIN CandidateOrder : CandidateOrder[i] \in kinds =>
            \E n \in DOMAIN found : found[n] = Way(CandidateOrder[i], anchored, 0)
  <2>1. CandidateOrder \in Seq(Kinds)
    BY DEF CandidateOrder, Kinds
  <2> DEFINE asked == [kinds |-> kinds]
  <2>2. asked.kinds = kinds /\ found = Ways(CandidateOrder, asked, anchored, 0)
    OBVIOUS
  <2> HIDE DEF kinds, anchored, asked, found
  <2>3. QED
    BY <2>1, <2>2, WaysHave
<1>4. \A n \in DOMAIN found : \E kind \in Kinds : found[n] = Way(kind, anchored, 0)
  <2>1. \A i \in DOMAIN CandidateOrder : CandidateOrder[i] \in Kinds
    BY DEF CandidateOrder, Kinds
  <2> HIDE DEF found, anchored
  <2>2. QED
    BY <1>3, <2>1
<1>5. \A kind \in Kinds \cap KindsOf(x) : \E n \in DOMAIN found : found[n] = Way(kind, anchored, 0)
  <2>1. \A kind \in Kinds : \E i \in DOMAIN CandidateOrder : CandidateOrder[i] = kind
    BY DEF CandidateOrder, Kinds
  <2> HIDE DEF found, anchored, x
  <2>2. QED
    BY <1>3, <2>1
<1>6. found \in Seq(WaysIn(Kinds, BOOLEAN))
  <2>1. {anchored} \subseteq BOOLEAN
    OBVIOUS
  <2> HIDE DEF found, anchored
  <2>2. QED
    BY <1>2, <2>1, WaysWiden
<1>7. seen \in [DOMAIN found -> Diagnostics]
  <2> HIDE DEF found, x
  <2>1. QED
    BY SeenType
<1>8. /\ l.kinds = KindsOf(x) /\ l.anchor = anchored /\ l.bare = rec.bare /\ l.exact = rec.exact /\ l.stated = rec.stated
      /\ l.brittle = rec.brittle
      /\ l.candidates = [n \in DOMAIN order |-> found[order[n]]]
      /\ l.seen = [n \in DOMAIN order |-> seen[order[n]]] /\ rec.seen = seen
  <2> HIDE DEF order, found, seen, anchored, x, brittle
  <2>1. QED
    BY <1>1
<1> HIDE DEF rec, found, seen, anchored, x, kinds
<1>9. PICK m \in Nat : /\ order \in [1 .. m -> DOMAIN found]
                       /\ \A n \in DOMAIN found : Once(found, n) => \E r \in 1 .. m : order[r] = n
                       /\ \A p, q \in 1 .. m : p < q => Precedes(rec, found, seen, order[p], order[q])
  BY <1>6, <1>7, <1>8, RankedOf
<1> HIDE DEF order
<1>10. /\ DOMAIN l.candidates = 1 .. m /\ DOMAIN l.seen = 1 .. m
       /\ \A r \in 1 .. m : /\ order[r] \in DOMAIN found
                            /\ l.candidates[r] = found[order[r]] /\ l.seen[r] = seen[order[r]]
  BY <1>8, <1>9
<1>11. m # 0
  <2>1. SUFFICES ASSUME m = 0 PROVE FALSE
    OBVIOUS
  <2>2. l.seen = [n \in 1 .. 0 |-> seen[order[n]]]
    BY <1>8, <1>9, <2>1
  <2>3. l.seen = <<>>
    BY <2>2
  <2>4. QED
    BY <2>3
<1>12. 1 \in 1 .. m
  BY <1>11
<1>13. \A n \in DOMAIN found : Score(rec, found[n], seen[n]) \in Int
  <2>1. \A n \in DOMAIN found : found[n] \in WaysIn(Kinds, BOOLEAN) /\ seen[n] \in Diagnostics
    BY <1>6, <1>7
  <2>2. QED
    BY <2>1, ScoreType
<1>14. Sorted(l)
  <2>1. SUFFICES ASSUME NEW n \in 1 .. m
                 PROVE  Score(rec, found[order[n]], seen[order[n]]) <= Score(rec, found[order[1]], seen[order[1]])
    BY <1>8, <1>10, <1>12, ScoreSame DEF Sorted
  <2>2. /\ Score(rec, found[order[n]], seen[order[n]]) \in Int
        /\ Score(rec, found[order[1]], seen[order[1]]) \in Int
    BY <1>10, <1>12, <1>13
  <2>3. CASE n = 1
    BY <2>2, <2>3
  <2>4. CASE n # 1
    <3>1. Precedes(rec, found, seen, order[1], order[n])
      BY <1>9, <1>12, <2>4
    <3>2. QED
      BY <2>2, <3>1 DEF Precedes
  <2>5. QED
    BY <2>3, <2>4
<1>15. OwnFound(l)
  <2>1. SUFFICES ASSUME NEW kind \in Kinds \cap KindsOf(x)
                 PROVE  \E n \in 1 .. m : l.candidates[n] = Way(kind, anchored, 0)
    BY <1>8, <1>10 DEF OwnFound
  <2>2. PICK n \in DOMAIN found : found[n] = Way(kind, anchored, 0)
    BY <1>5
  <2>3. PICK j \in DOMAIN found : found[j] = found[n] /\ Once(found, j)
    BY <1>6, FirstOf
  <2>4. PICK r \in 1 .. m : order[r] = j
    BY <1>9, <2>3
  <2>5. QED
    BY <1>10, <2>2, <2>3, <2>4
<1>16. \E kind \in Kinds : l.candidates[1] = Way(kind, anchored, 0) /\ l.seen[1] = Seen(doc, e, x, d, kind)
  <2>1. l.candidates[1] = found[order[1]] /\ l.seen[1] = seen[order[1]] /\ order[1] \in DOMAIN found
    BY <1>10, <1>12
  <2>2. PICK kind \in Kinds : found[order[1]] = Way(kind, anchored, 0)
    BY <1>4, <2>1
  <2>3. seen[order[1]] = Seen(doc, e, x, d, kind)
    BY <2>1, <2>2 DEF seen, Way
  <2>4. QED
    BY <2>1, <2>2, <2>3
<1>17. QED
  BY <1>8, <1>10, <1>12, <1>14, <1>15, <1>16 DEF x, anchored

\* The box of an element that is shown is in the document, and has the text of its
\* anchor.
LEMMA InItsBox ==
    ASSUME NEW doc, Document(doc), NEW e \in Items, NEW d \in [Items -> Drawn], d[e] = "shown",
           AnchorOf(doc, e) # {}
    PROVE  Inside(BoxesOf(doc, e), d, {"hidden", "shown"}) # {}
<1> DEFINE p == BoxesOf(doc, e)
           items == In(d, {"hidden", "shown"})
           boxes == {p.box[i] : i \in items}
           named == Holders(doc, e)
           first == Nth(boxes \cap p.named, 0)
           b == doc.els[e].box
<1>1. p.box = [i \in Items |-> doc.els[i].box] /\ p.named = named
  BY DEF BoxesOf, Els, Document
<1>2. \A i \in Items : doc.els[i].box \in Nat
  BY DEF Document
<1>3. b \in DOMAIN doc.boxes /\ b # 0
  BY DEF AnchorOf, Document
<1>4. b \in named
  <2>1. AnchorOf(doc, e) \subseteq doc.boxes[b].tells
    BY DEF AnchorOf
  <2>2. AnchorOf(doc, e) \subseteq TextOf(doc, b)
    BY <2>1 DEF TextOf
  <2>3. QED
    BY <1>3, <2>2 DEF Holders
<1>5. 0 \notin named
  BY DEF Holders, Document
<1>6. items \in SUBSET Items /\ e \in items
  BY DEF In
<1>7. IsFiniteSet(items)
  BY <1>6, ItemsFinite
<1>8. boxes = {doc.els[i].box : i \in items}
  BY <1>1, <1>6
<1> HIDE DEF items
<1>9. IsFiniteSet(boxes) /\ boxes \subseteq Int
  <2> DEFINE f == [i \in items |-> doc.els[i].box]
  <2> HIDE DEF boxes
  <2>1. f \in [items -> boxes] /\ \A c \in boxes : \E i \in items : f[i] = c
    BY <1>8
  <2>2. boxes \subseteq Int
    BY <1>2, <1>6, <1>8
  <2> HIDE DEF f
  <2>3. f \in Surjection(items, boxes)
    BY <2>1 DEF Surjection
  <2>4. QED
    BY <1>7, <2>2, <2>3, FS_Surjection
<1>10. b \in boxes \cap p.named
  BY <1>1, <1>4, <1>6, <1>8
<1>11. \A c \in boxes : \E i \in Items : p.box[i] = c
  BY <1>1, <1>6, <1>8
<1> HIDE DEF boxes, named
<1> DEFINE T == boxes \cap p.named
<1>12. IsFiniteSet(T) /\ T \subseteq Int
  <2>1. T \in SUBSET boxes
    OBVIOUS
  <2>2. QED
    BY <1>9, <2>1, FS_Subset
<1>13. Cardinality(T) > 0
  <2> HIDE DEF T
  <2>1. Cardinality(T) \in Nat /\ T # {}
    BY <1>10, <1>12, FS_CardinalityType DEF T
  <2>2. Cardinality(T) # 0
    BY <1>12, <2>1, FS_EmptySet
  <2>3. QED
    BY <2>1, <2>2
<1>14. first \in boxes /\ first # 0
  <2>1. first \in T
    BY <1>12, <1>13, NthOf
  <2>2. QED
    BY <1>1, <1>5, <2>1
<1>15. Inside(p, d, {"hidden", "shown"}) = {i \in DOMAIN d : first # 0 /\ p.box[i] = first}
  BY DEF Inside, items, boxes
<1> HIDE DEF first, p
<1>16. QED
  BY <1>11, <1>14, <1>15 DEF p

\* What the recorder vouched for, the same way of the flow finds on the page that
\* was recorded: the element that is meant, shown.
LEMMA BestIsFound ==
    ASSUME NEW s \in Scenes, s.step.meant # {}, NEW l, l = s.step.find,
           l.seen # <<>>, l.seen[1].target, l.candidates[1].kind # "xpath",
           l.seen[1].matched = 1 \/ l.candidates[1].kind = "role",
           \A i \in Items : l.candidates[1].kind \in s.page.answers[i] <=> i \in s.step.alike,
           l.candidates[1].kind = "label" =>
              \A i, j \in s.step.alike : i = j \/ (l.candidates[1].anchor /\ s.page.box[i] # s.page.box[j])
    PROVE  /\ Located(s.page, s.drawn, l.candidates[1]) \in s.step.meant
           /\ Shown(s.drawn, Located(s.page, s.drawn, l.candidates[1]))
<1> DEFINE doc == s.of.doc
           e == s.of.element
           d == s.drawn
           x == Extracted(doc, e)
           anchored == AnchorOf(doc, e) # {}
<1>1. RecordedFrom(s, doc, e)
  BY RecordingsAssumption
<1>2. Document(doc) /\ e \in Items /\ d[e] = "shown" /\ d \in [Items -> Drawn]
  BY <1>1, ScenesAssumption DEF RecordedFrom
<1>3. PICK kind \in Kinds : l.candidates[1] = Way(kind, anchored, 0) /\ l.seen[1] = Seen(doc, e, x, d, kind)
  <2>1. l = Capture(doc, e, d)
    BY <1>1 DEF RecordedFrom
  <2>2. QED
    BY <1>2, <2>1, CaptureOf
<1>4. kind # "xpath"
  BY <1>3 DEF Way
<1> DEFINE found == Matches(doc, e, x, d, kind, anchored)
           shown == {i \in found : d[i] = "shown"}
           wraps == Wrappers(doc, kind, anchored)
           inside == Inside(BoxesOf(doc, e), d, {"hidden", "shown"})
           scope == IF anchored THEN inside ELSE Items
           all == {i \in scope : d[i] # "gone" /\ i \in Matched(doc, e, x, kind)}
           marked == {i \in all : x.label \subseteq doc.els[i].marked}
           first == Nth(IF marked # {} THEN marked ELSE all, 0)
<1>5. found \subseteq Items /\ IsFiniteSet(found)
  BY <1>2, MatchesIn
<1>6. wraps \in Nat
  BY <1>2 DEF Wrappers, Document
<1>7. /\ \E i \in found : d[i] = "shown" /\ i \in SameControl(doc, e)
      /\ Cardinality(shown) + wraps = 1
      /\ Cardinality(found) + wraps = 1 \/ kind = "role"
  <2> DEFINE same == \E i \in found : d[i] = "shown" /\ i \in SameControl(doc, e)
  <2>1. /\ Seen(doc, e, x, d, kind).target = Unique(same, Cardinality(shown) + wraps)
        /\ Seen(doc, e, x, d, kind).matched = Cardinality(found) + wraps
    BY DEF Seen, Tested
  <2> HIDE DEF found, wraps, same, shown, x, anchored
  <2>2. /\ Unique(same, Cardinality(shown) + wraps)
        /\ Cardinality(found) + wraps = 1 \/ kind = "role"
    BY <1>3, <2>1 DEF Way
  <2>3. QED
    BY <2>2 DEF Unique, same
<1> HIDE DEF found, wraps
<1>8. PICK i \in shown : i \in SameControl(doc, e)
  BY <1>7
<1>9. IsFiniteSet(shown) /\ shown \in SUBSET found
  BY <1>5, FS_Subset
<1> HIDE DEF shown
<1>10. Cardinality(shown) \in Nat /\ Cardinality(shown) # 0
  BY <1>8, <1>9, FS_CardinalityType, FS_EmptySet
<1>11. Cardinality(shown) = 1 /\ wraps = 0
  BY <1>6, <1>7, <1>10
<1>12. shown = {i}
  <2>1. PICK a : shown = {a}
    BY <1>9, <1>11, FS_Singleton
  <2>2. QED
    BY <1>8, <2>1
<1>13. Cardinality(found) = 1 => found = {i}
  <2>1. SUFFICES ASSUME Cardinality(found) = 1 PROVE found = {i}
    OBVIOUS
  <2>2. PICK a : found = {a}
    BY <1>5, <2>1, FS_Singleton
  <2>3. QED
    BY <1>8, <1>9, <2>2
<1>14. found = {i} \/ kind = "role"
  <2>1. Cardinality(found) \in Nat
    BY <1>5, FS_CardinalityType
  <2>2. QED
    BY <1>7, <1>11, <1>13, <2>1
<1>15. found = IF kind = "label" THEN {first} \ {0} ELSE all
  <2>1. anchored => inside # {}
    BY <1>2, InItsBox
  <2>2. Els(doc) = Items
    BY <1>2 DEF Els, Document
  <2>3. scope = IF anchored /\ inside # {} /\ kind # "xpath" THEN inside ELSE Els(doc)
    BY <1>4, <2>1, <2>2
  <2> HIDE DEF inside, x
  <2>4. QED
    BY <2>3 DEF Matches, found, inside
<1> DEFINE w == Way(kind, anchored, 0)
           states == IF kind \in {"role", "checkbox"} THEN {"shown"} ELSE {"hidden", "shown"}
           T == {j \in scope : d[j] \in states /\ kind \in s.page.answers[j]}
<1>16. scope \subseteq Items
  BY <1>2 DEF Inside
<1>17. Located(s.page, d, w) = Nth(T, 0)
  <2>1. kind \notin s.page.outer
    BY <1>1, <1>4 DEF RecordedFrom, Beyond
  <2>2. Scope(s.page, d, w) = scope
    <3>1. s.page.box = BoxesOf(doc, e).box /\ s.page.named = BoxesOf(doc, e).named
      BY <1>1 DEF RecordedFrom
    <3>2. Inside(s.page, d, {"hidden", "shown"}) = inside
      BY <3>1 DEF Inside
    <3>3. DOMAIN d = Items
      BY <1>2
    <3> HIDE DEF inside, anchored
    <3>4. QED
      BY <3>2, <3>3 DEF Scope, Way
  <2> HIDE DEF scope, anchored
  <2>3. QED
    BY <2>1, <2>2 DEF Located, Way
<1>18. /\ \A j \in Items : kind \in s.page.answers[j] <=> j \in Matched(doc, e, x, kind)
       /\ kind = "label" => \A a, b \in Matched(doc, e, x, kind) :
                                a = b \/ (anchored /\ BoxesOf(doc, e).box[a] # BoxesOf(doc, e).box[b])
  <2>1. s.step.alike = Matched(doc, e, x, kind) /\ s.page.box = BoxesOf(doc, e).box
    <3>1. s.step.alike = Matched(doc, e, x, l.candidates[1].kind) /\ s.page.box = BoxesOf(doc, e).box
      BY <1>1 DEF RecordedFrom
    <3> HIDE DEF x, anchored
    <3>2. l.candidates[1].kind = kind
      BY <1>3 DEF Way
    <3>3. QED
      BY <3>1, <3>2
  <2> HIDE DEF x, anchored
  <2>2. QED
    BY <1>3, <2>1 DEF Way
<1>19. \A j \in Items : d[j] # "gone" <=> d[j] \in {"hidden", "shown"}
  BY <1>2 DEF Drawn
<1>20. T = IF kind = "role" THEN {j \in all : d[j] = "shown"} ELSE all
  <2>1. kind # "checkbox"
    BY DEF Kinds
  <2> HIDE DEF scope, x
  <2>2. QED
    BY <1>16, <1>18, <1>19, <2>1
<1>21. kind = "label" => all = {i}
  <2>1. SUFFICES ASSUME kind = "label" PROVE all = {i}
    OBVIOUS
  <2>2. all \in SUBSET Items /\ marked \in SUBSET all
    BY <1>16
  <2>3. \A a, b \in all : a \in Matched(doc, e, x, kind) /\ b \in Matched(doc, e, x, kind)
    OBVIOUS
  <2>4. anchored => \A a, b \in all : BoxesOf(doc, e).box[a] = BoxesOf(doc, e).box[b]
    BY DEF Inside
  <2>5. \A a, b \in all : a = b
    <3> HIDE DEF all, x, anchored
    <3>1. QED
      BY <1>18, <2>1, <2>3, <2>4
  <2> HIDE DEF all, marked
  <2>6. first \in all \cup {0}
    <3>1. Nth(all, 0) \in all \cup {0}
      BY <2>2, ItemsFinite, NthOf
    <3>2. Nth(marked, 0) \in marked \cup {0}
      BY <2>2, ItemsFinite, NthOf
    <3>3. QED
      BY <2>2, <3>1, <3>2
  <2>7. i \in all
    <3>1. found = {i} /\ found = {first} \ {0}
      BY <1>14, <1>15, <2>1
    <3>2. i = first /\ i # 0
      BY <3>1
    <3>3. QED
      BY <2>6, <3>2
  <2>8. QED
    BY <2>5, <2>7
<1> HIDE DEF T, all, scope, x, anchored
<1>22. Nth(T, 0) = i
  <2>1. i \in Int
    <3>1. i \in Items
      BY <1>5, <1>8, <1>9
    <3>2. QED
      BY <3>1, ItemsAssumption
  <2>2. CASE kind = "role"
    <3>1. T = shown
      BY <1>15, <1>20, <2>2 DEF shown
    <3>2. QED
      BY <1>12, <2>1, <3>1, NthOfOne
  <2>3. CASE kind = "label"
    BY <1>21, <1>20, <2>1, <2>3, NthOfOne
  <2>4. CASE kind \notin {"role", "label"}
    BY <1>14, <1>15, <1>20, <2>1, <2>4, NthOfOne
  <2>5. QED
    BY <2>2, <2>3, <2>4
<1>23. i # 0 /\ d[i] = "shown" /\ i \in s.step.meant
  <2>1. i \in Items /\ d[i] = "shown"
    BY <1>5, <1>8, <1>9 DEF shown
  <2>2. s.step.meant = SameControl(doc, e)
    BY <1>1 DEF RecordedFrom
  <2>3. QED
    BY <1>8, <2>1, <2>2, ItemsAssumption
<1>24. QED
  BY <1>3, <1>17, <1>22, <1>23 DEF Shown

(* A search that comes to the first candidate before it finds anything     *)
(* else, at place p of its plan, and again at the head of its second stage.*)
LeadsTo(stages, p, best) ==
    /\ Len(stages) = 2 /\ stages[1].ranked /\ ~stages[2].ranked /\ best.nth = 0
    /\ p \in DOMAIN stages[1].ways /\ stages[1].ways[p] = best
    /\ \A n \in 1 .. (p - 1) : n \in DOMAIN stages[1].ways /\ stages[1].ways[n].nth > 0
    /\ 1 \in DOMAIN stages[2].ways /\ stages[2].ways[1] = best

\* The flow compiled today has such a search for what the recorder vouched for.
LEMMA SearchLeads ==
    ASSUME NEW s \in Scenes, NEW r, r.search = "ranked", r.ordinals = "own",
           s.step.meant # {}, NEW l, l = s.step.find, l.seen # <<>>, ~(l.checkbox /\ l.anchor)
    PROVE  \E p \in Nat \ {0} : LeadsTo(Search(r, s.step), p, l.candidates[1])
<1> DEFINE doc == s.of.doc
           e == s.of.element
           d == s.drawn
           best == l.candidates[1]
           healing == HealingWays(l, "own")
<1>1. Recording(l) /\ d \in [Items -> Drawn]
  BY ScenesAssumption
<1>2. RecordedFrom(s, doc, e)
  BY RecordingsAssumption
<1>3. /\ 1 \in DOMAIN l.candidates /\ Sorted(l) /\ OwnFound(l)
      /\ \E kind \in Kinds : best = Way(kind, l.anchor, 0)
  <2>1. l = Capture(doc, e, d) /\ Document(doc)
    BY <1>2 DEF RecordedFrom
  <2>2. QED
    BY <1>1, <2>1, CaptureOf
<1>4. PICK p \in DOMAIN Plan(l) : /\ Plan(l)[p] = best
                                  /\ \A n \in 1 .. (p - 1) : n \in DOMAIN Plan(l) /\ Plan(l)[n].nth > 0
  BY <1>1, <1>3, PlanBegins
<1>5. p \in Nat \ {0}
  <2>1. Plan(l) \in Seq(WaysIn(WayKinds, {l.anchor}))
    BY <1>1, PlanOf
  <2>2. QED
    BY <1>4, <2>1
<1>6. 1 \in DOMAIN healing /\ healing[1] = best
  <2> DEFINE first == [n \in DOMAIN l.candidates |-> Way(l.candidates[n].kind, l.anchor, l.candidates[n].nth)]
             own == Ways(FlowOrder, l, l.anchor, l.nth)
             W0 == WaysIn(WayKinds, {l.anchor})
  <2>1. healing = first \o own
    BY DEF HealingWays
  <2>2. own \in Seq(W0)
    <3>1. FlowOrder \in Seq(WayKinds)
      BY DEF FlowOrder, WayKinds, Kinds
    <3>2. l.nth \in Nat
      BY <1>1 DEF Recording
    <3>3. QED
      BY <3>1, <3>2, WaysOf
  <2>3. first[1] = best
    BY <1>3 DEF Way
  <2>4. first \in Seq(W0) /\ DOMAIN first = DOMAIN l.candidates
    <3> DEFINE X == [kind : Kinds, anchor : {l.anchor}, nth : Nat]
               c == l.candidates
    <3>1. c \in Seq(X)
      BY <1>1 DEF Recording
    <3>2. first = [n \in DOMAIN c |-> Way(c[n].kind, l.anchor, c[n].nth)]
      OBVIOUS
    <3>3. \A v \in X : Way(v.kind, l.anchor, v.nth) \in W0
      BY DEF Way, WaysIn, WayKinds
    <3> HIDE DEF X, c, first, W0
    <3>4. Len(c) \in Nat /\ DOMAIN c = 1 .. Len(c) /\ \A n \in DOMAIN c : c[n] \in X
      BY <3>1
    <3>5. first \in [1 .. Len(c) -> W0]
      BY <3>2, <3>3, <3>4
    <3>6. QED
      BY <3>2, <3>4, <3>5, ListOf DEF c
  <2> HIDE DEF first, own, W0
  <2>5. QED
    BY <1>3, <2>1, <2>2, <2>3, <2>4
<1>7. Search(r, s.step) = <<Stage(Plan(l), FALSE, TRUE), Stage(healing, TRUE, FALSE)>>
  <2> DEFINE a == Stage(Plan(l), FALSE, TRUE)
             b == Stage(healing, TRUE, FALSE)
  <2>1. Search(r, s.step) = BoxFirst(l) \o <<a, b>>
    BY <1>2 DEF RecordedFrom, Search, Stages
  <2>2. BoxFirst(l) = <<>>
    BY DEF BoxFirst
  <2> HIDE DEF a, b
  <2>3. QED
    BY <2>1, <2>2 DEF a, b
<1>8. \A a, b : Len(<<a, b>>) = 2 /\ <<a, b>>[1] = a /\ <<a, b>>[2] = b
  OBVIOUS
<1>9. best.nth = 0
  BY <1>3 DEF Way
<1> HIDE DEF best, healing
<1>10. LeadsTo(Search(r, s.step), p, best)
  BY <1>4, <1>6, <1>7, <1>8, <1>9 DEF LeadsTo, Stage
<1>11. QED
  BY <1>5, <1>10 DEF best

(* What the recorder vouched for is found where it was, and the flow has   *)
(* not acted on anything else.                                             *)
Reaching == runner.search = "ranked" /\ runner.ordinals = "own" /\ step.meant # {} /\ Vouched /\ Agreed
Best == step.find.candidates[1]
At(p) == IF stage = 1 THEN k = p ELSE k = 1
ReachedAt(p) ==
    /\ LeadsTo(search, p, Best)
    /\ Located(page, drawn, Best) \in step.meant /\ Shown(drawn, Located(page, drawn, Best))
    /\ step.kind \in {"click", "act"} /\ page.changes = 0
    /\ acted \subseteq step.meant
    /\ pc = "search" => IF stage = 1 THEN k <= p ELSE k = 1
    /\ pc \in {"found", "click"} => At(p)
ReachedInv == Reaching => \E p \in Nat \ {0} : ReachedAt(p)

\* That is so at first.
LEMMA InitReached == Init => ReachedInv
<1>1. SUFFICES ASSUME Init, Reaching PROVE ReachedInv
  BY DEF ReachedInv
<1>2. PICK s \in Scenes : /\ runner \in s.runners /\ step = s.step /\ page = s.page
                          /\ search = Search(runner, s.step) /\ drawn = s.drawn
  BY <1>1 DEF Init
<1>3. acted = {} /\ pc = "guard"
  BY <1>1 DEF Init
<1>4. step.kind \in {"click", "act"} /\ page.changes = 0
  BY <1>1, <1>2, RecordingsAssumption DEF RecordedFrom, Reaching
<1> DEFINE l == s.step.find
<1>5. /\ l = step.find /\ l.seen # <<>> /\ l.seen[1].target /\ l.candidates[1].kind # "xpath"
      /\ l.seen[1].matched = 1 \/ l.candidates[1].kind = "role"
      /\ ~(l.checkbox /\ l.anchor) /\ s.step.meant # {}
      /\ \A i \in Items : l.candidates[1].kind \in s.page.answers[i] <=> i \in s.step.alike
      /\ l.candidates[1].kind = "label" =>
            \A i, j \in s.step.alike : i = j \/ (l.candidates[1].anchor /\ s.page.box[i] # s.page.box[j])
  BY <1>1, <1>2 DEF Reaching, Vouched, Agreed
<1>6. PICK p \in Nat \ {0} : LeadsTo(search, p, Best)
  BY <1>1, <1>2, <1>5, SearchLeads DEF Best, Reaching
<1>7. Located(page, drawn, Best) \in step.meant /\ Shown(drawn, Located(page, drawn, Best))
  BY <1>2, <1>5, BestIsFound DEF Best
<1>8. QED
  BY <1>3, <1>4, <1>6, <1>7 DEF ReachedInv, ReachedAt

\* What a step may do on the page it was recorded on.
LEMMA ReachSteps ==
    ASSUME TypeInv, [Next]_vars, NEW p, ReachedAt(p), Reaching
    PROVE  \/ PassOver \/ GoAhead \/ Find \/ TryNext \/ GiveUp \/ LookAria \/ Click \/ ClickFails
           \/ UNCHANGED vars
<1>1. pc \notin {"choose", "aimed", "verify", "rows", "tick"} /\ step.kind \in {"click", "act"} /\ ~Replays(runner)
  BY DEF TypeInv, PlaceInv, ReachedAt, Reaching, Replays
<1>2. ~(SelectNative \/ Open \/ OpenFails \/ ReplayFinds)
  BY <1>1 DEF SelectNative, Open, OpenFails, ReplayFinds
<1>3. ~(NextRecalled \/ Aim \/ Choose \/ Guess \/ Retype \/ NoOption \/ SelectDone \/ NotApplied)
  BY <1>1 DEF NextRecalled, Aim, Choose, Guess, Retype, NoOption, SelectDone, NotApplied
<1>4. ~(RowPassed \/ RowRead \/ Tick \/ TickFails \/ PassEnds \/ RowsEnd)
  BY <1>1 DEF RowPassed, RowRead, Tick, TickFails, PassEnds, RowsEnd
<1>5. ~Redraw
  <2>1. ~(redraws < page.changes)
    BY DEF TypeInv, Typed, TypeOK, ReachedAt
  <2>2. QED
    BY <2>1 DEF Redraw
<1>6. QED
  BY <1>2, <1>3, <1>4, <1>5 DEF Next, Rest

\* What is in a list.
LEMMA ElementOf == ASSUME NEW T, NEW q \in Seq(T), NEW n \in 1 .. Len(q) PROVE q[n] \in T
  OBVIOUS

\* A search takes nothing but what was vouched for, in either stage, and does not
\* pass it by.
LEMMA BestIsTaken ==
    ASSUME TypeInv, NEW p \in Nat \ {0}, ReachedAt(p), Reaching
    PROVE  /\ Find => At(p)
           /\ TryNext => IF stage' = 1 THEN k' <= p ELSE k' = 1
           /\ ~GiveUp
           /\ pc \in {"found", "click"} => Reached \subseteq step.meant
<1>1. ~Replays(runner)
  BY DEF Reaching, Replays
<1>2. /\ Len(search) = 2 /\ search[1].ranked /\ ~search[2].ranked /\ Best.nth = 0
      /\ p \in DOMAIN search[1].ways /\ search[1].ways[p] = Best
      /\ \A n \in 1 .. (p - 1) : n \in DOMAIN search[1].ways /\ search[1].ways[n].nth > 0
      /\ 1 \in DOMAIN search[2].ways /\ search[2].ways[1] = Best
      /\ Located(page, drawn, Best) \in step.meant /\ Shown(drawn, Located(page, drawn, Best))
      /\ pc = "search" => IF stage = 1 THEN k <= p ELSE k = 1
      /\ pc \in {"found", "click"} => At(p)
  BY DEF ReachedAt, LeadsTo
<1>3. stage \in {1, 2} /\ k \in Nat \ {0}
  BY <1>2 DEF TypeInv, Typed, TypeOK
<1>4. At(p) => k \in DOMAIN S.ways /\ W = Best /\ ~(S.ranked /\ W.nth > 0) /\ InSight
  BY <1>1, <1>2, <1>3 DEF At, S, W, InSight, Found
<1>5. ASSUME pc = "search", ~At(p)
      PROVE  stage = 1 /\ k < p /\ k \in DOMAIN S.ways /\ S.ranked /\ W.nth > 0
  <2>1. stage = 1 /\ k < p
    BY <1>2, <1>3, <1>5 DEF At
  <2>2. k \in 1 .. (p - 1)
    BY <1>3, <2>1
  <2>3. QED
    BY <1>2, <2>1, <2>2 DEF S, W
<1>6. \A st \in {1, 2} : Len(search[st].ways) \in Nat /\ DOMAIN search[st].ways = 1 .. Len(search[st].ways)
  <2> DEFINE A == AnchorsOf(runner, step.find)
  <2>1. search \in Seq(StagesIn(A))
    BY SceneFacts DEF TypeInv
  <2> HIDE DEF A
  <2>2. \A st \in {1, 2} : search[st] \in StagesIn(A)
    <3>1. SUFFICES ASSUME NEW st \in 1 .. Len(search) PROVE search[st] \in StagesIn(A)
      BY <1>2
    <3>2. QED
      BY <2>1, ElementOf
  <2>3. \A st \in {1, 2} : search[st].ways \in Seq(WaysIn(WayKinds, A))
    BY <2>2 DEF StagesIn
  <2> HIDE DEF WaysIn, WayKinds
  <2>4. QED
    BY <2>3
<1>7. ASSUME Find PROVE At(p)
  <2>1. pc = "search" /\ ~(S.ranked /\ W.nth > 0)
    BY <1>7 DEF Find
  <2>2. QED
    BY <1>5, <2>1
<1>8. ASSUME TryNext PROVE IF stage' = 1 THEN k' <= p ELSE k' = 1
  <2>1. pc = "search" /\ ~At(p)
    BY <1>4, <1>8 DEF TryNext
  <2>2. stage = 1 /\ k < p
    BY <1>5, <2>1
  <2>3. \/ k' = k + 1 /\ stage' = stage
        \/ k' = 1 /\ stage' = stage
        \/ k' = 1 /\ stage' = stage + 1
    BY <1>8 DEF TryNext
  <2>4. QED
    BY <1>3, <2>2, <2>3
<1>9. ASSUME GiveUp PROVE FALSE
  <2>1. pc = "search" /\ stage = Len(search) /\ ~InSight
    BY <1>1, <1>9 DEF GiveUp
  <2>2. ~At(p)
    BY <1>4, <2>1
  <2>3. QED
    BY <1>2, <1>5, <2>1, <2>2
<1>10. ASSUME pc \in {"found", "click"} PROVE Reached \subseteq step.meant
  <2>1. W = Best
    BY <1>2, <1>4, <1>10
  <2>2. Found(drawn, Best) = Located(page, drawn, Best)
    BY <1>1 DEF Found
  <2>3. \A i \in Reached : i = Located(page, drawn, Best)
    BY <1>1, <1>2, <1>10, <2>1, <2>2, ReachedIn
  <2>4. QED
    BY <1>2, <2>3
<1>11. QED
  BY <1>7, <1>8, <1>9, <1>10

\* A step that begins is at the head of its search.
LEMMA BeginReached ==
    ASSUME NEW p \in Nat \ {0}, ReachedAt(p), NEW n, Begin(n), acted' \subseteq step.meant,
           UNCHANGED <<runner, step, page, search, drawn>>
    PROVE  ReachedAt(p)'
<1>1. stage' = 1 /\ k' = 1 /\ pc' \in {"rows", "search"}
  BY DEF Begin
<1>2. 1 <= p
  OBVIOUS
<1>3. QED
  BY <1>1, <1>2 DEF ReachedAt, At, Best

\* So is one that repeats, unless it has failed.
LEMMA FailsReached ==
    ASSUME NEW p \in Nat \ {0}, ReachedAt(p), AttemptFails, acted' \subseteq step.meant,
           UNCHANGED <<runner, step, page, search, drawn>>
    PROVE  ReachedAt(p)'
<1>1. CASE tries < step.retries /\ runner.again = "whole"
  <2>1. pc' = "guard"
    BY <1>1 DEF AttemptFails, ToGuard
  <2>2. QED
    BY <2>1 DEF ReachedAt, At, Best
<1>2. CASE tries < step.retries /\ runner.again # "whole"
  <2>1. Begin(1)
    BY <1>2 DEF AttemptFails
  <2>2. QED
    BY <2>1, BeginReached
<1>3. CASE ~(tries < step.retries)
  <2>1. pc' \in {"continued", "failed"}
    BY <1>3 DEF AttemptFails
  <2>2. QED
    BY <2>1 DEF ReachedAt, At, Best
<1>4. QED
  BY <1>1, <1>2, <1>3

\* A step that acts on nothing but what is meant.
LEMMA ActsOnMeant ==
    ASSUME TypeInv, [Next]_vars, NEW p \in Nat \ {0}, ReachedAt(p), Reaching
    PROVE  acted' \subseteq step.meant
<1>1. acted \subseteq step.meant
  BY DEF ReachedAt
<1>2. ~Replays(runner)
  BY DEF Reaching, Replays
<1>3. CASE pc \in {"found", "click"} /\ \E i \in Reached : acted' = acted \cup ({i} \ {0})
  BY <1>1, <1>3, BestIsTaken
<1>4. QED
  BY <1>1, <1>2, <1>3, ActedEffect

\* A step stays on its way to what was vouched for.
LEMMA StepReached == TypeInv /\ ReachedInv /\ [Next]_vars => ReachedInv'
<1>1. SUFFICES ASSUME TypeInv, ReachedInv, [Next]_vars, Reaching' PROVE \E p \in Nat \ {0} : ReachedAt(p)'
  BY DEF ReachedInv
<1>2. UNCHANGED <<runner, step, page, search>>
  BY <1>1, SceneStays
<1>3. Reaching
  BY <1>1, <1>2 DEF Reaching, Vouched, Agreed
<1>4. PICK p \in Nat \ {0} : ReachedAt(p)
  BY <1>1, <1>3 DEF ReachedInv
<1>5. acted' \subseteq step.meant
  BY <1>1, <1>3, <1>4, ActsOnMeant
<1>6. ReachedAt(p)'
  <2>1. CASE UNCHANGED drawn /\ (AttemptFails \/ \E n \in {1, clicks + 1} : Begin(n))
    BY <1>2, <1>4, <1>5, <2>1, BeginReached, FailsReached
  <2>2. CASE UNCHANGED drawn /\ pc' \notin {"search", "found", "click"}
    BY <1>2, <1>4, <1>5, <2>2 DEF ReachedAt, At, Best
  <2>3. CASE Find \/ LookAria
    <3>1. UNCHANGED <<drawn, stage, k>>
      BY <2>3 DEF Find, LookAria, To, world
    <3>2. At(p) /\ pc' # "search"
      BY <1>3, <1>4, <1>1, <2>3, BestIsTaken DEF Find, LookAria, To, ReachedAt
    <3>3. At(p)'
      BY <3>1, <3>2 DEF At
    <3>4. QED
      BY <1>2, <1>4, <1>5, <3>1, <3>2, <3>3 DEF ReachedAt, Best
  <2>4. CASE TryNext
    <3>1. UNCHANGED drawn /\ pc' = "search"
      BY <2>4 DEF TryNext, world
    <3>2. IF stage' = 1 THEN k' <= p ELSE k' = 1
      BY <1>1, <1>3, <1>4, <2>4, BestIsTaken
    <3>3. QED
      BY <1>2, <1>4, <1>5, <3>1, <3>2 DEF ReachedAt, Best
  <2>5. CASE PassOver \/ Click
    <3>1. UNCHANGED drawn /\ pc' \notin {"search", "found", "click"}
      BY <2>5 DEF PassOver, Passes, Click, To, world
    <3>2. QED
      BY <2>2, <3>1
  <2>6. CASE GoAhead \/ ClickFails
    BY <2>1, <2>6 DEF GoAhead, ClickFails
  <2>7. ~GiveUp
    BY <1>1, <1>3, <1>4, BestIsTaken
  <2>8. CASE UNCHANGED vars
    <3>1. UNCHANGED <<drawn, pc, stage, k>>
      BY <2>8 DEF vars, world, place
    <3>2. QED
      BY <1>2, <1>4, <1>5, <3>1 DEF ReachedAt, At, Best
  <2>9. QED
    BY <1>1, <1>3, <1>4, <2>3, <2>4, <2>5, <2>6, <2>7, <2>8, ReachSteps
<1>7. QED
  BY <1>6

\* Where the recorder saw that its best selector finds the element and nothing else,
\* and the browser reads that selector as the recorder did, the flow compiled today
\* acts on the element, on what contains it or what it contains, on nothing else,
\* and does not give its search up, for any document and drawing of it, any boxes,
\* anchors and numbers (RecordedIsReached of RecordedPage).
THEOREM RecordedElementIsReached == Spec => RecordedIsReached
<1>1. TypeInv /\ ReachedInv /\ [Next]_vars
      => [runner.search = "ranked" /\ runner.ordinals = "own" /\ step.meant # {} /\ Vouched /\ Agreed
          => acted' \subseteq step.meant /\ ~(pc = "search" /\ pc' \in {"failed", "continued"})]_vars
  <2>1. SUFFICES ASSUME TypeInv, ReachedInv, [Next]_vars, Reaching
                 PROVE  acted' \subseteq step.meant /\ ~(pc = "search" /\ pc' \in {"failed", "continued"})
    BY DEF Reaching
  <2>2. PICK p \in Nat \ {0} : ReachedAt(p)
    BY <2>1 DEF ReachedInv
  <2>3. acted' \subseteq step.meant
    BY <2>1, <2>2, ActsOnMeant
  <2>4. ASSUME pc = "search" PROVE pc' \notin {"failed", "continued"}
    <3>1. ~GiveUp
      BY <2>1, <2>2, BestIsTaken
    <3>2. CASE Find \/ TryNext
      BY <2>4, <3>2 DEF Find, TryNext, To
    <3>3. CASE UNCHANGED vars
      BY <2>4, <3>3 DEF vars, place
    <3>4. ~(PassOver \/ GoAhead \/ LookAria \/ Click \/ ClickFails)
      BY <2>4 DEF PassOver, GoAhead, LookAria, Click, ClickFails, ToClick, ActsDirectly
    <3>5. QED
      BY <2>1, <2>2, <3>1, <3>2, <3>3, <3>4, ReachSteps
  <2>5. QED
    BY <2>3, <2>4
<1>2. QED
  BY <1>1, InitTypes, InitReached, StepTypes, StepReached, PTL DEF Spec, RecordedIsReached
=============================================================================
