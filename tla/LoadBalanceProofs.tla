------------------------- MODULE LoadBalanceProofs --------------------------
(* Proofs about LoadBalance for any groups, members, connections and      *)
(* scenarios. The sort is by counting and the selection loop is a         *)
(* recursive function, so what they return is proved here by the least    *)
(* counterexample (LeastNatural) rather than by an induction rule.        *)
EXTENDS LoadBalance, FiniteSetTheorems, WellFoundedInduction, NaturalsInduction, TLAPS

-----------------------------------------------------------------------------
(* Orders by counting: InOrder lists a finite set in the given order.     *)

(* The least element of a set of naturals. *)
LEMMA LeastNatural ==
    ASSUME NEW T, T \subseteq Nat, T # {}
    PROVE  \E x \in T : \A y \in T : x <= y
<1>1. IsWellFoundedOn(OpToRel(<, Nat), Nat)
  BY NatLessThanWellFounded
<1>2. PICK x \in T : \A y \in T : ~ (<<y, x>> \in OpToRel(<, Nat))
  BY <1>1, WFMin, Zenon
<1>3. \A y \in T : ~ (y < x)
  BY <1>2 DEF OpToRel
<1> QED
  BY <1>3

(* A strict total order on S, as a set of pairs. *)
Orders(before, S) ==
    /\ \A a \in S : <<a, a>> \notin before
    /\ \A a, b \in S : a # b => <<a, b>> \in before \/ <<b, a>> \in before
    /\ \A a, b, c \in S :
         <<a, b>> \in before /\ <<b, c>> \in before => <<a, c>> \in before

(* How many of S come before m: its place in the order, from 0.           *)
Place(S, before, m) == Cardinality({k \in S : <<k, m>> \in before})

(* The place grows along the order and stays below the size of S, so two  *)
(* members never share one and InOrder can be read as a sequence.         *)
LEMMA PlaceIsStrict ==
    ASSUME NEW S, IsFiniteSet(S), NEW before, Orders(before, S),
           NEW a \in S, NEW b \in S, <<a, b>> \in before
    PROVE  /\ Place(S, before, a) \in Nat
           /\ Place(S, before, b) \in Nat
           /\ Place(S, before, a) < Place(S, before, b)
           /\ Place(S, before, b) < Cardinality(S)
<1> DEFINE A == {k \in S : <<k, a>> \in before}
<1> DEFINE B == {k \in S : <<k, b>> \in before}
<1>1. A \subseteq B /\ A # B /\ B \subseteq S /\ B # S
  BY Zenon DEF Orders
<1>2. IsFiniteSet(B) /\ Cardinality(B) <= Cardinality(S)
      /\ (Cardinality(S) = Cardinality(B) => S = B)
  BY <1>1, FS_Subset, Zenon
<1>3. IsFiniteSet(A) /\ Cardinality(A) <= Cardinality(B)
      /\ (Cardinality(B) = Cardinality(A) => B = A)
  <2>1. A \in SUBSET B
    BY <1>1, Zenon
  <2> QED
    BY <2>1, <1>2, FS_Subset, Zenon
<1>4. Cardinality(A) \in Nat /\ Cardinality(B) \in Nat /\ Cardinality(S) \in Nat
  BY <1>2, <1>3, FS_CardinalityType, Zenon
<1>5. Place(S, before, a) = Cardinality(A) /\ Place(S, before, b) = Cardinality(B)
  BY Zenon DEF Place
<1> HIDE DEF A, B
<1> QED
  BY <1>1, <1>2, <1>3, <1>4, <1>5

(* The sequence InOrder makes of a finite set lists its elements, each     *)
(* once, in the order given.                                               *)
LEMMA InOrderLists ==
    ASSUME NEW S, IsFiniteSet(S), NEW before, Orders(before, S)
    PROVE  /\ InOrder(S, before) \in Seq(S)
           /\ Len(InOrder(S, before)) = Cardinality(S)
           /\ Range(InOrder(S, before)) = S
           /\ IsInjective(InOrder(S, before))
           /\ \A i, j \in 1 .. Cardinality(S) : i < j =>
                <<InOrder(S, before)[i], InOrder(S, before)[j]>> \in before
<1> DEFINE N == Cardinality(S)
<1> DEFINE place(m) == Cardinality({k \in S : <<k, m>> \in before})
<1> DEFINE f == [m \in S |-> place(m) + 1]
<1> DEFINE s == [i \in 1 .. N |-> CHOOSE m \in S : place(m) = i - 1]
<1>1. N \in Nat
  BY FS_CardinalityType, Zenon
<1>2. InOrder(S, before) = s
  BY DEF InOrder
<1>3. \A a, b \in S : <<a, b>> \in before =>
        place(a) \in Nat /\ place(b) \in Nat /\ place(a) < place(b) /\ place(b) < N
  <2> SUFFICES ASSUME NEW a \in S, NEW b \in S, <<a, b>> \in before
               PROVE  place(a) \in Nat /\ place(b) \in Nat /\ place(a) < place(b) /\ place(b) < N
    BY Zenon
  <2>1. Place(S, before, a) = place(a) /\ Place(S, before, b) = place(b)
    BY Zenon DEF Place
  <2> HIDE DEF place
  <2> QED
    BY <2>1, PlaceIsStrict, Zenon
<1>4. \A a \in S : place(a) \in Nat /\ place(a) < N
  <2> TAKE a \in S
  <2> DEFINE A == {k \in S : <<k, a>> \in before}
  <2>1. A \in SUBSET S /\ A # S
    BY Zenon DEF Orders
  <2>2. IsFiniteSet(A) /\ Cardinality(A) <= Cardinality(S)
        /\ (Cardinality(S) = Cardinality(A) => S = A)
    BY <2>1, FS_Subset, Zenon
  <2>3. Cardinality(A) \in Nat
    BY <2>2, FS_CardinalityType, Zenon
  <2>4. place(a) = Cardinality(A)
    BY Zenon
  <2> HIDE DEF A, place
  <2> QED
    BY <2>1, <2>2, <2>3, <2>4, <1>1
<1>5. \A a, b \in S : place(a) = place(b) => a = b
  <2> SUFFICES ASSUME NEW a \in S, NEW b \in S, a # b PROVE place(a) # place(b)
    BY Zenon
  <2> HIDE DEF place
  <2>0. <<a, b>> \in before \/ <<b, a>> \in before
    BY Zenon DEF Orders
  <2>1. place(a) \in Nat /\ place(b) \in Nat /\ (place(a) < place(b) \/ place(b) < place(a))
    BY <2>0, <1>3, Zenon
  <2> QED
    BY <2>1
<1>6. f \in Injection(S, 1 .. N)
  <2> HIDE DEF place, N
  <2>1. f \in [S -> 1 .. N]
    BY <1>4, <1>1
  <2>2. \A a, b \in S : f[a] = f[b] => a = b
    BY <1>4, <1>5
  <2> QED
    BY <2>1, <2>2, Zenon DEF Injection, IsInjective
<1>7. f \in Surjection(S, 1 .. N)
  <2>1. IsFiniteSet(1 .. N) /\ Cardinality(1 .. N) = N
    <3> HIDE DEF N
    <3>1. 1 \in Int /\ N \in Int /\ (1 > N => N = 0)
      BY <1>1
    <3>2. IsFiniteSet(1 .. N) /\ Cardinality(1 .. N) = IF 1 > N THEN 0 ELSE N - 1 + 1
      BY <3>1, FS_Interval, Zenon
    <3> QED
      BY <3>1, <3>2, <1>1
  <2> HIDE DEF f, place
  <2> QED
    BY <1>6, <2>1, FS_Injection, Zenon
<1>8. \A i \in 1 .. N : \E m \in S : place(m) = i - 1
  <2> HIDE DEF place, N
  <2> TAKE i \in 1 .. N
  <2>1. PICK m \in S : f[m] = i
    BY <1>7, Zenon DEF Surjection
  <2> QED
    BY <2>1, <1>4, <1>1
<1>9. \A i \in 1 .. N : s[i] \in S /\ place(s[i]) = i - 1
  <2> HIDE DEF place, N
  <2> QED
    BY <1>8, Zenon
<1> HIDE DEF s, f, place, N
<1>10. s \in [1 .. N -> S]
  <2>1. s = [i \in 1 .. N |-> CHOOSE m \in S : place(m) = i - 1]
    BY Zenon DEF s
  <2> QED
    BY <2>1, <1>9, Zenon
<1>11. s \in Seq(S) /\ Len(s) = N
  BY <1>10, <1>1
<1>12. Range(s) = S
  <2>1. ASSUME NEW m \in S PROVE m \in Range(s)
    <3>1. PICK i \in 1 .. N : i - 1 = place(m)
      <4>1. place(m) + 1 \in 1 .. N /\ (place(m) + 1) - 1 = place(m)
        BY <1>4, <1>1
      <4> QED
        BY <4>1, Zenon
    <3>2. s[i] \in S /\ place(s[i]) = i - 1
      BY <1>9, Zenon
    <3>3. s[i] = m
      BY <3>1, <3>2, <1>5, Zenon
    <3>4. DOMAIN s = 1 .. N
      BY <1>10, Zenon
    <3> QED
      BY <3>3, <3>4, Zenon DEF Range
  <2> QED
    BY <2>1, <1>10, Zenon DEF Range
<1>13. IsInjective(s)
  <2>1. \A i, j \in 1 .. N : s[i] = s[j] => i = j
    BY <1>9, <1>1
  <2> QED
    BY <2>1, <1>10, Zenon DEF IsInjective
<1>14. \A i, j \in 1 .. N : i < j => <<s[i], s[j]>> \in before
  <2> SUFFICES ASSUME NEW i \in 1 .. N, NEW j \in 1 .. N, i < j,
                      <<s[i], s[j]>> \notin before
               PROVE  FALSE
    BY Zenon
  <2>1. place(s[i]) < place(s[j]) /\ place(s[i]) \in Nat /\ place(s[j]) \in Nat
    BY <1>9, <1>1
  <2>2. s[i] # s[j]
    BY <2>1
  <2>3. <<s[j], s[i]>> \in before
    BY <2>2, <1>9, Zenon DEF Orders
  <2>4. place(s[j]) < place(s[i])
    BY <2>3, <1>3, <1>9, Zenon
  <2> QED
    BY <2>1, <2>4
<1> QED
  BY <1>2, <1>11, <1>12, <1>13, <1>14, Zenon DEF N

-----------------------------------------------------------------------------
(* Ranking: RankBefore is a strict total order.                           *)

(* The members of a group are finitely many numbers, whichever scenario   *)
(* the run is in.                                                         *)
LEMMA MembersAreFinite ==
    ASSUME setting \in Scenario, NEW g \in Group
    PROVE  /\ Members(g) \subseteq Nat /\ Members(g) \subseteq Member
           /\ IsFiniteSet(Members(g))
           /\ setting.primary[g] \subseteq Members(g)
           /\ setting.backup[g] \subseteq Members(g)
<1>1. /\ setting.primary \in [Group -> SUBSET Nat]
      /\ setting.backup \in [Group -> SUBSET Nat]
      /\ IsFiniteSet(Members(g))
  BY ConstantsAssumption, Zenon DEF Members
<1> QED
  BY <1>1, Zenon DEF Members, Member

(* Tags are modelled by numbers, compared where the code compares         *)
(* strings.                                                               *)
LEMMA MembersAreNumbers ==
    ASSUME setting \in Scenario
    PROVE  Member \subseteq Nat
BY MembersAreFinite, Zenon DEF Member

(* A measured member has a delay and a score; with the default sorter the *)
(* score is the delay (delaySorter).                                      *)
LEMMA Figures ==
    ASSUME TypeOK, NEW m \in Member
    PROVE  /\ Measured(m) => history[m].delay \in Nat
           /\ Measured(m) => Score(m) \in Nat
           /\ Measured(m) /\ ~setting.byMetric => Score(m) = history[m].delay
<1>1. /\ metric[m] \in setting.metrics \cup {0}
      /\ history[m] \in Entry \cup {None}
      /\ setting.metrics \subseteq Nat /\ setting.delays \subseteq Nat
  BY ConstantsAssumption, Zenon DEF TypeOK
<1>2. metric[m] \in Nat
  BY <1>1
<1>3. history[m] # None => history[m].delay \in Nat
  BY <1>1 DEF Entry
<1> QED
  BY <1>2, <1>3, Zenon DEF Measured, Score

(* What the order by rank and the tolerance have in common, for healthy    *)
(* members.                                                                *)
RankLaws(H) ==
    /\ \A a \in H : ~RankBefore(a, a)
    /\ \A a, b \in H : a # b => RankBefore(a, b) \/ RankBefore(b, a)
    /\ \A a, b, c \in H :
         RankBefore(a, b) /\ RankBefore(b, c) => RankBefore(a, c)
    /\ \A a, b \in H : outranksBeyondTolerance(a, b) <=> Better(a, b)
    /\ \A a, b \in H : Better(a, b) => RankBefore(a, b)

(* With the default sorter, what outranks beyond the tolerance also ranks *)
(* before, and ranking higher never loses that advantage: the two orders  *)
(* agree.                                                                 *)
ToleranceLaws(H) ==
    \A a, b, c \in H :
       /\ RankBefore(a, b) /\ Better(b, c) => Better(a, c)
       /\ Better(a, b) /\ RankBefore(b, c) => Better(a, c)

(* RankBefore is a strict total order of the measured members, and with   *)
(* the default sorter the tolerance agrees with it.                       *)
LEMMA RankLawsHold ==
    ASSUME TypeOK, NEW H \in SUBSET Member, \A m \in H : Measured(m)
    PROVE  RankLaws(H) /\ (~setting.byMetric => ToleranceLaws(H))
<1>1. \A m \in H : /\ history[m].delay \in Nat /\ Score(m) \in Nat /\ m \in Nat
                   /\ ~setting.byMetric => Score(m) = history[m].delay
  BY Figures, MembersAreNumbers, Zenon DEF TypeOK
<1>2. Tolerance \in Nat
  BY ConstantsAssumption
<1> HIDE DEF TypeOK
<1>3. RankLaws(H)
  <2>1. \A a \in H : ~RankBefore(a, a)
    BY <1>1 DEF RankBefore
  <2>2. \A a, b \in H : a # b => RankBefore(a, b) \/ RankBefore(b, a)
    BY <1>1 DEF RankBefore
  <2>3. \A a, b, c \in H :
         RankBefore(a, b) /\ RankBefore(b, c) => RankBefore(a, c)
    BY <1>1 DEF RankBefore
  <2>4. \A a, b \in H : outranksBeyondTolerance(a, b) <=> Better(a, b)
    BY <1>1, <1>2 DEF outranksBeyondTolerance, Better
  <2>5. \A a, b \in H : Better(a, b) => RankBefore(a, b)
    BY <1>1, <1>2 DEF RankBefore, Better
  <2> QED
    BY <2>1, <2>2, <2>3, <2>4, <2>5, Zenon DEF RankLaws
<1>4. ASSUME ~setting.byMetric PROVE ToleranceLaws(H)
  <2>1. \A m \in H : Score(m) = history[m].delay /\ Score(m) \in Nat
    BY <1>1, <1>4
  <2> QED
    BY <2>1, <1>2 DEF RankBefore, Better, ToleranceLaws
<1> QED
  BY <1>3, <1>4, Zenon

(* The pairs of RankBefore are an order in the sense of InOrder.          *)
LEMMA RanksAreOrders ==
    ASSUME NEW H, RankLaws(H)
    PROVE  /\ Orders(Ranks(H), H)
           /\ \A a, b \in H : <<a, b>> \in Ranks(H) <=> RankBefore(a, b)
<1>1. \A a, b \in H : <<a, b>> \in Ranks(H) <=> RankBefore(a, b)
  BY DEF Ranks
<1> QED
  BY <1>1, Zenon DEF Orders, RankLaws

(* sortCandidatesByScore lists the set, best first. *)
LEMMA SortedByScore ==
    ASSUME NEW S \in SUBSET Member, IsFiniteSet(S), RankLaws(S)
    PROVE  /\ sortCandidatesByScore[S] \in Seq(S)
           /\ Len(sortCandidatesByScore[S]) = Cardinality(S)
           /\ Range(sortCandidatesByScore[S]) = S
           /\ IsInjective(sortCandidatesByScore[S])
           /\ \A i, j \in 1 .. Len(sortCandidatesByScore[S]) : i < j =>
                RankBefore(sortCandidatesByScore[S][i], sortCandidatesByScore[S][j])
<1> DEFINE s == sortCandidatesByScore[S]
<1>1. s = InOrder(S, Ranks(S))
  BY Zenon DEF sortCandidatesByScore
<1>2. Orders(Ranks(S), S) /\ \A a, b \in S : <<a, b>> \in Ranks(S) <=> RankBefore(a, b)
  BY RanksAreOrders, Zenon
<1> HIDE DEF s
<1>3. /\ s \in Seq(S) /\ Len(s) = Cardinality(S) /\ Range(s) = S
      /\ IsInjective(s)
      /\ \A i, j \in 1 .. Cardinality(S) : i < j => <<s[i], s[j]>> \in Ranks(S)
  BY <1>1, <1>2, InOrderLists, Zenon
<1>4. \A i \in 1 .. Len(s) : s[i] \in S
  BY <1>3
<1>5. \A i, j \in 1 .. Len(s) : i < j => RankBefore(s[i], s[j])
  BY <1>2, <1>3, <1>4, Zenon
<1> QED
  BY <1>3, <1>5, Zenon DEF s

(* A finite set that is not empty has a worst member. *)
LEMMA WorstExists ==
    ASSUME NEW S, IsFiniteSet(S), S # {}, RankLaws(S)
    PROVE  \E w \in S : \A m \in S \ {w} : RankBefore(m, w)
<1> DEFINE s == InOrder(S, Ranks(S))
<1> DEFINE N == Cardinality(S)
<1>2. Orders(Ranks(S), S) /\ \A a, b \in S : <<a, b>> \in Ranks(S) <=> RankBefore(a, b)
  BY RanksAreOrders, Zenon
<1>3. /\ s \in Seq(S) /\ Len(s) = N /\ Range(s) = S
      /\ \A i, j \in 1 .. N : i < j => <<s[i], s[j]>> \in Ranks(S)
  BY <1>2, InOrderLists, Zenon
<1>4. N \in Nat /\ N # 0
  BY FS_CardinalityType, FS_EmptySet, Zenon
<1> HIDE DEF s, N
<1>5. N \in 1 .. N /\ \A i \in 1 .. N : s[i] \in S /\ (i = N \/ i < N)
  BY <1>3, <1>4
<1>6. DOMAIN s = 1 .. N
  BY <1>3, <1>4
<1>7. \A m \in S \ {s[N]} : RankBefore(m, s[N])
  <2> TAKE m \in S \ {s[N]}
  <2>1. PICK i \in 1 .. N : s[i] = m
    BY <1>3, <1>6, Zenon DEF Range
  <2> QED
    BY <2>1, <1>2, <1>3, <1>5, Zenon
<1> QED
  BY <1>5, <1>7, Zenon

-----------------------------------------------------------------------------
(* The loop of selectTopNWithTolerance exists and is typed.               *)

(* f runs the steps one after another from v; named, so that the provers  *)
(* match it as a whole.                                                   *)
Iterates(f, N, v, step) ==
    f = [i \in 0 .. N |-> IF i = 0 THEN v ELSE step[i][f[i - 1]]]

(* A recursive function over 0 .. N whose steps stay in a set exists. *)
LEMMA IterationExists ==
    ASSUME NEW V, NEW v \in V, NEW N \in Nat, NEW step \in [1 .. N -> [V -> V]]
    PROVE  \E f \in [0 .. N -> V] : Iterates(f, N, v, step)
<1> DEFINE Runs(k, f) == f[0] = v /\ \A i \in 1 .. k : f[i] = step[i][f[i - 1]]
<1> DEFINE T == {k \in 0 .. N : ~ \E f \in [0 .. k -> V] : Runs(k, f)}
<1>1. T = {}
  <2> SUFFICES ASSUME T # {} PROVE FALSE
    BY Zenon
  <2>1. T \subseteq Nat
    BY SMT
  <2>2. PICK k \in T : \A y \in T : k <= y
    BY <2>1, LeastNatural, Zenon
  <2>3. k \in 0 .. N /\ ~ \E f \in [0 .. k -> V] : Runs(k, f)
    BY Zenon
  <2>4. CASE k = 0
    <3>1. [i \in 0 .. 0 |-> v] \in [0 .. 0 -> V] /\ Runs(0, [i \in 0 .. 0 |-> v])
      BY SMT
    <3> QED
      BY <3>1, <2>3, <2>4, Zenon
  <2>5. CASE k # 0
    <3>1. k - 1 \in 0 .. N /\ ~(k <= k - 1) /\ k \in 1 .. N /\ k \in Nat
      BY <2>3, <2>5
    <3>2. k - 1 \notin T
      BY <3>1, <2>2, Zenon
    <3>3. PICK f \in [0 .. k - 1 -> V] : Runs(k - 1, f)
      BY <3>1, <3>2, Zenon
    <3> DEFINE h == [i \in 0 .. k |-> IF i = k THEN step[k][f[k - 1]] ELSE f[i]]
    <3>4. k - 1 \in 0 .. k - 1 /\ f[k - 1] \in V
      BY <3>1, <3>3
    <3>5. step[k][f[k - 1]] \in V
      BY <3>1, <3>4, Zenon
    <3>6. h \in [0 .. k -> V]
      BY <3>1, <3>3, <3>5
    <3>7. Runs(k, h)
      BY <3>1, <3>3
    <3> QED
      BY <3>6, <3>7, <2>3, Zenon
  <2> QED
    BY <2>4, <2>5, Zenon
<1>2. N \in 0 .. N
  BY SMT
<1>3. PICK f \in [0 .. N -> V] : Runs(N, f)
  BY <1>1, <1>2, Zenon
<1>4. f = [i \in 0 .. N |-> IF i = 0 THEN v ELSE step[i][f[i - 1]]]
  <2>1. f = [i \in 0 .. N |-> f[i]]
    BY Zenon
  <2>2. \A i \in 0 .. N : f[i] = IF i = 0 THEN v ELSE step[i][f[i - 1]]
    BY <1>3
  <2> QED
    BY <2>1, <2>2, Zenon
<1> QED
  BY <1>4, Zenon DEF Iterates

(* One round of the loop leads from a selection to a selection.           *)
LEMMA ChallengeType ==
    ASSUME NEW n, NEW next \in Member
    PROVE  Challenge(n, next) \in [Selection -> Selection]
<1> SUFFICES ASSUME NEW r \in Selection
             PROVE  Challenge(n, next)[r] \in Selection
  BY Zenon DEF Challenge
<1> DEFINE worst == CHOOSE w \in r.in : \A m \in r.in \ {w} : RankBefore(m, w)
<1>1. Challenge(n, next)[r] \in
        {r, [in |-> r.in \cup {next}, done |-> FALSE],
         [in |-> (r.in \ {worst}) \cup {next}, done |-> FALSE],
         [in |-> r.in, done |-> TRUE]}
  BY Zenon DEF Challenge
<1> HIDE DEF worst
<1>2. r.in \in SUBSET Member
  BY DEF Selection
<1>3. \A S \in SUBSET Member, b \in BOOLEAN : [in |-> S, done |-> b] \in Selection
  BY DEF Selection
<1>4. r.in \cup {next} \in SUBSET Member /\ (r.in \ {worst}) \cup {next} \in SUBSET Member
  BY <1>2, Zenon
<1> QED
  BY <1>1, <1>2, <1>3, <1>4, Zenon

(* The loop of selectTopNWithTolerance, round by round. *)
LEMMA SelectedRuns ==
    ASSUME NEW healthy \in Seq(Member), NEW n, NEW first \in SUBSET Member
    PROVE  /\ Selected(healthy, n, first) \in [0 .. Len(healthy) -> Selection]
           /\ Selected(healthy, n, first)[0] = [in |-> first, done |-> FALSE]
           /\ \A i \in 1 .. Len(healthy) :
                Selected(healthy, n, first)[i] =
                  Challenge(n, healthy[i])[Selected(healthy, n, first)[i - 1]]
<1> DEFINE N == Len(healthy)
<1> DEFINE v == [in |-> first, done |-> FALSE]
<1> DEFINE step == [i \in 1 .. N |-> Challenge(n, healthy[i])]
<1> DEFINE Body(f) == [i \in 0 .. N |->
             IF i = 0 THEN v ELSE Challenge(n, healthy[i])[f[i - 1]]]
<1>1. v \in Selection
  BY DEF Selection
<1>2. N \in Nat /\ \A i \in 1 .. N : healthy[i] \in Member
  BY SMT
<1>3. step \in [1 .. N -> [Selection -> Selection]]
  BY <1>2, ChallengeType, Zenon
<1>4. \E f : f = Body(f)
  <2> HIDE DEF N, v
  <2>1. PICK f \in [0 .. N -> Selection] :
          f = [i \in 0 .. N |-> IF i = 0 THEN v ELSE step[i][f[i - 1]]]
    <3> HIDE DEF step
    <3>1. PICK f \in [0 .. N -> Selection] : Iterates(f, N, v, step)
      BY <1>1, <1>2, <1>3, IterationExists, Zenon
    <3> QED
      BY <3>1, Zenon DEF Iterates
  <2>2. \A i \in 0 .. N : i = 0 \/ i \in 1 .. N
    BY <1>2
  <2>3. \A i \in 0 .. N : i # 0 => step[i] = Challenge(n, healthy[i])
    BY <2>2, Zenon
  <2> HIDE DEF step
  <2>4. f = Body(f)
    <3>1. \A i \in 0 .. N : (IF i = 0 THEN v ELSE step[i][f[i - 1]]) =
                            (IF i = 0 THEN v ELSE Challenge(n, healthy[i])[f[i - 1]])
      BY <2>3, Zenon
    <3> HIDE DEF Selection
    <3> QED
      BY <2>1, <3>1, Zenon
  <2> QED
    BY <2>4, Zenon
<1> DEFINE s == Selected(healthy, n, first)
<1>5. s = CHOOSE f : f = Body(f)
  BY Zenon DEF Selected
<1>6. s = Body(s)
  <2> HIDE DEF s, Body
  <2> QED
    BY <1>4, <1>5, Zenon
<1>7. \A i \in 0 .. N : s[i] = IF i = 0 THEN v ELSE Challenge(n, healthy[i])[s[i - 1]]
  <2> HIDE DEF s, N, v
  <2> QED
    BY <1>6, Zenon
<1> HIDE DEF s, N, v, step
<1>8. \A i \in 0 .. N : s[i] \in Selection
  <2> DEFINE T == {i \in 0 .. N : s[i] \notin Selection}
  <2> SUFFICES ASSUME T # {} PROVE FALSE
    BY Zenon
  <2>1. T \subseteq Nat
    BY <1>2
  <2>2. PICK k \in T : \A y \in T : k <= y
    BY <2>1, LeastNatural, Zenon
  <2>3. k \in 0 .. N /\ s[k] \notin Selection /\ k # 0
    <3>1. k \in 0 .. N /\ s[k] \notin Selection
      BY Zenon
    <3> QED
      BY <3>1, <1>7, <1>1, Zenon
  <2>4. k - 1 \in 0 .. N /\ ~(k <= k - 1) /\ k \in 1 .. N
    BY <2>3, <1>2
  <2>5. s[k - 1] \in Selection
    BY <2>2, <2>4, Zenon
  <2>6. s[k] = Challenge(n, healthy[k])[s[k - 1]]
    BY <2>3, <1>7, Zenon
  <2> QED
    BY <2>3, <2>4, <2>5, <2>6, <1>2, ChallengeType, ZenonT(40)
<1>9. 0 \in 0 .. N /\ \A i \in 1 .. N : i \in 0 .. N /\ i # 0
  BY <1>2
<1>10. s \in [0 .. N -> Selection]
  <2>1. s = [i \in 0 .. N |-> IF i = 0 THEN v ELSE Challenge(n, healthy[i])[s[i - 1]]]
    BY <1>6, Zenon
  <2> QED
    BY <2>1, <1>7, <1>8, Zenon
<1> QED
  BY <1>7, <1>9, <1>10, Zenon DEF s, N, v

-----------------------------------------------------------------------------
(* The invariant of that loop.                                            *)

(* What the loop starts from: the healthy members h, best first; those in  *)
(* the pool (kept) and the first n of them.                                *)
LoopContext(h, first, kept, n) ==
    /\ h \in Seq(Member) /\ IsFiniteSet(Range(h)) /\ RankLaws(Range(h))
    /\ \A i, j \in 1 .. Len(h) : i < j => RankBefore(h[i], h[j])
    /\ n \in Nat /\ n # 0
    /\ first \subseteq kept /\ kept \subseteq Range(h)
    /\ Cardinality(first) < n => kept \subseteq first
    /\ \A o \in kept \ first, m \in first : RankBefore(m, o)

(* What holds after i rounds. *)
LoopInv(h, first, kept, n, i, r) ==
    /\ r.in \subseteq Range(h)
    /\ \A m \in r.in \ kept : \E k \in 1 .. i : h[k] = m
    /\ Cardinality(r.in) < n =>
         ~r.done /\ kept \subseteq r.in /\ \A k \in 1 .. i : h[k] \in r.in
    /\ \A o \in kept \ r.in, m \in r.in : RankBefore(m, o)
    /\ \A o \in first \ r.in : \E f \in r.in \ kept : Better(f, o)
    /\ ToleranceLaws(Range(h)) =>
         /\ \A o \in kept \ r.in, f \in r.in \ kept : Better(f, o)
         /\ \A k \in 1 .. Len(h) :
              h[k] \notin r.in /\ (k <= i \/ r.done) =>
                \A m \in r.in : ~Better(h[k], m)

(* The loop invariant holds before the first round.                       *)
LEMMA LoopStart ==
    ASSUME NEW h, NEW first, NEW kept, NEW n, LoopContext(h, first, kept, n)
    PROVE  LoopInv(h, first, kept, n, 0, [in |-> first, done |-> FALSE])
<1> DEFINE r == [in |-> first, done |-> FALSE]
<1>1. r.in = first /\ r.done = FALSE
  BY SMT
<1> HIDE DEF r
<1>2. \A k \in 1 .. 0 : FALSE
  BY SMT
<1>3. \A k \in 1 .. Len(h) : ~(k <= 0)
  BY SMT DEF LoopContext
<1>4. first \ kept = {} /\ first \ first = {}
  BY Zenon DEF LoopContext
<1>5. LoopInv(h, first, kept, n, 0, r)
  <2>1. \A m \in r.in \ kept : \E k \in 1 .. 0 : h[k] = m
    BY <1>1, <1>4, Zenon
  <2>2. Cardinality(r.in) < n =>
          ~r.done /\ kept \subseteq r.in /\ \A k \in 1 .. 0 : h[k] \in r.in
    BY <1>1, <1>2, Zenon DEF LoopContext
  <2>3. \A o \in kept \ r.in, m \in r.in : RankBefore(m, o)
    BY <1>1, Zenon DEF LoopContext
  <2>4. r.in \subseteq Range(h)
    BY <1>1, Zenon DEF LoopContext
  <2> QED
    BY <1>1, <1>3, <1>4, <2>1, <2>2, <2>3, <2>4, Zenon DEF LoopInv
<1> QED
  BY <1>5, Zenon DEF r

(* The four ways a round ends. *)
LEMMA LoopStep ==
    ASSUME NEW h, NEW first, NEW kept, NEW n, LoopContext(h, first, kept, n),
           NEW i \in 1 .. Len(h), NEW r \in Selection,
           LoopInv(h, first, kept, n, i - 1, r)
    PROVE  LoopInv(h, first, kept, n, i, Challenge(n, h[i])[r])
<1> DEFINE H == Range(h)
<1> DEFINE next == h[i]
<1> DEFINE q == Challenge(n, next)[r]
<1> DEFINE worst == CHOOSE w \in r.in : \A m \in r.in \ {w} : RankBefore(m, w)
<1>1. /\ Len(h) \in Nat /\ DOMAIN h = 1 .. Len(h)
      /\ \A k \in 1 .. i : k \in 1 .. Len(h) /\ (k = i \/ k \in 1 .. i - 1)
      /\ \A k \in 1 .. i - 1 : k \in 1 .. i /\ k < i /\ k # i
      /\ \A k \in 1 .. Len(h) :
           /\ k <= i <=> k \in 1 .. i
           /\ k <= i - 1 <=> k \in 1 .. i - 1
           /\ k < i \/ k = i \/ i < k
           /\ k < i <=> k \in 1 .. i - 1
      /\ i \in 1 .. i
  BY SMT DEF LoopContext
<1>2. \A k \in 1 .. Len(h) : h[k] \in H
  BY <1>1, Zenon DEF Range
<1>3. next \in H
  BY <1>2, Zenon
<1>4. /\ RankLaws(H)
      /\ \A k, j \in 1 .. Len(h) : k < j => RankBefore(h[k], h[j])
      /\ kept \subseteq H /\ first \subseteq kept
  BY Zenon DEF LoopContext
<1>5. IsFiniteSet(r.in) /\ r.in \subseteq H
  <2>1. r.in \in SUBSET H /\ IsFiniteSet(H)
    BY Zenon DEF LoopInv, LoopContext
  <2> QED
    BY <2>1, FS_Subset, Zenon
<1>6. Cardinality(r.in) \in Nat /\ n \in Nat /\ n # 0
  BY <1>5, FS_CardinalityType, Zenon DEF LoopContext
<1>7. q = IF r.done \/ next \in r.in THEN r
          ELSE IF Cardinality(r.in) < n
            THEN [in |-> r.in \cup {next}, done |-> FALSE]
          ELSE IF outranksBeyondTolerance(next, worst)
            THEN [in |-> (r.in \ {worst}) \cup {next}, done |-> FALSE]
          ELSE [in |-> r.in, done |-> TRUE]
  BY Zenon DEF Challenge
<1> HIDE DEF q, worst, next, H
<1>8. CASE r.done \/ next \in r.in
  <2>1. q = r
    BY <1>7, <1>8, Zenon
  <2>2. Cardinality(r.in) < n => \A k \in 1 .. i : h[k] \in r.in
    BY <1>8, <1>1, Zenon DEF LoopInv, next
  <2>3. \A m \in r.in \ kept : \E k \in 1 .. i : h[k] = m
    BY <1>1, Zenon DEF LoopInv
  <2>4. \A k \in 1 .. Len(h) : h[k] \notin r.in /\ (k <= i \/ r.done) => k <= i - 1 \/ r.done
    BY <1>1, <1>8, Zenon DEF next
  <2> QED
    BY <2>1, <2>2, <2>3, <2>4, Zenon DEF LoopInv, q, next
<1>9. CASE ~r.done /\ next \notin r.in /\ Cardinality(r.in) < n
  <2>1. q = [in |-> r.in \cup {next}, done |-> FALSE]
    BY <1>7, <1>9, Zenon
  <2>2. q.in = r.in \cup {next} /\ q.done = FALSE
    BY ONLY <2>1, SMT
  <2>3. kept \subseteq q.in /\ \A k \in 1 .. i : h[k] \in q.in
    BY <2>2, <1>9, <1>1, Zenon DEF LoopInv, next
  <2>4. \A m \in q.in \ kept : \E k \in 1 .. i : h[k] = m
    BY <2>2, <1>1, Zenon DEF LoopInv, next
  <2>5. q.in \subseteq Range(h)
    BY <2>2, <1>3, <1>5, Zenon DEF H
  <2>6. kept \ q.in = {} /\ first \ q.in = {}
    BY <2>3, <1>4, Zenon
  <2>7. \A k \in 1 .. Len(h) : k <= i => h[k] \in q.in
    BY <2>3, <1>1, Zenon
  <2>8. LoopInv(h, first, kept, n, i, q)
    BY <2>2, <2>3, <2>4, <2>5, <2>6, <2>7, Zenon DEF LoopInv
  <2> QED
    BY <2>8, Zenon DEF q, next
<1>10. CASE ~r.done /\ next \notin r.in /\ ~(Cardinality(r.in) < n)
  <2>1. r.in # {}
    <3>1. Cardinality(r.in) # 0
      BY <1>6, <1>10
    <3> QED
      BY <3>1, FS_EmptySet, Zenon
  <2>2. RankLaws(r.in)
    BY <1>4, <1>5, Zenon DEF RankLaws
  <2>3. worst \in r.in /\ \A m \in r.in \ {worst} : RankBefore(m, worst)
    BY <2>1, <2>2, <1>5, WorstExists, Zenon DEF worst
  <2>4. worst \in H
    BY <2>3, <1>5, Zenon
  <2>5. outranksBeyondTolerance(next, worst) <=> Better(next, worst)
    BY <2>4, <1>3, <1>4, Zenon DEF RankLaws
  <2>6. \A a, b \in H : ~(RankBefore(a, b) /\ RankBefore(b, a))
    BY <1>4, Zenon DEF RankLaws
  <2>7. \A a, b \in H : Better(a, b) => RankBefore(a, b)
    BY <1>4, Zenon DEF RankLaws
  <2>8. CASE Better(next, worst)
    <3>1. q = [in |-> (r.in \ {worst}) \cup {next}, done |-> FALSE]
      BY <1>7, <1>10, <2>5, <2>8, Zenon
    <3>2. q.in = (r.in \ {worst}) \cup {next} /\ q.done = FALSE
      BY ONLY <3>1, SMT
    <3>3. RankBefore(next, worst)
      BY <2>4, <2>7, <2>8, <1>3, Zenon
    <3>4. worst \in kept
      <4> SUFFICES ASSUME worst \notin kept PROVE FALSE
        BY Zenon
      <4>1. PICK k \in 1 .. i - 1 : h[k] = worst
        BY <2>3, Zenon DEF LoopInv
      <4>2. RankBefore(worst, next)
        BY <4>1, <1>1, <1>4, Zenon DEF next
      <4> QED
        BY <4>2, <3>3, <2>6, <2>4, <1>3, Zenon
    <3>5. next \notin kept
      <4> SUFFICES ASSUME next \in kept PROVE FALSE
        BY Zenon
      <4>1. RankBefore(worst, next)
        BY <1>10, <2>3, Zenon DEF LoopInv
      <4> QED
        BY <4>1, <3>3, <2>6, <2>4, <1>3, Zenon
    <3>6. ~(Cardinality(q.in) < n)
      <4>1. IsFiniteSet(r.in \ {worst})
            /\ Cardinality(r.in \ {worst}) = Cardinality(r.in) - 1
        BY <1>5, <2>3, FS_RemoveElement, Zenon
      <4>2. next \notin r.in \ {worst}
        BY <1>10, Zenon
      <4>3. Cardinality(q.in) = Cardinality(r.in \ {worst}) + 1
        BY <4>1, <4>2, <3>2, FS_AddElement, Zenon
      <4> QED
        BY <4>1, <4>3, <1>6, <1>10
    <3>7. q.in \subseteq H
      BY <3>2, <1>3, <1>5, Zenon
    <3>8. \A m \in q.in \ kept : m = next \/ m \in r.in \ kept
      BY <3>2, Zenon
    <3>9. \A m \in q.in \ kept : \E k \in 1 .. i : h[k] = m
      BY <3>8, <1>1, Zenon DEF LoopInv, next
    <3>10. \A o \in kept \ q.in : o \in H /\ (o = worst \/ (o \in kept \ r.in /\ RankBefore(worst, o)))
      BY <3>2, <2>3, <1>4, Zenon DEF LoopInv
    <3>11. \A o \in kept \ q.in, m \in q.in : RankBefore(m, o)
      <4> SUFFICES ASSUME NEW o \in kept \ q.in, NEW m \in q.in PROVE RankBefore(m, o)
        BY Zenon
      <4>1. RankBefore(m, worst)
        BY <3>2, <3>3, <2>3, Zenon
      <4>2. m \in H
        BY <3>7, Zenon
      <4> QED
        BY <4>1, <4>2, <3>10, <2>4, <1>4, Zenon DEF RankLaws
    <3>12. \A o \in first \ q.in : \E f \in q.in \ kept : Better(f, o)
      <4> TAKE o \in first \ q.in
      <4>1. CASE o = worst
        BY <4>1, <2>8, <3>2, <3>5, Zenon
      <4>2. CASE o # worst
        <5>1. o \in first \ r.in
          BY <4>2, <3>2, Zenon
        <5>2. PICK f \in r.in \ kept : Better(f, o)
          BY <5>1, Zenon DEF LoopInv
        <5>3. f \in q.in \ kept
          BY <3>2, <3>4, Zenon
        <5> QED
          BY <5>2, <5>3, Zenon
      <4> QED
        BY <4>1, <4>2, Zenon
    <3>13. ASSUME ToleranceLaws(H)
           PROVE  \A o \in kept \ q.in, f \in q.in \ kept : Better(f, o)
      <4> SUFFICES ASSUME NEW o \in kept \ q.in, NEW f \in q.in \ kept PROVE Better(f, o)
        BY Zenon
      <4>1. f \in H /\ o \in H
        BY <3>7, <3>10, Zenon
      <4>2. Better(f, worst)
        <5>1. CASE f = next
          BY <5>1, <2>8, Zenon
        <5>2. CASE f # next
          <6>1. PICK k \in 1 .. i - 1 : h[k] = f
            BY <5>2, <3>8, Zenon DEF LoopInv
          <6>2. RankBefore(f, next)
            BY <6>1, <1>1, <1>4, Zenon DEF next
          <6> QED
            BY <6>2, <4>1, <2>4, <2>8, <1>3, <3>13, Zenon DEF ToleranceLaws
        <5> QED
          BY <5>1, <5>2, Zenon
      <4>3. CASE o = worst
        BY <4>2, <4>3, Zenon
      <4>4. CASE o # worst
        <5>1. RankBefore(worst, o)
          BY <4>4, <3>10, Zenon
        <5> QED
          BY <5>1, <4>1, <4>2, <2>4, <3>13, Zenon DEF ToleranceLaws
      <4> QED
        BY <4>3, <4>4, Zenon
    <3>14. ASSUME ToleranceLaws(H), NEW k \in 1 .. Len(h), h[k] \notin q.in, k <= i,
                  NEW m \in q.in, Better(h[k], m)
           PROVE  FALSE
      <4>1. h[k] \in H /\ m \in H
        BY <1>2, <3>7, Zenon
      <4>2. h[k] # next /\ k # i
        BY <3>2, <3>14, Zenon DEF next
      <4>3. RankBefore(m, worst)
        BY <3>2, <3>3, <2>3, Zenon
      <4>4. h[k] # worst
        BY <4>1, <4>3, <3>14, <2>4, <2>6, <2>7, Zenon
      <4>5. h[k] \notin r.in
        BY <4>4, <3>2, <3>14, Zenon
      <4>6. Better(h[k], worst)
        BY <4>1, <4>3, <2>4, <3>14, Zenon DEF ToleranceLaws
      <4>7. k <= i - 1
        BY <4>2, <3>14, <1>1, Zenon
      <4> QED
        BY <4>5, <4>6, <4>7, <2>3, <3>14, Zenon DEF LoopInv, H
    <3>15. LoopInv(h, first, kept, n, i, q)
      <4>1. ToleranceLaws(Range(h)) =>
              \A k \in 1 .. Len(h) :
                h[k] \notin q.in /\ (k <= i \/ q.done) =>
                  \A m \in q.in : ~Better(h[k], m)
        BY <3>14, <3>2, Zenon DEF H
      <4> QED
        BY <4>1, <3>6, <3>7, <3>9, <3>11, <3>12, <3>13, Zenon DEF LoopInv, H
    <3> QED
      BY <3>15, Zenon DEF q, next
  <2>9. CASE ~Better(next, worst)
    <3>1. q = [in |-> r.in, done |-> TRUE]
      BY <1>7, <1>10, <2>5, <2>9, Zenon
    <3>2. q.in = r.in /\ q.done = TRUE
      BY ONLY <3>1, SMT
    <3>3. ASSUME ToleranceLaws(H), NEW k \in 1 .. Len(h), h[k] \notin q.in,
                  NEW m \in q.in, Better(h[k], m)
           PROVE  FALSE
      <4>1. h[k] \in H /\ m \in H
        BY <1>2, <1>5, <3>2, Zenon
      <4>2. CASE k < i
        BY <4>2, <1>1, <3>2, <3>3, Zenon DEF LoopInv, H
      <4>3. CASE ~(k < i)
        <5>1. h[k] = next \/ RankBefore(next, h[k])
          BY <4>3, <1>1, <1>4, Zenon DEF next
        <5>2. Better(next, m)
          BY <5>1, <4>1, <1>3, <3>3, Zenon DEF ToleranceLaws
        <5>3. m = worst \/ RankBefore(m, worst)
          BY <2>3, <3>2, Zenon
        <5> QED
          BY <5>2, <5>3, <4>1, <1>3, <2>4, <2>9, <3>3, Zenon DEF ToleranceLaws
      <4> QED
        BY <4>2, <4>3, Zenon
    <3>4. \A m \in q.in \ kept : \E k \in 1 .. i : h[k] = m
      BY <3>2, <1>1, Zenon DEF LoopInv
    <3>5. ToleranceLaws(Range(h)) =>
            \A k \in 1 .. Len(h) : h[k] \notin q.in => \A m \in q.in : ~Better(h[k], m)
      BY <3>3, Zenon DEF H
    <3>6. LoopInv(h, first, kept, n, i, q)
      BY <3>2, <3>4, <3>5, <1>10, Zenon DEF LoopInv
    <3> QED
      BY <3>6, Zenon DEF q, next
  <2> QED
    BY <2>8, <2>9, Zenon
<1> QED
  BY <1>8, <1>9, <1>10, Zenon

-----------------------------------------------------------------------------
(* What the loop chooses.                                                 *)

(* And hence after the last round, by the least round at which it would   *)
(* fail.                                                                  *)
LEMMA LoopHolds ==
    ASSUME NEW h, NEW first, NEW kept, NEW n, LoopContext(h, first, kept, n)
    PROVE  /\ Selected(h, n, first)[Len(h)] \in Selection
           /\ LoopInv(h, first, kept, n, Len(h), Selected(h, n, first)[Len(h)])
<1> DEFINE s == Selected(h, n, first)
<1> DEFINE N == Len(h)
<1> DEFINE T == {i \in 0 .. N : ~LoopInv(h, first, kept, n, i, s[i])}
<1>1. h \in Seq(Member) /\ N \in Nat /\ N \in 0 .. N
  BY DEF LoopContext
<1>2. first \in SUBSET Member
  <2>1. Range(h) \subseteq Member
    <3>1. \A i \in DOMAIN h : h[i] \in Member
      BY <1>1
    <3> QED
      BY <3>1, Zenon DEF Range
  <2> QED
    BY <2>1, Zenon DEF LoopContext
<1>3. /\ s \in [0 .. N -> Selection]
      /\ s[0] = [in |-> first, done |-> FALSE]
      /\ \A i \in 1 .. N : s[i] = Challenge(n, h[i])[s[i - 1]]
  BY <1>1, <1>2, SelectedRuns, ZenonT(40)
<1> HIDE DEF s, N
<1>4. T = {}
  <2> SUFFICES ASSUME T # {} PROVE FALSE
    BY Zenon
  <2>1. T \subseteq Nat
    BY <1>1
  <2>2. PICK k \in T : \A y \in T : k <= y
    BY <2>1, LeastNatural, Zenon
  <2>3. k \in 0 .. N /\ ~LoopInv(h, first, kept, n, k, s[k])
    BY Zenon
  <2>4. k # 0
    BY <2>3, <1>3, LoopStart, Zenon
  <2>5. k \in 1 .. N /\ k - 1 \in 0 .. N /\ ~(k <= k - 1)
    BY <2>3, <2>4, <1>1
  <2>6. LoopInv(h, first, kept, n, k - 1, s[k - 1]) /\ s[k - 1] \in Selection
    BY <2>2, <2>5, <1>3, Zenon
  <2>7. LoopInv(h, first, kept, n, k, Challenge(n, h[k])[s[k - 1]])
    BY <2>5, <2>6, LoopStep, Zenon DEF N
  <2> QED
    BY <2>3, <2>5, <2>7, <1>3, Zenon
<1> QED
  BY <1>1, <1>3, <1>4, Zenon DEF s, N

(* The smaller of two numbers, as min(topN, len(healthy)) in the code.    *)
LEMMA MinOfTwo ==
    ASSUME NEW a \in Nat, NEW b \in Nat
    PROVE  Min({a, b}) = IF a <= b THEN a ELSE b
BY DEF Min

(* healthyCandidates lists the healthy ones. *)
LEMMA HealthyCandidates ==
    ASSUME TypeOK, NEW S \in SUBSET Member, IsFiniteSet(S)
    PROVE  LET H == {m \in S : Healthy(m)}
               h == healthyCandidates(S)
           IN /\ H \in SUBSET Member /\ IsFiniteSet(H) /\ RankLaws(H)
              /\ ~setting.byMetric => ToleranceLaws(H)
              /\ h \in Seq(H) /\ Range(h) = H /\ IsInjective(h)
              /\ \A i, j \in 1 .. Len(h) : i < j => RankBefore(h[i], h[j])
<1> DEFINE H == {m \in S : Healthy(m)}
<1> DEFINE h == healthyCandidates(S)
<1>1. H \in SUBSET Member /\ H \in SUBSET S /\ \A m \in H : Measured(m)
  BY Zenon DEF Healthy
<1>2. IsFiniteSet(H)
  BY <1>1, FS_Subset, Zenon
<1>3. h = sortCandidatesByScore[H]
  BY Zenon DEF healthyCandidates
<1> HIDE DEF H, h
<1>4. RankLaws(H) /\ (~setting.byMetric => ToleranceLaws(H))
  BY <1>1, RankLawsHold, Zenon
<1>5. /\ h \in Seq(H) /\ Range(h) = H /\ IsInjective(h)
      /\ \A i, j \in 1 .. Len(h) : i < j => RankBefore(h[i], h[j])
  BY <1>1, <1>2, <1>3, <1>4, SortedByScore, Zenon
<1> QED
  BY <1>1, <1>2, <1>4, <1>5, Zenon DEF H, h

(* The choice c of n out of h with the pool previous. *)
Chosen(h, n, previous, c) ==
    /\ c \in Seq(Range(h)) /\ IsInjective(c)
    /\ ~setting.byMetric =>
         /\ \A old \in (previous \cap Range(h)) \ Range(c),
               new \in Range(c) \ previous : Better(new, old)
         /\ \A new \in Range(c), out \in Range(h) \ Range(c) : ~Better(out, new)
    /\ IsFiniteSet(previous) /\ Cardinality(previous) <= n =>
         \A old \in (previous \cap Range(h)) \ Range(c) :
            \E new \in Range(c) \ previous : Better(new, old)

(* selectTopNWithTolerance, run on the healthy members in rank order,     *)
(* makes a choice with the four properties of Chosen.                     *)
LEMMA Choosing ==
    ASSUME NEW h \in Seq(Member), NEW n \in Nat, NEW previous,
           IsFiniteSet(Range(h)), IsInjective(h), RankLaws(Range(h)),
           ~setting.byMetric => ToleranceLaws(Range(h)),
           \A i, j \in 1 .. Len(h) : i < j => RankBefore(h[i], h[j])
    PROVE  Chosen(h, n, previous, selectTopNWithTolerance(h, n, previous))
<1> DEFINE H == Range(h)
<1> DEFINE c == selectTopNWithTolerance(h, n, previous)
<1>1. Len(h) \in Nat /\ DOMAIN h = 1 .. Len(h)
  BY SMT
<1>2. h \in Seq(H) /\ H \subseteq Member
  <2>1. \A i \in 1 .. Len(h) : h[i] \in H
    BY <1>1, Zenon DEF Range
  <2>2. \A i \in 1 .. Len(h) : h[i] \in Member
    BY SMT
  <2>3. H \subseteq Member
    BY <2>2, <1>1, Zenon DEF Range
  <2> HIDE DEF H
  <2> QED
    BY <2>1, <2>3
<1>3. \A a, b \in H : ~(RankBefore(a, b) /\ Better(b, a))
  BY Zenon DEF RankLaws
<1> HIDE DEF H
<1>4. CASE n = 0 \/ n >= Len(h)
  <2>1. c = h
    BY <1>4, Zenon DEF selectTopNWithTolerance
  <2>2. Range(c) = H
    BY <2>1, Zenon DEF H
  <2> QED
    BY <2>1, <2>2, <1>2, Zenon DEF Chosen, H
<1>5. CASE ~(n = 0 \/ n >= Len(h)) /\ previous = {}
  <2>1. c = SubSeq(h, 1, n)
    BY <1>5, Zenon DEF selectTopNWithTolerance
  <2> HIDE DEF c
  <2>2. /\ c \in Seq(H) /\ DOMAIN c = 1 .. n
        /\ \A i \in 1 .. n : c[i] = h[i] /\ i \in 1 .. Len(h)
        /\ \A j \in 1 .. Len(h) : j \in 1 .. n \/ \A i \in 1 .. n : i < j
    BY <2>1, <1>2, <1>1, <1>5
  <2>3. IsInjective(c)
    BY <2>2, <1>1, Zenon DEF IsInjective
  <2>4. ASSUME NEW new \in Range(c), NEW out \in H \ Range(c) PROVE ~Better(out, new)
    <3>1. PICK i \in 1 .. n : new = h[i]
      BY <2>2, Zenon DEF Range
    <3>2. PICK j \in 1 .. Len(h) : out = h[j]
      BY <1>1, Zenon DEF Range, H
    <3>3. j \notin 1 .. n
      BY <3>2, <2>2, Zenon DEF Range
    <3>4. RankBefore(new, out)
      BY <3>1, <3>2, <3>3, <2>2, Zenon
    <3>5. new \in H
      BY <3>1, <2>2, <1>1, Zenon DEF H, Range
    <3> QED
      BY <3>4, <3>5, <1>3, Zenon
  <2> QED
    BY <2>2, <2>3, <2>4, <1>5, Zenon DEF Chosen, H, c
<1>6. CASE ~(n = 0 \/ n >= Len(h)) /\ previous # {}
  <2> DEFINE K == H \cap previous
  <2> DEFINE kept == sortCandidatesByScore[K]
  <2> DEFINE first == {kept[i] : i \in 1 .. Min({n, Len(kept)})}
  <2> DEFINE r == Selected(h, n, first)[Len(h)]
  <2>1. c = sortCandidatesByScore[r.in]
    BY <1>6, Zenon DEF selectTopNWithTolerance, H
  <2>2. K \in SUBSET H /\ K \in SUBSET Member
    BY <1>2, Zenon
  <2>3. IsFiniteSet(K) /\ RankLaws(K)
    <3>1. IsFiniteSet(K)
      BY <2>2, FS_Subset, Zenon DEF H
    <3> QED
      BY <3>1, <2>2, Zenon DEF RankLaws, H
  <2> HIDE DEF K
  <2>4. /\ kept \in Seq(K) /\ Len(kept) = Cardinality(K)
        /\ Range(kept) = K /\ IsInjective(kept)
        /\ \A i, j \in 1 .. Len(kept) : i < j => RankBefore(kept[i], kept[j])
    BY <2>2, <2>3, SortedByScore, Zenon
  <2> HIDE DEF kept
  <2>5. Len(kept) \in Nat /\ DOMAIN kept = 1 .. Len(kept)
    BY <2>4
  <2>6. Min({n, Len(kept)}) = IF n <= Len(kept) THEN n ELSE Len(kept)
    BY <2>5, MinOfTwo, Zenon
  <2>7. \A m \in K : \E i \in 1 .. Len(kept) : m = kept[i]
    BY <2>4, <2>5, Zenon DEF Range
  <2>8. \A i \in 1 .. Len(kept) : kept[i] \in K
    BY <2>4
  <2>9. Len(kept) <= n => first = K
    <3>1. Len(kept) <= n => Min({n, Len(kept)}) = Len(kept)
      BY <2>5, <2>6
    <3> QED
      BY <3>1, <2>7, <2>8, Zenon
  <2>10. ~(Len(kept) <= n) => /\ first = {kept[i] : i \in 1 .. n}
                              /\ \A i \in 1 .. n : i \in 1 .. Len(kept)
                              /\ \A j \in 1 .. Len(kept) : j \in 1 .. n \/ \A i \in 1 .. n : i < j
    <3>1. ~(Len(kept) <= n) => Min({n, Len(kept)}) = n
      BY <2>5, <2>6
    <3>2. ~(Len(kept) <= n) => first = {kept[i] : i \in 1 .. n}
      BY <3>1, Zenon
    <3>3. ~(Len(kept) <= n) =>
            /\ \A i \in 1 .. n : i \in 1 .. Len(kept)
            /\ \A j \in 1 .. Len(kept) : j \in 1 .. n \/ \A i \in 1 .. n : i < j
      BY <2>5
    <3> QED
      BY <3>2, <3>3, Zenon
  <2> HIDE DEF first
  <2>11. first \subseteq K
    BY <2>8, <2>9, <2>10, Zenon
  <2>12. Cardinality(first) < n => K \subseteq first
    <3> SUFFICES ASSUME ~(Len(kept) <= n) PROVE ~(Cardinality(first) < n)
      BY <2>9, Zenon
    <3> DEFINE f == [i \in 1 .. n |-> kept[i]]
    <3>1. f \in [1 .. n -> first]
      BY <2>10, Zenon
    <3>2. \A i, j \in 1 .. n : f[i] = f[j] => i = j
      BY <2>10, <2>4, <2>5, Zenon DEF IsInjective
    <3>3. f \in Injection(1 .. n, first)
      BY <3>1, <3>2, Zenon DEF Injection, IsInjective
    <3>4. IsFiniteSet(first)
      BY <2>3, <2>11, FS_Subset, Zenon
    <3> HIDE DEF f
    <3>5. Cardinality(1 .. n) <= Cardinality(first) /\ Cardinality(first) \in Nat
      BY <3>3, <3>4, FS_Injection, FS_CardinalityType, Zenon
    <3>6. Cardinality(1 .. n) = n
      <4>1. 1 \in Int /\ n \in Int
        BY SMT
      <4>2. Cardinality(1 .. n) = IF 1 > n THEN 0 ELSE n - 1 + 1
        BY <4>1, FS_Interval, Zenon
      <4> QED
        BY <4>2
    <3> QED
      BY <3>5, <3>6
  <2>13. \A o \in K \ first, m \in first : RankBefore(m, o)
    <3> SUFFICES ASSUME NEW o \in K \ first, NEW m \in first PROVE RankBefore(m, o)
      BY Zenon
    <3>1. ~(Len(kept) <= n)
      BY <2>9, Zenon
    <3>2. PICK i \in 1 .. n : m = kept[i]
      BY <3>1, <2>10, Zenon
    <3>3. PICK j \in 1 .. Len(kept) : o = kept[j]
      BY <2>7, Zenon
    <3>4. j \notin 1 .. n
      BY <3>1, <3>3, <2>10, Zenon
    <3> QED
      BY <3>1, <3>2, <3>3, <3>4, <2>4, <2>10, Zenon
  <2>14. LoopContext(h, first, K, n)
    BY <1>6, <2>2, <2>11, <2>12, <2>13, Zenon DEF LoopContext, H
  <2>15. r \in Selection /\ LoopInv(h, first, K, n, Len(h), r)
    BY <2>14, LoopHolds, Zenon
  <2> HIDE DEF r
  <2>16. r.in \in SUBSET H /\ r.in \in SUBSET Member /\ IsFiniteSet(r.in) /\ RankLaws(r.in)
    <3>1. r.in \in SUBSET H
      BY <2>15, Zenon DEF LoopInv, H
    <3>2. IsFiniteSet(r.in)
      BY <3>1, FS_Subset, Zenon DEF H
    <3> QED
      BY <3>1, <3>2, <1>2, Zenon DEF RankLaws, H
  <2> HIDE DEF c
  <2>17. c \in Seq(r.in) /\ Range(c) = r.in /\ IsInjective(c)
    BY <2>1, <2>16, SortedByScore, Zenon
  <2>18. c \in Seq(H)
    BY <2>16, <2>17
  <2>19. ASSUME ~setting.byMetric, NEW old \in (previous \cap H) \ Range(c),
                NEW new \in Range(c) \ previous
         PROVE  Better(new, old)
    <3>1. old \in K \ r.in /\ new \in r.in \ K
      BY <2>17, Zenon DEF K
    <3> QED
      BY <3>1, <2>15, <2>19, Zenon DEF LoopInv, H
  <2>20. ASSUME ~setting.byMetric, NEW new \in Range(c), NEW out \in H \ Range(c)
         PROVE  ~Better(out, new)
    <3>1. PICK k \in 1 .. Len(h) : out = h[k]
      BY <1>1, Zenon DEF H, Range
    <3>2. k <= Len(h)
      BY <1>1
    <3> QED
      BY <3>1, <3>2, <2>15, <2>17, <2>20, Zenon DEF LoopInv, H
  <2>21. ASSUME IsFiniteSet(previous), Cardinality(previous) <= n,
                NEW old \in (previous \cap H) \ Range(c)
         PROVE  \E new \in Range(c) \ previous : Better(new, old)
    <3>1. K \in SUBSET previous
      BY Zenon DEF K
    <3>2. Cardinality(K) <= Cardinality(previous) /\ Cardinality(previous) \in Nat
          /\ Cardinality(K) \in Nat
      BY <3>1, <2>3, <2>21, FS_Subset, FS_CardinalityType, Zenon
    <3>3. Len(kept) <= n
      BY <3>2, <2>4, <2>21
    <3>4. old \in first \ r.in
      BY <3>3, <2>9, <2>17, Zenon DEF K
    <3>5. PICK f \in r.in \ K : Better(f, old)
      BY <3>4, <2>15, Zenon DEF LoopInv
    <3>6. f \in Range(c) \ previous
      BY <2>16, <2>17, Zenon DEF K
    <3> QED
      BY <3>5, <3>6, Zenon
  <2> QED
    BY <2>17, <2>18, <2>19, <2>20, <2>21, Zenon DEF Chosen, H, c
<1> QED
  BY <1>4, <1>5, <1>6, Zenon DEF c

-----------------------------------------------------------------------------
(* The inductive invariant, in parts.                                     *)

(* The parts of TypeOK. *)
NetworkTypes ==
    /\ faults \in Nat /\ up \in [Member -> BOOLEAN]
    /\ metric \in [Member -> setting.metrics \cup {0}]

(* The delay history.                                                     *)
HistoryTypes == history \in [Member -> Entry \cup {None}]

(* The published pools.                                                   *)
PoolTypes ==
    /\ snapshot \in [Group -> [pool : Seq(Member), zero : BOOLEAN]]
    /\ \A g \in Group : /\ Range(snapshot[g].pool) \subseteq Members(g)
                        /\ IsInjective(snapshot[g].pool)

(* The tickers and idle clocks.                                           *)
TimeTypes ==
    /\ ticker \in [Group -> 0 .. Interval \cup {None}]
    /\ idle \in [Group -> 0 .. IdleTimeout + 1]

(* A round of checks tests members of its own group only.                 *)
RoundOK(g, r) ==
    r # None => /\ r.todo \cup r.probing \subseteq Members(g)
                /\ r.todo \cap r.probing = {}

(* The rounds of checks.                                                  *)
CheckTypes ==
    /\ check \in [Group -> Checking \cup {None}]
    /\ \A g \in Group : RoundOK(g, check[g])

(* A dial has its group and its remaining attempts; only what is open is   *)
(* marked old.                                                             *)
ConnInv ==
    \A c \in Conn :
       /\ conn[c].pc # "idle" => conn[c].group \in Group
       /\ conn[c].old => conn[c].pc = "open"
       /\ conn[c].pc = "dialing" =>
            Range(conn[c].left) \cup conn[c].tried
              = Supporting(conn[c].group, conn[c].net)

(* The connections and the interruptions owed to them.                    *)
ConnPart ==
    /\ conn \in [Conn -> Connection] /\ changed \in [Group -> BOOLEAN]
    /\ ConnInv /\ SetChangeInterrupts

(* The inductive invariant: the types, what a dial in progress still owes *)
(* its group (ConnInv), and the interruption a change of the set owes.    *)
IInv == TypeOK /\ ConnInv /\ SetChangeInterrupts

(* The invariant is the conjunction of its parts, one per piece of state  *)
(* ...                                                                    *)
LEMMA Parts ==
    IInv <=> /\ setting \in Scenario /\ dials \in Nat
             /\ NetworkTypes /\ HistoryTypes /\ PoolTypes /\ TimeTypes
             /\ CheckTypes /\ ConnPart
BY Zenon DEF IInv, TypeOK, NetworkTypes, HistoryTypes, PoolTypes, TimeTypes,
             CheckTypes, RoundOK, ConnPart

(* ... and so is its primed form.                                         *)
LEMMA PartsNext ==
    ASSUME setting' = setting, setting \in Scenario, dials' \in Nat,
           NetworkTypes', HistoryTypes', PoolTypes', TimeTypes', CheckTypes',
           ConnPart'
    PROVE  IInv'
BY Zenon DEF IInv, TypeOK, NetworkTypes, HistoryTypes, PoolTypes, TimeTypes,
             CheckTypes, RoundOK, ConnPart

(* The scenario never changes, and with it neither do the members.        *)
LEMMA SameMembers ==
    ASSUME setting' = setting
    PROVE  /\ Member' = Member /\ Entry' = Entry /\ Checking' = Checking
           /\ Connection' = Connection
           /\ \A g : Members(g)' = Members(g)
           /\ \A g, net : Supporting(g, net)' = Supporting(g, net)
<1>1. \A g : Members(g)' = Members(g)
  BY Zenon DEF Members
<1>2. Member' = Member
  BY <1>1, Zenon DEF Member
<1>3. \A g, net : Supporting(g, net)' = Supporting(g, net)
  BY <1>1, Zenon DEF Supporting
<1> QED
  BY <1>1, <1>2, <1>3, Zenon DEF Entry, Checking, Connection

(* A part holds after a step that leaves its variables alone.             *)
LEMMA Frames ==
    ASSUME setting' = setting
    PROVE  /\ NetworkTypes /\ UNCHANGED network => NetworkTypes'
           /\ HistoryTypes /\ history' = history => HistoryTypes'
           /\ PoolTypes /\ snapshot' = snapshot => PoolTypes'
           /\ TimeTypes /\ UNCHANGED <<ticker, idle>> => TimeTypes'
           /\ CheckTypes /\ check' = check => CheckTypes'
           /\ ConnPart /\ UNCHANGED <<changed, conn>> => ConnPart'
<1>1. NetworkTypes /\ UNCHANGED network => NetworkTypes'
  BY SameMembers, Zenon DEF NetworkTypes, network
<1>2. HistoryTypes /\ history' = history => HistoryTypes'
  BY SameMembers, Zenon DEF HistoryTypes
<1>3. PoolTypes /\ snapshot' = snapshot => PoolTypes'
  BY SameMembers, Zenon DEF PoolTypes
<1>4. TimeTypes /\ UNCHANGED <<ticker, idle>> => TimeTypes'
  BY Zenon DEF TimeTypes
<1>5. CheckTypes /\ check' = check => CheckTypes'
  BY SameMembers, Zenon DEF CheckTypes, RoundOK
<1>6. ConnPart /\ UNCHANGED <<changed, conn>> => ConnPart'
  BY SameMembers, ZenonT(40) DEF ConnPart, ConnInv, SetChangeInterrupts
<1> QED
  BY <1>1, <1>2, <1>3, <1>4, <1>5, <1>6, Zenon

(* Storing or deleting one entry of the history keeps its type.           *)
LEMMA StoreHistory ==
    ASSUME setting' = setting, HistoryTypes, NEW m \in Member,
           NEW e \in Entry \cup {None}, history' = [history EXCEPT ![m] = e]
    PROVE  HistoryTypes'
BY SameMembers, Zenon DEF HistoryTypes

(* Replacing one group's round keeps the types of the rounds.             *)
LEMMA StoreCheck ==
    ASSUME setting' = setting, CheckTypes, NEW g \in Group,
           NEW r \in Checking \cup {None}, RoundOK(g, r),
           check' = [check EXCEPT ![g] = r]
    PROVE  CheckTypes'
<1>1. check' \in [Group -> Checking \cup {None}]
  BY Zenon DEF CheckTypes
<1>2. \A h \in Group : RoundOK(h, check'[h])
  <2> TAKE h \in Group
  <2>1. CASE h = g
    BY <2>1, Zenon DEF CheckTypes
  <2>2. CASE h # g
    BY <2>2, Zenon DEF CheckTypes
  <2> QED
    BY <2>1, <2>2, Zenon
<1>3. \A h \in Group : RoundOK(h, check[h])'
  BY <1>2, SameMembers, Zenon DEF RoundOK
<1> QED
  BY <1>1, <1>3, SameMembers, Zenon DEF CheckTypes

(* urlTest starts a round over the group's own members, or none.          *)
LEMMA UrlTestTypes ==
    ASSUME setting' = setting, setting \in Scenario, CheckTypes,
           NEW g \in Group, NEW force \in BOOLEAN, urlTest(g, force)
    PROVE  CheckTypes'
<1>1. CASE check[g] # None
  BY <1>1, Frames, Zenon DEF urlTest
<1>2. CASE check[g] = None
  <2>1. check' = [check EXCEPT ![g] = Round(g, force)]
    BY <1>2, Zenon DEF urlTest
  <2>2. Members(g) \in SUBSET Member
    BY MembersAreFinite, Zenon
  <2>3. Round(g, force) \in Checking
    BY <2>2 DEF Round, Checking
  <2>4. Round(g, force).todo = Members(g) /\ Round(g, force).probing = {}
    BY DEF Round
  <2>5. RoundOK(g, Round(g, force))
    BY <2>4, Zenon DEF RoundOK
  <2> QED
    BY <2>1, <2>3, <2>5, StoreCheck, Zenon
<1> QED
  BY <1>1, <1>2, Zenon

(* Touch starts the ticker and the first round.                           *)
LEMMA TouchTypes ==
    ASSUME setting' = setting, setting \in Scenario, CheckTypes, TimeTypes,
           NEW g \in Group, Touch(g)
    PROVE  CheckTypes' /\ TimeTypes'
<1>1. Interval \in 0 .. Interval /\ 0 \in 0 .. IdleTimeout + 1
  BY ConstantsAssumption
<1>2. CASE ticker[g] # None
  BY <1>1, <1>2, Frames, Zenon DEF Touch, TimeTypes
<1>3. CASE ticker[g] = None
  <2>1. ticker' = [ticker EXCEPT ![g] = Interval]
    BY <1>3, Zenon DEF Touch
  <2>2. \/ idle' = [idle EXCEPT ![g] = 0] /\ urlTest(g, FALSE)
        \/ UNCHANGED <<idle, check>>
    BY <1>3, Zenon DEF Touch
  <2>3. TimeTypes'
    BY <2>1, <2>2, <1>1, Zenon DEF TimeTypes
  <2>4. CheckTypes'
    BY <2>2, UrlTestTypes, Frames, Zenon
  <2> QED
    BY <2>3, <2>4, Zenon
<1> QED
  BY <1>2, <1>3, Zenon

(* The candidates of a rebuild are members of the group, each once; and    *)
(* with a healthy primary they are a choice of the primaries.              *)
LEMMA CandidatesAreMembers ==
    ASSUME TypeOK, NEW g \in Group
    PROVE  /\ Candidates(g) \in Seq(Member)
           /\ Range(Candidates(g)) \subseteq Members(g)
           /\ IsInjective(Candidates(g))
           /\ (\E m \in setting.primary[g] : Healthy(m)) =>
                /\ Range(healthyCandidates(setting.primary[g]))
                      = {m \in setting.primary[g] : Healthy(m)}
                /\ Chosen(healthyCandidates(setting.primary[g]), setting.top,
                          Range(snapshot[g].pool), Candidates(g))
<1> DEFINE P == setting.primary[g]
<1> DEFINE B == setting.backup[g]
<1> DEFINE p == healthyCandidates(P)
<1> DEFINE b == healthyCandidates(B)
<1> DEFINE HP == {m \in P : Healthy(m)}
<1> DEFINE HB == {m \in B : Healthy(m)}
<1>1. /\ P \in SUBSET Member /\ B \in SUBSET Member
      /\ P \in SUBSET Members(g) /\ B \in SUBSET Members(g)
      /\ IsFiniteSet(P) /\ IsFiniteSet(B)
  <2>1. /\ P \in SUBSET Members(g) /\ B \in SUBSET Members(g)
        /\ Members(g) \subseteq Member /\ IsFiniteSet(Members(g))
    BY MembersAreFinite, Zenon DEF TypeOK
  <2> QED
    BY <2>1, FS_Subset, Zenon
<1>2. /\ HP \in SUBSET Member /\ IsFiniteSet(HP) /\ RankLaws(HP)
      /\ ~setting.byMetric => ToleranceLaws(HP)
      /\ p \in Seq(HP) /\ Range(p) = HP /\ IsInjective(p)
      /\ \A i, j \in 1 .. Len(p) : i < j => RankBefore(p[i], p[j])
  BY <1>1, HealthyCandidates, Zenon
<1>3. HB \in SUBSET Member /\ b \in Seq(HB) /\ Range(b) = HB /\ IsInjective(b)
  BY <1>1, HealthyCandidates, Zenon
<1>4. setting.top \in Nat
  BY ConstantsAssumption, Zenon DEF TypeOK
<1>5. Candidates(g) = IF p # <<>>
        THEN selectTopNWithTolerance(p, setting.top, Range(snapshot[g].pool))
        ELSE b
  BY Zenon DEF Candidates
<1>6. HP \subseteq Members(g) /\ HB \subseteq Members(g)
  BY <1>1, Zenon
<1>7. (\E m \in P : Healthy(m)) => HP # {}
  BY Zenon
<1> HIDE DEF HP, HB, P, B, p, b
<1>8. p \in Seq(Member) /\ b \in Seq(Member)
  BY <1>2, <1>3
<1>9. p = <<>> => HP = {}
  <2>1. Range(<<>>) = {}
    BY DEF Range
  <2> QED
    BY <1>2, <2>1, Zenon
<1>10. CASE p = <<>>
  <2>1. Candidates(g) = b
    BY <1>5, <1>10, Zenon
  <2> QED
    BY <2>1, <1>3, <1>6, <1>7, <1>8, <1>9, <1>10, Zenon DEF P
<1>11. CASE p # <<>>
  <2> DEFINE c == Candidates(g)
  <2>1. Chosen(p, setting.top, Range(snapshot[g].pool), c)
    BY <1>2, <1>4, <1>5, <1>8, <1>11, Choosing, Zenon
  <2> HIDE DEF c
  <2>2. c \in Seq(HP) /\ IsInjective(c)
    BY <2>1, <1>2, Zenon DEF Chosen
  <2>3. c \in Seq(Member) /\ \A i \in DOMAIN c : c[i] \in HP
    BY <2>2, <1>2
  <2>4. Range(c) \subseteq HP
    BY <2>3, Zenon DEF Range
  <2> QED
    BY <2>1, <2>2, <2>3, <2>4, <1>2, <1>6, Zenon DEF c, p, P, HP
<1> QED
  BY <1>10, <1>11, Zenon

(* rebuild publishes members of the group, each once, and if the set      *)
(* changed it owes an interruption to every connection then registered.   *)
LEMMA RebuildKeeps ==
    ASSUME IInv, setting' = setting, NEW g \in Group, rebuild(g)
    PROVE  PoolTypes' /\ ConnPart'
<1>1. PoolTypes /\ ConnPart /\ TypeOK
  BY Parts, Zenon DEF IInv
<1> DEFINE pool == Candidates(g)
<1>2. CASE UNCHANGED <<snapshot, changed, conn>>
  BY <1>1, <1>2, Frames, Zenon
<1>3. CASE /\ snapshot' = [snapshot EXCEPT ![g] = [pool |-> pool, zero |-> FALSE]]
           /\ changed' = [changed EXCEPT ![g] =
                             ~sameCandidateSet(snapshot[g].pool, pool)]
           /\ conn' = [c \in Conn |->
                 IF c \in Registered(g) /\ Range(pool) # Range(snapshot[g].pool)
                   THEN [conn[c] EXCEPT !.old = TRUE] ELSE conn[c]]
  <2>1. pool \in Seq(Member) /\ Range(pool) \subseteq Members(g) /\ IsInjective(pool)
    BY <1>1, CandidatesAreMembers, Zenon
  <2> HIDE DEF pool
  <2> DEFINE s == [pool |-> pool, zero |-> FALSE]
  <2>2. s \in [pool : Seq(Member), zero : BOOLEAN] /\ s.pool = pool
    BY <2>1
  <2> HIDE DEF s
  <2>3. snapshot' \in [Group -> [pool : Seq(Member), zero : BOOLEAN]]
    BY <2>2, <1>1, <1>3, Zenon DEF PoolTypes, s
  <2>4. \A h \in Group : /\ Range(snapshot'[h].pool) \subseteq Members(h)
                         /\ IsInjective(snapshot'[h].pool)
    <3> TAKE h \in Group
    <3>1. CASE h = g
      <4>1. snapshot'[h] = s
        BY <3>1, <1>1, <1>3, Zenon DEF PoolTypes, s
      <4> QED
        BY <4>1, <3>1, <2>1, <2>2, Zenon
    <3>2. CASE h # g
      <4>1. snapshot'[h] = snapshot[h]
        BY <3>2, <1>1, <1>3, Zenon DEF PoolTypes
      <4> QED
        BY <4>1, <1>1, Zenon DEF PoolTypes
    <3> QED
      BY <3>1, <3>2, Zenon
  <2>5. PoolTypes'
    BY <2>3, <2>4, SameMembers, Zenon DEF PoolTypes
  <2>6. ~changed[g]
    BY Zenon DEF rebuild
  <2>7. /\ changed' \in [Group -> BOOLEAN]
        /\ \A h \in Group : changed[h] => changed'[h]
        /\ (Range(pool) # Range(snapshot[g].pool) => changed'[g])
    <3>1. (~sameCandidateSet(snapshot[g].pool, pool)) \in BOOLEAN
      BY Zenon
    <3>2. changed' \in [Group -> BOOLEAN]
      BY <3>1, <1>1, <1>3, Zenon DEF ConnPart
    <3>3. \A h \in Group : changed[h] => changed'[h]
      BY <1>1, <1>3, <2>6, Zenon DEF ConnPart
    <3>4. Range(pool) # Range(snapshot[g].pool) => changed'[g]
      BY <1>1, <1>3, Zenon DEF ConnPart, sameCandidateSet
    <3> QED
      BY <3>2, <3>3, <3>4, Zenon
  <2>8. \A c \in Conn :
          /\ conn'[c] \in Connection
          /\ \/ conn'[c] = conn[c]
             \/ /\ conn[c].pc = "open" /\ conn[c].group = g /\ changed'[g]
                /\ conn'[c].pc = "open" /\ conn'[c].group = g
    <3> TAKE c \in Conn
    <3>1. conn[c] \in Connection
      BY <1>1, Zenon DEF ConnPart
    <3>2. CASE c \in Registered(g) /\ Range(pool) # Range(snapshot[g].pool)
      <4>1. conn'[c] = [conn[c] EXCEPT !.old = TRUE]
        BY <3>2, <1>3, Zenon
      <4>2. conn[c].pc = "open" /\ conn[c].group = g
        BY <3>2, Zenon DEF Registered
      <4>3. conn'[c] \in Connection /\ conn'[c].pc = "open" /\ conn'[c].group = g
        BY <4>1, <4>2, <3>1 DEF Connection
      <4>4. changed'[g]
        BY <3>2, <2>7, Zenon
      <4> QED
        BY <4>2, <4>3, <4>4, Zenon
    <3>3. CASE ~(c \in Registered(g) /\ Range(pool) # Range(snapshot[g].pool))
      BY <3>1, <3>3, <1>3, Zenon
    <3> QED
      BY <3>2, <3>3, Zenon
  <2>9. conn' \in [Conn -> Connection]
    BY <2>8, <1>3, Zenon
  <2>10. ConnInv'
    <3> SUFFICES ASSUME NEW c \in Conn
                 PROVE  /\ conn'[c].pc # "idle" => conn'[c].group \in Group
                        /\ conn'[c].old => conn'[c].pc = "open"
                        /\ conn'[c].pc = "dialing" =>
                             Range(conn'[c].left) \cup conn'[c].tried
                               = Supporting(conn'[c].group, conn'[c].net)
      BY SameMembers, Zenon DEF ConnInv
    <3>1. CASE conn'[c] = conn[c]
      BY <3>1, <1>1, Zenon DEF ConnPart, ConnInv
    <3>2. CASE conn'[c].pc = "open" /\ conn'[c].group = g
      BY <3>2
    <3> QED
      BY <3>1, <3>2, <2>8, Zenon
  <2>11. SetChangeInterrupts'
    <3> SUFFICES ASSUME NEW c \in Conn,
                        conn'[c].pc = "open", conn'[c].old,
                        ~conn'[c].external \/ setting.interrupt
                 PROVE  changed'[conn'[c].group]
      BY Zenon DEF SetChangeInterrupts
    <3>1. CASE conn'[c] = conn[c]
      <4>1. changed[conn[c].group] /\ conn[c].group \in Group
        <5>1. conn[c].pc # "idle"
          BY <3>1
        <5> QED
          BY <5>1, <3>1, <1>1, Zenon DEF ConnPart, ConnInv, SetChangeInterrupts
      <4> QED
        BY <4>1, <3>1, <2>7, Zenon
    <3>2. CASE conn'[c].group = g /\ changed'[g]
      BY <3>2, Zenon
    <3> QED
      BY <3>1, <3>2, <2>8, Zenon
  <2> QED
    BY <2>5, <2>7, <2>9, <2>10, <2>11, SameMembers, Zenon DEF ConnPart
<1> QED
  BY <1>2, <1>3, Zenon DEF rebuild

-----------------------------------------------------------------------------
(* Failover attempts and connections.                                     *)

(* The pool seeded at start lists each member once.                       *)
LEMMA InTagOrder ==
    ASSUME NEW S \in SUBSET Nat, IsFiniteSet(S)
    PROVE  /\ inTagOrder(S) \in Seq(S) /\ Range(inTagOrder(S)) = S
           /\ IsInjective(inTagOrder(S))
<1> DEFINE R == {p \in S \X S : p[1] < p[2]}
<1>1. \A a, b \in S : <<a, b>> \in R <=> a < b
  BY SMT
<1>2. inTagOrder(S) = InOrder(S, R)
  BY Zenon DEF inTagOrder
<1> HIDE DEF R
<1>3. Orders(R, S)
  BY <1>1 DEF Orders
<1> QED
  BY <1>2, <1>3, InOrderLists, Zenon

(* The order of the attempts lists every member asked for.                *)
LEMMA DialOrderLists ==
    ASSUME TypeOK, NEW S \in SUBSET Member, IsFiniteSet(S)
    PROVE  DialOrder[S] \in Seq(S) /\ Range(DialOrder[S]) = S
<1> DEFINE R == {p \in S \X S : DialBefore(p[1], p[2])}
<1>1. \A a, b \in S : <<a, b>> \in R <=> DialBefore(a, b)
  BY SMT
<1>2. DialOrder[S] = InOrder(S, R)
  BY Zenon DEF DialOrder
<1> HIDE DEF R
<1>3. Orders(R, S)
  <2>1. \A m \in S : m \in Nat /\ (Measured(m) => history[m].delay \in Nat)
    BY Figures, MembersAreNumbers, Zenon DEF TypeOK
  <2>2. \A a, b \in S : DialBefore(a, b) <=>
          \/ Measured(a) /\ ~Measured(b)
          \/ /\ Measured(a) /\ Measured(b)
             /\ \/ history[a].delay < history[b].delay
                \/ history[a].delay = history[b].delay /\ a < b
          \/ ~Measured(a) /\ ~Measured(b) /\ a < b
    <3> SUFFICES ASSUME NEW a \in S, NEW b \in S
                 PROVE  DialBefore(a, b) <=>
                          \/ Measured(a) /\ ~Measured(b)
                          \/ /\ Measured(a) /\ Measured(b)
                             /\ \/ history[a].delay < history[b].delay
                                \/ history[a].delay = history[b].delay /\ a < b
                          \/ ~Measured(a) /\ ~Measured(b) /\ a < b
      BY Zenon
    <3>1. CASE Measured(a) /\ Measured(b)
      <4>1. Measured(a) = Measured(b)
        BY <3>1, Zenon DEF Measured
      <4>2. DialBefore(a, b) <=> IF history[a].delay # history[b].delay
                                   THEN history[a].delay < history[b].delay ELSE a < b
        BY <4>1, <3>1, Zenon DEF DialBefore
      <4> QED
        BY <4>2, <3>1, <2>1
    <3>2. CASE ~Measured(a) /\ ~Measured(b)
      <4>1. Measured(a) = Measured(b)
        BY <3>2, Zenon DEF Measured
      <4> QED
        BY <4>1, <3>2, Zenon DEF DialBefore
    <3>3. CASE Measured(a) /\ ~Measured(b)
      BY <3>3, Zenon DEF DialBefore
    <3>4. CASE ~Measured(a) /\ Measured(b)
      BY <3>4, Zenon DEF DialBefore
    <3> QED
      BY <3>1, <3>2, <3>3, <3>4, Zenon
  <2>3. \A a \in S : ~DialBefore(a, a)
    BY <2>1, <2>2
  <2>4. \A a, b \in S : a # b => DialBefore(a, b) \/ DialBefore(b, a)
    BY <2>1, <2>2
  <2>5. \A a, b, c \in S : DialBefore(a, b) /\ DialBefore(b, c) => DialBefore(a, c)
    BY <2>1, <2>2
  <2> QED
    BY <1>1, <2>3, <2>4, <2>5, Zenon DEF Orders
<1> QED
  BY <1>2, <1>3, InOrderLists, Zenon

(* The members of a concatenation.                                        *)
LEMMA RangeConcat ==
    ASSUME NEW S, NEW a \in Seq(S), NEW b \in Seq(S)
    PROVE  a \o b \in Seq(S) /\ Range(a \o b) = Range(a) \cup Range(b)
<1>1. /\ a \o b \in Seq(S) /\ DOMAIN (a \o b) = 1 .. Len(a) + Len(b)
      /\ DOMAIN a = 1 .. Len(a) /\ DOMAIN b = 1 .. Len(b)
      /\ Len(a) \in Nat /\ Len(b) \in Nat
  BY SMT
<1>2. \A i \in 1 .. Len(a) : i \in 1 .. Len(a) + Len(b) /\ (a \o b)[i] = a[i]
  BY SMT
<1>3. \A i \in 1 .. Len(b) : Len(a) + i \in 1 .. Len(a) + Len(b) /\ (a \o b)[Len(a) + i] = b[i]
  BY SMT
<1>4. \A i \in 1 .. Len(a) + Len(b) :
        \/ i \in 1 .. Len(a)
        \/ \E j \in 1 .. Len(b) : i = Len(a) + j
  <2> TAKE i \in 1 .. Len(a) + Len(b)
  <2>1. i \in 1 .. Len(a) \/ (i - Len(a) \in 1 .. Len(b) /\ i = Len(a) + (i - Len(a)))
    BY <1>1
  <2> QED
    BY <2>1, Zenon
<1>5. ASSUME NEW x \in Range(a) PROVE x \in Range(a \o b)
  <2>1. PICK i \in 1 .. Len(a) : x = a[i]
    BY <1>1, Zenon DEF Range
  <2> QED
    BY <2>1, <1>1, <1>2, Zenon DEF Range
<1>6. ASSUME NEW x \in Range(b) PROVE x \in Range(a \o b)
  <2>1. PICK i \in 1 .. Len(b) : x = b[i]
    BY <1>1, Zenon DEF Range
  <2> QED
    BY <2>1, <1>1, <1>3, Zenon DEF Range
<1>7. ASSUME NEW x \in Range(a \o b) PROVE x \in Range(a) \cup Range(b)
  <2>1. PICK i \in 1 .. Len(a) + Len(b) : x = (a \o b)[i]
    BY <1>1, Zenon DEF Range
  <2>2. CASE i \in 1 .. Len(a)
    BY <2>1, <2>2, <1>1, <1>2, Zenon DEF Range
  <2>3. CASE \E j \in 1 .. Len(b) : i = Len(a) + j
    BY <2>1, <2>3, <1>1, <1>3, Zenon DEF Range
  <2> QED
    BY <2>2, <2>3, <1>4, Zenon
<1> QED
  BY <1>1, <1>5, <1>6, <1>7, Zenon

(* The members of a sequence are its head and those of its tail.          *)
LEMMA RangeTail ==
    ASSUME NEW S, NEW a \in Seq(S), a # <<>>
    PROVE  /\ Head(a) \in S /\ Tail(a) \in Seq(S)
           /\ Range(a) = {Head(a)} \cup Range(Tail(a))
<1>1. /\ Len(a) \in Nat /\ Len(a) # 0 /\ Len(Tail(a)) = Len(a) - 1
      /\ Head(a) = a[1] /\ 1 \in 1 .. Len(a)
      /\ DOMAIN a = 1 .. Len(a) /\ DOMAIN Tail(a) = 1 .. Len(a) - 1
      /\ Head(a) \in S /\ Tail(a) \in Seq(S)
  BY SMT
<1>2. \A i \in 1 .. Len(a) - 1 : i + 1 \in 1 .. Len(a) /\ Tail(a)[i] = a[i + 1]
  BY SMT
<1>3. \A i \in 1 .. Len(a) : i = 1 \/ \E j \in 1 .. Len(a) - 1 : i = j + 1
  <2> TAKE i \in 1 .. Len(a)
  <2>1. i = 1 \/ (i - 1 \in 1 .. Len(a) - 1 /\ i = (i - 1) + 1)
    BY <1>1
  <2> QED
    BY <2>1, Zenon
<1>4. ASSUME NEW x \in Range(Tail(a)) PROVE x \in Range(a)
  <2>1. PICK i \in 1 .. Len(a) - 1 : x = Tail(a)[i]
    BY <1>1, Zenon DEF Range
  <2> QED
    BY <2>1, <1>1, <1>2, Zenon DEF Range
<1>5. Head(a) \in Range(a)
  BY <1>1, Zenon DEF Range
<1>6. ASSUME NEW x \in Range(a) PROVE x = Head(a) \/ x \in Range(Tail(a))
  <2>1. PICK i \in 1 .. Len(a) : x = a[i]
    BY <1>1, Zenon DEF Range
  <2>2. CASE i = 1
    BY <2>1, <2>2, <1>1, Zenon
  <2>3. CASE \E j \in 1 .. Len(a) - 1 : i = j + 1
    BY <2>1, <2>3, <1>1, <1>2, Zenon DEF Range
  <2> QED
    BY <2>2, <2>3, <1>3, Zenon
<1> QED
  BY <1>1, <1>4, <1>5, <1>6, Zenon

(* The attempts of a dial are all the members that support its network. *)
LEMMA AttemptsAreMembers ==
    ASSUME TypeOK, NEW g \in Group, NEW selected \in pickCandidate(g), NEW net
    PROVE  /\ failoverAttempts(g, selected, net) \in Seq(Member)
           /\ Range(failoverAttempts(g, selected, net)) = Supporting(g, net)
<1> DEFINE N == setting.supports[net]
<1> DEFINE first == IF Range(selected) \subseteq N THEN selected ELSE <<>>
<1> DEFINE P == (setting.primary[g] \cap N) \ Range(first)
<1> DEFINE B == (setting.backup[g] \cap N) \ Range(first)
<1>1. /\ Members(g) \subseteq Member /\ IsFiniteSet(Members(g))
      /\ Members(g) = setting.primary[g] \cup setting.backup[g]
  BY MembersAreFinite, Zenon DEF TypeOK, Members
<1>2. first \in Seq(Member) /\ Range(first) \subseteq Members(g) \cap N
  <2>1. selected = <<>> \/ \E m \in Members(g) : selected = <<m>>
    BY Zenon DEF pickCandidate, TypeOK
  <2>2. Range(<<>>) = {} /\ <<>> \in Seq(Member)
    BY DEF Range
  <2>3. \A m : Range(<<m>>) = {m}
    BY DEF Range
  <2>4. \A m \in Member : <<m>> \in Seq(Member)
    BY SMT
  <2>5. selected \in Seq(Member) /\ Range(selected) \subseteq Members(g)
    BY <2>1, <2>2, <2>3, <2>4, <1>1, ZenonT(40)
  <2> QED
    BY <2>2, <2>5, Zenon
<1>5. failoverAttempts(g, selected, net) = (first \o DialOrder[P]) \o DialOrder[B]
  BY Zenon DEF failoverAttempts, poolByLastDelay
<1> HIDE DEF N, first
<1>3. P \in SUBSET Member /\ B \in SUBSET Member /\ IsFiniteSet(P) /\ IsFiniteSet(B)
  <2>1. P \in SUBSET Members(g) /\ B \in SUBSET Members(g)
    BY <1>1, Zenon
  <2> QED
    BY <2>1, <1>1, FS_Subset, Zenon
<1>4. Range(first) \cup P \cup B = Supporting(g, net)
  <2>1. Supporting(g, net) = Members(g) \cap N
    BY Zenon DEF Supporting, N
  <2> QED
    BY <2>1, <1>1, <1>2, Zenon
<1> HIDE DEF P, B
<1>6. /\ DialOrder[P] \in Seq(P) /\ Range(DialOrder[P]) = P
      /\ DialOrder[B] \in Seq(B) /\ Range(DialOrder[B]) = B
  BY <1>3, DialOrderLists, Zenon
<1>7. DialOrder[P] \in Seq(Member) /\ DialOrder[B] \in Seq(Member)
  BY <1>3, <1>6
<1>8. \A s, t \in Seq(Member) :
         s \o t \in Seq(Member) /\ Range(s \o t) = Range(s) \cup Range(t)
  BY RangeConcat, Zenon
<1>9. /\ first \o DialOrder[P] \in Seq(Member)
      /\ Range(first \o DialOrder[P]) = Range(first) \cup P
  <2> DEFINE p == DialOrder[P]
  <2> HIDE DEF p
  <2>1. p \in Seq(Member) /\ Range(p) = P
    BY <1>6, <1>7, Zenon DEF p
  <2>2. first \o p \in Seq(Member) /\ Range(first \o p) = Range(first) \cup Range(p)
    BY <2>1, <1>2, <1>8, Zenon
  <2> QED
    BY <2>1, <2>2, Zenon DEF p
<1>10. /\ (first \o DialOrder[P]) \o DialOrder[B] \in Seq(Member)
      /\ Range((first \o DialOrder[P]) \o DialOrder[B])
           = (Range(first) \cup P) \cup B
  <2> DEFINE p == first \o DialOrder[P]
  <2> DEFINE b == DialOrder[B]
  <2> HIDE DEF p, b
  <2>1. p \in Seq(Member) /\ Range(p) = Range(first) \cup P
    BY <1>9, Zenon DEF p
  <2>2. b \in Seq(Member) /\ Range(b) = B
    BY <1>6, <1>7, Zenon DEF b
  <2>3. p \o b \in Seq(Member) /\ Range(p \o b) = Range(p) \cup Range(b)
    BY <2>1, <2>2, <1>8, Zenon
  <2> QED
    BY <2>1, <2>2, <2>3, Zenon DEF p, b
<1> QED
  BY <1>4, <1>5, <1>10, Zenon

(* A step that changes one connection. *)
LEMMA StoreConn ==
    ASSUME setting' = setting, changed' = changed, ConnPart, NEW c \in Conn,
           NEW x \in Connection, conn' = [conn EXCEPT ![c] = x],
           x.pc # "idle" => x.group \in Group,
           x.old = FALSE,
           x.pc = "dialing" => Range(x.left) \cup x.tried = Supporting(x.group, x.net)
    PROVE  ConnPart'
<1>1. conn \in [Conn -> Connection]
  BY Zenon DEF ConnPart
<1>2. conn' \in [Conn -> Connection]
  BY <1>1, Zenon
<1>3. \A d \in Conn : conn'[d] = IF d = c THEN x ELSE conn[d]
  BY <1>1, Zenon
<1>4. ConnInv'
  <2> SUFFICES ASSUME NEW d \in Conn
               PROVE  /\ conn'[d].pc # "idle" => conn'[d].group \in Group
                      /\ conn'[d].old => conn'[d].pc = "open"
                      /\ conn'[d].pc = "dialing" =>
                           Range(conn'[d].left) \cup conn'[d].tried
                             = Supporting(conn'[d].group, conn'[d].net)
    BY SameMembers, Zenon DEF ConnInv
  <2>1. CASE d = c
    <3>1. conn'[d] = x
      BY <1>3, <2>1, Zenon
    <3> QED
      BY <3>1, Zenon
  <2>2. CASE d # c
    <3>1. conn'[d] = conn[d]
      BY <1>3, <2>2, Zenon
    <3> QED
      BY <3>1, Zenon DEF ConnPart, ConnInv
  <2> QED
    BY <2>1, <2>2, Zenon
<1>5. SetChangeInterrupts'
  <2> SUFFICES ASSUME NEW d \in Conn,
                      conn'[d].pc = "open", conn'[d].old,
                      ~conn'[d].external \/ setting.interrupt
               PROVE  changed[conn'[d].group]
    BY Zenon DEF SetChangeInterrupts
  <2>1. CASE d = c
    <3>1. conn'[d] = x
      BY <1>3, <2>1, Zenon
    <3> QED
      BY <3>1, Zenon
  <2>2. CASE d # c
    <3>1. conn'[d] = conn[d]
      BY <1>3, <2>2, Zenon
    <3> QED
      BY <3>1, Zenon DEF ConnPart, SetChangeInterrupts
  <2> QED
    BY <2>1, <2>2, Zenon
<1> QED
  BY <1>2, <1>4, <1>5, SameMembers, Zenon DEF ConnPart

-----------------------------------------------------------------------------
(* Start, rounds of checks and time.                                      *)

(* A sequence over a subset is one over the set.                          *)
LEMMA SeqOfSubset ==
    ASSUME NEW T, NEW S \in SUBSET T, NEW s \in Seq(S)
    PROVE  s \in Seq(T)
BY SMT

(* The invariant holds at start.                                          *)
LEMMA InitHolds == Init => IInv
<1> SUFFICES ASSUME Init PROVE IInv
  BY Zenon
<1>0. setting \in Scenario /\ faults = 0 /\ dials = 0
  BY Zenon DEF Init
<1>1. /\ dials \in Nat /\ faults \in Nat
      /\ 0 \in 0 .. IdleTimeout + 1 /\ Interval \in 0 .. Interval
  BY <1>0, ConstantsAssumption
<1>2. NetworkTypes
  BY <1>1, Zenon DEF Init, NetworkTypes
<1>3. HistoryTypes
  BY Zenon DEF Init, HistoryTypes
<1>4. PoolTypes
  <2> DEFINE Seed(g) == IF setting.primary[g] # {} THEN inTagOrder(setting.primary[g])
                                                   ELSE inTagOrder(setting.backup[g])
  <2>1. snapshot = [g \in Group |-> [pool |-> Seed(g), zero |-> Members(g) # {}]]
    BY Zenon DEF Init
  <2>2. ASSUME NEW g \in Group
        PROVE  /\ Seed(g) \in Seq(Member) /\ Range(Seed(g)) \subseteq Members(g)
               /\ IsInjective(Seed(g))
    <3>1. PICK S \in {setting.primary[g], setting.backup[g]} : Seed(g) = inTagOrder(S)
      BY Zenon
    <3>2. Members(g) \subseteq Nat /\ Members(g) \subseteq Member /\ IsFiniteSet(Members(g))
          /\ S \in SUBSET Members(g)
      BY <1>0, MembersAreFinite, Zenon
    <3>3. S \in SUBSET Nat /\ S \in SUBSET Member /\ IsFiniteSet(S)
      BY <3>2, FS_Subset, Zenon
    <3> DEFINE s == inTagOrder(S)
    <3>4. s \in Seq(S) /\ Range(s) = S /\ IsInjective(s)
      BY <3>3, InTagOrder, Zenon
    <3> HIDE DEF s
    <3>5. s \in Seq(Member)
      BY <3>3, <3>4, SeqOfSubset, Zenon
    <3> QED
      BY <3>1, <3>2, <3>4, <3>5, Zenon DEF s
  <2> HIDE DEF Seed
  <2>3. ASSUME NEW g \in Group
        PROVE  /\ snapshot[g] \in [pool : Seq(Member), zero : BOOLEAN]
               /\ snapshot[g].pool = Seed(g)
    <3>1. snapshot[g] = [pool |-> Seed(g), zero |-> Members(g) # {}]
      BY <2>1, Zenon
    <3>2. (Members(g) # {}) \in BOOLEAN
      BY Zenon
    <3> QED
      BY <3>1, <3>2, <2>2
  <2>4. snapshot \in [Group -> [pool : Seq(Member), zero : BOOLEAN]]
    BY <2>1, <2>3, Zenon
  <2> QED
    BY <2>2, <2>3, <2>4, Zenon DEF PoolTypes
<1>5. TimeTypes
  BY <1>1, Zenon DEF Init, TimeTypes
<1>6. CheckTypes
  <2>1. \A g \in Group : check[g] = None \/ check[g] = Round(g, FALSE)
    BY Zenon DEF Init
  <2>2. \A g \in Group : Members(g) \in SUBSET Member
    BY <1>0, MembersAreFinite, Zenon
  <2>3. \A g \in Group : Round(g, FALSE) \in Checking
    BY <2>2 DEF Round, Checking
  <2>4. \A g : Round(g, FALSE).todo = Members(g) /\ Round(g, FALSE).probing = {}
    BY DEF Round
  <2>5. \A g \in Group : RoundOK(g, check[g]) /\ check[g] \in Checking \cup {None}
    BY <2>1, <2>3, <2>4, Zenon DEF RoundOK
  <2>6. check = [g \in Group |-> IF Members(g) = {} THEN None ELSE Round(g, FALSE)]
    BY Zenon DEF Init
  <2> QED
    BY <2>5, <2>6, Zenon DEF CheckTypes
<1>7. ConnPart
  <2>1. \A c \in Conn : conn[c] = NoConn
    BY Zenon DEF Init
  <2>2. NoConn \in Connection /\ NoConn.pc = "idle" /\ NoConn.old = FALSE
    BY DEF NoConn, Connection
  <2>3. conn \in [Conn -> Connection]
    BY <2>2, Zenon DEF Init
  <2>4. changed \in [Group -> BOOLEAN]
    BY Zenon DEF Init
  <2>5. ConnInv
    BY <2>1, <2>2 DEF ConnInv
  <2>6. SetChangeInterrupts
    BY <2>1, <2>2, Zenon DEF SetChangeInterrupts
  <2> QED
    BY <2>3, <2>4, <2>5, <2>6, Zenon DEF ConnPart
<1> QED
  BY <1>0, <1>1, <1>2, <1>3, <1>4, <1>5, <1>6, <1>7, Parts, Zenon

(* look keeps the round within its group.                                 *)
LEMMA LookKeeps ==
    ASSUME IInv, setting' = setting, NEW g \in Group, look(g)
    PROVE  CheckTypes'
<1>1. CheckTypes /\ HistoryTypes /\ setting \in Scenario
  BY Parts, Zenon
<1> DEFINE r == check[g]
<1> DEFINE m == Min(r.todo)
<1> DEFINE skip == m \in setting.nested \/ (~r.force /\ history[m] # None /\ Fresh(m))
<1> DEFINE cache == [r EXCEPT !.cached = [of |-> m, delay |-> history[m].delay]]
<1> DEFINE drop == [r EXCEPT !.todo = r.todo \ {m}]
<1> DEFINE begin == [r EXCEPT !.todo = r.todo \ {m}, !.probing = r.probing \cup {m}]
<1>0. check' = IF UseCache(m) THEN [check EXCEPT ![g] = cache]
               ELSE IF skip THEN [check EXCEPT ![g] = drop]
               ELSE [check EXCEPT ![g] = begin]
  BY <1>1, Zenon DEF look, CheckTypes
<1>2. r \in Checking /\ r # None /\ r.todo # {} /\ RoundOK(g, r)
  BY <1>1, Zenon DEF look, CheckTypes
<1> HIDE DEF r
<1>3. /\ r.todo \in SUBSET Member /\ r.probing \in SUBSET Member
      /\ r.force \in BOOLEAN
      /\ r.cached \in [of : Member, delay : setting.delays] \cup {None}
  BY <1>2 DEF Checking
<1>4. m \in r.todo /\ m \in Member
  <2>1. \E x \in r.todo : \A y \in r.todo : x <= y
    BY <1>1, <1>2, <1>3, MembersAreNumbers, LeastNatural, Zenon
  <2> QED
    BY <2>1, <1>3, Zenon DEF Min
<1>5. /\ r.todo \cup r.probing \subseteq Members(g)
      /\ r.todo \cap r.probing = {}
  BY <1>2, Zenon DEF RoundOK
<1>6. CASE UseCache(m)
  <2> DEFINE e == [of |-> m, delay |-> history[m].delay]
  <2> DEFINE q == [r EXCEPT !.cached = e]
  <2>1. check' = [check EXCEPT ![g] = q]
    <3> HIDE DEF skip, drop, begin, m
    <3> QED
      BY <1>0, <1>6, Zenon
  <2>2. history[m] \in Entry
    BY <1>1, <1>4, <1>6, Zenon DEF UseCache, Measured, HistoryTypes
  <2>3. e \in [of : Member, delay : setting.delays]
    BY <1>4, <2>2 DEF Entry
  <2> HIDE DEF e
  <2>4. q \in Checking /\ q.todo = r.todo /\ q.probing = r.probing
    BY <2>3, <1>2 DEF Checking
  <2> HIDE DEF q
  <2>5. RoundOK(g, q)
    BY <2>4, <1>5, Zenon DEF RoundOK
  <2> QED
    BY <2>1, <2>4, <2>5, <1>1, StoreCheck, Zenon
<1>7. CASE ~UseCache(m) /\ skip
  <2> DEFINE q == [r EXCEPT !.todo = r.todo \ {m}]
  <2>1. check' = [check EXCEPT ![g] = q]
    <3> HIDE DEF skip, cache, begin, m
    <3> QED
      BY <1>0, <1>7, Zenon
  <2>2. q \in Checking /\ q.todo = r.todo \ {m} /\ q.probing = r.probing
    BY <1>2, <1>3 DEF Checking
  <2> HIDE DEF q
  <2>3. RoundOK(g, q)
    BY <2>2, <1>5, Zenon DEF RoundOK
  <2> QED
    BY <2>1, <2>2, <2>3, <1>1, StoreCheck, Zenon
<1>8. CASE ~UseCache(m) /\ ~skip
  <2> DEFINE q == [r EXCEPT !.todo = r.todo \ {m}, !.probing = r.probing \cup {m}]
  <2>1. check' = [check EXCEPT ![g] = q]
    <3> HIDE DEF skip, drop, cache, m
    <3> QED
      BY <1>0, <1>8, Zenon
  <2>2. q \in Checking /\ q.todo = r.todo \ {m} /\ q.probing = r.probing \cup {m}
    BY <1>2, <1>3, <1>4 DEF Checking
  <2> HIDE DEF q, m
  <2>3. RoundOK(g, q)
    BY <2>2, <1>4, <1>5, Zenon DEF RoundOK
  <2> QED
    BY <2>1, <2>2, <2>3, <1>1, StoreCheck, Zenon
<1> QED
  BY <1>6, <1>7, <1>8, Zenon

(* storeCached writes a well-formed entry and finishes that member.       *)
LEMMA StoreCachedKeeps ==
    ASSUME IInv, setting' = setting, NEW g \in Group, storeCached(g)
    PROVE  CheckTypes' /\ HistoryTypes'
<1>1. CheckTypes /\ HistoryTypes /\ setting \in Scenario
  BY Parts, Zenon
<1> DEFINE r == check[g]
<1> DEFINE m == r.cached.of
<1> DEFINE q == [r EXCEPT !.cached = None, !.todo = r.todo \ {m}]
<1>2. r \in Checking /\ r # None /\ r.cached # None /\ RoundOK(g, r)
  BY <1>1, Zenon DEF storeCached, CheckTypes
<1>3. check' = [check EXCEPT ![g] = q]
  BY <1>1, Zenon DEF storeCached, CheckTypes
<1>4. history' = IF m \in setting.nested THEN history
                 ELSE [history EXCEPT ![m] =
                         [delay |-> r.cached.delay, age |-> 0, late |-> FALSE]]
  BY Zenon DEF storeCached
<1> HIDE DEF r
<1>5. m \in Member /\ r.cached.delay \in setting.delays
  BY <1>2 DEF Checking
<1>6. q \in Checking /\ q.todo = r.todo \ {m} /\ q.probing = r.probing
  BY <1>2 DEF Checking
<1> HIDE DEF q
<1>7. RoundOK(g, q)
  BY <1>2, <1>6, Zenon DEF RoundOK
<1>8. CheckTypes'
  BY <1>1, <1>3, <1>6, <1>7, StoreCheck, Zenon
<1>9. 0 \in 0 .. Interval + 1
  BY ConstantsAssumption
<1> DEFINE e == [delay |-> r.cached.delay, age |-> 0, late |-> FALSE]
<1>10. e \in Entry
  BY <1>5, <1>9 DEF Entry
<1> HIDE DEF e, m
<1>11. history' = history \/ history' = [history EXCEPT ![m] = e]
  BY <1>4, Zenon DEF e
<1>12. HistoryTypes'
  BY <1>1, <1>5, <1>10, <1>11, StoreHistory, Frames, Zenon
<1> QED
  BY <1>8, <1>12, Zenon

(* What a probe, of the group or of a nested one, leaves in the history. *)
LEMMA ProbedHistory ==
    ASSUME IInv, setting' = setting, NEW m \in Member,
           \/ history' = [history EXCEPT ![m] = None]
           \/ \E d \in setting.delays :
                history' = [history EXCEPT ![m] =
                              [delay |-> d, age |-> 0, late |-> TRUE]]
    PROVE  HistoryTypes'
<1>1. HistoryTypes
  BY Parts, Zenon
<1>2. 0 \in 0 .. Interval + 1
  BY ConstantsAssumption
<1>3. \A d \in setting.delays : [delay |-> d, age |-> 0, late |-> TRUE] \in Entry
  BY <1>2 DEF Entry
<1>4. CASE history' = [history EXCEPT ![m] = None]
  BY <1>1, <1>4, StoreHistory, Zenon
<1>5. CASE \E d \in setting.delays :
             history' = [history EXCEPT ![m] = [delay |-> d, age |-> 0, late |-> TRUE]]
  <2>1. PICK d \in setting.delays :
          history' = [history EXCEPT ![m] = [delay |-> d, age |-> 0, late |-> TRUE]]
    BY <1>5, Zenon
  <2> DEFINE e == [delay |-> d, age |-> 0, late |-> TRUE]
  <2>2. e \in Entry \cup {None}
    BY <1>3, Zenon
  <2> HIDE DEF e
  <2>3. history' = [history EXCEPT ![m] = e]
    BY <2>1, Zenon DEF e
  <2> QED
    BY <2>2, <2>3, <1>1, StoreHistory, Zenon
<1> QED
  BY <1>4, <1>5, Zenon

(* probe writes or deletes an entry and finishes that member.             *)
LEMMA ProbeKeeps ==
    ASSUME IInv, setting' = setting, NEW g \in Group, NEW m \in Members(g),
           probe(g, m)
    PROVE  CheckTypes' /\ HistoryTypes'
<1>1. CheckTypes /\ setting \in Scenario
  BY Parts, Zenon
<1>2. m \in Member
  BY <1>1, MembersAreFinite, Zenon
<1>3. HistoryTypes'
  BY <1>2, ProbedHistory, Zenon DEF probe
<1> DEFINE r == check[g]
<1> DEFINE q == [r EXCEPT !.probing = r.probing \ {m}]
<1>4. r \in Checking /\ r # None /\ RoundOK(g, r)
  BY <1>1, Zenon DEF probe, CheckTypes
<1>5. check' = [check EXCEPT ![g] = q]
  BY <1>1, Zenon DEF probe, CheckTypes
<1> HIDE DEF r
<1>6. q \in Checking /\ q.todo = r.todo /\ q.probing = r.probing \ {m}
  BY <1>4 DEF Checking
<1> HIDE DEF q
<1>7. RoundOK(g, q)
  BY <1>4, <1>6, Zenon DEF RoundOK
<1>8. CheckTypes'
  BY <1>1, <1>5, <1>6, <1>7, StoreCheck, Zenon
<1> QED
  BY <1>3, <1>8, Zenon

(* The clocks stay within their bounds, and ageing keeps an entry an      *)
(* entry.                                                                 *)
LEMMA TimePassesKeeps ==
    ASSUME IInv, setting' = setting, timePasses
    PROVE  HistoryTypes' /\ TimeTypes'
<1>1. HistoryTypes /\ TimeTypes
  BY Parts, Zenon
<1>2. Interval \in Nat /\ IdleTimeout \in Nat
  BY ConstantsAssumption
<1>3. \A a \in 0 .. Interval + 1 : Min({a + 1, Interval + 1}) \in 0 .. Interval + 1
  BY <1>2, MinOfTwo
<1>4. \A a \in 0 .. IdleTimeout + 1 : Min({a + 1, IdleTimeout + 1}) \in 0 .. IdleTimeout + 1
  BY <1>2, MinOfTwo
<1>5. HistoryTypes'
  <2> DEFINE Older(x) == IF x = None THEN None
                         ELSE [x EXCEPT !.age = Min({x.age + 1, Interval + 1})]
  <2>1. \A x \in Entry \cup {None} : Older(x) \in Entry \cup {None}
    <3> SUFFICES ASSUME NEW x \in Entry
                 PROVE  [x EXCEPT !.age = Min({x.age + 1, Interval + 1})] \in Entry
      BY Zenon
    <3>1. x.age \in 0 .. Interval + 1
      BY DEF Entry
    <3> DEFINE a == Min({x.age + 1, Interval + 1})
    <3>2. a \in 0 .. Interval + 1
      BY <3>1, <1>3, Zenon
    <3> HIDE DEF a
    <3>3. [x EXCEPT !.age = a] \in Entry
      BY <3>2 DEF Entry
    <3> QED
      BY <3>3, Zenon DEF a
  <2>2. history' = [m \in Member |-> Older(history[m])]
    BY Zenon DEF timePasses
  <2> HIDE DEF Older
  <2>3. history' \in [Member -> Entry \cup {None}]
    BY <2>1, <2>2, <1>1, Zenon DEF HistoryTypes
  <2> QED
    BY <2>3, SameMembers, Zenon DEF HistoryTypes
<1>6. TimeTypes'
  <2>1. PICK started \in SUBSET {g \in setting.busy : ticker[g] = None} :
          ticker' = [g \in Group |-> IF g \in started THEN Interval
                                     ELSE IF ticker[g] = None THEN None
                                     ELSE ticker[g] - 1]
    BY Zenon DEF timePasses
  <2>2. \A g \in Group : ticker[g] \in 0 .. Interval \cup {None} /\ ticker[g] # 0
    BY <1>1, Zenon DEF timePasses, TimeTypes
  <2>3. \A g \in Group : ticker[g] # None => ticker[g] - 1 \in 0 .. Interval
    BY <2>2, <1>2
  <2>4. Interval \in 0 .. Interval /\ 0 \in 0 .. IdleTimeout + 1
    BY <1>2
  <2>5. ticker' \in [Group -> 0 .. Interval \cup {None}]
    BY <2>1, <2>3, <2>4, Zenon
  <2>6. idle' = [g \in Group |-> IF g \in setting.busy THEN 0
                                 ELSE Min({idle[g] + 1, IdleTimeout + 1})]
    BY Zenon DEF timePasses
  <2>7. idle' \in [Group -> 0 .. IdleTimeout + 1]
    BY <2>4, <2>6, <1>1, <1>4, Zenon DEF TimeTypes
  <2> QED
    BY <2>5, <2>7, Zenon DEF TimeTypes
<1> QED
  BY <1>5, <1>6, Zenon

-----------------------------------------------------------------------------
(* Connections, the step, and the theorems.                               *)

(* Interrupt pays what a change of the set owes: no connection registered *)
(* before it is left.                                                     *)
LEMMA InterruptKeeps ==
    ASSUME IInv, NEW g \in Group, Interrupt(g)
    PROVE  ConnPart'
<1>1. ConnPart /\ setting' = setting
  BY Parts, Zenon DEF Interrupt
<1>2. changed' = [changed EXCEPT ![g] = FALSE] /\ changed' \in [Group -> BOOLEAN]
  BY <1>1, Zenon DEF Interrupt, ConnPart
<1>3. NoConn \in Connection /\ NoConn.pc = "idle" /\ NoConn.old = FALSE
  BY DEF NoConn, Connection
<1>4. \A c \in Conn : \/ conn'[c] = NoConn
                      \/ /\ conn'[c] = conn[c]
                         /\ ~(/\ conn[c].pc = "open" /\ conn[c].group = g
                              /\ ~conn[c].external \/ setting.interrupt)
  BY Zenon DEF Interrupt, Registered
<1>5. conn' \in [Conn -> Connection]
  <2>1. \A c \in Conn : conn'[c] \in Connection
    BY <1>1, <1>3, <1>4, Zenon DEF ConnPart
  <2> QED
    BY <2>1, Zenon DEF Interrupt
<1>6. ConnInv'
  <2> SUFFICES ASSUME NEW c \in Conn
               PROVE  /\ conn'[c].pc # "idle" => conn'[c].group \in Group
                      /\ conn'[c].old => conn'[c].pc = "open"
                      /\ conn'[c].pc = "dialing" =>
                           Range(conn'[c].left) \cup conn'[c].tried
                             = Supporting(conn'[c].group, conn'[c].net)
    BY <1>1, SameMembers, Zenon DEF ConnInv
  <2>1. CASE conn'[c] = NoConn
    <3>1. conn'[c].pc = "idle" /\ conn'[c].old = FALSE
      BY <2>1, <1>3, Zenon
    <3> QED
      BY <3>1
  <2>2. CASE conn'[c] = conn[c]
    BY <2>2, <1>1, Zenon DEF ConnPart, ConnInv
  <2> QED
    BY <2>1, <2>2, <1>4, Zenon
<1>7. SetChangeInterrupts'
  <2> SUFFICES ASSUME NEW c \in Conn,
                      conn'[c].pc = "open", conn'[c].old,
                      ~conn'[c].external \/ setting.interrupt
               PROVE  changed'[conn'[c].group]
    BY <1>1, Zenon DEF SetChangeInterrupts
  <2>1. conn'[c] # NoConn
    BY <1>3, Zenon
  <2>2. conn'[c] = conn[c] /\ conn[c].group # g
    BY <2>1, <1>4, Zenon
  <2>3. changed[conn[c].group] /\ conn[c].group \in Group
    <3>1. conn[c].pc # "idle"
      BY <2>2
    <3> QED
      BY <3>1, <2>2, <1>1, Zenon DEF ConnPart, ConnInv, SetChangeInterrupts
  <2> QED
    BY <2>2, <2>3, <1>1, <1>2, Zenon DEF ConnPart
<1> QED
  BY <1>1, <1>2, <1>5, <1>6, <1>7, SameMembers, Zenon DEF ConnPart

(* DialContext starts a dial that has every member that supports the      *)
(* network still to try.                                                  *)
LEMMA DialContextKeeps ==
    ASSUME IInv, NEW c \in Conn, NEW g \in Group, DialContext(c, g)
    PROVE  CheckTypes' /\ TimeTypes' /\ ConnPart'
<1>1. /\ setting' = setting /\ changed' = changed /\ setting \in Scenario
      /\ CheckTypes /\ TimeTypes /\ ConnPart /\ TypeOK /\ Touch(g)
  BY Parts, Zenon DEF DialContext, IInv
<1>2. CheckTypes' /\ TimeTypes'
  BY <1>1, TouchTypes, Zenon
<1>3. PICK external \in BOOLEAN, net \in setting.nets, selected \in pickCandidate(g) :
        conn' = [conn EXCEPT ![c] =
                   [NoConn EXCEPT !.pc = "dialing", !.group = g, !.net = net,
                      !.left = failoverAttempts(g, selected, net),
                      !.external = external]]
  BY Zenon DEF DialContext
<1>n. net \in Net
  BY <1>1, ConstantsAssumption, Zenon
<1> DEFINE left == failoverAttempts(g, selected, net)
<1>4. left \in Seq(Member) /\ Range(left) = Supporting(g, net)
  BY <1>1, AttemptsAreMembers, Zenon
<1> HIDE DEF left
<1> DEFINE x == [NoConn EXCEPT !.pc = "dialing", !.group = g, !.net = net,
                               !.left = left, !.external = external]
<1>5. /\ x \in Connection /\ x.group = g /\ x.net = net /\ x.left = left
      /\ x.tried = {} /\ x.old = FALSE
  BY <1>4, <1>n DEF NoConn, Connection
<1>6. conn' = [conn EXCEPT ![c] = x]
  BY <1>3, Zenon DEF left
<1> HIDE DEF x
<1>7. Range(x.left) \cup x.tried = Supporting(x.group, x.net)
  BY <1>4, <1>5, Zenon
<1>8. ConnPart'
  BY <1>1, <1>5, <1>6, <1>7, StoreConn, Zenon
<1> QED
  BY <1>2, <1>8, Zenon

(* An attempt moves one member from those left to those tried, or ends    *)
(* the dial.                                                              *)
LEMMA DialAttemptKeeps ==
    ASSUME IInv, NEW c \in Conn, dialAttempt(c)
    PROVE  HistoryTypes' /\ ConnPart'
<1>1. /\ setting' = setting /\ changed' = changed
      /\ HistoryTypes /\ ConnPart
  BY Parts, Zenon DEF dialAttempt
<1> DEFINE x == conn[c]
<1> DEFINE m == Head(x.left)
<1>2. /\ conn \in [Conn -> Connection] /\ x \in Connection
      /\ x.pc = "dialing" /\ x.left # <<>>
  BY <1>1, Zenon DEF dialAttempt, ConnPart
<1>3. /\ x.pc # "idle" => x.group \in Group
      /\ x.old => x.pc = "open"
      /\ Range(x.left) \cup x.tried = Supporting(x.group, x.net)
  BY <1>1, <1>2, Zenon DEF ConnPart, ConnInv
<1>4. x.group \in Group /\ x.old = FALSE
  <2>1. x.old \in BOOLEAN /\ ~x.old
    BY <1>2, <1>3 DEF Connection
  <2>2. x.group \in Group
    BY <1>2, <1>3
  <2> QED
    BY <2>1, <2>2, Zenon
<1>5. \/ conn' = [conn EXCEPT ![c] = [x EXCEPT !.pc = "connected"]] /\ history' = history
      \/ /\ conn' = [conn EXCEPT ![c] = [x EXCEPT !.left = Tail(x.left),
                                                  !.tried = x.tried \cup {m}]]
         /\ history' = [history EXCEPT ![m] = None]
  BY <1>2, Zenon DEF dialAttempt
<1> HIDE DEF x
<1>6. x.left \in Seq(Member)
  BY <1>2 DEF Connection
<1>7. /\ m \in Member /\ Tail(x.left) \in Seq(Member)
      /\ Range(x.left) = {m} \cup Range(Tail(x.left))
  BY <1>2, <1>6, RangeTail, Zenon
<1> HIDE DEF m
<1>8. HistoryTypes'
  BY <1>1, <1>5, <1>7, StoreHistory, Frames, Zenon
<1>9. CASE conn' = [conn EXCEPT ![c] = [x EXCEPT !.pc = "connected"]]
  <2> DEFINE y == [x EXCEPT !.pc = "connected"]
  <2>1. /\ y \in Connection /\ y.group = x.group /\ y.old = x.old
        /\ y.pc # "dialing"
    BY <1>2 DEF Connection
  <2>2. conn' = [conn EXCEPT ![c] = y]
    BY <1>9, Zenon
  <2> HIDE DEF y
  <2> QED
    BY <2>1, <2>2, <1>1, <1>4, <1>8, StoreConn, Zenon
<1>10. CASE conn' = [conn EXCEPT ![c] = [x EXCEPT !.left = Tail(x.left),
                                                  !.tried = x.tried \cup {m}]]
  <2> DEFINE y == [x EXCEPT !.left = Tail(x.left), !.tried = x.tried \cup {m}]
  <2>1. /\ y \in Connection /\ y.group = x.group /\ y.net = x.net /\ y.old = x.old
        /\ y.left = Tail(x.left) /\ y.tried = x.tried \cup {m}
    BY <1>2, <1>7 DEF Connection
  <2>2. conn' = [conn EXCEPT ![c] = y]
    BY <1>10, Zenon
  <2> HIDE DEF y
  <2>3. Range(y.left) \cup y.tried = Supporting(y.group, y.net)
    BY <2>1, <1>3, <1>7, Zenon
  <2> QED
    BY <2>1, <2>2, <2>3, <1>1, <1>4, <1>8, StoreConn, Zenon
<1> QED
  BY <1>5, <1>8, <1>9, <1>10, Zenon

(* The end of a dial and the opening or closing of a connection keep the  *)
(* rest as it was.                                                        *)
LEMMA ConnEnds ==
    ASSUME IInv, NEW c \in Conn, dialEnds(c) \/ NewConn(c) \/ CloseConn(c)
    PROVE  ConnPart'
<1>1. setting' = setting /\ changed' = changed /\ ConnPart
  BY Parts, Zenon DEF dialEnds, NewConn, CloseConn
<1>2. CASE conn' = [conn EXCEPT ![c] = NoConn]
  <2>1. NoConn \in Connection /\ NoConn.pc = "idle" /\ NoConn.old = FALSE
        /\ NoConn.pc # "dialing"
    BY DEF NoConn, Connection
  <2> QED
    BY <2>1, <1>1, <1>2, StoreConn, Zenon
<1>3. CASE NewConn(c)
  <2> DEFINE x == conn[c]
  <2> DEFINE y == [x EXCEPT !.pc = "open"]
  <2>1. conn' = [conn EXCEPT ![c] = y] /\ x \in Connection /\ x.pc = "connected"
    BY <1>1, <1>3, Zenon DEF NewConn, ConnPart
  <2>2. /\ x.pc # "idle" => x.group \in Group
        /\ x.old => x.pc = "open"
    BY <1>1, Zenon DEF ConnPart, ConnInv
  <2> HIDE DEF x
  <2>3. /\ y \in Connection /\ y.group = x.group /\ y.old = x.old /\ x.old \in BOOLEAN
        /\ y.pc # "dialing"
    BY <2>1 DEF Connection
  <2>4. x.group \in Group /\ ~x.old
    BY <2>1, <2>2
  <2>5. y.old = FALSE
    BY <2>3, <2>4, Zenon
  <2> HIDE DEF y
  <2> QED
    BY <2>1, <2>3, <2>4, <2>5, <1>1, StoreConn, Zenon
<1> QED
  BY <1>2, <1>3, Zenon DEF dialEnds, CloseConn

(* Every step keeps the invariant. *)
LEMMA NextKeeps == IInv /\ [Next]_vars => IInv'
<1> SUFFICES ASSUME IInv, [Next]_vars PROVE IInv'
  BY Zenon
<1>0. /\ setting \in Scenario /\ dials \in Nat
      /\ NetworkTypes /\ HistoryTypes /\ PoolTypes /\ TimeTypes
      /\ CheckTypes /\ ConnPart
  BY Parts, Zenon
<1> DEFINE Same == /\ setting' = setting
                   /\ dials' = dials
                   /\ UNCHANGED network
<1> DEFINE Kept == /\ HistoryTypes' /\ PoolTypes' /\ TimeTypes' /\ CheckTypes'
                   /\ ConnPart'
<1>1. Same /\ Kept => IInv'
  BY <1>0, Frames, PartsNext, Zenon
<1>2. CASE UNCHANGED vars
  <2>1. Same /\ UNCHANGED <<history, snapshot, ticker, idle, check, changed, conn>>
    BY <1>2, Zenon DEF vars
  <2> QED
    BY <2>1, <1>0, <1>1, Frames, Zenon
<1>3. CASE timePasses
  <2>1. Same /\ UNCHANGED <<snapshot, check, changed, conn>>
    BY <1>3, Zenon DEF timePasses
  <2> QED
    BY <2>1, <1>0, <1>1, <1>3, TimePassesKeeps, Frames, Zenon
<1>4. ASSUME NEW g \in Group, tick(g) PROVE IInv'
  <2>1. Same /\ UNCHANGED <<history, snapshot, idle, changed, conn>>
    BY <1>4, Zenon DEF tick
  <2>2. CheckTypes'
    BY <1>4, <2>1, <1>0, UrlTestTypes, Frames, Zenon DEF tick
  <2>3. TimeTypes'
    <3>1. Interval \in 0 .. Interval
      BY ConstantsAssumption
    <3>2. \/ ticker' = [ticker EXCEPT ![g] = None]
          \/ ticker' = [ticker EXCEPT ![g] = Interval]
      BY <1>4, Zenon DEF tick
    <3> QED
      BY <3>1, <3>2, <2>1, <1>0, Zenon DEF TimeTypes
  <2> QED
    BY <2>1, <2>2, <2>3, <1>0, <1>1, Frames, Zenon
<1>5. ASSUME NEW g \in Group, look(g) PROVE IInv'
  <2>1. Same /\ UNCHANGED <<history, snapshot, ticker, idle, changed, conn>>
    BY <1>5, Zenon DEF look
  <2> QED
    BY <2>1, <1>0, <1>1, <1>5, LookKeeps, Frames, Zenon
<1>6. ASSUME NEW g \in Group, storeCached(g) PROVE IInv'
  <2>1. Same /\ UNCHANGED <<snapshot, ticker, idle, changed, conn>>
    BY <1>6, Zenon DEF storeCached
  <2> QED
    BY <2>1, <1>0, <1>1, <1>6, StoreCachedKeeps, Frames, Zenon
<1>7. ASSUME NEW g \in Group, Interrupt(g) PROVE IInv'
  <2>1. Same /\ UNCHANGED <<history, snapshot, ticker, idle, check>>
    BY <1>7, Zenon DEF Interrupt
  <2> QED
    BY <2>1, <1>0, <1>1, <1>7, InterruptKeeps, Frames, Zenon
<1>8. ASSUME NEW g \in Group, finishCheck(g) PROVE IInv'
  <2>1. Same /\ UNCHANGED <<history, ticker, idle>> /\ rebuild(g)
        /\ check' = [check EXCEPT ![g] = None]
    BY <1>8, Zenon DEF finishCheck
  <2>2. CheckTypes'
    <3>1. RoundOK(g, None)
      BY Zenon DEF RoundOK
    <3> QED
      BY <3>1, <2>1, <1>0, StoreCheck, Zenon
  <2> QED
    BY <2>1, <2>2, <1>0, <1>1, RebuildKeeps, Frames, Zenon
<1>9. ASSUME NEW g \in Group, NEW m \in Members(g), probe(g, m) PROVE IInv'
  <2>1. Same /\ UNCHANGED <<snapshot, ticker, idle, changed, conn>>
    BY <1>9, Zenon DEF probe
  <2> QED
    BY <2>1, <1>0, <1>1, <1>9, ProbeKeeps, Frames, Zenon
<1>10. ASSUME NEW g \in Group, URLTest(g) PROVE IInv'
  <2>1. Same /\ UNCHANGED <<history, snapshot, ticker, idle, changed, conn>>
        /\ urlTest(g, TRUE)
    BY <1>10, Zenon DEF URLTest
  <2>2. CheckTypes'
    BY <2>1, <1>0, UrlTestTypes, Zenon
  <2> QED
    BY <2>1, <2>2, <1>0, <1>1, Frames, Zenon
<1>11. ASSUME NEW g \in Group, PerformUpdateCheck(g) PROVE IInv'
  <2>1. Same /\ UNCHANGED <<history, ticker, idle, check>> /\ rebuild(g)
    BY <1>11, Zenon DEF PerformUpdateCheck
  <2> QED
    BY <2>1, <1>0, <1>1, RebuildKeeps, Frames, Zenon
<1>12. ASSUME NEW c \in Conn, NEW g \in Group, DialContext(c, g) PROVE IInv'
  <2>1. /\ setting' = setting /\ UNCHANGED network
        /\ UNCHANGED <<history, snapshot>> /\ dials' \in {dials, dials + 1}
    BY <1>12, Zenon DEF DialContext
  <2>2. dials' \in Nat
    BY <2>1, <1>0
  <2>3. CheckTypes' /\ TimeTypes' /\ ConnPart'
    BY <1>12, DialContextKeeps, Zenon
  <2> QED
    BY <2>1, <2>2, <2>3, <1>0, Frames, PartsNext, Zenon
<1>13. ASSUME NEW c \in Conn, dialAttempt(c) PROVE IInv'
  <2>1. Same /\ UNCHANGED <<snapshot, ticker, idle, check>>
    BY <1>13, Zenon DEF dialAttempt
  <2> QED
    BY <2>1, <1>0, <1>1, <1>13, DialAttemptKeeps, Frames, Zenon
<1>14. ASSUME NEW c \in Conn, dialEnds(c) \/ NewConn(c) \/ CloseConn(c) PROVE IInv'
  <2>1. Same /\ UNCHANGED <<history, snapshot, ticker, idle, check>>
    BY <1>14, Zenon DEF dialEnds, NewConn, CloseConn
  <2> QED
    BY <2>1, <1>0, <1>1, <1>14, ConnEnds, Frames, Zenon
<1>15. ASSUME NEW m \in Member, memberChanges(m) PROVE IInv'
  <2>1. /\ setting' = setting /\ dials' = dials /\ faults' = faults + 1
        /\ UNCHANGED <<history, snapshot, ticker, idle, check, changed, conn>>
    BY <1>15, Zenon DEF memberChanges
  <2>2. faults' \in Nat
    BY <2>1, <1>0 DEF NetworkTypes
  <2>3. up' \in [Member -> BOOLEAN] /\ metric' \in [Member -> setting.metrics \cup {0}]
    <3>1. up \in [Member -> BOOLEAN] /\ metric \in [Member -> setting.metrics \cup {0}]
      BY <1>0, Zenon DEF NetworkTypes
    <3>2. CASE up' = [up EXCEPT ![m] = ~up[m]] /\ metric' = metric
      BY <3>1, <3>2
    <3>3. CASE /\ up' = up
               /\ \E x \in setting.metrics \ {metric[m]} : metric' = [metric EXCEPT ![m] = x]
      BY <3>1, <3>3, Zenon
    <3> QED
      BY <3>2, <3>3, <1>15, Zenon DEF memberChanges
  <2>4. NetworkTypes'
    BY <2>1, <2>2, <2>3, SameMembers, Zenon DEF NetworkTypes
  <2> QED
    BY <2>1, <2>4, <1>0, Frames, PartsNext, Zenon
<1>16. ASSUME NEW m \in Member, nestedTests(m) PROVE IInv'
  <2>1. Same /\ UNCHANGED <<snapshot, ticker, idle, check, changed, conn>>
    BY <1>16, Zenon DEF nestedTests
  <2>2. HistoryTypes'
    BY <1>16, <2>1, ProbedHistory, Zenon DEF nestedTests
  <2> QED
    BY <2>1, <2>2, <1>0, <1>1, Frames, Zenon
<1> QED
  BY <1>2, <1>3, <1>4, <1>5, <1>6, <1>7, <1>8, <1>9, <1>10, <1>11, <1>12, <1>13,
     <1>14, <1>15, <1>16, ZenonT(40) DEF Next, Progress

(* IInv is an invariant of the group for every scenario, any number of    *)
(* groups, members and connections.                                       *)
THEOREM Invariance == Spec => []IInv
BY InitHolds, NextKeeps, PTL DEF Spec

(* TypeOK holds always: among its conjuncts, every published pool names   *)
(* members of its own group (rebuild, seedInitialSnapshot), each at most  *)
(* once.                                                                  *)
THEOREM TypeCorrect == Spec => []TypeOK
<1>1. IInv => TypeOK
  BY Zenon DEF IInv
<1> QED
  BY <1>1, Invariance, PTL

(* SetChangeInterrupts holds always: when rebuild has published another   *)
(* set of candidates, no connection registered before the change outlives *)
(* the Interrupt that follows it.                                         *)
THEOREM ChangesInterrupt == Spec => []SetChangeInterrupts
<1>1. IInv => SetChangeInterrupts
  BY Zenon DEF IInv
<1> QED
  BY <1>1, Invariance, PTL

(* FailoverIsComplete holds always: a dial (DialContext) that has run out *)
(* of attempts has tried every member of its group that supports its      *)
(* network, primary and backup, whichever pools were published meanwhile. *)
THEOREM EveryMemberIsTried == Spec => []FailoverIsComplete
<1>1. IInv => FailoverIsComplete
  <2> SUFFICES ASSUME IInv, NEW c \in Conn, conn[c].pc = "dialing", conn[c].left = <<>>
               PROVE  conn[c].tried = Supporting(conn[c].group, conn[c].net)
    BY Zenon DEF FailoverIsComplete, Exhausted
  <2>1. Range(conn[c].left) \cup conn[c].tried = Supporting(conn[c].group, conn[c].net)
    BY Zenon DEF IInv, ConnInv
  <2>2. Range(<<>>) = {}
    BY DEF Range
  <2> QED
    BY <2>1, <2>2, Zenon
<1> QED
  BY <1>1, Invariance, PTL

(* Only a rebuild of g changes its pool. *)
LEMMA PoolsChangeInRebuilds ==
    ASSUME [Next]_vars, NEW g \in Group, IInv, snapshot'[g] # snapshot[g]
    PROVE  rebuild(g) /\ snapshot'[g].pool = Candidates(g)
<1>1. \E h \in Group : finishCheck(h) \/ PerformUpdateCheck(h)
  <2>1. snapshot' # snapshot
    BY Zenon
  <2> QED
    BY <2>1, Zenon DEF Next, Progress, vars, timePasses, tick, look, storeCached,
       Interrupt, probe, URLTest, DialContext, dialAttempt, dialEnds, NewConn, CloseConn,
       memberChanges, nestedTests
<1>2. PICK h \in Group : rebuild(h)
  BY <1>1, Zenon DEF finishCheck, PerformUpdateCheck
<1>3. snapshot' = [snapshot EXCEPT ![h] = [pool |-> Candidates(h), zero |-> FALSE]]
  BY <1>2, Zenon DEF rebuild
<1>4. snapshot \in [Group -> [pool : Seq(Member), zero : BOOLEAN]]
  BY Zenon DEF IInv, TypeOK
<1>5. h = g /\ snapshot'[g] = [pool |-> Candidates(g), zero |-> FALSE]
  BY <1>3, <1>4, Zenon
<1>6. [pool |-> Candidates(g), zero |-> FALSE].pool = Candidates(g)
  BY ONLY SMT
<1> QED
  BY <1>2, <1>5, <1>6, Zenon

(* TopNIsStable: a healthy primary loses its place in the pool only to    *)
(* members that outrank it beyond the tolerance                           *)
(* (selectTopNWithTolerance).                                             *)
THEOREM HysteresisHolds == Spec => TopNIsStable
<1> DEFINE Stable(g) ==
      Rechosen(g) =>
        \A old \in Range(snapshot[g].pool) \ Range(snapshot'[g].pool) :
          LET newcomers == Range(snapshot'[g].pool) \ Range(snapshot[g].pool)
          IN Healthy(old) =>
               /\ ~setting.byMetric => \A new \in newcomers : Better(new, old)
               /\ Len(snapshot[g].pool) <= setting.top =>
                    \E new \in newcomers : Better(new, old)
<1>1. ASSUME IInv, [Next]_vars, NEW g \in Group PROVE Stable(g)
  <2> DEFINE previous == Range(snapshot[g].pool)
  <2> DEFINE c == snapshot'[g].pool
  <2> SUFFICES ASSUME Rechosen(g), NEW old \in previous \ Range(c), Healthy(old)
               PROVE  /\ ~setting.byMetric =>
                           \A new \in Range(c) \ previous : Better(new, old)
                      /\ Len(snapshot[g].pool) <= setting.top =>
                           \E new \in Range(c) \ previous : Better(new, old)
    BY Zenon
  <2>1. c = Candidates(g) /\ TypeOK
    BY <1>1, PoolsChangeInRebuilds, Zenon DEF Rechosen, IInv
  <2>2. old \in setting.primary[g]
    BY Zenon DEF Rechosen
  <2> DEFINE h == healthyCandidates(setting.primary[g])
  <2>3. /\ Range(h) = {m \in setting.primary[g] : Healthy(m)}
        /\ Chosen(h, setting.top, previous, Candidates(g))
    BY <2>1, <2>2, CandidatesAreMembers, Zenon
  <2>4. old \in (previous \cap Range(h)) \ Range(c)
    BY <2>2, <2>3, Zenon
  <2>5. ASSUME Len(snapshot[g].pool) <= setting.top
        PROVE  IsFiniteSet(previous) /\ Cardinality(previous) <= setting.top
    <3> DEFINE s == snapshot[g].pool
    <3>1. s \in Seq(Member)
      <4>1. snapshot[g] \in [pool : Seq(Member), zero : BOOLEAN]
        BY <2>1, Zenon DEF TypeOK
      <4> QED
        BY <4>1
    <3> HIDE DEF s
    <3>2. Len(s) \in Nat /\ DOMAIN s = 1 .. Len(s) /\ s \in [1 .. Len(s) -> Member]
      BY <3>1
    <3>3. s \in Surjection(1 .. Len(s), Range(s))
      BY <3>2, Zenon DEF Surjection, Range
    <3>4. ExistsSurjection(1 .. Len(s), Range(s))
      BY <3>3, Zenon DEF ExistsSurjection
    <3>5. IsFiniteSet(Range(s)) /\ Cardinality(Range(s)) <= Len(s)
      BY <3>2, <3>4, FS_SurjCardinalityBound, FS_NatSurjection, Zenon
    <3>6. Cardinality(Range(s)) \in Nat /\ setting.top \in Nat
      BY <3>5, <2>1, FS_CardinalityType, ConstantsAssumption, Zenon DEF TypeOK
    <3>7. Len(s) <= setting.top
      BY <2>5, Zenon DEF s
    <3>8. Cardinality(Range(s)) <= setting.top
      BY <3>2, <3>5, <3>6, <3>7
    <3> QED
      BY <3>5, <3>8, Zenon DEF s
  <2> QED
    BY <2>1, <2>3, <2>4, <2>5, Zenon DEF Chosen
<1>2. IInv /\ [Next]_vars => [\A g \in Group : Stable(g)]_vars
  BY <1>1, Zenon
<1> QED
  BY <1>2, Invariance, PTL DEF Spec, TopNIsStable

(* NothingBetterLeftOut: with the default sorter, no healthy primary left *)
(* out of the pool is better than a pool member beyond the tolerance,     *)
(* though the loop stops at the first that does not displace the worst.   *)
THEOREM NothingBetter == Spec => NothingBetterLeftOut
<1> DEFINE Best(g) ==
      Rechosen(g) /\ ~setting.byMetric =>
         \A new \in Range(snapshot'[g].pool),
            out \in setting.primary[g] \ Range(snapshot'[g].pool) :
              Healthy(out) => ~Better(out, new)
<1>1. ASSUME IInv, [Next]_vars, NEW g \in Group PROVE Best(g)
  <2> DEFINE c == snapshot'[g].pool
  <2> SUFFICES ASSUME Rechosen(g), ~setting.byMetric, NEW new \in Range(c),
                      NEW out \in setting.primary[g] \ Range(c), Healthy(out)
               PROVE  ~Better(out, new)
    BY Zenon
  <2>1. c = Candidates(g) /\ TypeOK
    BY <1>1, PoolsChangeInRebuilds, Zenon DEF Rechosen, IInv
  <2> DEFINE h == healthyCandidates(setting.primary[g])
  <2>2. /\ Range(h) = {m \in setting.primary[g] : Healthy(m)}
        /\ Chosen(h, setting.top, Range(snapshot[g].pool), Candidates(g))
    BY <2>1, CandidatesAreMembers, Zenon
  <2>3. out \in Range(h) \ Range(c)
    BY <2>2, Zenon
  <2> QED
    BY <2>1, <2>2, <2>3, Zenon DEF Chosen
<1>2. IInv /\ [Next]_vars => [\A g \in Group : Best(g)]_vars
  BY <1>1, Zenon
<1> QED
  BY <1>2, Invariance, PTL DEF Spec, NothingBetterLeftOut

=============================================================================
