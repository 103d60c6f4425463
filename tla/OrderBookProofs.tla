--------------------------- MODULE OrderBookProofs ---------------------------
(***************************************************************************)
(* Theorems about OrderBook, for any lists and quotes that have no price   *)
(* twice and any depth: the sides stay sorted, and what the loop of        *)
(* mergeSortedLists computes is what a merge means.                        *)
(***************************************************************************)
EXTENDS OrderBook, FiniteSetTheorems, SequenceTheorems, TLAPS

-----------------------------------------------------------------------------
(* Induction over the natural numbers, for a set: the least number that is *)
(* not in it would have a predecessor that is.                             *)
LEMMA SetInduction ==
  ASSUME NEW S, 0 \in S, \A n \in Nat : n \in S => n + 1 \in S
  PROVE  Nat \subseteq S
<1> SUFFICES ASSUME NEW k \in Nat, k \notin S PROVE FALSE
  OBVIOUS
<1> DEFINE bad == {1..n : n \in Nat \ S}
           R == StrictSubsetOrdering(Nat)
           F == FiniteSubsetsOf(Nat)
<1>1. PICK M \in bad : \A y \in bad : ~(<<y, M>> \in R)
  <2>1. bad \subseteq F
    <3>1. \A n \in Nat : 1..n \in SUBSET Nat /\ IsFiniteSet(1..n)
      BY FS_Interval
    <3>2. QED BY <3>1 DEF FiniteSubsetsOf
  <2>2. bad # {}
    OBVIOUS
  <2>3. IsWellFoundedOn(R, F)
    BY FS_StrictSubsetOrderingWellFounded
  <2> HIDE DEF bad, R, F
  <2>4. QED BY <2>1, <2>2, <2>3, WFMin
<1>2. PICK m \in Nat \ S : M = 1..m
  OBVIOUS
<1>3. m # 0 /\ m - 1 \in Nat \ S
  OBVIOUS
<1>4. <<1..(m - 1), 1..m>> \in R
  <2>1. 1..(m - 1) \subseteq 1..m /\ m \in 1..m /\ m \notin 1..(m - 1)
    BY <1>3
  <2>2. QED BY <2>1 DEF StrictSubsetOrdering
<1>5. QED BY <1>1, <1>2, <1>3, <1>4

-----------------------------------------------------------------------------
(* The rank of a level among levels of different prices is the number of   *)
(* those before it, and one.                                               *)
Distinct(levels) == \A l, m \in levels : l # m => l.price # m.price
Better(levels, isBid, l) == {m \in levels : Before(isBid, m, l)}
Rank(levels, isBid, l) == Cardinality(Better(levels, isBid, l)) + 1

(* Of two levels the one before the other has the lower rank, so ranks are *)
(* a bijection to 1..Cardinality(levels).                                  *)
LEMMA RanksOrdered ==
  ASSUME NEW S \in SUBSET Level, IsFiniteSet(S), NEW isBid \in BOOLEAN,
         NEW l \in S, NEW m \in S, Before(isBid, l, m)
  PROVE  Rank(S, isBid, l) < Rank(S, isBid, m)
<1> DEFINE bl == Better(S, isBid, l)
           bm == Better(S, isBid, m)
<1>1. bl \subseteq bm /\ l \in bm /\ l \notin bl /\ bm \subseteq S
  BY DEF Better, Before, Level
<1>2. IsFiniteSet(bm)
  BY <1>1, FS_Subset
<1> HIDE DEF bl, bm
<1>3. IsFiniteSet(bl) /\ Cardinality(bl) <= Cardinality(bm) /\ Cardinality(bl) # Cardinality(bm)
  BY <1>1, <1>2, FS_Subset
<1>4. Cardinality(bl) \in Nat /\ Cardinality(bm) \in Nat
  BY <1>2, <1>3, FS_CardinalityType
<1>5. Cardinality(bl) + 1 < Cardinality(bm) + 1
  BY <1>3, <1>4
<1>6. QED BY <1>5 DEF bl, bm, Rank

LEMMA RanksBijective ==
  ASSUME NEW S \in SUBSET Level, IsFiniteSet(S), Distinct(S), NEW isBid \in BOOLEAN
  PROVE  /\ \A l \in S : Rank(S, isBid, l) \in 1..Cardinality(S)
         /\ \A l, m \in S : Rank(S, isBid, l) = Rank(S, isBid, m) => l = m
         /\ \A i \in 1..Cardinality(S) : \E l \in S : Rank(S, isBid, l) = i
<1> DEFINE n == Cardinality(S)
<1>1. n \in Nat
  BY FS_CardinalityType
<1>2. ASSUME NEW l \in S PROVE Rank(S, isBid, l) \in 1..n
  <2>1. Better(S, isBid, l) \subseteq S \ {l}
    BY DEF Better, Before, Level
  <2>2. IsFiniteSet(S \ {l}) /\ Cardinality(S \ {l}) = n - 1
    BY FS_RemoveElement
  <2>3. /\ IsFiniteSet(Better(S, isBid, l))
        /\ Cardinality(Better(S, isBid, l)) <= n - 1
    BY <2>1, <2>2, FS_Subset
  <2>4. Cardinality(Better(S, isBid, l)) \in Nat
    BY <2>3, FS_CardinalityType
  <2> HIDE DEF n
  <2>5. QED BY <2>3, <2>4, <1>1 DEF Rank
<1>3. ASSUME NEW l \in S, NEW m \in S, Rank(S, isBid, l) = Rank(S, isBid, m)
      PROVE  l = m
  <2>1. CASE l # m
    <3>1. Before(isBid, l, m) \/ Before(isBid, m, l)
      BY <2>1 DEF Distinct, Before, Level
    <3>2. Rank(S, isBid, l) \in Int /\ Rank(S, isBid, m) \in Int
      BY <1>2, <1>1
    <3>3. QED BY <3>1, <3>2, <1>3, RanksOrdered
  <2>2. QED BY <2>1
<1> DEFINE f == [l \in S |-> Rank(S, isBid, l)]
<1>4. f \in Injection(S, 1..n)
  <2>1. f \in [S -> 1..n]
    BY <1>2
  <2>2. \A a, b \in S : f[a] = f[b] => a = b
    BY <1>3
  <2> HIDE DEF f, n
  <2>3. QED BY <2>1, <2>2 DEF Injection, IsInjective
<1>5. f \in Surjection(S, 1..n)
  <2>1. IsFiniteSet(1..n) /\ Cardinality(1..n) = n
    BY <1>1, FS_Interval
  <2> HIDE DEF f
  <2>2. QED BY <2>1, <1>4, FS_Injection DEF n
<1>6. \A i \in 1..n : \E l \in S : f[l] = i
  <2> HIDE DEF f, n
  <2>1. QED BY <1>5 DEF Surjection
<1>7. QED BY <1>2, <1>3, <1>6

-----------------------------------------------------------------------------
(* What SortedList is: the levels, each once, best first.                  *)
LEMMA SortedListOf ==
  ASSUME NEW S \in SUBSET Level, IsFiniteSet(S), Distinct(S), NEW isBid \in BOOLEAN
  PROVE  /\ SortedList(S, isBid) \in Seq(Level)
         /\ Len(SortedList(S, isBid)) = Cardinality(S)
         /\ ToSet(SortedList(S, isBid)) = S
         /\ SideSorted(SortedList(S, isBid), isBid)
<1> DEFINE n == Cardinality(S)
           Good(list) == /\ ToSet(list) = S
                         /\ \A i, j \in 1..n : i < j => ~Before(isBid, list[j], list[i])
           s == SortedList(S, isBid)
<1>1. n \in Nat
  BY FS_CardinalityType
<1>2. \E list \in [1..n -> S] : Good(list)
  <2> DEFINE list == [i \in 1..n |-> CHOOSE l \in S : Rank(S, isBid, l) = i]
  <2>1. \A i \in 1..n : list[i] \in S /\ Rank(S, isBid, list[i]) = i
    <3> HIDE DEF n
    <3>1. \A i \in 1..n : \E l \in S : Rank(S, isBid, l) = i
      BY RanksBijective DEF n
    <3>2. QED BY <3>1
  <2>2. list \in [1..n -> S]
    BY <2>1
  <2>3. \A l \in S : \E i \in 1..n : l = list[i]
    <3> HIDE DEF list
    <3>1. QED BY <2>1, RanksBijective
  <2>4. ToSet(list) = S
    <3> HIDE DEF list, n
    <3>1. DOMAIN list = 1..n
      BY <2>2
    <3>2. QED BY <2>1, <2>3, <3>1 DEF ToSet
  <2>5. ASSUME NEW i \in 1..n, NEW j \in 1..n, i < j
        PROVE  ~Before(isBid, list[j], list[i])
    <3> HIDE DEF list
    <3>1. list[i] \in S /\ list[j] \in S
      BY <2>2
    <3>2. ~(Rank(S, isBid, list[j]) < Rank(S, isBid, list[i]))
      BY <2>1, <2>5, <1>1
    <3>3. QED BY <3>1, <3>2, RanksOrdered
  <2> HIDE DEF list
  <2>6. QED BY <2>2, <2>4, <2>5
<1>3. s \in [1..n -> S] /\ Good(s)
  BY <1>2, Zenon DEF SortedList
<1> HIDE DEF s
<1>4. s \in Seq(S) /\ Len(s) = n
  BY <1>1, <1>3
<1>5. s \in Seq(Level)
  BY <1>4
<1>6. \A i, j \in 1..n : s[i] = s[j] => i = j
  <2>1. s \in Surjection(1..n, S)
    <3>1. \A l \in S : \E i \in 1..n : s[i] = l
      BY <1>3 DEF ToSet
    <3>2. QED BY <1>3, <3>1 DEF Surjection
  <2>2. IsFiniteSet(1..n) /\ Cardinality(1..n) = n
    BY <1>1, FS_Interval
  <2>3. s \in Injection(1..n, S)
    BY <2>1, <2>2, FS_SurjSameCardinalityImpliesInj
  <2>4. QED BY <2>3 DEF Injection, IsInjective
<1>7. ASSUME NEW i \in 1..n, NEW j \in 1..n, i < j
      PROVE  Before(isBid, s[i], s[j])
  <2>1. s[i] \in S /\ s[j] \in S /\ s[i] # s[j]
    BY <1>1, <1>3, <1>6, <1>7
  <2>2. s[i].price # s[j].price
    BY <2>1 DEF Distinct
  <2>3. ~Before(isBid, s[j], s[i])
    BY <1>3, <1>7
  <2>4. QED BY <2>1, <2>2, <2>3 DEF Before, Level
<1>8. QED BY <1>3, <1>4, <1>5, <1>7 DEF SideSorted, s

(* The levels of a list in order: finitely many, of different prices.      *)
LEMMA LevelsOf ==
  ASSUME NEW s \in Seq(Level)
  PROVE  /\ ToSet(s) \in SUBSET Level /\ IsFiniteSet(ToSet(s))
         /\ ToSet(s) = {s[i] : i \in 1..Len(s)}
<1>1. DOMAIN s = 1..Len(s) /\ Len(s) \in Nat
  OBVIOUS
<1>2. ToSet(s) = {s[i] : i \in 1..Len(s)} /\ ToSet(s) \in SUBSET Level
  BY <1>1 DEF ToSet
<1>3. IsFiniteSet(1..Len(s))
  BY <1>1, FS_Interval
<1>4. s \in Surjection(1..Len(s), ToSet(s))
  BY <1>1, <1>2 DEF Surjection
<1>5. QED BY <1>2, <1>3, <1>4, FS_Surjection

LEMMA SortedDistinct ==
  ASSUME NEW s \in Seq(Level), NEW isBid \in BOOLEAN, SideSorted(s, isBid)
  PROVE  /\ \A i, j \in 1..Len(s) : i # j => s[i].price # s[j].price
         /\ \A i, j \in 1..Len(s) : Before(isBid, s[i], s[j]) => i < j
         /\ Distinct(ToSet(s))
<1>1. Len(s) \in Nat /\ \A i \in 1..Len(s) : s[i] \in Level
  OBVIOUS
<1>2. ASSUME NEW i \in 1..Len(s), NEW j \in 1..Len(s), i < j
      PROVE  s[i].price # s[j].price /\ ~Before(isBid, s[j], s[i])
  <2>1. Before(isBid, s[i], s[j]) /\ s[i] \in Level /\ s[j] \in Level
    BY <1>1, <1>2 DEF SideSorted
  <2>2. QED BY <2>1 DEF Before, Level
<1>3. ASSUME NEW i \in 1..Len(s), NEW j \in 1..Len(s), i # j
      PROVE  s[i].price # s[j].price
  <2>1. i < j \/ j < i
    BY <1>1, <1>3
  <2>2. QED BY <2>1, <1>2
<1>4. ASSUME NEW i \in 1..Len(s), NEW j \in 1..Len(s), Before(isBid, s[i], s[j])
      PROVE  i < j
  <2>1. s[i].price # s[j].price
    BY <1>1, <1>4 DEF Before, Level
  <2>2. i # j /\ ~(j < i)
    BY <2>1, <1>2, <1>4
  <2>3. QED BY <1>1, <2>2
<1>5. QED BY <1>3, <1>4, LevelsOf DEF Distinct

(* A level's rank among those of a list in order is where it stands.       *)
LEMMA RankInSorted ==
  ASSUME NEW s \in Seq(Level), NEW isBid \in BOOLEAN, SideSorted(s, isBid),
         NEW i \in 1..Len(s)
  PROVE  Rank(ToSet(s), isBid, s[i]) = i
<1> DEFINE earlier == {s[k] : k \in 1..(i - 1)}
           f == [k \in 1..(i - 1) |-> s[k]]
<1>1. Better(ToSet(s), isBid, s[i]) = earlier
  <2>1. \A k \in 1..(i - 1) : k \in 1..Len(s) /\ Before(isBid, s[k], s[i])
    BY DEF SideSorted
  <2>2. \A k \in 1..Len(s) : Before(isBid, s[k], s[i]) => k \in 1..(i - 1)
    BY SortedDistinct
  <2>3. QED BY <2>1, <2>2, LevelsOf DEF Better
<1>2. f \in Bijection(1..(i - 1), earlier)
  <2>1. \A j, k \in 1..(i - 1) : s[j] = s[k] => j = k
    BY SortedDistinct
  <2>2. f \in [1..(i - 1) -> earlier] /\ \A l \in earlier : \E k \in 1..(i - 1) : f[k] = l
    OBVIOUS
  <2>3. QED BY <2>1, <2>2 DEF Bijection, Injection, Surjection, IsInjective
<1>3. IsFiniteSet(1..(i - 1)) /\ Cardinality(1..(i - 1)) = i - 1
  BY FS_Interval
<1> HIDE DEF earlier, f
<1>4. Cardinality(earlier) = i - 1
  BY <1>2, <1>3, FS_Bijection DEF ExistsBijection
<1>5. QED BY <1>1, <1>4 DEF Rank

(* There is one list in order of given levels: two would have the same     *)
(* level at each place.                                                    *)
LEMMA SortedUnique ==
  ASSUME NEW s \in Seq(Level), NEW isBid \in BOOLEAN, SideSorted(s, isBid)
  PROVE  SortedList(ToSet(s), isBid) = s
<1> DEFINE S == ToSet(s)
           t == SortedList(S, isBid)
<1>1. S \in SUBSET Level /\ IsFiniteSet(S) /\ Distinct(S)
  BY LevelsOf, SortedDistinct
<1>2. t \in Seq(Level) /\ Len(t) = Cardinality(S) /\ ToSet(t) = S /\ SideSorted(t, isBid)
  BY <1>1, SortedListOf
<1> HIDE DEF t
<1>3. \A i \in 1..Len(t) : Rank(S, isBid, t[i]) = i
  BY <1>2, RankInSorted
<1>4. \A i \in 1..Len(s) : Rank(S, isBid, s[i]) = i /\ s[i] \in S
  BY RankInSorted, LevelsOf
<1>5. \A i \in 1..Len(t) : t[i] \in S
  BY <1>2, LevelsOf
<1> HIDE DEF S
<1>6. \A i \in 1..Len(s) : i \in 1..Cardinality(S)
  BY <1>1, <1>4, RanksBijective
<1>7. Cardinality(S) \in 1..Len(s) \/ Cardinality(S) = 0
  <2>1. Cardinality(S) \in Nat
    BY <1>1, FS_CardinalityType
  <2>2. CASE Cardinality(S) # 0
    <3>1. PICK l \in S : Rank(S, isBid, l) = Cardinality(S)
      BY <1>1, <2>1, <2>2, RanksBijective
    <3>2. PICK k \in 1..Len(s) : l = s[k]
      BY LevelsOf DEF S
    <3>3. QED BY <3>1, <3>2, <1>4
  <2>3. QED BY <2>2
<1>8. Len(s) = Len(t)
  BY <1>2, <1>6, <1>7
<1>9. \A i \in 1..Len(s) : s[i] = t[i]
  BY <1>1, <1>3, <1>4, <1>5, <1>8, RanksBijective
<1>10. s = t
  BY <1>2, <1>8, <1>9, SeqEqual
<1>11. QED BY <1>10 DEF t, S

-----------------------------------------------------------------------------
(* The loop of mergeSortedLists as a function of the two iterators.  Each  *)
(* round leaves fewer levels to look at, so there is such a function.      *)
Positions(old, new) == (1..(Len(old) + 1)) \X (1..(Len(new) + 1))
MergeFrom(old, new, isBid) ==
  CHOOSE f : f = [at \in Positions(old, new) |-> MergeRound(old, new, isBid, f, at[1], at[2])]
Left(old, new, at) == (Len(old) + 1 - at[1]) + (Len(new) + 1 - at[2])
SameBelow(old, new, g, h, k) ==
  \A at \in Positions(old, new) : Left(old, new, at) < k => g[at] = h[at]

LEMMA LeftToDo ==
  ASSUME NEW old \in Seq(Level), NEW new \in Seq(Level), NEW at \in Positions(old, new)
  PROVE  /\ at = <<at[1], at[2]>> /\ at[1] \in Nat /\ at[2] \in Nat
         /\ Left(old, new, at) \in Nat /\ Left(old, new, at) <= Len(old) + Len(new)
         /\ \A next \in {<<at[1] + 1, at[2]>>, <<at[1], at[2] + 1>>, <<at[1] + 1, at[2] + 1>>} :
              next \in Positions(old, new) => Left(old, new, next) < Left(old, new, at)
         /\ at[1] <= Len(old) => <<at[1] + 1, at[2]>> \in Positions(old, new)
         /\ at[2] <= Len(new) => <<at[1], at[2] + 1>> \in Positions(old, new)
         /\ at[1] <= Len(old) /\ at[2] <= Len(new)
              => <<at[1] + 1, at[2] + 1>> \in Positions(old, new)
<1>1. Len(old) \in Nat /\ Len(new) \in Nat
  OBVIOUS
<1>2. PICK i \in 1..(Len(old) + 1), j \in 1..(Len(new) + 1) : at = <<i, j>>
  BY DEF Positions
<1>3. QED BY <1>1, <1>2 DEF Positions, Left

LEMMA RoundLooksAhead ==
  ASSUME NEW old \in Seq(Level), NEW new \in Seq(Level), NEW isBid, NEW g, NEW h,
         NEW at \in Positions(old, new),
         SameBelow(old, new, g, h, Left(old, new, at))
  PROVE  MergeRound(old, new, isBid, g, at[1], at[2])
           = MergeRound(old, new, isBid, h, at[1], at[2])
<1> DEFINE i == at[1]  j == at[2]
<1>1. i <= Len(old) => g[<<i + 1, j>>] = h[<<i + 1, j>>]
  BY LeftToDo DEF SameBelow
<1>2. j <= Len(new) => g[<<i, j + 1>>] = h[<<i, j + 1>>]
  BY LeftToDo DEF SameBelow
<1>3. i <= Len(old) /\ j <= Len(new) => g[<<i + 1, j + 1>>] = h[<<i + 1, j + 1>>]
  BY LeftToDo DEF SameBelow
<1> HIDE DEF i, j
<1>4. MergeRound(old, new, isBid, g, i, j) = MergeRound(old, new, isBid, h, i, j)
  BY <1>1, <1>2, <1>3 DEF MergeRound
<1>5. QED BY <1>4 DEF i, j

LEMMA LoopEnds ==
  ASSUME NEW old \in Seq(Level), NEW new \in Seq(Level), NEW isBid
  PROVE  \E f : f = [at \in Positions(old, new) |-> MergeRound(old, new, isBid, f, at[1], at[2])]
<1> DEFINE P == Positions(old, new)
           Todo(at) == Left(old, new, at)
           Round(f, at) == MergeRound(old, new, isBid, f, at[1], at[2])
           Upto(f, k) == \A at \in P : Todo(at) < k => f[at] = Round(f, at)
           OK == {k \in Nat : \E f : Upto(f, k)}
<1>1. \A at \in P : Todo(at) \in Nat /\ Todo(at) < Len(old) + Len(new) + 1
  <2>1. ASSUME NEW at \in P
        PROVE  Todo(at) \in Nat /\ Todo(at) <= Len(old) + Len(new)
    BY LeftToDo
  <2>2. Len(old) + Len(new) \in Nat
    OBVIOUS
  <2> HIDE DEF P, Todo
  <2>3. QED BY <2>1, <2>2
<1>2. \A g, h : \A at \in P : SameBelow(old, new, g, h, Todo(at)) => Round(g, at) = Round(h, at)
  BY RoundLooksAhead
<1>3. \A g, h, k : SameBelow(old, new, g, h, k) <=> \A at \in P : Todo(at) < k => g[at] = h[at]
  BY DEF SameBelow
<1> HIDE DEF P, Todo, Round
<1>4. 0 \in OK
  <2>1. Upto(<<>>, 0)
    BY <1>1
  <2>2. QED BY <2>1
<1>5. ASSUME NEW k \in Nat, k \in OK PROVE k + 1 \in OK
  <2>1. PICK f : Upto(f, k)
    BY <1>5
  <2> DEFINE h == [at \in P |-> IF Todo(at) < k THEN f[at] ELSE Round(f, at)]
  <2>2. \A at \in P : h[at] = Round(f, at)
    BY <2>1
  <2>3. \A at \in P : Todo(at) < k => f[at] = h[at]
    OBVIOUS
  <2> HIDE DEF h
  <2>4. ASSUME NEW at \in P, Todo(at) < k + 1
        PROVE  h[at] = Round(h, at)
    <3>1. SameBelow(old, new, f, h, Todo(at))
      BY <1>1, <1>3, <2>3, <2>4
    <3>2. QED BY <1>2, <2>2, <3>1
  <2>5. QED BY <2>4
<1>6. Nat \subseteq OK
  <2> HIDE DEF OK
  <2>1. QED BY <1>4, <1>5, SetInduction
<1>7. PICK f : Upto(f, Len(old) + Len(new) + 1)
  BY <1>6
<1>8. \A at \in P : f[at] = Round(f, at)
  BY <1>1, <1>7
<1> DEFINE h == [at \in P |-> f[at]]
<1>9. \A at \in P : Round(f, at) = Round(h, at)
  <2>1. \A at \in P : f[at] = h[at]
    OBVIOUS
  <2> HIDE DEF h
  <2>2. QED BY <1>2, <1>3, <2>1
<1>10. h = [at \in P |-> Round(h, at)]
  BY <1>8, <1>9
<1>11. QED BY <1>10 DEF P, Round

LEMMA MergeRounds ==
  ASSUME NEW old \in Seq(Level), NEW new \in Seq(Level), NEW isBid
  PROVE  /\ MergeWalk(old, new, isBid) = MergeFrom(old, new, isBid)[<<1, 1>>]
         /\ \A at \in Positions(old, new) :
              MergeFrom(old, new, isBid)[at]
                = MergeRound(old, new, isBid, MergeFrom(old, new, isBid), at[1], at[2])
<1> DEFINE f == MergeFrom(old, new, isBid)
<1>1. MergeWalk(old, new, isBid) = f[<<1, 1>>]
  BY DEF MergeWalk, MergeFrom, Positions
<1>2. f = [at \in Positions(old, new) |-> MergeRound(old, new, isBid, f, at[1], at[2])]
  BY LoopEnds DEF MergeFrom
<1> HIDE DEF f
<1>3. \A at \in Positions(old, new) : f[at] = MergeRound(old, new, isBid, f, at[1], at[2])
  BY <1>2
<1>4. QED BY <1>1, <1>3 DEF f

-----------------------------------------------------------------------------
(* What a level more, old or new, adds to what a merge means.              *)
Says(l) == l.price >= 0 /\ l.qty >= 0

LEMMA OverrideSilent ==
  ASSUME NEW O \in SUBSET Level, NEW N \in SUBSET Level, NEW n \in Level, ~Says(n)
  PROVE  Override(O, N \cup {n}) = Override(O, N)
<1>1. {l \in N \cup {n} : l.price >= 0 /\ l.qty >= 0} = {l \in N : l.price >= 0 /\ l.qty >= 0}
  BY DEF Says
<1>2. QED BY <1>1 DEF Override

LEMMA OverrideNew ==
  ASSUME NEW O \in SUBSET Level, NEW N \in SUBSET Level, NEW n \in Level, Says(n),
         \A l \in O : l.price # n.price
  PROVE  Override(O, N \cup {n}) = Override(O, N) \cup (IF IsValid(n) THEN {n} ELSE {})
BY DEF Override, Says, IsValid

LEMMA OverrideOld ==
  ASSUME NEW O \in SUBSET Level, NEW N \in SUBSET Level, NEW o \in Level,
         \A m \in N : m.price # o.price
  PROVE  Override(O \cup {o}, N) = Override(O, N) \cup {o}
BY DEF Override

LEMMA OverrideDrop ==
  ASSUME NEW O \in SUBSET Level, NEW N \in SUBSET Level, NEW o \in Level,
         NEW n \in N, Says(n), n.price = o.price
  PROVE  Override(O \cup {o}, N) = Override(O, N)
BY DEF Override, Says

LEMMA LevelsJoined ==
  ASSUME NEW s \in Seq(Level), NEW t \in Seq(Level)
  PROVE  s \o t \in Seq(Level) /\ ToSet(s \o t) = ToSet(s) \cup ToSet(t)
<1>1. /\ s \o t \in Seq(Level) /\ Len(s \o t) = Len(s) + Len(t)
      /\ Len(s) \in Nat /\ Len(t) \in Nat
      /\ \A i \in 1..(Len(s) + Len(t)) :
           (s \o t)[i] = IF i <= Len(s) THEN s[i] ELSE t[i - Len(s)]
  OBVIOUS
<1>2. ASSUME NEW l \in ToSet(s \o t) PROVE l \in ToSet(s) \cup ToSet(t)
  <2>1. PICK i \in 1..(Len(s) + Len(t)) : l = (s \o t)[i]
    <3> DEFINE st == s \o t
    <3>1. st \in Seq(Level) /\ Len(st) = Len(s) + Len(t) /\ l \in ToSet(st)
      BY <1>1
    <3> HIDE DEF st
    <3>2. \E i \in 1..Len(st) : l = st[i]
      BY <3>1, LevelsOf
    <3>3. QED BY <3>1, <3>2 DEF st
  <2>2. i \in 1..Len(s) \/ i - Len(s) \in 1..Len(t)
    BY <1>1
  <2>3. QED BY <1>1, <2>1, <2>2, LevelsOf
<1>3. ASSUME NEW l \in ToSet(s) PROVE l \in ToSet(s \o t)
  <2>1. PICK i \in 1..Len(s) : l = s[i]
    BY LevelsOf
  <2>2. i \in 1..(Len(s) + Len(t)) /\ l = (s \o t)[i]
    BY <1>1, <2>1
  <2>3. QED BY <1>1, <2>2, LevelsOf
<1>4. ASSUME NEW l \in ToSet(t) PROVE l \in ToSet(s \o t)
  <2>1. PICK i \in 1..Len(t) : l = t[i]
    BY LevelsOf
  <2>2. i + Len(s) \in 1..(Len(s) + Len(t)) /\ l = (s \o t)[i + Len(s)]
    BY <1>1, <2>1
  <2>3. QED BY <1>1, <2>2, LevelsOf
<1>5. QED BY <1>1, <1>2, <1>3, <1>4

LEMMA PushedLevels ==
  ASSUME NEW l \in Level
  PROVE  Push(l) \in Seq(Level) /\ ToSet(Push(l)) = IF IsValid(l) THEN {l} ELSE {}
<1>1. <<l>> \in Seq(Level) /\ <<>> \in Seq(Level)
  OBVIOUS
<1>2. ToSet(<<l>>) = {l} /\ ToSet(<<>>) = {}
  BY DEF ToSet
<1>3. QED BY <1>1, <1>2 DEF Push

-----------------------------------------------------------------------------
(* From each place on, the loop pushes what is left of the old levels      *)
(* after those new ones that are left.                                     *)
LevelsFrom(list, i) == {list[k] : k \in i..Len(list)}
MergesFrom(old, new, isBid, at) ==
  /\ MergeFrom(old, new, isBid)[at] \in Seq(Level)
  /\ ToSet(MergeFrom(old, new, isBid)[at])
       = Override(LevelsFrom(old, at[1]), LevelsFrom(new, at[2]))

LEMMA OneMoreLevel ==
  ASSUME NEW s \in Seq(Level), NEW isBid \in BOOLEAN, SideSorted(s, isBid),
         NEW i \in 1..Len(s)
  PROVE  /\ s[i] \in Level /\ LevelsFrom(s, i + 1) \in SUBSET Level
         /\ LevelsFrom(s, i) = LevelsFrom(s, i + 1) \cup {s[i]}
         /\ s[i] \in LevelsFrom(s, i)
         /\ \A l \in LevelsFrom(s, i + 1) : Before(isBid, s[i], l)
<1>1. Len(s) \in Nat /\ \A k \in 1..Len(s) : s[k] \in Level
  OBVIOUS
<1>2. i..Len(s) = ((i + 1)..Len(s)) \cup {i} /\ (i + 1)..Len(s) \subseteq 1..Len(s)
  BY <1>1
<1>3. \A k \in (i + 1)..Len(s) : Before(isBid, s[i], s[k])
  BY <1>1 DEF SideSorted
<1>4. QED BY <1>1, <1>2, <1>3 DEF LevelsFrom

LEMMA NoMoreLevels ==
  ASSUME NEW s \in Seq(Level), NEW i \in Nat, i > Len(s)
  PROVE  LevelsFrom(s, i) = {}
BY DEF LevelsFrom

LEMMA RoundMerges ==
  ASSUME NEW isBid \in BOOLEAN,
         NEW old \in Seq(Level), SideSorted(old, isBid), SideValid(old),
         NEW new \in Seq(Level), SideSorted(new, isBid),
         NEW at \in Positions(old, new),
         \A next \in Positions(old, new) :
           Left(old, new, next) < Left(old, new, at) => MergesFrom(old, new, isBid, next)
  PROVE  MergesFrom(old, new, isBid, at)
<1> DEFINE i == at[1]
           j == at[2]
           f == MergeFrom(old, new, isBid)
           O == LevelsFrom(old, i)
           N == LevelsFrom(new, j)
           O1 == LevelsFrom(old, i + 1)
           N1 == LevelsFrom(new, j + 1)
           more == i <= Len(old)
           fresh == j <= Len(new)
<1>1. /\ i \in Nat \ {0} /\ j \in Nat \ {0} /\ Len(old) \in Nat /\ Len(new) \in Nat
      /\ more => i \in 1..Len(old)
      /\ fresh => j \in 1..Len(new)
  BY DEF Positions
<1>2. f[at] = MergeRound(old, new, isBid, f, i, j)
  BY MergeRounds
<1>3. /\ more => /\ f[<<i + 1, j>>] \in Seq(Level)
                 /\ ToSet(f[<<i + 1, j>>]) = Override(O1, N)
      /\ fresh => /\ f[<<i, j + 1>>] \in Seq(Level)
                  /\ ToSet(f[<<i, j + 1>>]) = Override(O, N1)
      /\ more /\ fresh => /\ f[<<i + 1, j + 1>>] \in Seq(Level)
                          /\ ToSet(f[<<i + 1, j + 1>>]) = Override(O1, N1)
  BY LeftToDo DEF MergesFrom
<1>4. more => /\ old[i] \in Level /\ O1 \in SUBSET Level /\ O = O1 \cup {old[i]} /\ old[i] \in O
              /\ \A l \in O1 : Before(isBid, old[i], l)
              /\ old[i].price > 0 /\ IsValid(old[i])
  BY <1>1, OneMoreLevel DEF SideValid, IsValid
<1>5. fresh => /\ new[j] \in Level /\ N1 \in SUBSET Level /\ N = N1 \cup {new[j]} /\ new[j] \in N
               /\ \A l \in N1 : Before(isBid, new[j], l)
  BY <1>1, OneMoreLevel
<1>6. (~more => O = {}) /\ (~fresh => N = {})
  BY <1>1, NoMoreLevels
<1>7. O \in SUBSET Level /\ N \in SUBSET Level
  BY <1>4, <1>5, <1>6
<1>8. SUFFICES f[at] \in Seq(Level) /\ ToSet(f[at]) = Override(O, N)
  BY DEF MergesFrom
<1> HIDE DEF i, j, f, O, N, O1, N1
<1>9. ASSUME NEW l \in Level, NEW rest \in Seq(Level), f[at] = Push(l) \o rest
      PROVE  /\ f[at] \in Seq(Level)
             /\ ToSet(f[at]) = ToSet(rest) \cup (IF IsValid(l) THEN {l} ELSE {})
  BY <1>9, PushedLevels, LevelsJoined
<1>17. (fresh /\ Says(new[j])) => ~(new[j].price < 0 \/ new[j].qty < 0)
  BY <1>5 DEF Says, Level
<1>18. more => old[i].price # 0
  BY <1>4 DEF Level
<1>10. CASE ~more /\ ~fresh
  <2>1. f[at] = <<>>
    BY <1>2, <1>10 DEF MergeRound
  <2>2. Override(O, N) = {}
    BY <1>6, <1>10 DEF Override
  <2>3. QED BY <2>1, <2>2 DEF ToSet
<1>11. CASE fresh /\ ~Says(new[j])
  <2>1. f[at] = f[<<i, j + 1>>]
    BY <1>2, <1>5, <1>11 DEF MergeRound, Says, Level
  <2>2. Override(O, N) = Override(O, N1)
    BY <1>5, <1>7, <1>11, OverrideSilent
  <2>3. QED BY <1>3, <1>11, <2>1, <2>2
<1>12. CASE ~more /\ fresh /\ Says(new[j])
  <2>1. f[at] = Push(new[j]) \o f[<<i, j + 1>>]
    BY <1>2, <1>12, <1>17, Zenon DEF MergeRound
  <2>2. Override(O, N) = Override(O, N1) \cup (IF IsValid(new[j]) THEN {new[j]} ELSE {})
    BY <1>5, <1>6, <1>7, <1>12, OverrideNew
  <2> DEFINE rest == f[<<i, j + 1>>]
  <2> HIDE DEF rest
  <2>3. /\ rest \in Seq(Level) /\ ToSet(rest) = Override(O, N1)
        /\ new[j] \in Level /\ f[at] = Push(new[j]) \o rest
    BY <1>3, <1>5, <1>12, <2>1 DEF rest
  <2>4. /\ f[at] \in Seq(Level)
        /\ ToSet(f[at]) = ToSet(rest) \cup (IF IsValid(new[j]) THEN {new[j]} ELSE {})
    BY <1>9, <2>3
  <2>5. QED BY <2>3, <2>4, <2>2
<1>13. CASE more /\ ~fresh
  <2>1. f[at] = Push(old[i]) \o f[<<i + 1, j>>]
    BY <1>2, <1>13, <1>18, Zenon DEF MergeRound
  <2>2. Override(O, N) = Override(O1, N) \cup {old[i]}
    BY <1>4, <1>6, <1>7, <1>13, OverrideOld
  <2> DEFINE rest == f[<<i + 1, j>>]
  <2> HIDE DEF rest
  <2>3. /\ rest \in Seq(Level) /\ ToSet(rest) = Override(O1, N)
        /\ old[i] \in Level /\ f[at] = Push(old[i]) \o rest
    BY <1>3, <1>4, <1>13, <2>1 DEF rest
  <2>4. /\ f[at] \in Seq(Level)
        /\ ToSet(f[at]) = ToSet(rest) \cup (IF IsValid(old[i]) THEN {old[i]} ELSE {})
    BY <1>9, <2>3
  <2>5. QED BY <2>3, <2>4, <1>4, <1>13, <2>2
<1>14. CASE more /\ fresh /\ Says(new[j]) /\ old[i].price = new[j].price
  <2>1. Override(O, N) = Override(O1, N)
    BY <1>4, <1>5, <1>7, <1>14, OverrideDrop
  <2>2. CASE new[j].qty > 0
    <3>1. f[at] = Push(new[j]) \o f[<<i + 1, j + 1>>]
      BY <1>2, <1>14, <1>17, <1>18, <2>2, Zenon DEF MergeRound
    <3>2. \A l \in O1 : l.price # new[j].price
      BY <1>4, <1>14 DEF Before, Level
    <3>3. Override(O1, N) = Override(O1, N1) \cup (IF IsValid(new[j]) THEN {new[j]} ELSE {})
      BY <1>4, <1>5, <1>14, <3>2, OverrideNew
    <3> DEFINE rest == f[<<i + 1, j + 1>>]
    <3> HIDE DEF rest
    <3>4. /\ rest \in Seq(Level) /\ ToSet(rest) = Override(O1, N1)
          /\ new[j] \in Level /\ f[at] = Push(new[j]) \o rest
      BY <1>3, <1>5, <1>14, <3>1 DEF rest
    <3>5. /\ f[at] \in Seq(Level)
          /\ ToSet(f[at]) = ToSet(rest) \cup (IF IsValid(new[j]) THEN {new[j]} ELSE {})
      BY <1>9, <3>4
    <3>6. QED BY <3>4, <3>5, <2>1, <3>3
  <2>3. CASE ~(new[j].qty > 0)
    <3>1. f[at] = f[<<i + 1, j>>]
      BY <1>2, <1>4, <1>5, <1>14, <2>3 DEF MergeRound, Says, Level
    <3>2. QED BY <1>3, <1>14, <2>1, <3>1
  <2>4. QED BY <2>2, <2>3
<1>15. CASE more /\ fresh /\ Says(new[j]) /\ Before(isBid, old[i], new[j])
  <2>1. old[i].price # new[j].price
    BY <1>4, <1>5, <1>15 DEF Before, Level
  <2>2. f[at] = Push(old[i]) \o f[<<i + 1, j>>]
    BY <1>2, <1>15, <1>17, <1>18, <2>1, Zenon DEF MergeRound
  <2>3. \A m \in N : m.price # old[i].price
    BY <1>4, <1>5, <1>15 DEF Before, Level
  <2>4. Override(O, N) = Override(O1, N) \cup {old[i]}
    BY <1>4, <1>7, <1>15, <2>3, OverrideOld
  <2> DEFINE rest == f[<<i + 1, j>>]
  <2> HIDE DEF rest
  <2>5. /\ rest \in Seq(Level) /\ ToSet(rest) = Override(O1, N)
        /\ old[i] \in Level /\ f[at] = Push(old[i]) \o rest
    BY <1>3, <1>4, <1>15, <2>2 DEF rest
  <2>6. /\ f[at] \in Seq(Level)
        /\ ToSet(f[at]) = ToSet(rest) \cup (IF IsValid(old[i]) THEN {old[i]} ELSE {})
    BY <1>9, <2>5
  <2>7. QED BY <2>5, <2>6, <1>4, <1>15, <2>4
<1>16. CASE more /\ fresh /\ Says(new[j]) /\ old[i].price # new[j].price
            /\ ~Before(isBid, old[i], new[j])
  <2>1. f[at] = Push(new[j]) \o f[<<i, j + 1>>]
    BY <1>2, <1>16, <1>17, <1>18, Zenon DEF MergeRound
  <2>2. \A l \in O : l.price # new[j].price
    BY <1>4, <1>5, <1>16 DEF Before, Level
  <2>3. Override(O, N) = Override(O, N1) \cup (IF IsValid(new[j]) THEN {new[j]} ELSE {})
    BY <1>5, <1>7, <1>16, <2>2, OverrideNew
  <2> DEFINE rest == f[<<i, j + 1>>]
  <2> HIDE DEF rest
  <2>4. /\ rest \in Seq(Level) /\ ToSet(rest) = Override(O, N1)
        /\ new[j] \in Level /\ f[at] = Push(new[j]) \o rest
    BY <1>3, <1>5, <1>16, <2>1 DEF rest
  <2>5. /\ f[at] \in Seq(Level)
        /\ ToSet(f[at]) = ToSet(rest) \cup (IF IsValid(new[j]) THEN {new[j]} ELSE {})
    BY <1>9, <2>4
  <2>6. QED BY <2>4, <2>5, <2>3
<1>19. QED BY <1>10, <1>11, <1>12, <1>13, <1>14, <1>15, <1>16

(* So the whole walk of mergeSortedLists over two lists in order pushes    *)
(* the merge of their levels, and nothing else.                            *)
THEOREM WalkMerges ==
  ASSUME NEW isBid \in BOOLEAN,
         NEW old \in Seq(Level), SideSorted(old, isBid), SideValid(old),
         NEW new \in Seq(Level), SideSorted(new, isBid)
  PROVE  /\ MergeWalk(old, new, isBid) \in Seq(Level)
         /\ ToSet(MergeWalk(old, new, isBid)) = Override(ToSet(old), ToSet(new))
<1> DEFINE P == Positions(old, new)
           Todo(at) == Left(old, new, at)
           OK(at) == MergesFrom(old, new, isBid, at)
           Done == {k \in Nat : \A at \in P : Todo(at) < k => OK(at)}
<1>1. \A at \in P : Todo(at) \in Nat
  BY LeftToDo
<1>2. \A at \in P : (\A next \in P : Todo(next) < Todo(at) => OK(next)) => OK(at)
  BY RoundMerges
<1> HIDE DEF P, Todo, OK
<1>3. 0 \in Done
  BY <1>1
<1>4. ASSUME NEW k \in Nat, k \in Done PROVE k + 1 \in Done
  <2>1. ASSUME NEW at \in P, Todo(at) < k + 1 PROVE OK(at)
    <3>1. \A next \in P : Todo(next) < Todo(at) => Todo(next) < k
      BY <1>1, <2>1
    <3>2. QED BY <1>2, <1>4, <3>1
  <2>2. QED BY <2>1
<1>5. Nat \subseteq Done
  <2> HIDE DEF Done
  <2>1. QED BY <1>3, <1>4, SetInduction
<1>6. <<1, 1>> \in P
  BY DEF P, Positions
<1>7. OK(<<1, 1>>)
  <2>1. Todo(<<1, 1>>) \in Nat
    BY <1>1, <1>6
  <2>2. Todo(<<1, 1>>) + 1 \in Done
    BY <1>5, <2>1
  <2>3. QED BY <1>6, <2>1, <2>2
<1>8. LevelsFrom(old, 1) = ToSet(old) /\ LevelsFrom(new, 1) = ToSet(new)
  BY LevelsOf DEF LevelsFrom
<1>9. QED BY <1>7, <1>8, MergeRounds DEF OK, MergesFrom

-----------------------------------------------------------------------------
(* What ValidOnly keeps, place by place.                                   *)
KeptUpto(list) ==
  CHOOSE f : f = [n \in 0..Len(list) |-> IF n = 0 THEN <<>> ELSE f[n - 1] \o Push(list[n])]

LEMMA KeptDefined ==
  ASSUME NEW list \in Seq(Level)
  PROVE  /\ ValidOnly(list) = KeptUpto(list)[Len(list)]
         /\ KeptUpto(list)[0] = <<>>
         /\ \A n \in 1..Len(list) :
              KeptUpto(list)[n] = KeptUpto(list)[n - 1] \o Push(list[n])
<1> DEFINE P == 0..Len(list)
           Step(f, n) == IF n = 0 THEN <<>> ELSE f[n - 1] \o Push(list[n])
           Upto(f, k) == \A n \in P : n < k => f[n] = Step(f, n)
           OK == {k \in Nat : \E f : Upto(f, k)}
<1>1. Len(list) \in Nat
  OBVIOUS
<1>2. \A n \in P : n \in Nat /\ (n # 0 => n - 1 \in P /\ n - 1 < n)
  BY <1>1
<1>3. \A g, h : \A n \in P : (n # 0 => g[n - 1] = h[n - 1]) => Step(g, n) = Step(h, n)
  OBVIOUS
<1> HIDE DEF Step
<1>4. 0 \in OK
  <2>1. Upto(<<>>, 0)
    BY <1>2
  <2>2. QED BY <2>1
<1>5. ASSUME NEW k \in Nat, k \in OK PROVE k + 1 \in OK
  <2>1. PICK f : Upto(f, k)
    BY <1>5
  <2> DEFINE h == [n \in P |-> IF n < k THEN f[n] ELSE Step(f, n)]
  <2>2. \A n \in P : h[n] = Step(f, n)
    BY <2>1
  <2>3. \A n \in P : n < k => f[n] = h[n]
    OBVIOUS
  <2> HIDE DEF h, P
  <2>4. ASSUME NEW n \in P, n < k + 1 PROVE h[n] = Step(h, n)
    <3>1. n # 0 => n - 1 \in P /\ n - 1 < k
      BY <1>2, <2>4
    <3>2. Step(f, n) = Step(h, n)
      BY <1>3, <2>3, <3>1
    <3>3. QED BY <2>2, <3>2
  <2>5. QED BY <2>4
<1>6. Nat \subseteq OK
  <2> HIDE DEF OK
  <2>1. QED BY <1>4, <1>5, SetInduction
<1>7. PICK f : Upto(f, Len(list) + 1)
  BY <1>1, <1>6
<1> DEFINE h == [n \in P |-> f[n]]
<1>8. \A n \in P : f[n] = Step(f, n)
  BY <1>1, <1>7
<1>9. h = [n \in P |-> Step(h, n)]
  <2>1. \A n \in P : n # 0 => f[n - 1] = h[n - 1]
    BY <1>2
  <2>2. \A n \in P : Step(f, n) = Step(h, n)
    <3> HIDE DEF h, P
    <3>1. QED BY <1>3, <2>1
  <2>3. QED BY <1>8, <2>2
<1> DEFINE kept == KeptUpto(list)
<1>10. kept = [n \in P |-> Step(kept, n)]
  <2>1. \E g : g = [n \in P |-> Step(g, n)]
    BY <1>9
  <2>2. QED BY <2>1, Zenon DEF KeptUpto, Step
<1>11. ValidOnly(list) = kept[Len(list)]
  BY DEF ValidOnly, KeptUpto
<1> HIDE DEF kept
<1>12. \A n \in P : kept[n] = Step(kept, n)
  BY <1>10
<1>13. \A n \in 1..Len(list) : n \in P /\ n # 0
  BY <1>1
<1>14. \A n : n # 0 => Step(kept, n) = kept[n - 1] \o Push(list[n])
  BY Zenon DEF Step
<1>15. 0 \in P /\ Step(kept, 0) = <<>>
  BY <1>1 DEF Step
<1> HIDE DEF P
<1>16. kept[0] = <<>> /\ \A n \in 1..Len(list) : kept[n] = kept[n - 1] \o Push(list[n])
  BY <1>12, <1>13, <1>14, <1>15, Zenon
<1>17. QED BY <1>11, <1>16, Zenon DEF kept

(* A level after all those of a list in order, put at its end.             *)
LEMMA SortedAppend ==
  ASSUME NEW s \in Seq(Level), NEW isBid \in BOOLEAN, SideSorted(s, isBid),
         NEW l \in Level, \A m \in ToSet(s) : Before(isBid, m, l)
  PROVE  SideSorted(s \o Push(l), isBid)
<1>1. CASE ~IsValid(l)
  <2>1. s \o Push(l) = s
    BY <1>1 DEF Push
  <2>2. QED BY <2>1
<1>2. CASE IsValid(l)
  <2> DEFINE t == s \o <<l>>
  <2>1. /\ Len(s) \in Nat /\ Len(t) = Len(s) + 1
        /\ \A i \in 1..Len(s) : t[i] = s[i] /\ s[i] \in ToSet(s)
        /\ t[Len(s) + 1] = l
    BY LevelsOf
  <2>2. Push(l) = <<l>>
    BY <1>2 DEF Push
  <2> HIDE DEF t
  <2>3. ASSUME NEW i \in 1..Len(t), NEW j \in 1..Len(t), i < j
        PROVE  Before(isBid, t[i], t[j])
    <3>1. i \in 1..Len(s) /\ (j \in 1..Len(s) \/ j = Len(s) + 1)
      BY <2>1, <2>3
    <3>2. CASE j \in 1..Len(s)
      BY <2>1, <2>3, <3>1, <3>2 DEF SideSorted
    <3>3. CASE j = Len(s) + 1
      BY <2>1, <3>1, <3>3
    <3>4. QED BY <3>1, <3>2, <3>3
  <2>4. QED BY <2>2, <2>3 DEF t, SideSorted
<1>3. QED BY <1>1, <1>2

LEMMA OnlyValidKept ==
  ASSUME NEW list \in Seq(Level), NEW isBid \in BOOLEAN, SideSorted(list, isBid)
  PROVE  /\ ValidOnly(list) \in Seq(Level)
         /\ ToSet(ValidOnly(list)) = {l \in ToSet(list) : IsValid(l)}
         /\ SideSorted(ValidOnly(list), isBid)
<1> DEFINE kept == KeptUpto(list)
           Seen(n) == {list[k] : k \in 1..n}
           Keeps(n) == /\ kept[n] \in Seq(Level)
                       /\ ToSet(kept[n]) = {l \in Seen(n) : IsValid(l)}
                       /\ SideSorted(kept[n], isBid)
           OK == {n \in Nat : n <= Len(list) => Keeps(n)}
<1>1. Len(list) \in Nat /\ \A n \in 1..Len(list) : list[n] \in Level
  OBVIOUS
<1>2. 0 \in OK
  <2>1. kept[0] = <<>>
    BY KeptDefined
  <2>2. ToSet(<<>>) = {} /\ SideSorted(<<>>, isBid) /\ <<>> \in Seq(Level)
    BY DEF ToSet, SideSorted
  <2>3. Seen(0) = {}
    OBVIOUS
  <2> HIDE DEF kept, Seen
  <2>4. QED BY <2>1, <2>2, <2>3
<1>3. ASSUME NEW n \in Nat, n \in OK PROVE n + 1 \in OK
  <2> SUFFICES ASSUME n + 1 <= Len(list) PROVE Keeps(n + 1)
    OBVIOUS
  <2> DEFINE l == list[n + 1]
             s == kept[n]
  <2>1. Keeps(n)
    BY <1>1, <1>3
  <2>2. n + 1 \in 1..Len(list) /\ l \in Level
    BY <1>1
  <2>3. kept[n + 1] = s \o Push(l)
    <3>1. \A k \in 1..Len(list) : kept[k] = kept[k - 1] \o Push(list[k])
      BY KeptDefined
    <3>2. \A k \in 1..Len(list) : \A p : p = k - 1 => kept[k] = kept[p] \o Push(list[k])
      BY <3>1, Zenon
    <3>3. n = (n + 1) - 1
      OBVIOUS
    <3>4. QED BY <2>2, <3>2, <3>3, Zenon
  <2>4. Seen(n + 1) = Seen(n) \cup {l}
    OBVIOUS
  <2>5. \A m \in Seen(n) : Before(isBid, m, l)
    BY <1>1, <2>2 DEF SideSorted
  <2> HIDE DEF kept, Seen, l
  <2>6. SideSorted(kept[n + 1], isBid)
    <3>1. \A m \in ToSet(s) : Before(isBid, m, l)
      BY <2>1, <2>5
    <3> HIDE DEF s
    <3>2. QED BY <2>1, <2>2, <2>3, <3>1, SortedAppend DEF s
  <2>7. kept[n + 1] \in Seq(Level) /\ ToSet(kept[n + 1]) = ToSet(s) \cup ToSet(Push(l))
    <3> HIDE DEF s
    <3>1. s \in Seq(Level) /\ Push(l) \in Seq(Level)
      BY <2>1, <2>2, PushedLevels DEF s
    <3>2. QED BY <2>3, <3>1, LevelsJoined
  <2>8. ToSet(Push(l)) = IF IsValid(l) THEN {l} ELSE {}
    BY <2>2, PushedLevels
  <2>9. ToSet(kept[n + 1]) = {m \in Seen(n + 1) : IsValid(m)}
    BY <2>1, <2>4, <2>7, <2>8
  <2>10. QED BY <2>6, <2>7, <2>9
<1>4. Nat \subseteq OK
  <2> HIDE DEF OK
  <2>1. QED BY <1>2, <1>3, SetInduction
<1>5. Keeps(Len(list))
  <2> HIDE DEF Keeps
  <2>1. \A n \in Nat : n <= Len(list) => Keeps(n)
    BY <1>4
  <2>2. QED BY <1>1, <2>1
<1>6. Seen(Len(list)) = ToSet(list)
  BY LevelsOf
<1> HIDE DEF Seen
<1>7. ValidOnly(list) = kept[Len(list)]
  BY KeptDefined
<1> HIDE DEF kept
<1>8. QED BY <1>5, <1>6, <1>7

(* A side of valid levels only, by its levels.                             *)
LEMMA ValidByLevels ==
  ASSUME NEW s \in Seq(Level)
  PROVE  SideValid(s) <=> \A l \in ToSet(s) : IsValid(l)
BY LevelsOf DEF SideValid

(* Cutting takes the end off a side.                                       *)
LEMMA CutKeepsFirst ==
  ASSUME NEW s \in Seq(Level), NEW isBid \in BOOLEAN, SideSorted(s, isBid), SideValid(s)
  PROVE  /\ CutTo(s, MaxDepth) \in Seq(Level)
         /\ SideSorted(CutTo(s, MaxDepth), isBid)
         /\ SideValid(CutTo(s, MaxDepth))
<1> DEFINE m == IF Len(s) < MaxDepth THEN Len(s) ELSE MaxDepth
           t == SubSeq(s, 1, m)
<1>1. Len(s) \in Nat /\ m \in Nat /\ m <= Len(s)
  BY DepthAssumption
<1> HIDE DEF m
<1>2. t \in Seq(Level) /\ Len(t) = m /\ \A i \in 1..m : t[i] = s[i]
  BY <1>1
<1> HIDE DEF t
<1>3. SideSorted(t, isBid) /\ SideValid(t)
  BY <1>1, <1>2 DEF SideSorted, SideValid
<1>4. QED BY <1>2, <1>3 DEF t, m, CutTo

-----------------------------------------------------------------------------
(* What the exchanges send.                                                *)
LEMMA ListSorts ==
  ASSUME NEW list, IsListOfLevels(list), NEW isBid \in BOOLEAN
  PROVE  /\ list \in Seq(Level) /\ Distinct(ToSet(list))
         /\ SortList(list, isBid) \in Seq(Level)
         /\ ToSet(SortList(list, isBid)) = ToSet(list)
         /\ SideSorted(SortList(list, isBid), isBid)
<1>1. list \in Seq(Level) /\ Distinct(ToSet(list))
  <2>1. /\ list \in Seq(Level)
        /\ \A i, j \in 1..Len(list) : i # j => list[i].price # list[j].price
    BY DEF IsListOfLevels
  <2>2. ToSet(list) = {list[i] : i \in 1..Len(list)}
    BY <2>1, LevelsOf
  <2>3. ASSUME NEW l \in ToSet(list), NEW m \in ToSet(list), l # m
        PROVE  l.price # m.price
    <3>1. PICK i \in 1..Len(list), j \in 1..Len(list) : l = list[i] /\ m = list[j]
      BY <2>2
    <3>2. QED BY <2>1, <2>3, <3>1
  <2>4. QED BY <2>1, <2>3 DEF Distinct
<1>2. ToSet(list) \in SUBSET Level /\ IsFiniteSet(ToSet(list))
  BY <1>1, LevelsOf
<1>3. QED BY <1>1, <1>2, SortedListOf DEF SortList

(* A merge of levels of different prices, old and new, has no price twice. *)
LEMMA OverrideDistinct ==
  ASSUME NEW O \in SUBSET Level, Distinct(O), \A l \in O : IsValid(l),
         NEW N \in SUBSET Level, Distinct(N)
  PROVE  /\ Override(O, N) \in SUBSET Level /\ Distinct(Override(O, N))
         /\ \A l \in Override(O, N) : IsValid(l)
BY DEF Override, Distinct

(* mergeSortedLists computes the merge of a side and the new levels.       *)
LEMMA ListsMerge ==
  ASSUME NEW isBid \in BOOLEAN,
         NEW old \in Seq(Level), SideSorted(old, isBid), SideValid(old),
         NEW new, IsListOfLevels(new)
  PROVE  /\ MergeSortedLists(old, new, isBid) = Merged(old, new, isBid)
         /\ Merged(old, new, isBid) \in Seq(Level)
         /\ SideSorted(Merged(old, new, isBid), isBid)
         /\ SideValid(Merged(old, new, isBid))
<1> DEFINE snew == SortList(new, isBid)
           O == ToSet(old)
           N == ToSet(new)
           walk == MergeWalk(old, snew, isBid)
<1>1. SortList(old, isBid) = old
  BY SortedUnique DEF SortList
<1>2. /\ new \in Seq(Level) /\ Distinct(N)
      /\ snew \in Seq(Level) /\ ToSet(snew) = N /\ SideSorted(snew, isBid)
  BY ListSorts
<1>3. /\ O \in SUBSET Level /\ Distinct(O) /\ \A l \in O : IsValid(l)
      /\ N \in SUBSET Level
  BY <1>2, LevelsOf, SortedDistinct, ValidByLevels
<1> HIDE DEF snew, O, N
<1>4. walk \in Seq(Level) /\ ToSet(walk) = Override(O, N)
  BY <1>2, WalkMerges DEF O
<1> HIDE DEF walk
<1>5. IsFiniteSet(Override(O, N))
  BY <1>4, LevelsOf
<1>6. /\ Override(O, N) \in SUBSET Level /\ Distinct(Override(O, N))
      /\ \A l \in Override(O, N) : IsValid(l)
  BY <1>2, <1>3, OverrideDistinct
<1> DEFINE merged == SortedList(Override(O, N), isBid)
<1>7. /\ merged \in Seq(Level) /\ SideSorted(merged, isBid)
      /\ ToSet(merged) = Override(O, N)
  BY <1>5, <1>6, SortedListOf
<1>8. SideValid(merged)
  <2> HIDE DEF merged
  <2>1. QED BY <1>6, <1>7, ValidByLevels
<1>9. MergeSortedLists(old, new, isBid) = merged
  <2>1. CASE new = <<>>
    <3>1. N = {}
      BY <2>1 DEF N, ToSet
    <3>2. Override(O, N) = O
      BY <3>1 DEF Override
    <3>3. merged = old
      BY <3>2, SortedUnique DEF O
    <3>4. QED BY <2>1, <3>3 DEF MergeSortedLists
  <2>2. CASE new # <<>>
    BY <1>1, <1>4, <2>2 DEF MergeSortedLists, SortList, walk, snew
  <2>3. QED BY <2>1, <2>2
<1>10. QED BY <1>7, <1>8, <1>9 DEF Merged, O, N

-----------------------------------------------------------------------------
(* The inductive invariant.  An incremental update only happens on a book  *)
(* of Kraken's, all of whose bids are valid, and each of its steps has     *)
(* done its part of the merge of the sides it found.                       *)
MergedSide(isBid) == IF isBid THEN Merged(before.bids, call.bids, TRUE)
                              ELSE Merged(before.asks, call.asks, FALSE)
MergeSoFar ==
  call.kind = "incremental" =>
    /\ exchange = "KRAKEN" /\ IsListOfLevels(call.asks)
    /\ pc = "mergeAsks" => bids = MergedSide(TRUE) /\ asks = before.asks
    /\ pc = "cutBids" => bids = MergedSide(TRUE) /\ asks = MergedSide(FALSE)
    /\ pc = "cutAsks" => bids = CutTo(MergedSide(TRUE), MaxDepth) /\ asks = MergedSide(FALSE)
    /\ pc = "return" => /\ bids = CutTo(MergedSide(TRUE), MaxDepth)
                        /\ asks = CutTo(MergedSide(FALSE), MaxDepth)

(* The strategy was told of the sides an update in progress began with.    *)
KnownOf(b, a) == IF untold THEN a = <<>> ELSE told = BestOf(b, a)
Heard == IF pc = "idle" THEN KnownOf(bids, asks) ELSE KnownOf(before.bids, before.asks)

IInv == TypeOK /\ BookSorted /\ MergeSoFar /\ CompleteReplaces /\ Heard

(* A step within an update tells the strategy nothing.                     *)
LEMMA StillHeard ==
  ASSUME Heard, pc # "idle", pc' # "idle", UNCHANGED <<before, told, untold>>
  PROVE  Heard'
BY DEF Heard, KnownOf

(* The first step of one keeps the sides it was told of.                   *)
LEMMA BeginHeard ==
  ASSUME Heard, pc = "idle", pc' # "idle", UNCHANGED <<told, untold>>,
         before' = [bids |-> bids, asks |-> asks]
  PROVE  Heard'
BY DEF Heard, KnownOf

LEMMA EmptySide ==
  /\ <<>> \in Seq(Level) /\ ToSet(<<>>) = {} /\ SideValid(<<>>)
  /\ SideSorted(<<>>, TRUE) /\ SideSorted(<<>>, FALSE)
BY DEF ToSet, SideValid, SideSorted

LEMMA OneLevelSide ==
  ASSUME NEW l \in Level
  PROVE  /\ <<l>> \in Seq(Level) /\ Len(<<l>>) = 1
         /\ SideSorted(<<l>>, TRUE) /\ SideSorted(<<l>>, FALSE)
         /\ IsValid(l) => SideValid(<<l>>)
<1> DEFINE s == <<l>>
<1>1. s \in Seq(Level) /\ Len(s) = 1 /\ s[1] = l
  OBVIOUS
<1> HIDE DEF s
<1>2. \A i \in 1..Len(s) : i = 1
  BY <1>1
<1>3. SideSorted(s, TRUE) /\ SideSorted(s, FALSE) /\ (IsValid(l) => SideValid(s))
  BY <1>1, <1>2 DEF SideValid, SideSorted
<1>4. QED BY <1>1, <1>3 DEF s

(* The best prices of sides are numbers.                                   *)
LEMMA BestTyped ==
  ASSUME NEW b \in Seq(Level), NEW a \in Seq(Level)
  PROVE  BestOf(b, a) \in [bid : Int, ask : Int]
<1>1. ASSUME NEW side \in Seq(Level) PROVE PriceAt(side, 1) \in Int
  <2>1. CASE side = <<>>
    BY <2>1 DEF PriceAt
  <2>2. CASE side # <<>>
    <3>1. 1 \in 1..Len(side)
      BY <2>2, LenProperties, EmptySeq
    <3>2. side[1] \in Level
      BY <3>1, ElementOfSeq
    <3>3. QED BY <2>2, <3>2 DEF PriceAt, Level
  <2>3. QED BY <2>1, <2>2
<1>2. QED BY <1>1 DEF BestOf

LEMMA EmptyAtFirst == ASSUME Init PROVE IInv
<1>1. call.kind = "none"
  BY DEF Init, NoCall
<1>2. TypeOK
  <2>1. bids \in Seq(Level) /\ asks \in Seq(Level) /\ told = BestOf(bids, asks)
    BY EmptySide DEF Init
  <2>2. told \in [bid : Int, ask : Int]
    BY <2>1, BestTyped
  <2>3. QED BY <1>1, <2>1, <2>2 DEF Init, TypeOK, Kinds, Outcomes
<1>3. BookSorted
  BY EmptySide DEF Init, BookSorted
<1>4. Heard
  BY DEF Init, Heard, KnownOf
<1>5. QED BY <1>1, <1>2, <1>3, <1>4 DEF IInv, MergeSoFar, CompleteReplaces

(* The first hold of an incremental update.                                *)
LEMMA BidsMerge ==
  ASSUME IInv, NEW b \in BidLists, NEW a \in AskLists, exchange = "KRAKEN", MergeBids(b, a)
  PROVE  IInv'
<1>1. /\ call'.kind = "incremental" /\ call'.bids = b /\ call'.asks = a
      /\ before'.bids = bids /\ before'.asks = asks
      /\ exchange' = exchange /\ asks' = asks /\ outcome' = outcome /\ pc' = "mergeAsks"
      /\ bids' = MergeSortedLists(bids, b, TRUE) /\ UNCHANGED <<told, untold>>
  BY DEF MergeBids, Begin, heard
<1>2. /\ bids \in Seq(Level) /\ SideSorted(bids, TRUE) /\ SideValid(bids)
      /\ IsListOfLevels(b) /\ IsListOfLevels(a)
  BY ListsAssumption DEF IInv, TypeOK, BookSorted
<1>3. /\ bids' = Merged(bids, b, TRUE) /\ bids' \in Seq(Level)
      /\ SideSorted(bids', TRUE) /\ SideValid(bids')
  BY <1>1, <1>2, ListsMerge
<1>4. TypeOK'
  BY <1>1, <1>3 DEF IInv, TypeOK, Kinds
<1>5. BookSorted'
  BY <1>1, <1>3 DEF IInv, BookSorted
<1>6. MergeSoFar'
  BY <1>1, <1>2, <1>3 DEF MergeSoFar, MergedSide
<1>7. Heard'
  BY <1>1, BeginHeard DEF MergeBids, Begin, IInv
<1>8. QED BY <1>1, <1>4, <1>5, <1>6, <1>7 DEF IInv, CompleteReplaces

(* The second one.                                                         *)
LEMMA AsksMerge == ASSUME IInv, MergeAsks PROVE IInv'
<1>1. /\ pc = "mergeAsks" /\ pc' = "cutBids" /\ call.kind = "incremental"
      /\ asks' = MergeSortedLists(asks, call.asks, FALSE)
      /\ UNCHANGED <<exchange, bids, call, before, outcome, told, untold>>
  BY DEF MergeAsks, IInv, TypeOK, heard
<1>2. /\ asks \in Seq(Level) /\ SideSorted(asks, FALSE) /\ SideValid(asks)
      /\ IsListOfLevels(call.asks) /\ asks = before.asks
      /\ bids = MergedSide(TRUE) /\ exchange = "KRAKEN"
  BY <1>1 DEF IInv, TypeOK, BookSorted, MergeSoFar
<1>3. /\ asks' = MergedSide(FALSE) /\ asks' \in Seq(Level)
      /\ SideSorted(asks', FALSE) /\ SideValid(asks')
  BY <1>1, <1>2, ListsMerge DEF MergedSide
<1>4. TypeOK'
  BY <1>1, <1>3 DEF IInv, TypeOK
<1>5. BookSorted'
  BY <1>1, <1>3 DEF IInv, BookSorted
<1>6. MergeSoFar'
  BY <1>1, <1>2, <1>3 DEF MergeSoFar, MergedSide
<1>7. Heard'
  BY <1>1, StillHeard DEF IInv
<1>8. QED BY <1>1, <1>4, <1>5, <1>6, <1>7 DEF IInv, CompleteReplaces

(* The cuts.                                                               *)
LEMMA BidsCut == ASSUME IInv, CutBids PROVE IInv'
<1>1. /\ pc = "cutBids" /\ pc' = "cutAsks" /\ call.kind = "incremental"
      /\ bids' = CutTo(bids, MaxDepth)
      /\ UNCHANGED <<exchange, asks, call, before, outcome, told, untold>>
  BY DEF CutBids, IInv, TypeOK, heard
<1>2. /\ bids \in Seq(Level) /\ SideSorted(bids, TRUE) /\ SideValid(bids)
      /\ IsListOfLevels(call.asks) /\ exchange = "KRAKEN"
      /\ bids = MergedSide(TRUE) /\ asks = MergedSide(FALSE)
  BY <1>1 DEF IInv, TypeOK, BookSorted, MergeSoFar
<1>3. bids' \in Seq(Level) /\ SideSorted(bids', TRUE) /\ SideValid(bids')
  BY <1>1, <1>2, CutKeepsFirst
<1>4. TypeOK'
  BY <1>1, <1>3 DEF IInv, TypeOK
<1>5. BookSorted'
  BY <1>1, <1>3 DEF IInv, BookSorted
<1>6. MergeSoFar'
  BY <1>1, <1>2 DEF MergeSoFar, MergedSide
<1>7. Heard'
  BY <1>1, StillHeard DEF IInv
<1>8. QED BY <1>1, <1>4, <1>5, <1>6, <1>7 DEF IInv, CompleteReplaces

LEMMA AsksCut == ASSUME IInv, CutAsks PROVE IInv'
<1>1. /\ pc = "cutAsks" /\ pc' = "return" /\ call.kind = "incremental"
      /\ asks' = CutTo(asks, MaxDepth)
      /\ UNCHANGED <<exchange, bids, call, before, outcome, told, untold>>
  BY DEF CutAsks, IInv, TypeOK, heard
<1>2. /\ asks \in Seq(Level) /\ SideSorted(asks, FALSE) /\ SideValid(asks)
      /\ IsListOfLevels(call.asks) /\ exchange = "KRAKEN"
      /\ bids = CutTo(MergedSide(TRUE), MaxDepth) /\ asks = MergedSide(FALSE)
  BY <1>1 DEF IInv, TypeOK, BookSorted, MergeSoFar
<1>3. asks' \in Seq(Level) /\ SideSorted(asks', FALSE) /\ SideValid(asks')
  BY <1>1, <1>2, CutKeepsFirst
<1>4. TypeOK'
  BY <1>1, <1>3 DEF IInv, TypeOK
<1>5. BookSorted'
  BY <1>1, <1>3 DEF IInv, BookSorted
<1>6. MergeSoFar'
  BY <1>1, <1>2 DEF MergeSoFar, MergedSide
<1>7. Heard'
  BY <1>1, StillHeard DEF IInv
<1>8. QED BY <1>1, <1>4, <1>5, <1>6, <1>7 DEF IInv, CompleteReplaces

(* A complete update: a list whose ends are in order is sorted.            *)
LEMMA EndsTellSorted ==
  ASSUME NEW list, IsListOfLevels(list), NEW isBid \in BOOLEAN, EndsTell(list, isBid),
         ~(list # <<>> /\ Before(isBid, Last(list), list[1]))
  PROVE  /\ ValidOnly(list) \in Seq(Level) /\ SideSorted(ValidOnly(list), isBid)
         /\ SideValid(ValidOnly(list))
         /\ ToSet(ValidOnly(list)) = {l \in ToSet(list) : IsValid(l)}
<1>1. list \in Seq(Level) /\ SideSorted(list, isBid)
  <2>1. CASE list = <<>>
    BY <2>1 DEF IsListOfLevels, SideSorted
  <2>2. CASE list # <<>>
    <3>1. list = SortList(list, isBid)
      BY <2>2 DEF EndsTell
    <3>2. QED BY <3>1, ListSorts
  <2>3. QED BY <2>1, <2>2
<1>2. /\ ValidOnly(list) \in Seq(Level) /\ SideSorted(ValidOnly(list), isBid)
      /\ ToSet(ValidOnly(list)) = {l \in ToSet(list) : IsValid(l)}
  BY <1>1, OnlyValidKept
<1>3. SideValid(ValidOnly(list))
  BY <1>2, ValidByLevels
<1>4. QED BY <1>2, <1>3

LEMMA BookReplaced ==
  ASSUME IInv, NEW b \in BidLists, NEW a \in AskLists,
         EndsTell(b, TRUE), EndsTell(a, FALSE), ReplaceBook(b, a)
  PROVE  IInv'
<1> DEFINE badBids == b # <<>> /\ Before(TRUE, Last(b), b[1])
           badAsks == a # <<>> /\ Before(FALSE, Last(a), a[1])
<1>1. /\ call'.kind = "complete" /\ call'.bids = b /\ call'.asks = a
      /\ exchange' = exchange
      /\ bids' = IF badBids THEN <<>> ELSE ValidOnly(b)
      /\ asks' = IF badBids \/ badAsks THEN <<>> ELSE ValidOnly(a)
      /\ badBids \/ badAsks =>
           /\ pc' = "idle" /\ outcome' = "UPDATE_ERROR" /\ untold' = TRUE
           /\ told' = BestOf(<<>>, <<>>)
      /\ ~(badBids \/ badAsks) =>
           pc' = "return" /\ outcome' = outcome /\ UNCHANGED <<told, untold>>
      /\ pc = "idle" /\ before' = [bids |-> bids, asks |-> asks]
  BY DEF ReplaceBook, Begin, CallsNobody, heard
<1>2. IsListOfLevels(b) /\ IsListOfLevels(a)
  BY ListsAssumption
<1>3. ~badBids => /\ ValidOnly(b) \in Seq(Level) /\ SideSorted(ValidOnly(b), TRUE)
                  /\ SideValid(ValidOnly(b))
                  /\ ToSet(ValidOnly(b)) = {l \in ToSet(b) : IsValid(l)}
  BY <1>2, EndsTellSorted
<1>4. ~badAsks => /\ ValidOnly(a) \in Seq(Level) /\ SideSorted(ValidOnly(a), FALSE)
                  /\ SideValid(ValidOnly(a))
                  /\ ToSet(ValidOnly(a)) = {l \in ToSet(a) : IsValid(l)}
  BY <1>2, EndsTellSorted
<1> HIDE DEF badBids, badAsks
<1>5. TypeOK'
  <2>1. BestOf(<<>>, <<>>) \in [bid : Int, ask : Int]
    BY EmptySide, BestTyped
  <2>2. told' \in [bid : Int, ask : Int] /\ untold' \in BOOLEAN
    BY <1>1, <2>1 DEF IInv, TypeOK
  <2>3. QED BY <1>1, <1>3, <1>4, <2>2, EmptySide DEF IInv, TypeOK, Kinds, Outcomes
<1>6. BookSorted'
  BY <1>1, <1>3, <1>4, EmptySide DEF BookSorted
<1>7. CompleteReplaces'
  BY <1>1, <1>3, <1>4, EmptySide DEF CompleteReplaces
<1>8. Heard'
  <2>1. CASE badBids \/ badAsks
    BY <1>1, <2>1 DEF Heard, KnownOf
  <2>2. CASE ~(badBids \/ badAsks)
    BY <1>1, <2>2, BeginHeard DEF IInv
  <2>3. QED BY <2>1, <2>2
<1>9. QED BY <1>1, <1>5, <1>6, <1>7, <1>8 DEF IInv, MergeSoFar

(* Best prices: a bid without a price or a quantity comes from Crypto only *)
(* and then is only ever alone.                                            *)
LEMMA BestSet ==
  ASSUME IInv, NEW bid \in Level, NEW ask \in Level, SetBestBidAsk(bid, ask),
         IsValid(bid) \/ exchange = "CRYPTO"
  PROVE  IInv'
<1>1. /\ call'.kind = "best" /\ exchange' = exchange /\ pc' = "return" /\ outcome' = outcome
      /\ bids' = IF Len(bids) = 1 \/ IsValid(bid) THEN <<bid>> ELSE bids
      /\ asks' = IF IsValid(ask) THEN <<ask>> ELSE asks
      /\ UNCHANGED <<told, untold>>
  BY DEF SetBestBidAsk, Begin, heard
<1>2. TypeOK'
  BY <1>1, OneLevelSide DEF IInv, TypeOK, Kinds
<1>3. SideSorted(bids', TRUE) /\ SideSorted(asks', FALSE) /\ SideValid(asks')
  BY <1>1, OneLevelSide DEF IInv, BookSorted
<1>4. SideValid(bids') \/ (exchange' = "CRYPTO" /\ Len(bids') = 1)
  BY <1>1, OneLevelSide DEF IInv, BookSorted
<1>5. Heard'
  BY <1>1, BeginHeard DEF IInv, SetBestBidAsk, Begin
<1>6. QED BY <1>1, <1>2, <1>3, <1>4, <1>5 DEF IInv, BookSorted, MergeSoFar, CompleteReplaces

LEMMA QuoteLevels ==
  ASSUME NEW q \in Quotes \cup {NoQuote}
  PROVE  q \in Level /\ (q # NoQuote => IsValid(q))
<1>1. NoQuote \in Level
  BY DEF NoQuote, Level
<1>2. QED BY <1>1, QuotesAssumption

(* A best ask of 0 is no ask.                                              *)
LEMMA NoAskPrice ==
  ASSUME NEW a \in Seq(Level), SideValid(a), PriceAt(a, 1) = 0
  PROVE  a = <<>>
<1>1. SUFFICES ASSUME a # <<>> PROVE FALSE
  OBVIOUS
<1>2. 1 \in 1..Len(a)
  BY <1>1, LenProperties, EmptySeq
<1>3. a[1] \in Level /\ a[1].price > 0
  BY <1>2, ElementOfSeq DEF SideValid, IsValid
<1>4. QED BY <1>1, <1>3 DEF PriceAt, Level

LEMMA Returned == ASSUME IInv, Return PROVE IInv'
<1> DEFINE old == BestPrices(before.bids, before.asks)
           new == BestPrices(bids, asks)
<1>1. /\ call'.kind = "none" /\ pc = "return" /\ pc' = "idle" /\ outcome' \in Outcomes
      /\ UNCHANGED <<exchange, bids, asks>>
  BY DEF Return, NoCall, Outcomes, book
<1>2. CASE HasPricesChanged(old, new)
  <2>1. told' = BestOf(bids, asks) /\ untold' = FALSE
    BY <1>2 DEF Return
  <2>2. told' \in [bid : Int, ask : Int] /\ Heard'
    BY <1>1, <2>1, BestTyped DEF IInv, TypeOK, Heard, KnownOf
  <2>3. QED
    BY <1>1, <2>1, <2>2 DEF IInv, TypeOK, Kinds, BookSorted, MergeSoFar, CompleteReplaces
<1>3. CASE ~HasPricesChanged(old, new)
  <2>1. UNCHANGED <<told, untold>>
    BY <1>3 DEF Return, heard
  <2>2. old = new
    BY <1>3 DEF HasPricesChanged
  <2>3. old.bestBid = new.bestBid /\ old.bestAsk = new.bestAsk
    BY <2>2
  <2>4. /\ PriceAt(before.bids, 1) = PriceAt(bids, 1)
        /\ PriceAt(before.asks, 1) = PriceAt(asks, 1)
    BY <2>3 DEF BestPrices
  <2>5. Heard'
    <3>1. CASE untold
      <4>1. PriceAt(asks, 1) = 0
        BY <1>1, <2>4, <3>1 DEF IInv, Heard, KnownOf, PriceAt
      <4>2. asks = <<>>
        BY <4>1, NoAskPrice DEF IInv, TypeOK, BookSorted
      <4>3. QED BY <1>1, <2>1, <3>1, <4>2 DEF Heard, KnownOf
    <3>2. CASE ~untold
      <4>1. told = BestOf(before.bids, before.asks)
        BY <1>1, <3>2 DEF IInv, Heard, KnownOf
      <4>2. told = BestOf(bids, asks)
        BY <2>4, <4>1 DEF BestOf
      <4>3. QED BY <1>1, <2>1, <3>2, <4>2 DEF Heard, KnownOf
    <3>3. QED BY <3>1, <3>2
  <2>6. QED
    BY <1>1, <2>1, <2>5 DEF IInv, TypeOK, Kinds, BookSorted, MergeSoFar, CompleteReplaces
<1>4. QED BY <1>2, <1>3

LEMMA IInvKept == ASSUME IInv, [Next]_vars PROVE IInv'
<1>1. ASSUME NEW b \in BidLists, NEW a \in AskLists, exchange = "KRAKEN" /\ MergeBids(b, a)
      PROVE  IInv'
  BY <1>1, BidsMerge
<1>2. ASSUME NEW b \in BidLists, NEW a \in AskLists,
             EndsTell(b, TRUE) /\ EndsTell(a, FALSE) /\ ReplaceBook(b, a)
      PROVE  IInv'
  BY <1>2, BookReplaced
<1>3. ASSUME NEW b \in Quotes \cup {NoQuote}, NEW a \in Quotes \cup {NoQuote},
             OkxLevel1(b, a) \/ KucoinLevel1(b, a) \/ CryptoLevel1(b, a) \/ KrakenTicker(b, a)
      PROVE  IInv'
  <2>1. /\ SetBestBidAsk(b, a)
        /\ exchange = "CRYPTO" \/ b # NoQuote
    BY <1>3 DEF OkxLevel1, KucoinLevel1, CryptoLevel1, KrakenTicker, Refused
  <2>2. QED BY <2>1, QuoteLevels, BestSet
<1>4. ASSUME UNCHANGED vars PROVE IInv'
  BY <1>4 DEF vars, book, heard, IInv, TypeOK, BookSorted, MergeSoFar, MergedSide,
     CompleteReplaces, Heard, KnownOf
<1>5. QED BY <1>1, <1>2, <1>3, <1>4, AsksMerge, BidsCut, AsksCut, Returned DEF Next

LEMMA IInvAlways == Spec => []IInv
<1>1. Init => IInv
  BY EmptyAtFirst
<1>2. IInv /\ [Next]_vars => IInv'
  BY IInvKept
<1>3. QED BY <1>1, <1>2, PTL DEF Spec

-----------------------------------------------------------------------------
(* The book's types, and that only an incremental update has steps between *)
(* its beginning and its return.                                           *)
THEOREM TypeCorrect == Spec => []TypeOK
<1>1. IInv => TypeOK
  BY DEF IInv
<1>2. QED BY <1>1, IInvAlways, PTL

(* Whoever copies a side, at whatever moment of an update, finds it best   *)
(* level first, no price twice, and no level without a price or quantity,  *)
(* but for a bid of Crypto that is alone (update, setBestBidAsk).          *)
THEOREM BookStaysSorted == Spec => []BookSorted
<1>1. IInv => BookSorted
  BY DEF IInv
<1>2. QED BY <1>1, IInvAlways, PTL

(* An incremental update leaves the MaxDepth best of the levels that the   *)
(* merge of the old side and the list means (mergeSortedLists).            *)
THEOREM MergeIsOverride == Spec => []MergeOverrides
<1>1. IInv => MergeOverrides
  BY DEF IInv, MergeSoFar, MergedSide, MergeOverrides
<1>2. QED BY <1>1, IInvAlways, PTL

(* No level of the old book survives a complete update, and an accepted    *)
(* one leaves each valid level of its lists (update, complete).            *)
THEOREM CompleteIsReplace == Spec => []CompleteReplaces
<1>1. IInv => CompleteReplaces
  BY DEF IInv
<1>2. QED BY <1>1, IInvAlways, PTL

(* Whatever updates called nobody, between two of them the strategy's last *)
(* call showed the best prices of now, unless a complete update has failed *)
(* since: the book then has no asks (orderbook.cpp 172-226).               *)
THEOREM StrategyIsTold == Spec => []StrategyKnowsBest
<1>1. IInv => StrategyKnowsBest
  BY DEF IInv, Heard, KnownOf, StrategyKnowsBest
<1>2. QED BY <1>1, IInvAlways, PTL
=============================================================================
