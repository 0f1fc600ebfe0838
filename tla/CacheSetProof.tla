--------------------------- MODULE CacheSetProof ---------------------------
(***************************************************************************)
(* Proofs about the replacement policy of cache.c, for every associativity *)
(* the code accepts and any number of accesses: the matrix is the order of *)
(* use, and a set with its matrix is a list of blocks in that order.       *)
(***************************************************************************)
EXTENDS CacheSim, WellFoundedInduction, FiniteSetTheorems, SequenceTheorems, TLAPS

----------------------------------------------------------------------------
(* What lru and select_line return, for every associativity                *)

\* Every nonempty set of natural numbers has a least element.
LEMMA LeastNatural ==
    ASSUME NEW T \in SUBSET Nat, T # {}
    PROVE  \E x \in T : \A y \in T : x <= y
<1> DEFINE Less == OpToRel(<, Nat)
<1>1. PICK x \in T : \A y \in T : <<y, x>> \notin Less
  <2>1. IsWellFoundedOn(Less, Nat)
    BY NatLessThanWellFounded
  <2> HIDE DEF Less
  <2> QED  BY <2>1, WFMin
<1>2. ASSUME NEW y \in T PROVE x <= y
  <2>1. x \in Nat /\ y \in Nat /\ ~(y < x)
    BY <1>1 DEF OpToRel
  <2> QED  BY <2>1
<1> QED  BY <1>2

\* The ways are numbered from 0, and -1 is none of them.
LEMMA WaysAreNaturals == Ways \subseteq Nat /\ 0 \in Ways /\ NoWay \notin Ways
  BY AssociativityAssumption DEF Ways, NoWay

\* What lru returns: an all-zero row when there is one, and always a way.
LEMMA VictimIsZeroRow ==
    ASSUME NEW m, ZeroRows(m) # {}
    PROVE  Victim(m) \in ZeroRows(m)
<1>1. ZeroRows(m) \in SUBSET Nat
  BY WaysAreNaturals DEF ZeroRows
<1>2. \E r \in ZeroRows(m) : \A q \in ZeroRows(m) : r <= q
  BY <1>1, LeastNatural
<1> QED  BY <1>2 DEF Victim

\* Every row all-zero or not, lru returns a way.
LEMMA VictimIsWay ==
    ASSUME NEW m
    PROVE  Victim(m) \in Ways
<1>1. CASE ZeroRows(m) = {}
  BY <1>1, WaysAreNaturals DEF Victim
<1>2. CASE ZeroRows(m) # {}
  BY <1>2, VictimIsZeroRow DEF ZeroRows
<1> QED  BY <1>1, <1>2

\* What select_line returns when a way is free.
LEMMA SelectLineIsFree ==
    ASSUME NEW held, NEW next, NEW w0 \in Ways, ~held[w0]
    PROVE  /\ SelectLine(held, next) \in Ways
           /\ ~held[SelectLine(held, next)]
<1> DEFINE Free == {w \in Ways : ~held[w]}
<1>1. Free \in SUBSET Nat /\ Free # {}
  BY WaysAreNaturals
<1>2. \E w \in Free : \A v \in Free : w <= v
  <2> HIDE DEF Free
  <2> QED  BY <1>1, LeastNatural
<1>3. \E w \in Ways : ~held[w] /\ \A v \in Ways : ~held[v] => w <= v
  BY <1>2
<1> QED  BY <1>3 DEF SelectLine

----------------------------------------------------------------------------
(* The inductive invariant: the matrix is the order of last use; ways used *)
(* at all were used at different times; a way holds a line once it has     *)
(* been used; and with no way free, next_lru is a row of zeros.            *)

UsedAtDifferentTimes == \A i, j \in Ways : last[i] = last[j] /\ last[i] > 0 => i = j
ValidIffUsed         == \A w \in Ways : valid[w] <=> last[w] > 0
NextIsOldest         == (\A w \in Ways : valid[w]) => next_lru \in ZeroRows(lru_matrix)

IInv == TypeOK /\ MatrixIsOrder /\ UsedAtDifferentTimes /\ ValidIffUsed /\ NextIsOldest

\* An empty set satisfies the invariant.
LEMMA InitIInv == Init => IInv
<1> SUFFICES ASSUME Init PROVE IInv
  OBVIOUS
<1> USE AssociativityAssumption, AccessBound, WaysAreNaturals DEF Init
<1>1. TypeOK
  BY DEF TypeOK, Matrices, NoOrder
<1>2. MatrixIsOrder
  BY DEF MatrixIsOrder, NoOrder
<1>3. UsedAtDifferentTimes /\ ValidIffUsed
  BY DEF UsedAtDifferentTimes, ValidIffUsed
<1>4. NextIsOldest
  BY DEF NextIsOldest
<1> QED  BY <1>1, <1>2, <1>3, <1>4 DEF IInv

\* A use of way w, whether a hit or a fill, keeps the matrix in step with the
\* order of use and leaves the oldest way in next_lru.
LEMMA UseKeepsOrder ==
    ASSUME IInv, NEW w \in Ways, now < ACCESS_MAX, Use(w),
           valid' = [valid EXCEPT ![w] = TRUE]
    PROVE  IInv'
<1> USE DEF IInv, TypeOK, Use
<1>0. last \in [Ways -> Nat] /\ now \in Nat /\ now' = now + 1
  BY AccessBound
<1>1. \A i \in Ways : last'[i] = IF i = w THEN now + 1 ELSE last[i]
  BY <1>0
<1>2. lru_matrix' \in Matrices
  BY DEF Touch, Matrices
<1>3. TypeOK'
  <2>1. valid' \in [Ways -> BOOLEAN]
    OBVIOUS
  <2>2. next_lru' \in Ways
    BY VictimIsWay
  <2>3. now' \in 0 .. ACCESS_MAX
    BY <1>0, AccessBound
  <2>4. last' \in [Ways -> 0 .. now']
    BY <1>0, <1>1
  <2> QED  BY <1>2, <2>1, <2>2, <2>3, <2>4
<1>4. \A i, j \in Ways : lru_matrix'[i][j] = IF j = w THEN FALSE
                                              ELSE IF i = w THEN TRUE ELSE lru_matrix[i][j]
  BY DEF Touch
<1>5. \A i \in Ways : last[i] \in Nat /\ last[i] <= now
  BY <1>0
<1>6. MatrixIsOrder'
  <2> SUFFICES ASSUME NEW i \in Ways, NEW j \in Ways
               PROVE  lru_matrix'[i][j] <=> last'[i] > last'[j]
    BY DEF MatrixIsOrder
  <2>1. CASE j = w
    <3>1. last'[j] = now + 1 /\ last'[i] \in Nat /\ last'[i] <= now + 1
      BY <2>1, <1>0, <1>1, <1>5
    <3>2. ~(last'[i] > last'[j])
      BY <3>1, <1>0
    <3>3. ~lru_matrix'[i][j]
      BY <2>1, <1>4
    <3> QED  BY <3>2, <3>3
  <2>2. CASE j # w /\ i = w
    <3>1. last'[i] > last'[j]
      BY <2>2, <1>0, <1>1, <1>5
    <3>2. lru_matrix'[i][j]
      BY <2>2, <1>4
    <3> QED  BY <3>1, <3>2
  <2>3. CASE j # w /\ i # w
    <3>1. last'[i] = last[i] /\ last'[j] = last[j]
      BY <2>3, <1>1
    <3>2. lru_matrix'[i][j] = lru_matrix[i][j]
      BY <2>3, <1>4
    <3> QED  BY <3>1, <3>2 DEF MatrixIsOrder
  <2> QED  BY <2>1, <2>2, <2>3
<1>7. UsedAtDifferentTimes'
  BY <1>0, <1>1, <1>5 DEF UsedAtDifferentTimes
<1>8. ValidIffUsed'
  BY <1>0, <1>1, <1>5 DEF ValidIffUsed
<1>9. NextIsOldest'
  <2> DEFINE Times == {last'[i] : i \in Ways}
  <2>1. Times \in SUBSET Nat /\ Times # {}
    BY <1>0, <1>1, WaysAreNaturals
  <2>2. PICK i \in Ways : \A j \in Ways : last'[i] <= last'[j]
    <3>1. \E x \in Times : \A y \in Times : x <= y
      <4> HIDE DEF Times
      <4> QED  BY <2>1, LeastNatural
    <3> QED  BY <3>1
  <2>3. \A j \in Ways : last'[i] \in Nat /\ last'[j] \in Nat
    BY <1>0, <1>1
  <2>4. \A j \in Ways : ~lru_matrix'[i][j]
    BY <2>2, <2>3, <1>6 DEF MatrixIsOrder
  <2>5. ZeroRows(lru_matrix') # {}
    BY <2>4 DEF ZeroRows
  <2> QED  BY <2>5, VictimIsZeroRow DEF NextIsOldest
<1> QED  BY <1>3, <1>6, <1>7, <1>8, <1>9

\* The way handle_miss fills.
LEMMA MissFillsWay ==
    ASSUME IInv
    PROVE  LET w == SelectLine(valid, next_lru)
           IN  /\ w \in Ways
               /\ valid[w] => (\A v \in Ways : valid[v]) /\ w \in ZeroRows(lru_matrix)
<1>1. CASE \A v \in Ways : valid[v]
  <2>1. SelectLine(valid, next_lru) = next_lru
    BY <1>1 DEF SelectLine
  <2>2. next_lru \in ZeroRows(lru_matrix)
    BY <1>1 DEF IInv, NextIsOldest
  <2> QED  BY <1>1, <2>1, <2>2 DEF ZeroRows
<1>2. CASE \E v \in Ways : ~valid[v]
  BY <1>2, SelectLineIsFree
<1> QED  BY <1>1, <1>2

\* Hits, fills and misses keep it.
LEMMA StepIInv == IInv /\ [Next]_vars => IInv'
<1> SUFFICES ASSUME IInv, [Next]_vars PROVE IInv'
  OBVIOUS
<1>1. CASE Miss
  BY <1>1, MissFillsWay, UseKeepsOrder DEF Miss
<1>2. ASSUME NEW w \in Ways, Hit(w) PROVE IInv'
  <2>1. valid' = [valid EXCEPT ![w] = TRUE]
    BY <1>2 DEF Hit, IInv, TypeOK
  <2> QED  BY <1>2, <2>1, UseKeepsOrder DEF Hit
<1>3. CASE UNCHANGED vars
  BY <1>3 DEF IInv, TypeOK, MatrixIsOrder, UsedAtDifferentTimes, ValidIffUsed,
              NextIsOldest, vars
<1> QED  BY <1>1, <1>2, <1>3 DEF Next

\* The invariant holds after any number of accesses to the set.
THEOREM Invariant == Spec => []IInv
  BY InitIInv, StepIInv, PTL DEF Spec

\* The matrix of cache.c is the order of last use, for every associativity.
THEOREM MatrixIsOrderAlways == Spec => []MatrixIsOrder
<1>1. IInv => MatrixIsOrder
  BY DEF IInv
<1> QED  BY <1>1, Invariant, PTL

\* A miss never evicts a line that was used after another line of its set.
THEOREM EvictsLeastRecentAlways == Spec => EvictsLeastRecent
<1> DEFINE Oldest == \A w \in Ways : valid[w] /\ last'[w] # last[w] /\ Miss =>
                         \A v \in Ways : valid[v] /\ (v # w => last[v] > last[w])
<1>1. IInv /\ [Next]_vars => [Oldest]_vars
  <2> SUFFICES ASSUME IInv, Miss, NEW w \in Ways, valid[w], last'[w] # last[w],
                      NEW v \in Ways
               PROVE  valid[v] /\ (v # w => last[v] > last[w])
    OBVIOUS
  <2> USE DEF IInv, TypeOK
  <2>1. w = SelectLine(valid, next_lru)
    BY MissFillsWay DEF Miss, Use
  <2>2. valid[v] /\ ~lru_matrix[w][v]
    BY <2>1, MissFillsWay DEF ZeroRows
  <2>3. last[w] \in Nat /\ last[v] \in Nat /\ last[v] > 0 /\ ~(last[w] > last[v])
    BY <2>2 DEF MatrixIsOrder, ValidIffUsed
  <2> QED  BY <2>2, <2>3 DEF UsedAtDifferentTimes
<1>2. Spec => [][Oldest]_vars
  <2> HIDE DEF Oldest
  <2> QED  BY <1>1, Invariant, PTL DEF Spec
<1> QED  BY <1>2 DEF EvictsLeastRecent

----------------------------------------------------------------------------
(* The set as a list.  Its invariant adds to the one above what each line  *)
(* holds: a block of the trace in every valid way, and no block twice.     *)

LinesTyped ==
    /\ tag \in [Ways -> Tags \cup {NoTag}]
    /\ dirty \in [Ways -> BOOLEAN]
    /\ pending \in Tags \cup {NoTag}
    /\ dirty_eviction_count \in Nat /\ clean_eviction_count \in Nat

HeldOnce ==
    /\ \A w \in Held : tag[w] \in Tags
    /\ \A v, w \in Held : tag[v] = tag[w] => v = w

LIInv == IInv /\ LinesTyped /\ HeldOnce

\* The ways used after way w, which its column of the matrix holds.
UsedAfter(w) == {v \in Held : lru_matrix[v][w]}

\* Counting the ways used later numbers the ways held from 1 to their number,
\* in the order of the matrix.
RanksOrder ==
    /\ IsFiniteSet(Held) /\ Cardinality(Held) \in Nat
    /\ \A w \in Held : Rank(w) \in 1 .. Cardinality(Held)
    /\ \A v, w \in Held : Rank(v) = Rank(w) => v = w
    /\ \A v, w \in Held : lru_matrix[v][w] <=> Rank(v) < Rank(w)
    /\ \A k \in 1 .. Cardinality(Held) : \E w \in Held : Rank(w) = k

\* The list has each block at the rank of its way.
ListByRank ==
    /\ RecentTags \in Seq(Tags)
    /\ Len(RecentTags) = Cardinality(Held)
    /\ \A w \in Held : RecentTags[Rank(w)] = tag[w]

\* The ways used after w are finitely many, and one fewer than its rank.
LEMMA UsedAfterIsFinite ==
    ASSUME IInv, NEW w \in Held
    PROVE  /\ IsFiniteSet(Held) /\ Cardinality(Held) \in Nat
           /\ UsedAfter(w) \subseteq Held \ {w}
           /\ IsFiniteSet(UsedAfter(w)) /\ Cardinality(UsedAfter(w)) \in Nat
           /\ Rank(w) = Cardinality(UsedAfter(w)) + 1
           /\ Rank(w) \in 1 .. Cardinality(Held)
<1>1. IsFiniteSet(Ways)
  BY AssociativityAssumption, FS_Interval DEF Ways
<1>2. Held \in SUBSET Ways
  BY DEF Held
<1>3. IsFiniteSet(Held)
  BY <1>1, <1>2, FS_Subset
<1>4. Cardinality(Held) \in Nat
  BY <1>3, FS_CardinalityType
<1>5. UsedAfter(w) \subseteq Held \ {w}
  <2>1. ~lru_matrix[w][w]
    <3>1. last[w] \in Int
      BY <1>2, AccessBound DEF IInv, TypeOK
    <3> QED  BY <1>2, <3>1 DEF IInv, MatrixIsOrder
  <2> QED  BY <2>1 DEF UsedAfter
<1>6. IsFiniteSet(Held \ {w}) /\ Cardinality(Held \ {w}) = Cardinality(Held) - 1
  BY <1>3, FS_RemoveElement
<1>7. IsFiniteSet(UsedAfter(w)) /\ Cardinality(UsedAfter(w)) <= Cardinality(Held \ {w})
  BY <1>5, <1>6, FS_Subset
<1>8. Cardinality(UsedAfter(w)) \in Nat
  BY <1>7, FS_CardinalityType
<1>9. Rank(w) = Cardinality(UsedAfter(w)) + 1
  BY DEF Rank, UsedAfter
<1>10. Rank(w) \in 1 .. Cardinality(Held)
  BY <1>4, <1>6, <1>7, <1>8, <1>9
<1> QED  BY <1>3, <1>4, <1>5, <1>7, <1>8, <1>9, <1>10

\* Of two ways, the one used later comes first.
LEMMA LaterComesFirst ==
    ASSUME IInv, NEW v \in Held, NEW w \in Held, last[v] > last[w]
    PROVE  Rank(v) < Rank(w)
<1>1. v \in Ways /\ w \in Ways
  BY DEF Held
<1>2. \A u \in Ways : last[u] \in Int
  BY AccessBound DEF IInv, TypeOK
<1>3. \A u \in Held : u \in Ways
  BY DEF Held
<1>4. UsedAfter(v) \subseteq UsedAfter(w)
  <2> SUFFICES ASSUME NEW u \in Held, lru_matrix[u][v]
               PROVE  lru_matrix[u][w]
    BY DEF UsedAfter
  <2>1. last[u] > last[v]
    BY <1>1, <1>3 DEF IInv, MatrixIsOrder
  <2>2. last[u] > last[w]
    BY <2>1, <1>1, <1>2, <1>3
  <2> QED  BY <2>2, <1>1, <1>3 DEF IInv, MatrixIsOrder
<1>5. v \in UsedAfter(w)
  BY <1>1 DEF UsedAfter, IInv, MatrixIsOrder
<1>6. v \notin UsedAfter(v)
  BY UsedAfterIsFinite
<1>7. Cardinality(UsedAfter(v)) <= Cardinality(UsedAfter(w))
      /\ Cardinality(UsedAfter(v)) # Cardinality(UsedAfter(w))
  BY <1>4, <1>5, <1>6, UsedAfterIsFinite, FS_Subset
<1> QED  BY <1>7, UsedAfterIsFinite

LEMMA RanksOrderHeld == IInv => RanksOrder
<1> SUFFICES ASSUME IInv PROVE RanksOrder
  OBVIOUS
<1> DEFINE n == Cardinality(Held)
<1>1. IsFiniteSet(Held) /\ n \in Nat
  <2>1. IsFiniteSet(Ways)
    BY AssociativityAssumption, FS_Interval DEF Ways
  <2>2. Held \in SUBSET Ways
    BY DEF Held
  <2>3. IsFiniteSet(Held)
    BY <2>1, <2>2, FS_Subset
  <2> QED  BY <2>3, FS_CardinalityType
<1>2. \A w \in Held : Rank(w) \in 1 .. n
  BY UsedAfterIsFinite
<1>3. \A v, w \in Held : last[v] > last[w] => Rank(v) < Rank(w)
  BY LaterComesFirst
<1>4. \A v \in Held : v \in Ways /\ last[v] \in Nat /\ last[v] > 0
  BY AccessBound DEF Held, IInv, TypeOK, ValidIffUsed
<1>5. ASSUME NEW v \in Held, NEW w \in Held PROVE Rank(v) = Rank(w) => v = w
  <2>1. Rank(v) = Rank(w) => ~(last[v] > last[w]) /\ ~(last[w] > last[v])
    BY <1>2, <1>3
  <2>2. Rank(v) = Rank(w) => last[v] = last[w]
    BY <2>1, <1>4
  <2> QED  BY <2>2, <1>4 DEF IInv, UsedAtDifferentTimes
<1>6. ASSUME NEW v \in Held, NEW w \in Held
      PROVE  lru_matrix[v][w] <=> Rank(v) < Rank(w)
  <2>1. lru_matrix[v][w] <=> last[v] > last[w]
    BY <1>4 DEF IInv, MatrixIsOrder
  <2>2. last[v] > last[w] => Rank(v) < Rank(w)
    BY <1>3
  <2>3. last[w] > last[v] => ~(Rank(v) < Rank(w))
    <3>1. last[w] > last[v] => Rank(w) < Rank(v)
      BY <1>3
    <3>2. Rank(v) \in Int /\ Rank(w) \in Int
      BY <1>2
    <3> QED  BY <3>1, <3>2
  <2>4. last[w] = last[v] => ~(Rank(v) < Rank(w))
    <3>1. last[w] = last[v] => v = w
      BY <1>4 DEF IInv, UsedAtDifferentTimes
    <3>2. Rank(v) \in Int
      BY <1>2
    <3> QED  BY <3>1, <3>2
  <2>5. last[v] > last[w] \/ last[w] > last[v] \/ last[w] = last[v]
    BY <1>4
  <2> QED  BY <2>1, <2>2, <2>3, <2>4, <2>5
<1>7. ASSUME NEW k \in 1 .. n PROVE \E w \in Held : Rank(w) = k
  <2> DEFINE f == [w \in Held |-> Rank(w)]
  <2>1. f \in [Held -> 1 .. n]
    BY <1>2
  <2>2. \A v, w \in Held : f[v] = f[w] => v = w
    BY <1>5
  <2>3. f \in Injection(Held, 1 .. n)
    BY <2>1, <2>2 DEF Injection, IsInjective
  <2>4. IsFiniteSet(1 .. n) /\ Cardinality(1 .. n) = n
    BY <1>1, FS_Interval
  <2>5. f \in Surjection(Held, 1 .. n)
    <3> HIDE DEF f
    <3> QED  BY <2>3, <2>4, FS_Injection
  <2>6. PICK w \in Held : f[w] = k
    BY <2>5 DEF Surjection
  <2> QED  BY <2>6
<1> QED  BY <1>1, <1>2, <1>5, <1>6, <1>7 DEF RanksOrder

LEMMA ListByRankHeld == IInv /\ HeldOnce => ListByRank
<1> SUFFICES ASSUME IInv, HeldOnce PROVE ListByRank
  OBVIOUS
<1> DEFINE n == Cardinality(Held)
<1>1. RanksOrder
  BY RanksOrderHeld
<1>2. ASSUME NEW k \in 1 .. n
      PROVE  /\ (CHOOSE w \in Held : Rank(w) = k) \in Held
             /\ Rank(CHOOSE w \in Held : Rank(w) = k) = k
  BY <1>1, <1>2 DEF RanksOrder
<1>3. RecentTags \in [1 .. n -> Tags]
  BY <1>2 DEF RecentTags, HeldOnce
<1>4. n \in Nat
  BY <1>1 DEF RanksOrder
<1>5. RecentTags \in Seq(Tags)
  BY <1>3, <1>4, SeqDef
<1>6. Len(RecentTags) = n
  <2>1. DOMAIN RecentTags = 1 .. n
    BY <1>3
  <2>2. DOMAIN RecentTags = 1 .. Len(RecentTags) /\ Len(RecentTags) \in Nat
    BY <1>5, LenProperties
  <2> QED  BY <2>1, <2>2, <1>4
<1>7. ASSUME NEW w \in Held PROVE RecentTags[Rank(w)] = tag[w]
  <2>1. Rank(w) \in 1 .. n
    BY <1>1 DEF RanksOrder
  <2>2. (CHOOSE v \in Held : Rank(v) = Rank(w)) = w
    BY <2>1, <1>1, <1>2 DEF RanksOrder
  <2> QED  BY <2>1, <2>2 DEF RecentTags
<1> QED  BY <1>5, <1>6, <1>7 DEF ListByRank

\* The same after a step.
LEMMA ListByRankNext == IInv' => RanksOrder' /\ (HeldOnce' => ListByRank')
  BY RanksOrderHeld, ListByRankHeld, PTL

\* The way used comes first, and the ways that came before it, or all of them
\* when it held no line, move back by one.
LEMMA RanksAfterUse ==
    ASSUME IInv, IInv', NEW w \in Ways, Use(w), valid' = [valid EXCEPT ![w] = TRUE]
    PROVE  /\ Held' = Held \cup {w}
           /\ Rank(w)' = 1
           /\ \A v \in Held \ {w} :
                  Rank(v)' = IF w \in Held /\ Rank(w) < Rank(v) THEN Rank(v)
                             ELSE Rank(v) + 1
<1>1. Held' = Held \cup {w}
  BY DEF Held, IInv, TypeOK
<1>2. \A i, j \in Ways : lru_matrix'[i][j] = IF j = w THEN FALSE
                                              ELSE IF i = w THEN TRUE ELSE lru_matrix[i][j]
  BY DEF Touch, Use
<1>3. \A v \in Held' : v \in Ways
  BY DEF Held
<1>4. Rank(w)' = 1
  <2>1. {v \in Held' : lru_matrix'[v][w]} = {}
    BY <1>2, <1>3
  <2>2. Cardinality({}) = 0
    BY FS_EmptySet
  <2>3. Rank(w)' = Cardinality({}) + 1
    BY <2>1 DEF Rank
  <2> QED  BY <2>2, <2>3
<1>5. ASSUME NEW v \in Held \ {w}
      PROVE  Rank(v)' = IF w \in Held /\ Rank(w) < Rank(v) THEN Rank(v) ELSE Rank(v) + 1
  <2>1. {u \in Held' : lru_matrix'[u][v]} = UsedAfter(v) \cup {w}
    <3>1. v \in Ways /\ v # w
      BY <1>1, <1>3
    <3>2. \A u \in Ways : lru_matrix'[u][v] <=> u = w \/ lru_matrix[u][v]
      BY <1>2, <3>1
    <3>3. w \in Held'
      BY <1>1
    <3> QED  BY <1>1, <1>3, <3>2, <3>3 DEF UsedAfter
  <2>2. Rank(v)' = Cardinality(UsedAfter(v) \cup {w}) + 1
    BY <2>1 DEF Rank
  <2>3. /\ IsFiniteSet(UsedAfter(v)) /\ Cardinality(UsedAfter(v)) \in Nat
        /\ Rank(v) = Cardinality(UsedAfter(v)) + 1
    BY UsedAfterIsFinite
  <2>4. Cardinality(UsedAfter(v) \cup {w}) =
            IF w \in UsedAfter(v) THEN Cardinality(UsedAfter(v))
                                  ELSE Cardinality(UsedAfter(v)) + 1
    BY <2>3, FS_AddElement
  <2>5. w \in UsedAfter(v) <=> w \in Held /\ Rank(w) < Rank(v)
    BY RanksOrderHeld DEF RanksOrder, UsedAfter
  <2> QED  BY <2>2, <2>3, <2>4, <2>5
<1> QED  BY <1>1, <1>4, <1>5

----------------------------------------------------------------------------
(* The three ways a list of blocks changes, told from their elements.      *)

\* Block t, at place k of s, moves to the front.
Moved(s, k, t) == <<t>> \o (SubSeq(s, 1, k - 1) \o SubSeq(s, k + 1, Len(s)))

LEMMA MovedToFront ==
    ASSUME NEW S, NEW s \in Seq(S), NEW q \in Seq(S), NEW t \in S, NEW k \in 1 .. Len(s),
           Len(q) = Len(s), q[1] = t,
           \A i \in 2 .. Len(s) : q[i] = IF i <= k THEN s[i - 1] ELSE s[i]
    PROVE  q = Moved(s, k, t)
<1> DEFINE n  == Len(s)
           s1 == SubSeq(s, 1, k - 1)
           s2 == SubSeq(s, k + 1, n)
           r  == s1 \o s2
           u  == <<t>> \o r
<1>1. n \in Nat /\ k \in Int /\ 1 <= k /\ k <= n
  BY LenProperties
<1>2. \A i \in 1 .. n : s[i] \in S
  BY ElementOfSeq
<1>3. s1 \in Seq(S) /\ Len(s1) = k - 1 /\ \A i \in 1 .. k - 1 : s1[i] = s[i]
  <2>1. \A i \in 1 .. k - 1 : s[i] \in S
    BY <1>1, <1>2
  <2>2. /\ s1 \in Seq(S)
        /\ Len(s1) = IF 1 <= k - 1 THEN (k - 1) - 1 + 1 ELSE 0
        /\ \A i \in 1 .. (k - 1) - 1 + 1 : s1[i] = s[1 + i - 1]
    BY <1>1, <2>1, SubSeqProperties
  <2> HIDE DEF s1
  <2> QED  BY <1>1, <2>2
<1>4. s2 \in Seq(S) /\ Len(s2) = n - k /\ \A i \in 1 .. n - k : s2[i] = s[k + i]
  <2>1. \A i \in k + 1 .. n : s[i] \in S
    BY <1>1, <1>2
  <2>2. /\ s2 \in Seq(S)
        /\ Len(s2) = IF k + 1 <= n THEN n - (k + 1) + 1 ELSE 0
        /\ \A i \in 1 .. n - (k + 1) + 1 : s2[i] = s[(k + 1) + i - 1]
    BY <1>1, <2>1, SubSeqProperties
  <2> HIDE DEF s2
  <2> QED  BY <1>1, <2>2
<1> HIDE DEF s1, s2
<1>5. /\ r \in Seq(S) /\ Len(r) = n - 1
      /\ \A i \in 1 .. n - 1 : r[i] = IF i <= k - 1 THEN s1[i] ELSE s2[i - (k - 1)]
  BY <1>1, <1>3, <1>4, ConcatProperties
<1> HIDE DEF r
<1>6. <<t>> \in Seq(S) /\ Len(<<t>>) = 1 /\ <<t>>[1] = t
  OBVIOUS
<1>7. /\ u \in Seq(S) /\ Len(u) = n
      /\ \A i \in 1 .. n : u[i] = IF i <= 1 THEN <<t>>[i] ELSE r[i - 1]
  BY <1>1, <1>5, <1>6, ConcatProperties
<1> HIDE DEF u
<1>8. ASSUME NEW i \in 1 .. n PROVE q[i] = u[i]
  <2>1. CASE i = 1
    BY <2>1, <1>6, <1>7
  <2>2. CASE i \in 2 .. k
    <3>1. u[i] = r[i - 1] /\ r[i - 1] = s1[i - 1]
      BY <2>2, <1>1, <1>5, <1>7
    <3>2. s1[i - 1] = s[i - 1]
      BY <2>2, <1>1, <1>3
    <3> QED  BY <2>2, <3>1, <3>2
  <2>3. CASE i \in k + 1 .. n
    <3>1. u[i] = r[i - 1] /\ r[i - 1] = s2[i - k]
      BY <2>3, <1>1, <1>5, <1>7
    <3>2. s2[i - k] = s[i]
      <4>1. i - k \in 1 .. n - k /\ k + (i - k) = i
        BY <2>3, <1>1
      <4> QED  BY <4>1, <1>4
    <3> QED  BY <2>3, <3>1, <3>2
  <2> QED  BY <1>1, <2>1, <2>2, <2>3
<1>9. q = u
  BY <1>7, <1>8, SeqEqual
<1> QED  BY <1>9 DEF u, r, s1, s2, Moved

\* A block is put before all the others.
LEMMA PutBefore ==
    ASSUME NEW S, NEW s \in Seq(S), NEW q \in Seq(S), NEW t \in S,
           Len(q) = Len(s) + 1, q[1] = t,
           \A i \in 2 .. Len(q) : q[i] = s[i - 1]
    PROVE  q = <<t>> \o s
<1> DEFINE u == <<t>> \o s
<1>1. Len(s) \in Nat
  BY LenProperties
<1>2. <<t>> \in Seq(S) /\ Len(<<t>>) = 1 /\ <<t>>[1] = t
  OBVIOUS
<1>3. /\ u \in Seq(S) /\ Len(u) = Len(s) + 1
      /\ \A i \in 1 .. Len(s) + 1 : u[i] = IF i <= 1 THEN <<t>>[i] ELSE s[i - 1]
  BY <1>1, <1>2, ConcatProperties
<1> HIDE DEF u
<1>4. \A i \in 1 .. Len(q) : q[i] = u[i]
  BY <1>1, <1>2, <1>3
<1> QED  BY <1>3, <1>4, SeqEqual DEF u

\* A block is put before all the others but the last, which goes.
LEMMA PutBeforeFront ==
    ASSUME NEW S, NEW s \in Seq(S), NEW q \in Seq(S), NEW t \in S,
           Len(q) = Len(s), Len(s) > 0, q[1] = t,
           \A i \in 2 .. Len(q) : q[i] = s[i - 1]
    PROVE  q = <<t>> \o SubSeq(s, 1, Len(s) - 1)
<1> DEFINE f == SubSeq(s, 1, Len(s) - 1)
<1>1. Len(s) \in Nat
  BY LenProperties
<1>2. \A i \in 1 .. Len(s) - 1 : s[i] \in S
  BY <1>1, ElementOfSeq
<1>3. f \in Seq(S) /\ Len(f) = Len(s) - 1 /\ \A i \in 1 .. Len(s) - 1 : f[i] = s[i]
  <2>1. /\ f \in Seq(S)
        /\ Len(f) = IF 1 <= Len(s) - 1 THEN (Len(s) - 1) - 1 + 1 ELSE 0
        /\ \A i \in 1 .. (Len(s) - 1) - 1 + 1 : f[i] = s[1 + i - 1]
    BY <1>1, <1>2, SubSeqProperties
  <2> HIDE DEF f
  <2> QED  BY <1>1, <2>1
<1> HIDE DEF f
<1>4. \A i \in 2 .. Len(q) : q[i] = f[i - 1]
  BY <1>1, <1>3
<1>5. Len(q) = Len(f) + 1
  BY <1>1, <1>3
<1>6. q = <<t>> \o f
  BY <1>3, <1>4, <1>5, PutBefore
<1> QED  BY <1>6 DEF f

----------------------------------------------------------------------------
(* One access to the set, as a step of its list.                           *)

\* What an access leaves to be shown of the lines.
LinesKept ==
    /\ IInv' /\ HeldOnce'
    /\ tag' \in [Ways -> Tags \cup {NoTag}]
    /\ dirty' \in [Ways -> BOOLEAN]
    /\ dirty_eviction_count' \in Nat /\ clean_eviction_count' \in Nat

\* A hit keeps the invariant.
LEMMA HitKeepsLines ==
    ASSUME LIInv, NEW t \in Tags, NEW op, CheckHit(t, op)
    PROVE  LinesKept
<1>1. PICK w \in Holding(t) : Hit(w) /\ dirty' = [dirty EXCEPT ![w] = @ \/ op = "WRITE"]
  BY DEF CheckHit
<1>2. w \in Ways
  BY DEF Holding
<1>3. IInv'
  BY <1>1, <1>2, StepIInv DEF Next, LIInv
<1>4. /\ UNCHANGED <<valid, tag, dirty_eviction_count, clean_eviction_count>>
      /\ Held' = Held
  BY <1>1 DEF CheckHit, Hit, Held
<1>5. dirty' \in [Ways -> BOOLEAN]
  BY <1>1 DEF LIInv, LinesTyped
<1>6. HeldOnce'
  BY <1>4 DEF LIInv, HeldOnce
<1> QED  BY <1>3, <1>4, <1>5, <1>6 DEF LinesKept, LIInv, LinesTyped

\* A miss keeps it: the block it brings in was in no way.
LEMMA MissKeepsLines ==
    ASSUME LIInv, NEW t \in Tags, NEW op, HandleMiss(t, op)
    PROVE  LinesKept
<1> DEFINE w == SelectLine(valid, next_lru)
<1>1. w \in Ways
  BY MissFillsWay DEF LIInv
<1>2. IInv'
  BY StepIInv DEF HandleMiss, Next, LIInv
<1>3. /\ tag' = [tag EXCEPT ![w] = t]
      /\ dirty' = [dirty EXCEPT ![w] = FilledDirty(w, op)]
      /\ valid' = [valid EXCEPT ![w] = TRUE]
  BY DEF HandleMiss, Miss
<1>4. Held' = Held \cup {w}
  BY <1>1, <1>3 DEF Held, LIInv, IInv, TypeOK
<1>5. tag' \in [Ways -> Tags \cup {NoTag}] /\ dirty' \in [Ways -> BOOLEAN]
  BY <1>3 DEF LIInv, LinesTyped, FilledDirty
<1>6. /\ tag'[w] = t
      /\ \A v \in Held : v # w => tag'[v] = tag[v] /\ tag[v] # t
  <2> HIDE DEF w
  <2> QED  BY <1>1, <1>3 DEF LIInv, LinesTyped, Held, HandleMiss, Holding
<1>7. HeldOnce'
  <2> HIDE DEF w
  <2> QED  BY <1>4, <1>6 DEF LIInv, HeldOnce
<1>8. dirty_eviction_count' \in Nat /\ clean_eviction_count' \in Nat
  BY DEF HandleMiss, LIInv, LinesTyped
<1> QED  BY <1>2, <1>5, <1>7, <1>8 DEF LinesKept

\* A hit moves its block to the front of the list.
LEMMA HitImplements ==
    ASSUME LIInv, NEW t \in Tags, NEW op, CheckHit(t, op)
    PROVE  List!Hit(t, op = "WRITE")
<1> DEFINE n == Cardinality(Held)
           s == RecentTags
           write == op = "WRITE"
<1>1. PICK w \in Holding(t) : Hit(w) /\ dirty' = [dirty EXCEPT ![w] = @ \/ write]
  BY DEF CheckHit
<1>2. w \in Held /\ w \in Ways /\ tag[w] = t
  BY DEF Holding, Held
<1>3. IInv /\ IInv' /\ HeldOnce'
  BY HitKeepsLines DEF LinesKept, LIInv
<1>4. /\ UNCHANGED <<valid, tag, miss_count, dirty_eviction_count, clean_eviction_count>>
      /\ Held' = Held /\ hit_count' = hit_count + 1
  BY <1>1 DEF CheckHit, Hit, Held
<1>5. ListByRank /\ ListByRank' /\ RanksOrder /\ RanksOrder'
  BY <1>3, RanksOrderHeld, ListByRankHeld, ListByRankNext DEF LIInv
<1>6. /\ Rank(w)' = 1
      /\ \A v \in Held \ {w} :
             Rank(v)' = IF Rank(w) < Rank(v) THEN Rank(v) ELSE Rank(v) + 1
  <2>1. valid' = [valid EXCEPT ![w] = TRUE]
    BY <1>1, <1>2, <1>3 DEF Hit, IInv, TypeOK
  <2> QED  BY <1>1, <1>2, <1>3, <2>1, RanksAfterUse DEF Hit
<1>7. /\ n \in Nat /\ n' = n /\ Len(s) = n /\ Len(s') = n
      /\ s \in Seq(Tags) /\ s' \in Seq(Tags)
      /\ Rank(w) \in 1 .. n /\ s[Rank(w)] = t
  BY <1>2, <1>4, <1>5 DEF RanksOrder, ListByRank
<1>8. PICK k : k = Rank(w)
  OBVIOUS
<1>9. s'[1] = t
  BY <1>2, <1>4, <1>5, <1>6 DEF ListByRank
<1>10. ASSUME NEW i \in 2 .. n
       PROVE  s'[i] = IF i <= k THEN s[i - 1] ELSE s[i]
  <2>1. PICK v \in Held : Rank(v)' = i
    <3>1. \E v \in Held' : Rank(v)' = i
      BY <1>5, <1>7 DEF RanksOrder
    <3> QED  BY <3>1, <1>4
  <2>2. v # w
    BY <2>1, <1>6
  <2>3. i = IF k < Rank(v) THEN Rank(v) ELSE Rank(v) + 1
    BY <2>1, <2>2, <1>6, <1>8
  <2>4. s'[i] = tag[v]
    BY <2>1, <1>4, <1>5 DEF ListByRank
  <2>5. s[Rank(v)] = tag[v] /\ Rank(v) \in 1 .. n /\ Rank(v) # k
    BY <2>2, <1>2, <1>5, <1>8 DEF ListByRank, RanksOrder
  <2>6. CASE k < Rank(v)
    BY <2>3, <2>4, <2>5, <2>6, <1>7, <1>8
  <2>7. CASE ~(k < Rank(v))
    <3>1. i = Rank(v) + 1 /\ Rank(v) < k /\ i - 1 = Rank(v) /\ i <= k
      BY <2>3, <2>5, <2>7, <1>7, <1>8
    <3> QED  BY <3>1, <2>4, <2>5
  <2> QED  BY <2>6, <2>7
<1>11. s' = Moved(s, k, t)
  <2>1. PICK r, q : r = s /\ q = s'
    OBVIOUS
  <2>2. /\ r \in Seq(Tags) /\ q \in Seq(Tags) /\ k \in 1 .. Len(r)
        /\ Len(q) = Len(r) /\ q[1] = t
    BY <2>1, <1>7, <1>8, <1>9
  <2>3. \A i \in 2 .. Len(r) : q[i] = IF i <= k THEN r[i - 1] ELSE r[i]
    BY <2>1, <1>7, <1>10
  <2>4. q = Moved(r, k, t)
    BY <2>2, <2>3, MovedToFront, Z3
  <2> QED  BY <2>1, <2>4
<1>12. k \in DOMAIN s /\ s[k] = t
  BY <1>7, <1>8, LenProperties
<1>13. {tag[v] : v \in {u \in Held : dirty[u]}}'
           = {tag[v] : v \in {u \in Held : dirty[u]}} \cup (IF write THEN {t} ELSE {})
  <2>1. \A v \in Held : dirty'[v] <=> dirty[v] \/ (v = w /\ write)
    BY <1>1, <1>2 DEF LIInv, LinesTyped, Held
  <2> QED  BY <2>1, <1>2, <1>4
<1> QED  BY <1>4, <1>11, <1>12, <1>13 DEF List!Hit, List!RemoveAt, List!Written, Moved

\* A miss puts its block before the others, the last of which goes when the
\* set is full.
LEMMA MissImplements ==
    ASSUME LIInv, NEW t \in Tags, NEW op, HandleMiss(t, op)
    PROVE  List!MissFree(t, op = "WRITE") \/ List!MissEvict(t, op = "WRITE")
<1> DEFINE n == Cardinality(Held)
           s == RecentTags
           write == op = "WRITE"
           U == {tag[v] : v \in {u \in Held : dirty[u]}}
<1>1. PICK w : w = SelectLine(valid, next_lru)
  OBVIOUS
<1>2. w \in Ways /\ (valid[w] => (\A v \in Ways : valid[v]) /\ w \in ZeroRows(lru_matrix))
  BY <1>1, MissFillsWay DEF LIInv
<1>3. IInv /\ HeldOnce /\ IInv' /\ HeldOnce'
  BY MissKeepsLines DEF LinesKept, LIInv
<1>4. /\ Holding(t) = {} /\ Use(w)
      /\ valid' = [valid EXCEPT ![w] = TRUE]
      /\ tag' = [tag EXCEPT ![w] = t]
      /\ dirty' = [dirty EXCEPT ![w] = write]
      /\ miss_count' = miss_count + 1 /\ UNCHANGED hit_count
      /\ dirty_eviction_count' =
             dirty_eviction_count + (IF valid[w] /\ dirty[w] THEN 1 ELSE 0)
      /\ clean_eviction_count' =
             clean_eviction_count + (IF valid[w] /\ ~dirty[w] THEN 1 ELSE 0)
  BY <1>1 DEF HandleMiss, Miss, FilledDirty
<1>5. ListByRank /\ ListByRank' /\ RanksOrder /\ RanksOrder'
  BY <1>3, RanksOrderHeld, ListByRankHeld, ListByRankNext
<1>6. /\ Held' = Held \cup {w} /\ Rank(w)' = 1
      /\ \A v \in Held \ {w} :
             Rank(v)' = IF w \in Held /\ Rank(w) < Rank(v) THEN Rank(v)
                        ELSE Rank(v) + 1
  BY <1>2, <1>3, <1>4, RanksAfterUse
<1>7. /\ tag'[w] = t /\ dirty'[w] = write
      /\ \A v \in Held : v # w => tag'[v] = tag[v] /\ dirty'[v] = dirty[v]
      /\ \A v \in Held : tag[v] # t
  BY <1>2, <1>4 DEF LIInv, LinesTyped, Held, Holding
<1>8. /\ n \in Nat /\ Len(s) = n /\ Len(s') = n' /\ n' \in Nat
      /\ s \in Seq(Tags) /\ s' \in Seq(Tags)
  BY <1>5 DEF RanksOrder, ListByRank
<1>9. ~List!Contains(s, t)
  <2> SUFFICES ASSUME NEW k \in 1 .. n, s[k] = t PROVE FALSE
    BY <1>8 DEF List!Contains
  <2>1. PICK v \in Held : Rank(v) = k
    BY <1>5 DEF RanksOrder
  <2> QED  BY <2>1, <1>5, <1>7 DEF ListByRank
<1>10. s'[1] = t
  BY <1>5, <1>6, <1>7 DEF ListByRank
<1>11. ASSUME \A v \in Held : ~(w \in Held /\ Rank(w) < Rank(v)),
              NEW i \in 2 .. n'
       PROVE  s'[i] = s[i - 1]
  <2>1. PICK v \in Held' : Rank(v)' = i
    BY <1>5, <1>8 DEF RanksOrder
  <2>2. v \in Held /\ v # w
    BY <2>1, <1>6
  <2>3. i = Rank(v) + 1 /\ s'[i] = tag[v]
    BY <2>1, <2>2, <1>5, <1>6, <1>7, <1>11 DEF ListByRank
  <2>4. s[Rank(v)] = tag[v] /\ Rank(v) \in 1 .. n
    BY <2>2, <1>5 DEF ListByRank, RanksOrder
  <2> QED  BY <2>3, <2>4, <1>8
<1>12. IsFiniteSet(Ways) /\ Cardinality(Ways) = A /\ Held \in SUBSET Ways
  BY AssociativityAssumption, FS_Interval DEF Ways, Held
<1>15. ASSUME NEW x
       PROVE  x \in U' <=> \/ (\E v \in Held \ {w} : dirty[v] /\ x = tag[v])
                          \/ (write /\ x = t)
  <2>1. x \in U' <=> \E v \in Held' : dirty'[v] /\ x = tag'[v]
    OBVIOUS
  <2>2. \A v \in Held \ {w} : tag'[v] = tag[v] /\ (dirty'[v] <=> dirty[v])
    BY <1>7
  <2>3. w \in Held' /\ (dirty'[w] <=> write) /\ tag'[w] = t
    BY <1>6, <1>7
  <2>4. Held' = (Held \ {w}) \cup {w}
    BY <1>6
  <2> QED  BY <2>1, <2>2, <2>3, <2>4
<1>13. CASE ~valid[w]
  <2>1. w \notin Held
    BY <1>13 DEF Held
  <2>2. n' = n + 1
    BY <1>5, <1>6, <2>1, FS_AddElement DEF RanksOrder
  <2>3. n < A
    <3>1. Held \in SUBSET (Ways \ {w})
      BY <1>12, <2>1
    <3>2. IsFiniteSet(Ways \ {w}) /\ Cardinality(Ways \ {w}) = A - 1
      BY <1>2, <1>12, FS_RemoveElement
    <3>3. n <= A - 1
      BY <3>1, <3>2, FS_Subset
    <3> QED  BY <3>3, <1>8, AssociativityAssumption
  <2>4. s' = <<t>> \o s
    <3>1. \A i \in 2 .. Len(s') : s'[i] = s[i - 1]
      BY <1>8, <1>11, <2>1
    <3> HIDE DEF s
    <3> QED  BY <3>1, <1>8, <1>10, <2>2, PutBefore
  <2>5. U' = U \cup (IF write THEN {t} ELSE {})
    BY <1>15, <2>1
  <2>6. UNCHANGED <<dirty_eviction_count, clean_eviction_count>>
    BY <1>4, <1>13 DEF LIInv, LinesTyped
  <2>7. Len(s) < A
    BY <1>8, <2>3
  <2> QED  BY <1>4, <1>9, <2>4, <2>5, <2>6, <2>7 DEF List!MissFree, List!Written
<1>14. CASE valid[w]
  <2>1. Held = Ways /\ Held' = Held /\ n = A /\ n' = n
    BY <1>2, <1>6, <1>12, <1>14 DEF Held
  <2>2. \A v \in Held : ~(Rank(w) < Rank(v))
    BY <1>2, <1>5, <1>14, <2>1 DEF ZeroRows, RanksOrder
  <2>3. Rank(w) = A
    <3>1. PICK v \in Held : Rank(v) = n
      BY <1>5, <2>1, AssociativityAssumption DEF RanksOrder
    <3>2. Rank(w) \in 1 .. n
      BY <1>2, <1>5, <2>1 DEF RanksOrder
    <3> QED  BY <3>1, <3>2, <2>1, <2>2, AssociativityAssumption
  <2>4. s[Len(s)] = tag[w]
    BY <1>2, <1>5, <1>8, <2>1, <2>3 DEF ListByRank
  <2>5. s' = <<t>> \o SubSeq(s, 1, Len(s) - 1)
    <3>1. \A i \in 2 .. Len(s') : s'[i] = s[i - 1]
      BY <1>8, <1>11, <2>2
    <3>2. Len(s') = Len(s) /\ Len(s) > 0
      BY <1>8, <2>1, AssociativityAssumption
    <3> HIDE DEF s
    <3> QED  BY <3>1, <3>2, <1>8, <1>10, PutBeforeFront
  <2>6. U' = (U \ {tag[w]}) \cup (IF write THEN {t} ELSE {})
    <3>1. \A v \in Held : v # w => tag[v] # tag[w]
      BY <1>2, <1>3, <2>1 DEF HeldOnce
    <3> QED  BY <3>1, <1>15
  <2>7. tag[w] \in U <=> dirty[w]
    BY <1>2, <1>3, <2>1 DEF HeldOnce
  <2>8. IF tag[w] \in U
        THEN dirty_eviction_count' = dirty_eviction_count + 1 /\ UNCHANGED clean_eviction_count
        ELSE clean_eviction_count' = clean_eviction_count + 1 /\ UNCHANGED dirty_eviction_count
    BY <1>4, <1>14, <2>7 DEF LIInv, LinesTyped
  <2>9. Len(s) = A
    BY <1>8, <2>1
  <2> QED  BY <1>4, <1>9, <2>4, <2>5, <2>6, <2>8, <2>9
           DEF List!MissEvict, List!Written, List!Front, List!Last
<1> QED  BY <1>13, <1>14

----------------------------------------------------------------------------
\* The empty set is the empty list.
LEMMA InitImplements == SimInit => LIInv /\ List!Init
<1> SUFFICES ASSUME SimInit PROVE LIInv /\ List!Init
  OBVIOUS
<1>1. IInv
  BY InitIInv DEF SimInit
<1>2. Held = {}
  BY DEF Held, SimInit, Init
<1>3. LIInv
  BY <1>1, <1>2 DEF LIInv, LinesTyped, HeldOnce, SimInit
<1>4. RecentTags = << >>
  <2>1. RecentTags \in Seq(Tags) /\ Len(RecentTags) = 0
    BY <1>2, <1>3, ListByRankHeld, FS_EmptySet DEF ListByRank, LIInv
  <2> QED  BY <2>1, EmptySeq
<1>5. {tag[v] : v \in {u \in Held : dirty[u]}} = {}
  BY <1>2
<1> QED  BY <1>3, <1>4, <1>5 DEF List!Init, SimInit

\* Every access keeps the invariant and is a step of the list.
LEMMA AccessImplements ==
    ASSUME LIInv, NEW t \in Tags, NEW op, AccessData(t, op),
           pending' \in Tags \cup {NoTag}
    PROVE  LIInv' /\ List!Next
<1>1. LinesKept
  BY HitKeepsLines, MissKeepsLines DEF AccessData
<1>2. LIInv'
  BY <1>1 DEF LIInv, LinesKept, LinesTyped
<1>3. \/ List!Hit(t, op = "WRITE")
      \/ List!MissFree(t, op = "WRITE")
      \/ List!MissEvict(t, op = "WRITE")
  BY HitImplements, MissImplements DEF AccessData
<1>4. wrote' = (op = "WRITE") /\ (op = "WRITE") \in BOOLEAN
  BY DEF AccessData
<1> QED  BY <1>2, <1>3, <1>4 DEF List!Next

\* So does every line of the trace.
LEMMA TraceImplements == LIInv /\ [SimNext]_simVars => LIInv' /\ [List!Next]_List!vars
<1> SUFFICES ASSUME LIInv, [SimNext]_simVars PROVE LIInv' /\ [List!Next]_List!vars
  OBVIOUS
<1>1. CASE ModifyWrite
  BY <1>1, AccessImplements DEF ModifyWrite, LIInv, LinesTyped
<1>2. ASSUME NEW t \in Tags, Load(t) \/ Store(t) \/ Modify(t)
      PROVE  LIInv' /\ List!Next
  <2>1. pending' \in Tags \cup {NoTag}
    BY <1>2 DEF Load, Store, Modify, LIInv, LinesTyped
  <2> QED  BY <1>2, <2>1, AccessImplements DEF Load, Store, Modify
<1>3. CASE UNCHANGED simVars
  <2>1. IInv'
    BY <1>3, StepIInv DEF simVars, LIInv
  <2>2. UNCHANGED <<valid, lru_matrix, tag, dirty, wrote, pending, counts>>
    BY <1>3 DEF simVars, vars
  <2>3. Held' = Held
    BY <2>2 DEF Held
  <2>4. LIInv'
    BY <2>1, <2>2, <2>3 DEF LIInv, LinesTyped, HeldOnce, counts
  <2>5. RecentTags' = RecentTags
    BY <2>2, <2>3 DEF RecentTags, Rank
  <2>6. {tag[v] : v \in {u \in Held : dirty[u]}}' = {tag[v] : v \in {u \in Held : dirty[u]}}
    BY <2>2, <2>3
  <2>7. UNCHANGED List!vars
    BY <2>2, <2>5, <2>6 DEF List!vars, counts
  <2> QED  BY <2>4, <2>7
<1> QED  BY <1>1, <1>2, <1>3 DEF SimNext

\* What csim does to a set are hits and misses: what is proved of any run of
\* hits and misses holds of every trace.
THEOREM TraceIsSet == SimSpec => Spec
<1>1. SimInit => Init
  BY DEF SimInit
<1>2. [SimNext]_simVars => [Next]_vars
  <2>1. \A t \in Tags \cup {pending}, op \in {"READ", "WRITE"} : AccessData(t, op) => Next
    BY DEF AccessData, CheckHit, HandleMiss, Holding, Next
  <2>2. SimNext => Next
    BY <2>1 DEF SimNext, ModifyWrite, Load, Store, Modify
  <2> QED  BY <2>2 DEF simVars
<1> QED  BY <1>1, <1>2, PTL DEF SimSpec, Spec

\* The invariant of a set with its lines holds for every trace.
THEOREM ListInvariant == SimSpec => []LIInv
  BY InitImplements, TraceImplements, PTL DEF SimSpec

\* A set of cache.c with its ways, matrix, next_lru and dirty bits is a list
\* of at most A blocks in the order of their use, and what csim counts are the
\* hits, misses and evictions of that list: for every associativity the code
\* accepts and every trace.
THEOREM ImplementsLruListAlways == SimSpec => ImplementsLruList
<1>1. SimSpec => List!Spec
  BY InitImplements, TraceImplements, PTL DEF SimSpec, List!Spec
<1> QED  BY <1>1 DEF ImplementsLruList
=============================================================================
