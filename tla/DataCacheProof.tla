--------------------------- MODULE DataCacheProof ---------------------------
(***************************************************************************)
(* Proofs about the data cache and the part of mem.c around it, for every  *)
(* number of sets, ways, words in a line and tags, and every delay.  The   *)
(* arithmetic of addresses comes first, then what one access of the cache  *)
(* does to its lines and to the memory the guest sees, then the cycle.     *)
(***************************************************************************)
EXTENDS DataCache, WellFoundedInduction, TLAPS

----------------------------------------------------------------------------
(* What lru and select_line return, as in CacheSetProof                     *)

\* Every nonempty set of natural numbers has a least element.
LEMMA LeastNatural ==
    ASSUME NEW T \in SUBSET Nat, T # {}
    PROVE  \E x \in T : \A y \in T : x <= y
<1> DEFINE Less == OpToRel(<, Nat)
<1>1. PICK x \in T : \A y \in T : <<y, x>> \notin Less
  <2>1. IsWellFoundedOn(Less, Nat)
    BY NatLessThanWellFounded
  <2> HIDE DEF Less
  <2> QED  BY <2>1, WFMin
<1>2. ASSUME NEW y \in T PROVE x <= y
  <2>1. x \in Nat /\ y \in Nat /\ ~(y < x)
    BY <1>1 DEF OpToRel
  <2> QED  BY <2>1
<1> QED  BY <1>2

\* The ways are numbered from 0, and -1 is none of them.
LEMMA WaysAreNaturals == Ways \subseteq Nat /\ 0 \in Ways /\ NoWay \notin Ways
  BY AssociativityAssumption DEF Ways, NoWay

\* What lru returns: an all-zero row when there is one, and always a way.
LEMMA VictimIsZeroRow ==
    ASSUME NEW m, ZeroRows(m) # {}
    PROVE  Victim(m) \in ZeroRows(m)
<1>1. ZeroRows(m) \in SUBSET Nat
  BY WaysAreNaturals DEF ZeroRows
<1>2. \E r \in ZeroRows(m) : \A q \in ZeroRows(m) : r <= q
  BY <1>1, LeastNatural
<1> QED  BY <1>2 DEF Victim

\* Every row all-zero or not, lru returns a way.
LEMMA VictimIsWay ==
    ASSUME NEW m
    PROVE  Victim(m) \in Ways
<1>1. CASE ZeroRows(m) = {}
  BY <1>1, WaysAreNaturals DEF Victim
<1>2. CASE ZeroRows(m) # {}
  BY <1>2, VictimIsZeroRow DEF ZeroRows
<1> QED  BY <1>1, <1>2

\* What select_line returns when a way is free.
LEMMA SelectLineIsFree ==
    ASSUME NEW held, NEW next, NEW w0 \in Ways, ~held[w0]
    PROVE  /\ SelectLine(held, next) \in Ways
           /\ ~held[SelectLine(held, next)]
<1> DEFINE Free == {w \in Ways : ~held[w]}
<1>1. Free \in SUBSET Nat /\ Free # {}
  BY WaysAreNaturals
<1>2. \E w \in Free : \A v \in Free : w <= v
  <2> HIDE DEF Free
  <2> QED  BY <1>1, LeastNatural
<1>3. \E w \in Ways : ~held[w] /\ \A v \in Ways : ~held[v] => w <= v
  BY <1>2
<1> QED  BY <1>3 DEF SelectLine

----------------------------------------------------------------------------
(* Addresses                                                               *)

\* Quotient and remainder of q * n + r.
LEMMA Division ==
    ASSUME NEW q \in Nat, NEW n \in Nat \ {0}, NEW r \in 0 .. n - 1
    PROVE  (q * n + r) \div n = q /\ (q * n + r) % n = r
  OBVIOUS

\* A number is its quotient times n, and its remainder.
LEMMA DivisionInverse ==
    ASSUME NEW a \in Nat, NEW n \in Nat \ {0}
    PROVE  /\ a \div n \in Nat /\ a % n \in 0 .. n - 1
           /\ a = (a \div n) * n + (a % n)
  OBVIOUS

\* Element r of row q of a table of m rows of n is in the table.
LEMMA ProductBound ==
    ASSUME NEW q \in Nat, NEW m \in Nat, NEW n \in Nat \ {0}, NEW r \in 0 .. n - 1, q < m
    PROVE  q * n + r \in 0 .. m * n - 1
  OBVIOUS

\* And the row of an element is one of the m.
LEMMA QuotientBound ==
    ASSUME NEW m \in Nat, NEW n \in Nat \ {0}, NEW a \in 0 .. m * n - 1
    PROVE  a \div n \in 0 .. m - 1
  OBVIOUS

\* A word's address taken apart: its tag, its set and its place in the line.
LEMMA AddressParts ==
    ASSUME NEW a \in Addr
    PROVE  /\ BlockOf(a) \in Blocks /\ Offset(a) \in Offsets
           /\ SetOf(a) \in Sets /\ TagOf(a) \in Tags
           /\ a = BlockOf(a) * B + Offset(a)
           /\ BlockOf(a) = TagOf(a) * S + SetOf(a)
<1> USE CacheAssumption
<1>1. a \in Nat /\ TAGS * S \in Nat /\ a \in 0 .. (TAGS * S) * B - 1
  BY DEF Addr
<1>2. BlockOf(a) \in 0 .. TAGS * S - 1
  BY <1>1, QuotientBound DEF BlockOf
<1>3. Offset(a) \in Offsets /\ a = BlockOf(a) * B + Offset(a)
  BY <1>1, DivisionInverse DEF BlockOf, Offset, Offsets
<1>4. TagOf(a) \in 0 .. TAGS - 1
  BY <1>2, QuotientBound DEF TagOf
<1>5. SetOf(a) \in Sets /\ BlockOf(a) = TagOf(a) * S + SetOf(a)
  <2>1. BlockOf(a) \in Nat
    BY <1>2, <1>1
  <2> QED  BY <2>1, DivisionInverse DEF SetOf, TagOf, Sets
<1> QED  BY <1>2, <1>3, <1>4, <1>5 DEF Blocks, Tags

\* And put together again, as handle_miss does for an evicted line.
LEMMA AddressOfParts ==
    ASSUME NEW t \in Tags, NEW s \in Sets, NEW o \in Offsets
    PROVE  LET a == (t * S + s) * B + o
           IN  /\ a \in Addr
               /\ BlockOf(a) = t * S + s /\ Offset(a) = o
               /\ SetOf(a) = s /\ TagOf(a) = t
<1> USE CacheAssumption
<1> DEFINE b == t * S + s
           a == b * B + o
<1>1. b \in 0 .. TAGS * S - 1
  BY ProductBound DEF Tags, Sets
<1>2. b \div S = t /\ b % S = s
  BY Division DEF Tags, Sets
<1>3. b \in Nat /\ TAGS * S \in Nat /\ b < TAGS * S
  BY <1>1
<1> HIDE DEF b
<1>4. a \in Addr
  BY <1>3, ProductBound DEF Addr, Offsets
<1>5. a \div B = b /\ a % B = o
  BY <1>3, Division DEF Offsets
<1> QED  BY <1>2, <1>4, <1>5 DEF BlockOf, SetOf, TagOf, Offset, b

\* Two lines stand for the same block only if they have set and tag in common.
LEMMA SameBlock ==
    ASSUME NEW t \in Tags, NEW s \in Sets, NEW u \in Tags, NEW v \in Sets,
           t * S + s = u * S + v
    PROVE  t = u /\ s = v
<1>1. S \in Nat \ {0}
  BY CacheAssumption
<1>2. (t * S + s) \div S = t /\ (t * S + s) % S = s
  BY <1>1, Division DEF Tags, Sets
<1>3. (u * S + v) \div S = u /\ (u * S + v) % S = v
  BY <1>1, Division DEF Tags, Sets
<1> QED  BY <1>2, <1>3

----------------------------------------------------------------------------
(* The invariant of the cache.  next_lru names a way once the set has been *)
(* used: select_line reads it when no way is free.                         *)

CacheTypes ==
    /\ lines \in [Sets -> [Ways -> Line]]
    /\ lru_matrix \in [Sets -> Matrices]
    /\ next_lru \in [Sets -> Ways \cup {NoWay}]
    /\ mem \in [Addr -> VALUES]

NextIsWay == \A s \in Sets : (\E w \in Ways : lines[s][w].valid) => next_lru[s] \in Ways

CacheInv == CacheTypes /\ NextIsWay /\ OneCopy /\ CleanMatchesMemory

\* Line w of set SetOf(a) holds address a.
Holds(a, w) == lines[SetOf(a)][w].valid /\ lines[SetOf(a)][w].tag = TagOf(a)

\* With one copy of a block, the guest sees that copy, or memory.
ViewIsLine ==
    \A a \in Addr :
        /\ \A w \in Ways : Holds(a, w) =>
              Hits(a) /\ View[a] = lines[SetOf(a)][w].data[Offset(a)]
        /\ (\A w \in Ways : ~Holds(a, w)) => ~Hits(a) /\ View[a] = mem[a]

\* One copy of a block makes the hit unambiguous.
LEMMA ViewOfLine == CacheInv => ViewIsLine
<1> SUFFICES ASSUME CacheInv, NEW a \in Addr
             PROVE  /\ \A w \in Ways : Holds(a, w) =>
                          Hits(a) /\ View[a] = lines[SetOf(a)][w].data[Offset(a)]
                    /\ (\A w \in Ways : ~Holds(a, w)) => ~Hits(a) /\ View[a] = mem[a]
  BY DEF ViewIsLine
<1>1. ASSUME NEW w \in Ways, Holds(a, w)
      PROVE  Hits(a) /\ View[a] = lines[SetOf(a)][w].data[Offset(a)]
  <2>1. HitWays(a) = {w}
    BY <1>1, AddressParts DEF HitWays, Holds, CacheInv, OneCopy
  <2>2. HitWay(a) = w
    BY <2>1, WaysAreNaturals DEF HitWay
  <2> QED  BY <2>1, <2>2 DEF Hits, View, CachedWord
<1>2. ASSUME \A w \in Ways : ~Holds(a, w) PROVE ~Hits(a) /\ View[a] = mem[a]
  BY <1>2 DEF Hits, HitWays, Holds, View
<1> QED  BY <1>1, <1>2

\* The same after a step.
LEMMA ViewOfLineNext == CacheInv' => ViewIsLine'
  BY ViewOfLine, PTL

\* The accesses of both stages.
Accesses == [op : {"READ", "WRITE"}, addr : Addr, val : VALUES]

\* What the guest asks for is an access.
LEMMA RequestsAreAccesses == Requests \subseteq Accesses
  BY CacheAssumption DEF Requests, Accesses

\* get_word_cache and set_word_cache change the word and the dirty bit, no more.
LEMMA AccessedLine ==
    ASSUME NEW l \in Line, NEW r \in Accesses
    PROVE  /\ Accessed(l, r) \in Line
           /\ Accessed(l, r).valid = l.valid /\ Accessed(l, r).tag = l.tag
           /\ Accessed(l, r).dirty = (r.op = "WRITE" \/ l.dirty)
           /\ \A o \in Offsets :
                 Accessed(l, r).data[o] =
                     IF r.op = "WRITE" /\ o = Offset(r.addr) THEN r.val ELSE l.data[o]
<1>1. Offset(r.addr) \in Offsets /\ r.val \in VALUES
  BY AddressParts DEF Accesses
<1>2. CASE r.op = "WRITE"
  BY <1>1, <1>2 DEF Accessed, Line
<1>3. CASE r.op # "WRITE"
  BY <1>3 DEF Accessed, Line
<1> QED  BY <1>2, <1>3

\* What an access does that is performed: memory, as the guest sees it, changes
\* by the store, and the word is in the cache.
Performed(r) ==
    /\ CacheInv'
    /\ View' = IF r.op = "WRITE" THEN [View EXCEPT ![r.addr] = r.val] ELSE View
    /\ CachedWord(r.addr)' = View'[r.addr]

----------------------------------------------------------------------------
(* A hit                                                                   *)

\* Using a way leaves next_lru of its set at a way.
LEMMA UseTypes ==
    ASSUME CacheInv, NEW s \in Sets, NEW w \in Ways, Use(s, w)
    PROVE  /\ lru_matrix' \in [Sets -> Matrices]
           /\ next_lru' \in [Sets -> Ways \cup {NoWay}]
           /\ next_lru'[s] \in Ways
           /\ \A t \in Sets \ {s} : next_lru'[t] = next_lru[t]
<1>1. Victim(Touch(lru_matrix[s], w)) \in Ways
  BY VictimIsWay
<1>2. Touch(lru_matrix[s], w) \in Matrices
  <2>1. lru_matrix[s] \in Matrices
    BY DEF CacheInv, CacheTypes
  <2> QED  BY <2>1 DEF Touch, Matrices
<1> QED  BY <1>1, <1>2 DEF Use, CacheInv, CacheTypes

\* Way w of set s becomes the line l.
Put(s, w, l) == lines' = [lines EXCEPT ![s][w] = l]

\* Line w of set s is replaced by l: the other lines are as they were.
LEMMA OneLineChanged ==
    ASSUME CacheInv, NEW s \in Sets, NEW w \in Ways, NEW l \in Line, Put(s, w, l)
    PROVE  /\ lines' \in [Sets -> [Ways -> Line]]
           /\ lines'[s][w] = l
           /\ \A t \in Sets : \A v \in Ways :
                 (t # s \/ v # w) => lines'[t][v] = lines[t][v]
  BY DEF CacheInv, CacheTypes, Put

\* An access that hits is performed: the line it hits is the only one changed.
LEMMA HitPerforms ==
    ASSUME CacheInv, NEW r \in Accesses, Hit(r)
    PROVE  Performed(r)
<1> DEFINE a == r.addr
           s == SetOf(a)
           w == HitWay(a)
           l == Accessed(lines[s][w], r)
<1>1. a \in Addr /\ s \in Sets /\ TagOf(a) \in Tags /\ Offset(a) \in Offsets
  BY AddressParts DEF Accesses
<1>2. w \in Ways /\ Holds(a, w)
  <2>1. PICK v \in Ways : Holds(a, v)
    BY DEF Hit, Hits, HitWays, Holds
  <2>2. HitWays(a) = {v}
    BY <1>1, <2>1 DEF HitWays, Holds, CacheInv, OneCopy
  <2>3. HitWay(a) = v
    BY <2>1, <2>2, WaysAreNaturals DEF HitWay
  <2> QED  BY <2>1, <2>3
<1>3. lines[s][w] \in Line
  BY <1>1, <1>2 DEF CacheInv, CacheTypes
<1>4. l \in Line /\ l.valid = lines[s][w].valid /\ l.tag = lines[s][w].tag
      /\ l.dirty = (r.op = "WRITE" \/ lines[s][w].dirty)
      /\ \A o \in Offsets : l.data[o] = IF r.op = "WRITE" /\ o = Offset(a) THEN r.val
                                        ELSE lines[s][w].data[o]
  BY <1>2, <1>3, AccessedLine DEF Holds
<1>5. lines' = [lines EXCEPT ![s][w] = l] /\ Use(s, w) /\ mem' = mem
  BY DEF Hit
<1> HIDE DEF w, l, a, s
<1>6. /\ lines' \in [Sets -> [Ways -> Line]]
      /\ lines'[s][w] = l
      /\ \A t \in Sets : \A v \in Ways : (t # s \/ v # w) => lines'[t][v] = lines[t][v]
  <2>1. s \in Sets /\ w \in Ways /\ l \in Line /\ Put(s, w, l)
    BY <1>1, <1>2, <1>4, <1>5 DEF Put
  <2> QED  BY <2>1, OneLineChanged
<1>7. \A t \in Sets : \A v \in Ways : /\ lines'[t][v].valid = lines[t][v].valid
                                      /\ lines'[t][v].tag = lines[t][v].tag
  BY <1>4, <1>6
<1>8. CacheInv'
  <2>1. CacheTypes'
    BY <1>1, <1>2, <1>5, <1>6, UseTypes DEF CacheTypes, CacheInv
  <2>2. NextIsWay'
    BY <1>1, <1>2, <1>5, <1>7, UseTypes DEF NextIsWay, CacheInv
  <2>3. OneCopy'
    BY <1>7 DEF OneCopy, CacheInv
  <2>4. CleanMatchesMemory'
    <3> SUFFICES ASSUME NEW t \in Sets, NEW v \in Ways, NEW o \in Offsets,
                        lines'[t][v].valid, ~lines'[t][v].dirty
                 PROVE  lines'[t][v].data[o] = mem'[(lines'[t][v].tag * S + t) * B + o]
      BY DEF CleanMatchesMemory
    <3>1. lines[t][v].valid /\ ~lines[t][v].dirty /\ lines'[t][v].data[o] = lines[t][v].data[o]
      BY <1>4, <1>6, <1>7
    <3> QED  BY <3>1, <1>5, <1>7 DEF CleanMatchesMemory, CacheInv
  <2> QED  BY <2>1, <2>2, <2>3, <2>4 DEF CacheInv
<1>9. \A b \in Addr : View'[b] = IF r.op = "WRITE" /\ b = a THEN r.val ELSE View[b]
  <2> SUFFICES ASSUME NEW b \in Addr
               PROVE  View'[b] = IF r.op = "WRITE" /\ b = a THEN r.val ELSE View[b]
    OBVIOUS
  <2>0. SetOf(b) \in Sets /\ Offset(b) \in Offsets
    BY AddressParts
  <2>1. ViewIsLine /\ ViewIsLine'
    BY <1>8, ViewOfLine, ViewOfLineNext
  <2>2. \A v \in Ways : Holds(b, v)' <=> Holds(b, v)
    BY <1>7, <2>0 DEF Holds
  <2>3. CASE \A v \in Ways : ~Holds(b, v)
    <3>1. b # a
      BY <1>2, <2>3
    <3>2. View[b] = mem[b] /\ View'[b] = mem'[b]
      BY <2>1, <2>2, <2>3 DEF ViewIsLine
    <3> QED  BY <3>1, <3>2, <1>5
  <2>4. ASSUME NEW v \in Ways, Holds(b, v)
        PROVE  View'[b] = IF r.op = "WRITE" /\ b = a THEN r.val ELSE View[b]
    <3>1. View[b] = lines[SetOf(b)][v].data[Offset(b)]
      BY <2>1, <2>4 DEF ViewIsLine
    <3>2. View'[b] = lines'[SetOf(b)][v].data[Offset(b)]
      BY <2>1, <2>2, <2>4 DEF ViewIsLine
    <3>3. CASE SetOf(b) = s /\ v = w
      <4>1. TagOf(b) = TagOf(a)
        BY <3>3, <2>4, <1>2 DEF Holds, s
      <4>2. b = a <=> Offset(b) = Offset(a)
        BY <4>1, <3>3, <1>1, AddressParts DEF s
      <4> QED  BY <3>1, <3>2, <3>3, <4>2, <1>4, <1>6, <2>0
    <3>4. CASE SetOf(b) # s \/ v # w
      <4>1. b # a
        BY <3>4, <2>4, <1>1, <1>2 DEF Holds, CacheInv, OneCopy, s
      <4> QED  BY <3>1, <3>2, <3>4, <4>1, <1>6, <2>0
    <3> QED  BY <3>3, <3>4
  <2> QED  BY <2>3, <2>4
<1>10. View' = IF r.op = "WRITE" THEN [View EXCEPT ![a] = r.val] ELSE View
  BY <1>9 DEF View
<1>11. CachedWord(a)' = View'[a]
  <2>1. Hits(a)'
    BY <1>2, <1>7, <1>1 DEF Hits, HitWays, Holds, s
  <2> QED  BY <2>1, <1>1 DEF View
<1> QED  BY <1>8, <1>10, <1>11 DEF Performed, a

----------------------------------------------------------------------------
(* The last cycle of a miss                                                *)

\* select_line finds a way: a free one, or the one lru has left.
LEMMA SelectedLine ==
    ASSUME CacheInv, NEW s \in Sets
    PROVE  SelectLine([v \in Ways |-> lines[s][v].valid], next_lru[s]) \in Ways
<1> DEFINE valid == [v \in Ways |-> lines[s][v].valid]
<1>1. CASE \A v \in Ways : valid[v]
  <2>1. SelectLine(valid, next_lru[s]) = next_lru[s]
    BY <1>1 DEF SelectLine
  <2>2. \E v \in Ways : lines[s][v].valid
    BY <1>1, WaysAreNaturals
  <2> QED  BY <2>1, <2>2 DEF CacheInv, NextIsWay
<1>2. ASSUME NEW v \in Ways, ~valid[v] PROVE SelectLine(valid, next_lru[s]) \in Ways
  <2> HIDE DEF valid
  <2> QED  BY <1>2, SelectLineIsFree
<1> QED  BY <1>1, <1>2

\* The last cycle of a miss performs the access: the evicted block is in memory
\* if it was dirty, the new one in the cache, and no other word is touched.
LEMMA FillPerforms ==
    ASSUME CacheInv, NEW r \in Accesses, Fill(r)
    PROVE  Performed(r)
<1> DEFINE a == r.addr
           s == SetOf(a)
           w == SelectLine([v \in Ways |-> lines[s][v].valid], next_lru[s])
           old == lines[s][w]
           new == [valid |-> TRUE, tag |-> TagOf(a), dirty |-> r.op = "WRITE",
                   data |-> [o \in Offsets |-> mem[BlockOf(a) * B + o]]]
           l == Accessed(new, r)
           evicted == old.tag * S + s
<1>1. a \in Addr /\ s \in Sets /\ TagOf(a) \in Tags /\ Offset(a) \in Offsets
      /\ BlockOf(a) = TagOf(a) * S + s
  BY AddressParts DEF Accesses
<1>2. w \in Ways
  BY <1>1, SelectedLine
<1>3. \A v \in Ways : ~Holds(a, v)
  BY DEF Fill, Hits, HitWays, Holds
<1>4. old \in Line
  BY <1>1, <1>2 DEF CacheInv, CacheTypes
<1>5. \A o \in Offsets : BlockOf(a) * B + o \in Addr
  BY <1>1, AddressOfParts
<1>6. new \in Line /\ new.valid = TRUE /\ new.tag = TagOf(a) /\ new.dirty = (r.op = "WRITE")
      /\ \A o \in Offsets : new.data[o] = mem[BlockOf(a) * B + o]
  BY <1>1, <1>5 DEF Line, CacheInv, CacheTypes
<1>7. l \in Line /\ l.valid = TRUE /\ l.tag = TagOf(a) /\ l.dirty = (r.op = "WRITE")
      /\ \A o \in Offsets : l.data[o] = IF r.op = "WRITE" /\ o = Offset(a) THEN r.val
                                        ELSE mem[BlockOf(a) * B + o]
  <2> HIDE DEF new
  <2>1. /\ l \in Line /\ l.valid = new.valid /\ l.tag = new.tag
        /\ l.dirty = (r.op = "WRITE" \/ new.dirty)
        /\ \A o \in Offsets : l.data[o] = IF r.op = "WRITE" /\ o = Offset(a) THEN r.val
                                          ELSE new.data[o]
    BY <1>6, AccessedLine
  <2> QED  BY <2>1, <1>6
<1>8. /\ lines' = [lines EXCEPT ![s][w] = l] /\ Use(s, w)
      /\ mem' = IF old.valid /\ old.dirty
                THEN [x \in Addr |-> IF BlockOf(x) = evicted THEN old.data[Offset(x)]
                                     ELSE mem[x]]
                ELSE mem
  BY DEF Fill, EvictedBlock
<1>9. old.valid => old.tag # TagOf(a)
  BY <1>2, <1>3 DEF Holds
<1> HIDE DEF w, l, a, s, new, old
<1>10. /\ lines' \in [Sets -> [Ways -> Line]]
       /\ lines'[s][w] = l
       /\ \A t \in Sets : \A v \in Ways : (t # s \/ v # w) => lines'[t][v] = lines[t][v]
  <2>1. s \in Sets /\ w \in Ways /\ l \in Line /\ Put(s, w, l)
    BY <1>1, <1>2, <1>7, <1>8 DEF Put
  <2> QED  BY <2>1, OneLineChanged
\* A word keeps its place in memory unless it is one of the evicted line.
<1>11. \A t \in Tags : \A u \in Sets : \A o \in Offsets :
          ~(old.valid /\ old.dirty /\ t = old.tag /\ u = s) =>
              mem'[(t * S + u) * B + o] = mem[(t * S + u) * B + o]
  <2> SUFFICES ASSUME NEW t \in Tags, NEW u \in Sets, NEW o \in Offsets,
                      old.valid, old.dirty, ~(t = old.tag /\ u = s)
               PROVE  mem'[(t * S + u) * B + o] = mem[(t * S + u) * B + o]
    BY <1>8
  <2> DEFINE x == (t * S + u) * B + o
  <2>1. x \in Addr /\ BlockOf(x) = t * S + u
    BY AddressOfParts
  <2>2. old.tag \in Tags
    BY <1>4 DEF Line
  <2>3. BlockOf(x) # evicted
    BY <2>1, <2>2, <1>1, SameBlock
  <2> HIDE DEF x, evicted, old
  <2>4. mem'[x] = mem[x]
    BY <2>1, <2>3, <1>8
  <2> QED  BY <2>4 DEF x
<1>12. CacheInv'
  <2>1. CacheTypes'
    <3>1. mem' \in [Addr -> VALUES]
      <4>1. \A x \in Addr : Offset(x) \in Offsets
        BY AddressParts
      <4> QED  BY <4>1, <1>4, <1>8 DEF CacheInv, CacheTypes, Line
    <3> QED  BY <3>1, <1>1, <1>2, <1>8, <1>10, UseTypes DEF CacheTypes
  <2>2. NextIsWay'
    <3>1. next_lru'[s] \in Ways /\ \A t \in Sets \ {s} : next_lru'[t] = next_lru[t]
      BY <1>1, <1>2, <1>8, UseTypes
    <3> QED  BY <3>1, <1>10 DEF NextIsWay, CacheInv
  <2>3. OneCopy'
    BY <1>1, <1>3, <1>7, <1>10 DEF OneCopy, CacheInv, Holds, s
  <2>4. CleanMatchesMemory'
    <3> SUFFICES ASSUME NEW t \in Sets, NEW v \in Ways, NEW o \in Offsets,
                        lines'[t][v].valid, ~lines'[t][v].dirty
                 PROVE  lines'[t][v].data[o] = mem'[(lines'[t][v].tag * S + t) * B + o]
      BY DEF CleanMatchesMemory
    <3>1. CASE t = s /\ v = w
      <4>1. lines'[t][v].tag = TagOf(a) /\ lines'[t][v].data[o] = mem[(TagOf(a) * S + s) * B + o]
        BY <3>1, <1>1, <1>7, <1>10
      <4>2. mem'[(TagOf(a) * S + s) * B + o] = mem[(TagOf(a) * S + s) * B + o]
        BY <1>1, <1>9, <1>11
      <4> QED  BY <3>1, <4>1, <4>2
    <3>2. CASE t # s \/ v # w
      <4>1. lines'[t][v] = lines[t][v]
        BY <3>2, <1>10
      <4>2. lines[t][v].data[o] = mem[(lines[t][v].tag * S + t) * B + o]
        BY <4>1 DEF CacheInv, CleanMatchesMemory
      <4>3. lines[t][v].tag \in Tags
        BY DEF CacheInv, CacheTypes, Line
      <4>4. ~(old.valid /\ lines[t][v].tag = old.tag /\ t = s)
        BY <3>2, <4>1, <1>2 DEF CacheInv, OneCopy, old
      <4>5. mem'[(lines[t][v].tag * S + t) * B + o] = mem[(lines[t][v].tag * S + t) * B + o]
        BY <4>3, <4>4, <1>11
      <4> QED  BY <4>1, <4>2, <4>5
    <3> QED  BY <3>1, <3>2
  <2> QED  BY <2>1, <2>2, <2>3, <2>4 DEF CacheInv
<1>13. \A b \in Addr : View'[b] = IF r.op = "WRITE" /\ b = a THEN r.val ELSE View[b]
  <2> SUFFICES ASSUME NEW b \in Addr
               PROVE  View'[b] = IF r.op = "WRITE" /\ b = a THEN r.val ELSE View[b]
    OBVIOUS
  <2>0. /\ SetOf(b) \in Sets /\ Offset(b) \in Offsets /\ TagOf(b) \in Tags
        /\ BlockOf(b) = TagOf(b) * S + SetOf(b) /\ b = BlockOf(b) * B + Offset(b)
    BY AddressParts
  <2>1. ViewIsLine /\ ViewIsLine'
    BY <1>12, ViewOfLine, ViewOfLineNext
  <2>2. CASE BlockOf(b) = BlockOf(a)
    <3>1. TagOf(b) = TagOf(a) /\ SetOf(b) = s
      BY <2>2 DEF SetOf, TagOf, s
    <3>2. View[b] = mem[b]
      BY <3>1, <2>1, <1>3 DEF ViewIsLine, Holds, s
    <3>3. PICK v \in Ways : v = w
      BY <1>2
    <3>4. View'[b] = l.data[Offset(b)]
      <4>1. lines'[SetOf(b)][v] = l
        BY <3>1, <3>3, <1>10
      <4>2. Holds(b, v)'
        BY <4>1, <3>1, <1>7 DEF Holds
      <4> QED  BY <4>1, <4>2, <2>1 DEF ViewIsLine
    <3>5. b = a <=> Offset(b) = Offset(a)
      BY <2>0, <2>2, <1>1, AddressParts
    <3> QED  BY <3>2, <3>4, <3>5, <2>0, <2>2, <1>7
  <2>3. CASE old.valid /\ TagOf(b) = old.tag /\ SetOf(b) = s
    <3>1. View[b] = old.data[Offset(b)]
      BY <2>3, <2>1, <1>2 DEF ViewIsLine, Holds, old
    <3>2. \A v \in Ways : ~Holds(b, v)'
      <4> SUFFICES ASSUME NEW v \in Ways PROVE ~Holds(b, v)'
        OBVIOUS
      <4>1. CASE v = w
        BY <4>1, <2>3, <1>7, <1>9, <1>10 DEF Holds
      <4>2. CASE v # w
        BY <4>2, <2>3, <1>1, <1>2, <1>10 DEF Holds, CacheInv, OneCopy, old
      <4> QED  BY <4>1, <4>2
    <3>3. View'[b] = mem'[b]
      BY <3>2, <2>1 DEF ViewIsLine
    <3>4. b # a
      BY <2>3, <1>9
    <3>5. mem'[b] = old.data[Offset(b)]
      <4>1. CASE old.dirty
        <5>1. BlockOf(b) = evicted
          BY <2>0, <2>3
        <5> QED  BY <4>1, <5>1, <2>3, <1>8
      <4>2. CASE ~old.dirty
        <5>1. mem' = mem
          BY <4>2, <1>8
        <5>2. old.data[Offset(b)] = mem[(old.tag * S + s) * B + Offset(b)]
          BY <4>2, <2>0, <2>3, <1>1, <1>2 DEF CacheInv, CleanMatchesMemory, old
        <5> QED  BY <5>1, <5>2, <2>0, <2>3
      <4> QED  BY <4>1, <4>2
    <3> QED  BY <3>1, <3>3, <3>4, <3>5
  <2>4. CASE /\ BlockOf(b) # BlockOf(a)
             /\ ~(old.valid /\ TagOf(b) = old.tag /\ SetOf(b) = s)
    <3>0. b # a
      BY <2>4
    <3>1. ~(TagOf(b) = TagOf(a) /\ SetOf(b) = s)
      BY <2>0, <2>4, <1>1
    <3>2. ASSUME NEW v \in Ways, Holds(b, v)
          PROVE  View'[b] = View[b]
      <4>1. SetOf(b) # s \/ v # w
        BY <3>2, <2>4 DEF Holds, old
      <4>2. lines'[SetOf(b)][v] = lines[SetOf(b)][v]
        BY <4>1, <2>0, <1>10
      <4>3. Holds(b, v)'
        BY <3>2, <4>2 DEF Holds
      <4> QED  BY <3>2, <4>2, <4>3, <2>1 DEF ViewIsLine
    <3>3. CASE \A v \in Ways : ~Holds(b, v)
      <4>1. \A v \in Ways : ~Holds(b, v)'
        <5> SUFFICES ASSUME NEW v \in Ways PROVE ~Holds(b, v)'
          OBVIOUS
        <5>1. CASE SetOf(b) = s /\ v = w
          BY <5>1, <3>1, <1>7, <1>10 DEF Holds
        <5>2. CASE SetOf(b) # s \/ v # w
          BY <5>2, <3>3, <2>0, <1>10 DEF Holds
        <5> QED  BY <5>1, <5>2
      <4>2. View'[b] = mem'[b] /\ View[b] = mem[b]
        BY <3>3, <4>1, <2>1 DEF ViewIsLine
      <4>3. mem'[b] = mem[b]
        BY <2>0, <2>4, <1>11
      <4> QED  BY <3>0, <4>2, <4>3
    <3> QED  BY <3>0, <3>2, <3>3
  <2> QED  BY <2>2, <2>3, <2>4
<1>14. View' = IF r.op = "WRITE" THEN [View EXCEPT ![a] = r.val] ELSE View
  BY <1>13 DEF View
<1>15. CachedWord(a)' = View'[a]
  <2>1. Hits(a)'
    BY <1>1, <1>2, <1>7, <1>10 DEF Hits, HitWays, s
  <2> QED  BY <2>1, <1>1 DEF View
<1> QED  BY <1>12, <1>14, <1>15 DEF Performed, a

----------------------------------------------------------------------------
(* The cycle                                                               *)

CycleTypes ==
    /\ inflight \in BOOLEAN /\ inflight_addr \in Blocks /\ inflight_cycles \in 0 .. DELAY
    /\ dmem_status \in {"READY", "IN_FLIGHT"}
    /\ turn \in {"F", "M", "clock"}
    /\ fetchPC \in FETCH_ADDRS \cup {NoFetch}
    /\ corrected \in BOOLEAN /\ F_stop \in BOOLEAN
    /\ req \in Requests \cup {NoRequest}
    /\ answer \in VALUES
    /\ stalled \in 0 .. DELAY + 1

\* The registers load only when the access of the instruction in M is done.
DoneAtTheClock == turn = "clock" /\ dmem_status = "READY" => req = NoRequest

DataInv == CacheInv /\ CycleTypes /\ DoneAtTheClock

\* The guest sees the same memory while the cache and memory stay as they are.
LEMMA ViewIsUnchanged ==
    ASSUME CacheInv, UNCHANGED cache
    PROVE  CacheInv' /\ View' = View
<1>1. lines' = lines /\ lru_matrix' = lru_matrix /\ next_lru' = next_lru /\ mem' = mem
  BY DEF cache
<1>2. CacheInv'
  BY <1>1 DEF CacheInv, CacheTypes, NextIsWay, OneCopy, CleanMatchesMemory
<1>3. ViewIsLine /\ ViewIsLine'
  BY <1>2, ViewOfLine, ViewOfLineNext
<1>4. ASSUME NEW a \in Addr PROVE View'[a] = View[a]
  <2>1. CASE \E w \in Ways : Holds(a, w)
    BY <2>1, <1>1, <1>3 DEF ViewIsLine, Holds
  <2>2. CASE \A w \in Ways : ~Holds(a, w)
    BY <2>2, <1>1, <1>3 DEF ViewIsLine, Holds
  <2> QED  BY <2>1, <2>2
<1> QED  BY <1>2, <1>4 DEF View

\* What the guest sees at an address is a word.
LEMMA ViewTypes ==
    ASSUME CacheInv, NEW a \in Addr
    PROVE  View[a] \in VALUES
<1>1. ViewIsLine /\ SetOf(a) \in Sets /\ Offset(a) \in Offsets
  BY ViewOfLine, AddressParts
<1>2. CASE \E w \in Ways : Holds(a, w)
  BY <1>1, <1>2 DEF ViewIsLine, CacheInv, CacheTypes, Line
<1>3. CASE \A w \in Ways : ~Holds(a, w)
  BY <1>1, <1>3 DEF ViewIsLine, CacheInv, CacheTypes
<1> QED  BY <1>2, <1>3

\* The registers of a miss after an access of either stage.
LEMMA MissTypes ==
    ASSUME CycleTypes, NEW r \in Accesses, Hit(r) \/ Wait(r) \/ Fill(r)
    PROVE  /\ inflight' \in BOOLEAN /\ inflight_addr' \in Blocks
           /\ inflight_cycles' \in 0 .. DELAY
           /\ dmem_status' \in {"READY", "IN_FLIGHT"}
<1>1. BlockOf(r.addr) \in Blocks /\ DELAY \in Nat \ {0}
  BY AddressParts, CacheAssumption DEF Accesses
<1>2. CASE Hit(r)
  BY <1>2 DEF Hit, miss, CycleTypes
<1>3. CASE Wait(r)
  <2>1. Remaining(r.addr) \in 0 .. DELAY
    BY <1>1 DEF Remaining, CycleTypes
  <2> QED  BY <2>1, <1>1, <1>3 DEF Wait
<1>4. CASE Fill(r)
  <2>1. /\ inflight' = FALSE /\ inflight_addr' = BlockOf(r.addr)
        /\ inflight_cycles' = 0 /\ dmem_status' = "READY"
    BY <1>4 DEF Fill
  <2>2. inflight' \in BOOLEAN
    BY <2>1
  <2>3. 0 \in 0 .. DELAY
    BY <1>1
  <2> QED  BY <2>1, <2>2, <2>3, <1>1
<1> QED  BY <1>2, <1>3, <1>4

\* Nothing is cached at the start.
LEMMA DataInvInit == Init => DataInv /\ Flat!Init
<1> SUFFICES ASSUME Init PROVE DataInv /\ Flat!Init
  OBVIOUS
<1>0. /\ S \in Nat \ {0} /\ TAGS \in Nat \ {0} /\ DELAY \in Nat \ {0} /\ 0 \in VALUES
      /\ TAGS * S \in Nat \ {0} /\ 0 \in Tags
  BY CacheAssumption DEF Tags
<1>1. \A s \in Sets : \A w \in Ways : lines[s][w] = EmptyLine
  BY DEF Init
<1>2. EmptyLine \in Line /\ ~EmptyLine.valid
  BY <1>0 DEF EmptyLine, Line
<1>3. CacheTypes
  <2>1. NoOrder \in Matrices
    BY DEF NoOrder, Matrices
  <2> QED  BY <1>0, <1>2, <2>1 DEF Init, CacheTypes, InitMem
<1>4. CacheInv
  BY <1>1, <1>2, <1>3 DEF CacheInv, NextIsWay, OneCopy, CleanMatchesMemory
<1>5. CycleTypes /\ DoneAtTheClock
  <2>1. 0 \in Blocks
    BY <1>0 DEF Blocks
  <2>2. DELAY \in 0 .. DELAY /\ 0 \in 0 .. DELAY + 1
    BY <1>0
  <2>3. inflight \in BOOLEAN /\ corrected \in BOOLEAN /\ F_stop \in BOOLEAN
    BY DEF Init
  <2> QED  BY <2>1, <2>2, <2>3, <1>0 DEF Init, CycleTypes, DoneAtTheClock
<1>6. View = InitMem
  <2>1. ASSUME NEW a \in Addr PROVE View[a] = 0
    <3>1. \A w \in Ways : ~Holds(a, w)
      BY <1>1, <1>2, AddressParts DEF Holds
    <3>2. View[a] = mem[a]
      BY <3>1, <1>4, ViewOfLine DEF ViewIsLine
    <3> QED  BY <3>2 DEF Init, InitMem
  <2> QED  BY <2>1 DEF View, InitMem
<1> QED  BY <1>4, <1>5, <1>6 DEF DataInv, Flat!Init, Init

\* An access that waits, or is performed.
LEMMA AccessKeepsCacheInv ==
    ASSUME CacheInv, NEW r \in Accesses, Hit(r) \/ Wait(r) \/ Fill(r)
    PROVE  CacheInv' /\ (r.op = "READ" => View' = View)
<1>1. CASE Hit(r) \/ Fill(r)
  BY <1>1, HitPerforms, FillPerforms DEF Performed
<1>2. CASE Wait(r)
  BY <1>2, ViewIsUnchanged DEF Wait
<1> QED  BY <1>1, <1>2

\* The fetch stage reads a word of data through the cache, or leaves the cache alone.
LEMMA FetchCases ==
    ASSUME DataInv, Fetch
    PROVE  /\ turn = "F" /\ turn' = "M" /\ F_stop' \in BOOLEAN
           /\ UNCHANGED <<fetchPC, corrected, req, answer, stalled>>
           /\ \/ UNCHANGED <<cache, miss, dmem_status>>
              \/ \E r \in Accesses :
                    /\ r.op = "READ" /\ fetchPC = r.addr /\ r.addr \in FETCH_ADDRS
                    /\ Hit(r) \/ Wait(r) \/ Fill(r)
<1>1. turn = "F" /\ turn' = "M" /\ UNCHANGED <<fetchPC, corrected, req, answer, stalled>>
  BY DEF Fetch, pipeline
<1>2. ASSUME NEW a \in FETCH_ADDRS, FetchData([op |-> "READ", addr |-> a, val |-> 0])
      PROVE  /\ F_stop' \in BOOLEAN
             /\ \E r \in Accesses :
                   /\ r.op = "READ" /\ fetchPC = r.addr /\ r.addr \in FETCH_ADDRS
                   /\ Hit(r) \/ Wait(r) \/ Fill(r)
  <2> DEFINE r == [op |-> "READ", addr |-> a, val |-> 0]
  <2>1. r \in Accesses /\ r.op = "READ" /\ r.addr = a
    BY CacheAssumption DEF Accesses
  <2>2. fetchPC = r.addr /\ (Hit(r) \/ Wait(r) \/ Fill(r)) /\ F_stop' = TRUE
    BY <1>2 DEF FetchData
  <2> HIDE DEF r
  <2> QED  BY <2>1, <2>2
<1>3. ASSUME FetchText PROVE F_stop' \in BOOLEAN /\ UNCHANGED <<cache, miss, dmem_status>>
  BY <1>3 DEF FetchText
<1>4. ASSUME MakeHLT PROVE F_stop' \in BOOLEAN /\ UNCHANGED <<cache, miss, dmem_status>>
  BY <1>4 DEF MakeHLT, DataInv, CycleTypes
<1> QED  BY <1>1, <1>2, <1>3, <1>4 DEF Fetch

\* A fetch, through the cache or not, is a stutter of the flat memory.
LEMMA FetchStep ==
    ASSUME DataInv, Fetch
    PROVE  DataInv' /\ UNCHANGED Flat!vars
<1>0. /\ turn' = "M" /\ F_stop' \in BOOLEAN
      /\ UNCHANGED <<fetchPC, corrected, req, answer, stalled>>
  BY FetchCases
<1>1. CASE UNCHANGED <<cache, miss, dmem_status>>
  <2>1. CacheInv' /\ View' = View
    BY <1>1, ViewIsUnchanged DEF DataInv
  <2>2. CycleTypes' /\ DoneAtTheClock'
    BY <1>1, <1>0 DEF DataInv, CycleTypes, DoneAtTheClock, miss
  <2> QED  BY <2>1, <2>2, <1>0 DEF DataInv, Flat!vars
<1>2. ASSUME NEW r \in Accesses, r.op = "READ", Hit(r) \/ Wait(r) \/ Fill(r)
      PROVE  DataInv' /\ UNCHANGED Flat!vars
  <2>1. CacheInv' /\ View' = View
    BY <1>2, AccessKeepsCacheInv DEF DataInv
  <2>2. CycleTypes' /\ DoneAtTheClock'
    BY <1>2, <1>0, MissTypes DEF DataInv, CycleTypes, DoneAtTheClock
  <2> QED  BY <2>1, <2>2, <1>0 DEF DataInv, Flat!vars
<1> QED  BY <1>1, <1>2, FetchCases

\* So is a cycle without an access.
LEMMA NoAccessStep ==
    ASSUME DataInv, NoAccess
    PROVE  DataInv' /\ UNCHANGED Flat!vars
<1>1. CacheInv' /\ View' = View
  BY ViewIsUnchanged DEF NoAccess, DataInv
<1>2. CycleTypes' /\ DoneAtTheClock'
  BY DEF NoAccess, miss, pipeline, DataInv, CycleTypes, DoneAtTheClock
<1> QED  BY <1>1, <1>2 DEF DataInv, NoAccess, pipeline, Flat!vars

\* The cycle that serves an access performs it.
LEMMA ServeStep ==
    ASSUME DataInv, NEW r \in Requests, Serve(r)
    PROVE  DataInv' /\ Flat!Perform
<1>1. /\ turn' = "clock" /\ req = r /\ req' = NoRequest
      /\ Hit(r) \/ Fill(r)
      /\ answer' = IF r.op = "READ" THEN CachedWord(r.addr)' ELSE answer
      /\ UNCHANGED <<fetchPC, corrected, F_stop, stalled>>
  BY DEF Serve
<1>2. r \in Accesses /\ r.addr \in Addr /\ r # NoRequest
  BY RequestsAreAccesses DEF Accesses, Requests, NoRequest
<1>3. Performed(r)
  BY <1>1, <1>2, HitPerforms, FillPerforms DEF DataInv
<1>4. answer' = IF r.op = "READ" THEN View[r.addr] ELSE answer
  BY <1>1, <1>3 DEF Performed
<1>5. answer' \in VALUES
  BY <1>2, <1>4, ViewTypes DEF DataInv, CycleTypes
<1>6. CycleTypes' /\ DoneAtTheClock'
  BY <1>1, <1>2, <1>5, MissTypes DEF DataInv, CycleTypes, DoneAtTheClock
<1>7. Flat!Perform
  BY <1>1, <1>2, <1>3, <1>4 DEF Flat!Perform, Performed, Accesses
<1> QED  BY <1>3, <1>6, <1>7 DEF DataInv, Performed

\* A cycle in which the access waits is a stutter.
LEMMA StallStep ==
    ASSUME DataInv, NEW r \in Requests, Stall(r)
    PROVE  DataInv' /\ UNCHANGED Flat!vars
<1>1. r \in Accesses /\ DELAY \in Nat
  BY RequestsAreAccesses, CacheAssumption
<1>2. /\ turn' = "clock" /\ Wait(r)
      /\ UNCHANGED <<F_stop, fetchPC, corrected, req, answer, stalled>>
  BY DEF Stall, pipeline
<1>3. UNCHANGED cache /\ dmem_status' = "IN_FLIGHT"
  BY <1>2 DEF Wait
<1>4. CacheInv' /\ View' = View
  BY <1>3, ViewIsUnchanged DEF DataInv
<1>5. CycleTypes' /\ DoneAtTheClock'
  BY <1>1, <1>2, <1>3, MissTypes DEF DataInv, CycleTypes, DoneAtTheClock
<1> QED  BY <1>2, <1>4, <1>5 DEF DataInv, Flat!vars

\* The clock issues the next access, when the last is done.
LEMMA ClockStep ==
    ASSUME DataInv, Clock
    PROVE  DataInv' /\ (Flat!Issue \/ UNCHANGED Flat!vars)
<1>1. /\ turn = "clock" /\ turn' = "F"
      /\ UNCHANGED <<cache, miss, dmem_status, F_stop, answer>>
  BY DEF Clock
<1>2. CacheInv' /\ View' = View
  BY <1>1, ViewIsUnchanged DEF DataInv
<1>3. CASE Freeze
  <2>1. UNCHANGED <<fetchPC, corrected, req>>
    BY <1>3 DEF Freeze
  <2>2. stalled' \in 0 .. DELAY + 1
    BY <1>3, CacheAssumption DEF Freeze, DataInv, CycleTypes
  <2>3. CycleTypes' /\ DoneAtTheClock'
    BY <1>1, <2>1, <2>2 DEF DataInv, CycleTypes, DoneAtTheClock, miss
  <2> QED  BY <1>1, <1>2, <2>1, <2>3 DEF DataInv, Flat!vars
<1>4. CASE Load
  <2>1. /\ fetchPC' \in FETCH_ADDRS \cup {NoFetch} /\ corrected' \in BOOLEAN
        /\ req' \in Requests \cup {NoRequest} /\ stalled' = 0
    BY <1>4 DEF Load
  <2>2. req = NoRequest
    BY <1>1, <1>4 DEF Load, DataInv, DoneAtTheClock
  <2>3. 0 \in 0 .. DELAY + 1
    BY CacheAssumption
  <2>4. CycleTypes' /\ DoneAtTheClock'
    BY <1>1, <2>1, <2>3 DEF DataInv, CycleTypes, DoneAtTheClock, miss
  <2> QED  BY <1>1, <1>2, <2>1, <2>2, <2>4 DEF DataInv, Flat!vars, Flat!Issue
<1> QED  BY <1>3, <1>4 DEF Clock

\* Every step keeps the invariant, and is one of the flat memory or a stutter.
LEMMA DataInvStep ==
    ASSUME DataInv, [Next]_vars
    PROVE  DataInv' /\ [Flat!Next]_(Flat!vars)
<1>1. CASE Fetch
  BY <1>1, FetchStep
<1>2. CASE NoAccess
  BY <1>2, NoAccessStep
<1>3. CASE Clock
  BY <1>3, ClockStep DEF Flat!Next
<1>4. ASSUME NEW r \in Requests, Serve(r) PROVE DataInv' /\ Flat!Next
  BY <1>4, ServeStep DEF Flat!Next
<1>5. ASSUME NEW r \in Requests, Stall(r) PROVE DataInv' /\ UNCHANGED Flat!vars
  BY <1>5, StallStep
<1>6. CASE UNCHANGED vars
  <2>1. CacheInv' /\ View' = View
    BY <1>6, ViewIsUnchanged DEF vars, DataInv
  <2>2. CycleTypes' /\ DoneAtTheClock'
    BY <1>6 DEF vars, miss, pipeline, DataInv, CycleTypes, DoneAtTheClock
  <2> QED  BY <1>6, <2>1, <2>2 DEF DataInv, vars, pipeline, Flat!vars
<1> QED  BY <1>1, <1>2, <1>3, <1>4, <1>5, <1>6 DEF Next

\* The inductive invariant.
LEMMA DataInvAlways == Spec => []DataInv
  BY DataInvInit, DataInvStep, PTL DEF Spec

----------------------------------------------------------------------------
(* The delay of a miss                                                     *)

FetchedBlocks == {BlockOf(a) : a \in FETCH_ADDRS}

\* The cycles in which the memory stage has waited, the clock's turn of each after
\* the first included.
Waited == IF turn = "clock" THEN stalled + 1 ELSE stalled

\* A count that is under way is of a block that is fetched, or was begun by the
\* access in M, whose block has not come into the cache since.
Counted ==
    inflight => \/ inflight_addr \in FetchedBlocks
                \/ /\ req # NoRequest /\ inflight_addr = BlockOf(req.addr)
                   /\ Waited >= 1 /\ ~Hits(req.addr)

\* An access no fetch can meddle with has not begun to wait, or the count is its
\* own and stands where it should.
Own ==
    req # NoRequest /\ fetchPC = NoFetch /\ BlockOf(req.addr) \notin FetchedBlocks =>
        \/ turn # "clock" /\ stalled = 0 /\ ~(inflight /\ inflight_addr = BlockOf(req.addr))
        \/ /\ Waited >= 1 /\ inflight /\ inflight_addr = BlockOf(req.addr)
           /\ inflight_cycles >= 1 /\ inflight_cycles = DELAY - Waited

PenaltyInv == Counted /\ Own

\* A hit puts no block into the cache and takes none out.
LEMMA HitKeepsHits ==
    ASSUME CacheInv, NEW r \in Accesses, Hit(r), NEW a \in Addr
    PROVE  Hits(a)' <=> Hits(a)
<1> DEFINE s == SetOf(r.addr)
           w == HitWay(r.addr)
           l == Accessed(lines[s][w], r)
<1>1. s \in Sets /\ SetOf(a) \in Sets
  BY AddressParts DEF Accesses
<1>2. w \in Ways
  <2>1. PICK v \in Ways : Holds(r.addr, v)
    BY DEF Hit, Hits, HitWays, Holds
  <2>2. HitWays(r.addr) = {v}
    BY <1>1, <2>1 DEF HitWays, Holds, CacheInv, OneCopy
  <2> QED  BY <2>1, <2>2, WaysAreNaturals DEF HitWay
<1>3. lines[s][w] \in Line
  BY <1>1, <1>2 DEF CacheInv, CacheTypes
<1>4. l \in Line /\ l.valid = lines[s][w].valid /\ l.tag = lines[s][w].tag
  BY <1>3, AccessedLine
<1>5. lines' = [lines EXCEPT ![s][w] = l]
  BY DEF Hit
<1> HIDE DEF s, w, l
<1>6. /\ lines'[s][w] = l
      /\ \A t \in Sets : \A v \in Ways : (t # s \/ v # w) => lines'[t][v] = lines[t][v]
  <2>1. s \in Sets /\ w \in Ways /\ l \in Line /\ Put(s, w, l)
    BY <1>1, <1>2, <1>4, <1>5 DEF Put
  <2>2. CacheInv
    OBVIOUS
  <2> QED  BY <2>1, <2>2, OneLineChanged
<1>7. \A t \in Sets : \A v \in Ways : /\ lines'[t][v].valid = lines[t][v].valid
                                      /\ lines'[t][v].tag = lines[t][v].tag
  BY <1>4, <1>6
<1> QED  BY <1>1, <1>7 DEF Hits, HitWays

\* The access in M is one of the guest's.
LEMMA RequestInM ==
    ASSUME DataInv, req # NoRequest
    PROVE  req \in Requests /\ req \in Accesses /\ req.addr \in Addr
  BY RequestsAreAccesses DEF DataInv, CycleTypes, Accesses

\* A fetch from the data has the count to itself, or the access in M has.
LEMMA FetchPenalty ==
    ASSUME DataInv, PenaltyInv, Fetch
    PROVE  PenaltyInv'
<1>1. turn' = "M" /\ turn = "F" /\ UNCHANGED <<fetchPC, req, answer, stalled>>
  BY FetchCases
<1>2. Waited' = Waited
  BY <1>1 DEF Waited
<1>3. CASE UNCHANGED <<cache, miss, dmem_status>>
  <2>1. UNCHANGED cache /\ UNCHANGED <<inflight, inflight_addr, inflight_cycles>>
    BY <1>3 DEF miss
  <2>2. Hits(req.addr)' <=> Hits(req.addr)
    BY <2>1, <1>1 DEF cache, Hits, HitWays
  <2>3. Counted'
    BY <2>1, <2>2, <1>1, <1>2 DEF PenaltyInv, Counted
  <2>4. Own'
    BY <2>1, <1>1, <1>2 DEF PenaltyInv, Own
  <2> QED  BY <2>3, <2>4 DEF PenaltyInv
<1>4. ASSUME NEW r \in Accesses, fetchPC = r.addr, r.addr \in FETCH_ADDRS,
             Hit(r) \/ Wait(r) \/ Fill(r)
      PROVE  PenaltyInv'
  <2>1. r.addr \in Addr /\ NoFetch \notin Addr /\ BlockOf(r.addr) \in FetchedBlocks
    <3>1. NoFetch \in Nat
      BY CacheAssumption DEF NoFetch
    <3>2. NoFetch \notin Addr
      BY <3>1 DEF NoFetch, Addr
    <3> QED  BY <1>4, <3>2, CacheAssumption DEF FetchedBlocks
  <2>2. Own'
    BY <1>1, <1>4, <2>1 DEF Own
  <2>3. CASE Hit(r)
    <3>1. UNCHANGED <<inflight, inflight_addr, inflight_cycles>>
      BY <2>3 DEF Hit, miss
    <3>2. req # NoRequest => (Hits(req.addr)' <=> Hits(req.addr))
      <4>1. ASSUME NEW b \in Addr, b = req.addr PROVE Hits(b)' <=> Hits(b)
        BY <2>3, HitKeepsHits DEF DataInv
      <4> QED  BY <4>1, <1>1, RequestInM DEF Hits, HitWays
    <3> QED  BY <3>1, <3>2, <2>2, <1>1, <1>2 DEF PenaltyInv, Counted
  <2>4. CASE Wait(r)
    BY <2>1, <2>2, <2>4 DEF Wait, PenaltyInv, Counted
  <2>5. CASE Fill(r)
    BY <2>2, <2>5 DEF Fill, PenaltyInv, Counted
  <2> QED  BY <1>4, <2>3, <2>4, <2>5
<1> QED  BY <1>3, <1>4, FetchCases

\* The access that is served has waited as long as it should, and leaves no
\* count behind.
LEMMA ServePenalty ==
    ASSUME DataInv, PenaltyInv, NEW r \in Requests, Serve(r)
    PROVE  /\ PenaltyInv'
           /\ fetchPC = NoFetch /\ BlockOf(req.addr) \notin FetchedBlocks =>
                 stalled = IF Hits(req.addr) THEN 0 ELSE DELAY - 1
<1>1. /\ turn = "M" /\ req = r /\ req # NoRequest /\ req' = NoRequest
      /\ Hit(r) \/ Fill(r)
      /\ Waited = stalled
  BY DEF Serve, Requests, NoRequest, Waited
<1>2. DELAY \in Nat \ {0} /\ inflight_cycles \in 0 .. DELAY /\ stalled \in 0 .. DELAY + 1
  BY CacheAssumption DEF DataInv, CycleTypes
<1>3. Counted'
  <2>1. CASE Hit(r)
    <3>1. UNCHANGED <<inflight, inflight_addr, inflight_cycles>> /\ Hits(r.addr)
      BY <2>1 DEF Hit, miss
    <3> QED  BY <3>1, <1>1 DEF PenaltyInv, Counted
  <2>2. CASE Fill(r)
    BY <2>2 DEF Fill, Counted
  <2> QED  BY <1>1, <2>1, <2>2
<1>4. ASSUME fetchPC = NoFetch, BlockOf(req.addr) \notin FetchedBlocks
      PROVE  stalled = IF Hits(req.addr) THEN 0 ELSE DELAY - 1
  <2>1. CASE Hits(req.addr)
    <3>1. ~(inflight /\ inflight_addr = BlockOf(req.addr))
      BY <2>1, <1>4 DEF PenaltyInv, Counted
    <3> QED  BY <3>1, <2>1, <1>1, <1>4 DEF PenaltyInv, Own
  <2>2. CASE ~Hits(req.addr)
    <3>1. Remaining(req.addr) = 1
      BY <2>2, <1>1 DEF Hit, Fill
    <3>2. CASE inflight /\ inflight_addr = BlockOf(req.addr)
      BY <2>2, <3>1, <3>2, <1>1, <1>2, <1>4 DEF PenaltyInv, Own, Remaining
    <3>3. CASE ~(inflight /\ inflight_addr = BlockOf(req.addr))
      BY <2>2, <3>1, <3>3, <1>1, <1>2, <1>4 DEF PenaltyInv, Own, Remaining
    <3> QED  BY <3>2, <3>3
  <2> QED  BY <2>1, <2>2
<1>5. Own'
  BY <1>1 DEF Own
<1> QED  BY <1>3, <1>4, <1>5 DEF PenaltyInv

\* A cycle of waiting is counted, once.
LEMMA StallPenalty ==
    ASSUME DataInv, PenaltyInv, NEW r \in Requests, Stall(r)
    PROVE  PenaltyInv'
<1>1. /\ turn = "M" /\ req = r /\ req' = r /\ fetchPC' = fetchPC /\ req # NoRequest
      /\ Waited = stalled /\ Waited' = stalled + 1
      /\ ~Hits(r.addr) /\ Remaining(r.addr) > 1
      /\ inflight' = TRUE /\ inflight_addr' = BlockOf(r.addr)
      /\ inflight_cycles' = Remaining(r.addr) - 1
      /\ UNCHANGED cache
  BY DEF Stall, Wait, Requests, NoRequest, pipeline, Waited
<1>2. DELAY \in Nat \ {0} /\ inflight_cycles \in 0 .. DELAY /\ stalled \in 0 .. DELAY + 1
  BY CacheAssumption DEF DataInv, CycleTypes
<1>3. Waited' >= 1
  BY <1>1, <1>2
<1>4. Counted'
  <2>1. ~Hits(req.addr)'
    BY <1>1 DEF cache, Hits, HitWays
  <2> QED  BY <2>1, <1>1, <1>3 DEF Counted
<1>5. Own'
  <2> SUFFICES ASSUME fetchPC = NoFetch, BlockOf(r.addr) \notin FetchedBlocks
               PROVE  inflight_cycles' >= 1 /\ inflight_cycles' = DELAY - Waited'
    BY <1>1, <1>3 DEF Own
  <2>1. CASE inflight /\ inflight_addr = BlockOf(req.addr)
    <3>1. inflight_cycles >= 1 /\ inflight_cycles = DELAY - stalled
      BY <2>1, <1>1 DEF PenaltyInv, Own
    <3> QED  BY <3>1, <2>1, <1>1, <1>2 DEF Remaining
  <2>2. CASE ~(inflight /\ inflight_addr = BlockOf(req.addr))
    <3>1. stalled = 0
      BY <2>2, <1>1 DEF PenaltyInv, Own
    <3> QED  BY <3>1, <2>2, <1>1, <1>2 DEF Remaining
  <2> QED  BY <2>1, <2>2
<1> QED  BY <1>4, <1>5 DEF PenaltyInv

\* The next access starts to wait anew.
LEMMA ClockPenalty ==
    ASSUME DataInv, PenaltyInv, Clock
    PROVE  /\ PenaltyInv'
           /\ req # NoRequest => req' = req
<1>1. /\ turn = "clock" /\ turn' = "F"
      /\ UNCHANGED cache /\ UNCHANGED <<inflight, inflight_addr, inflight_cycles>>
  BY DEF Clock, miss
<1>2. stalled \in Nat /\ Waited = stalled + 1 /\ Waited' = stalled'
  BY <1>1, CacheAssumption DEF Waited, DataInv, CycleTypes
<1>3. CASE Freeze
  <2>1. UNCHANGED <<fetchPC, req>>
    BY <1>3 DEF Freeze
  <2>2. Hits(req.addr)' <=> Hits(req.addr)
    BY <1>1, <2>1 DEF cache, Hits, HitWays
  <2>3. stalled' >= 1 /\ (stalled <= DELAY => stalled' = stalled + 1)
    BY <1>3, <1>2, CacheAssumption DEF Freeze
  <2>4. Counted'
    BY <1>1, <1>2, <2>1, <2>2, <2>3 DEF PenaltyInv, Counted
  <2>5. Own'
    <3> SUFFICES ASSUME req # NoRequest, fetchPC = NoFetch, BlockOf(req.addr) \notin FetchedBlocks
                 PROVE  /\ Waited' >= 1 /\ inflight' /\ inflight_addr' = BlockOf(req.addr)
                        /\ inflight_cycles' >= 1 /\ inflight_cycles' = DELAY - Waited'
      BY <2>1 DEF Own
    <3>1. /\ inflight /\ inflight_addr = BlockOf(req.addr)
          /\ inflight_cycles >= 1 /\ inflight_cycles = DELAY - Waited
      BY <1>1 DEF PenaltyInv, Own
    <3>2. Waited <= DELAY
      BY <3>1, <1>2, CacheAssumption DEF DataInv, CycleTypes
    <3>3. Waited' = Waited
      BY <3>2, <2>3, <1>2, CacheAssumption
    <3> QED  BY <3>1, <3>3, <2>3, <1>1, <1>2
  <2> QED  BY <2>1, <2>4, <2>5 DEF PenaltyInv
<1>4. CASE Load
  <2>1. req = NoRequest /\ stalled' = 0
    BY <1>1, <1>4 DEF Load, DataInv, DoneAtTheClock
  <2>2. inflight => inflight_addr \in FetchedBlocks
    BY <2>1 DEF PenaltyInv, Counted
  <2>3. Counted'
    BY <1>1, <2>2 DEF Counted
  <2>4. Own'
    BY <1>1, <2>1, <2>2 DEF Own
  <2> QED  BY <2>1, <2>3, <2>4 DEF PenaltyInv
<1> QED  BY <1>3, <1>4 DEF Clock

\* Every step keeps the count, and serves an access only when it should.
LEMMA PenaltyStep ==
    ASSUME DataInv, PenaltyInv, [Next]_vars
    PROVE  /\ PenaltyInv'
           /\ /\ req # NoRequest /\ req' = NoRequest
              /\ fetchPC = NoFetch
              /\ BlockOf(req.addr) \notin {BlockOf(a) : a \in FETCH_ADDRS}
              => stalled = IF Hits(req.addr) THEN 0 ELSE DELAY - 1
<1>1. CASE Fetch
  BY <1>1, FetchPenalty, FetchCases
<1>2. CASE NoAccess
  <2>1. /\ UNCHANGED <<req, fetchPC, inflight, inflight_addr, inflight_cycles>>
        /\ req = NoRequest
    BY <1>2 DEF NoAccess, pipeline, miss
  <2> QED  BY <2>1 DEF PenaltyInv, Counted, Own
<1>3. CASE Clock
  BY <1>3, ClockPenalty
<1>4. ASSUME NEW r \in Requests, Serve(r)
      PROVE  /\ PenaltyInv'
             /\ fetchPC = NoFetch /\ BlockOf(req.addr) \notin FetchedBlocks =>
                   stalled = IF Hits(req.addr) THEN 0 ELSE DELAY - 1
  BY <1>4, ServePenalty
<1>5. ASSUME NEW r \in Requests, Stall(r) PROVE PenaltyInv' /\ req' = req
  BY <1>5, StallPenalty DEF Stall, pipeline
<1>6. CASE UNCHANGED vars
  <2>1. /\ UNCHANGED <<turn, req, fetchPC, stalled, inflight, inflight_addr, inflight_cycles>>
        /\ UNCHANGED cache
    BY <1>6 DEF vars, miss, pipeline
  <2>2. Hits(req.addr)' <=> Hits(req.addr)
    BY <2>1 DEF cache, Hits, HitWays
  <2>3. Waited' = Waited
    BY <2>1 DEF Waited
  <2> QED  BY <2>1, <2>2, <2>3 DEF PenaltyInv, Counted, Own
<1> QED  BY <1>1, <1>2, <1>3, <1>4, <1>5, <1>6 DEF Next, FetchedBlocks

\* Nothing is in flight at the start.
LEMMA PenaltyInit == Init => PenaltyInv
  BY DEF Init, PenaltyInv, Counted, Own

----------------------------------------------------------------------------
(* What becomes of a freeze                                                *)

\* The access in M is none of the fetch stage's, nor an abandoned one's.
LEMMA NoRequestIsNone == NoRequest \notin Requests
  BY DEF NoRequest, Requests

\* An abandoned miss stays abandoned, and nothing is performed any more.
LEMMA AbandonedStep ==
    ASSUME DataInv, [Next]_vars, Abandoned
    PROVE  Abandoned' /\ UNCHANGED <<cache, req, answer>>
<1> USE DEF Abandoned, Stopped
<1>1. CASE Fetch
  BY <1>1 DEF Fetch, FetchData, FetchText, MakeHLT, pipeline
<1>2. CASE NoAccess
  BY <1>2 DEF NoAccess, pipeline
<1>3. CASE Clock
  BY <1>3 DEF Clock, Freeze, Load
<1>4. ASSUME NEW r \in Requests, Serve(r) \/ Stall(r) PROVE FALSE
  BY <1>4, NoRequestIsNone DEF Serve, Stall
<1>5. CASE UNCHANGED vars
  BY <1>5 DEF vars, pipeline
<1> QED  BY <1>1, <1>2, <1>3, <1>4, <1>5 DEF Next

\* Where no instruction is fetched from the data, the pipeline is frozen by the
\* access in M alone, and no longer than its count.
FrozenByAccess ==
    /\ dmem_status = "IN_FLIGHT" => req # NoRequest
    /\ stalled <= DELAY

\* Every step keeps it so.
LEMMA FrozenStep ==
    ASSUME DataInv, PenaltyInv, FrozenByAccess, FETCH_ADDRS = {}, [Next]_vars
    PROVE  FrozenByAccess'
<1>1. CASE Fetch
  BY <1>1, FetchCases DEF FrozenByAccess
<1>2. CASE NoAccess
  BY <1>2 DEF NoAccess, pipeline, FrozenByAccess
<1>3. CASE Clock
  <2>1. CASE Freeze
    <3>1. req # NoRequest /\ req' = req /\ turn = "clock" /\ dmem_status' = dmem_status
      BY <1>3, <2>1 DEF Clock, Freeze, FrozenByAccess
    <3>2. fetchPC = NoFetch /\ FetchedBlocks = {}
      BY DEF DataInv, CycleTypes, FetchedBlocks
    <3>3. inflight_cycles >= 1 /\ inflight_cycles = DELAY - (stalled + 1)
      BY <3>1, <3>2 DEF PenaltyInv, Own, Waited
    <3>4. stalled' <= DELAY
      BY <2>1, <3>3, CacheAssumption DEF Freeze, DataInv, CycleTypes
    <3> QED  BY <3>1, <3>4 DEF FrozenByAccess
  <2>2. CASE Load
    BY <1>3, <2>2, CacheAssumption DEF Clock, Load, FrozenByAccess
  <2> QED  BY <1>3, <2>1, <2>2 DEF Clock
<1>4. ASSUME NEW r \in Requests, Serve(r) PROVE FrozenByAccess'
  BY <1>4 DEF Serve, Hit, Fill, FrozenByAccess
<1>5. ASSUME NEW r \in Requests, Stall(r) PROVE FrozenByAccess'
  BY <1>5, NoRequestIsNone DEF Stall, pipeline, FrozenByAccess
<1>6. CASE UNCHANGED vars
  BY <1>6 DEF vars, pipeline, FrozenByAccess
<1> QED  BY <1>1, <1>2, <1>3, <1>4, <1>5, <1>6 DEF Next

----------------------------------------------------------------------------
(* The theorems                                                            *)

\* Every variable keeps the type of what it models; the countdown of a miss
\* stays between 0 and d.
THEOREM DataTypesAlways == Spec => []TypeOK
<1>1. DataInv => TypeOK
  BY DEF DataInv, CacheInv, CacheTypes, CycleTypes, TypeOK
<1> QED  BY <1>1, DataInvAlways, PTL

\* A fill never brings a block in beside a copy of it (handle_miss runs only
\* when no line of the set has the tag).
THEOREM OneCopyAlways == Spec => []OneCopy
<1>1. DataInv => OneCopy
  BY DEF DataInv, CacheInv
<1> QED  BY <1>1, DataInvAlways, PTL

\* A clean line can be dropped: whatever is written back, it is the block of
\* the line given up, and no other line's.
THEOREM CleanMatchesMemoryAlways == Spec => []CleanMatchesMemory
<1>1. DataInv => CleanMatchesMemory
  BY DEF DataInv, CacheInv
<1> QED  BY <1>1, DataInvAlways, PTL

\* The cache, its misses, evictions and write-backs, and the fetches that go
\* through it, are a memory of words to the memory stage.
THEOREM FlatMemoryImplemented == Spec => ImplementsFlatMemory
  BY DataInvInit, DataInvStep, DataInvAlways, PTL
  DEF Spec, ImplementsFlatMemory, Flat!Spec

\* Whatever d is, an access that misses spends d - 1 cycles in flight, and one
\* that hits none, if no instruction is fetched from its block or while it waits:
\* a count left by an earlier access is never taken for its own.
THEOREM MissPenaltyAlways == Spec => MissPenalty
<1> DEFINE Right ==
             /\ req # NoRequest /\ req' = NoRequest
             /\ fetchPC = NoFetch
             /\ BlockOf(req.addr) \notin {BlockOf(a) : a \in FETCH_ADDRS}
             => stalled = IF Hits(req.addr) THEN 0 ELSE DELAY - 1
<1>1. Init => DataInv /\ PenaltyInv
  BY DataInvInit, PenaltyInit
<1>2. DataInv /\ PenaltyInv /\ [Next]_vars => DataInv' /\ PenaltyInv' /\ [Right]_vars
  BY DataInvStep, PenaltyStep
<1>3. MissPenalty <=> [][Right]_vars
  BY DEF MissPenalty
<1> HIDE DEF Right
<1> QED  BY <1>1, <1>2, <1>3, PTL DEF Spec

\* The hang is one: once the fetch stage has given up a miss with no access in M,
\* handle_hazards freezes the pipeline in every cycle that is left, and the access
\* waiting in X is never performed.
THEOREM AbandonedForGood ==
    Spec => [][Abandoned => Abandoned' /\ UNCHANGED <<cache, req, answer>>]_vars
<1>1. DataInv /\ [Next]_vars => [Abandoned => Abandoned' /\ UNCHANGED <<cache, req, answer>>]_vars
  BY AbandonedStep
<1> QED  BY <1>1, DataInvAlways, PTL DEF Spec

\* A guest that stays in its text is never stalled longer than d cycles: all that
\* breaks the documented penalty is a fetch from the data.
THEOREM StallsAtMostDelayInText ==
    ASSUME FETCH_ADDRS = {}
    PROVE  Spec => []StallsAtMostDelay
<1>1. Init => DataInv /\ PenaltyInv /\ FrozenByAccess
  <2>1. Init => FrozenByAccess
    BY CacheAssumption DEF Init, FrozenByAccess
  <2> QED  BY <2>1, DataInvInit, PenaltyInit
<1>2. DataInv /\ PenaltyInv /\ FrozenByAccess /\ [Next]_vars
      => DataInv' /\ PenaltyInv' /\ FrozenByAccess'
  BY DataInvStep, PenaltyStep, FrozenStep
<1>3. FrozenByAccess => StallsAtMostDelay
  BY DEF FrozenByAccess, StallsAtMostDelay
<1> QED  BY <1>1, <1>2, <1>3, PTL DEF Spec
=============================================================================
