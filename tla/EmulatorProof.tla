---------------------------- MODULE EmulatorProof ----------------------------
(***************************************************************************)
(* Proofs about the run of the emulator, for every page size and hash, all *)
(* programs, and every cache whose size, line and number of sets fit: what *)
(* the guest sees through the cache is the image of its file and what it   *)
(* has stored since, and a checkpoint is that, but for the lines that have *)
(* yet to be written back.                                                 *)
(***************************************************************************)
EXTENDS Emulator, PageTableProof, FiniteSetTheorems

----------------------------------------------------------------------------
(* The shape of a cache                                                    *)

\* _log, unfolded.
LEMMA LogValues ==
    /\ Log \in [Nat -> Nat]
    /\ \A n \in Nat : Log[n] = IF n \div 2 = 0 THEN 0 ELSE 1 + Log[n \div 2]
<1> DEFINE G == [n \in Nat |-> [x \in Nat |-> IF n \div 2 = 0 THEN 0 ELSE 1 + x]]
           Body(f) == [n \in Nat |-> IF n \div 2 = 0 THEN 0 ELSE 1 + f[n \div 2]]
<1>1. /\ G \in [Nat -> [Nat -> Nat]]
      /\ \A n \in Nat : \A x \in Nat : G[n][x] = IF n \div 2 = 0 THEN 0 ELSE 1 + x
  OBVIOUS
<1> HIDE DEF G
<1>2. IsRecursion(Nat, Half, Nat, 0, G)
  BY <1>1, HalfIsLess DEF IsRecursion
<1>3. PICK F : IsSolution(Nat, Half, Nat, 0, G, F)
  BY <1>2, Recursion
<1>4. F \in [Nat -> Nat] /\ F[0] = 0 /\ \A n \in Nat \ {0} : F[n] = G[n][F[Half[n]]]
  BY <1>3 DEF IsSolution
<1>5. ASSUME NEW n \in Nat PROVE F[n] = IF n \div 2 = 0 THEN 0 ELSE 1 + F[n \div 2]
  <2>1. CASE n = 0
    BY <2>1, <1>4
  <2>2. CASE n # 0
    <3>1. Half[n] = n \div 2 /\ n \div 2 \in Nat
      BY <2>2, HalfIsLess
    <3>2. F[n \div 2] \in Nat /\ F[n] = G[n][F[n \div 2]]
      BY <3>1, <2>2, <1>4
    <3> QED  BY <3>2, <1>1
  <2> QED  BY <2>1, <2>2
<1>6. F = Body(F)
  BY <1>4, <1>5
<1> HIDE DEF Body
<1>7. Log = CHOOSE f : f = Body(f)
  BY DEF Log, Body
<1>8. Log = Body(Log)
  BY <1>6, <1>7
<1>9. \A n \in Nat : Log[n] = IF n \div 2 = 0 THEN 0 ELSE 1 + Log[n \div 2]
  BY <1>8 DEF Body
<1>10. Log = [n \in Nat |-> Log[n]]
  BY <1>8 DEF Body
<1> DEFINE T == {n \in Nat : Log[n] \in Nat}
<1>11. ASSUME NEW n \in Nat, \A m \in Nat : m < n => m \in T PROVE n \in T
  <2>1. CASE n \div 2 = 0
    BY <2>1, <1>9
  <2>2. CASE n \div 2 # 0
    <3>1. n # 0 /\ n \div 2 \in Nat /\ n \div 2 < n
      BY <2>2, HalfIsLess
    <3>2. n \div 2 \in T
      BY <3>1, <1>11
    <3> QED  BY <3>2, <2>2, <1>9
  <2> QED  BY <2>1, <2>2
<1> HIDE DEF T
<1>12. Nat \subseteq T
  BY <1>11, StrongInduction
<1>13. Log \in [Nat -> Nat]
  BY <1>10, <1>12 DEF T
<1> QED  BY <1>9, <1>13

\* popcount, unfolded.
LEMMA PopcountValues ==
    /\ popcount \in [Nat -> Nat]
    /\ popcount[0] = 0
    /\ \A n \in Nat \ {0} : popcount[n] = (n % 2) + popcount[n \div 2]
<1> DEFINE G == [n \in Nat |-> [x \in Nat |-> (n % 2) + x]]
           Body(f) == [n \in Nat |-> IF n = 0 THEN 0 ELSE (n % 2) + f[n \div 2]]
<1>1. /\ G \in [Nat -> [Nat -> Nat]]
      /\ \A n \in Nat : \A x \in Nat : G[n][x] = (n % 2) + x
  OBVIOUS
<1> HIDE DEF G
<1>2. IsRecursion(Nat, Half, Nat, 0, G)
  BY <1>1, HalfIsLess DEF IsRecursion
<1>3. PICK F : IsSolution(Nat, Half, Nat, 0, G, F)
  BY <1>2, Recursion
<1>4. F \in [Nat -> Nat] /\ F[0] = 0 /\ \A n \in Nat \ {0} : F[n] = G[n][F[Half[n]]]
  BY <1>3 DEF IsSolution
<1>5. ASSUME NEW n \in Nat \ {0} PROVE F[n] = (n % 2) + F[n \div 2]
  <2>1. Half[n] = n \div 2 /\ n \div 2 \in Nat
    BY HalfIsLess
  <2>2. F[n \div 2] \in Nat /\ F[n] = G[n][F[n \div 2]]
    BY <2>1, <1>4
  <2> QED  BY <2>2, <1>1
<1>6. F = Body(F)
  BY <1>4, <1>5
<1> HIDE DEF Body
<1>7. popcount = CHOOSE f : f = Body(f)
  BY DEF popcount, Body
<1>8. popcount = Body(popcount)
  BY <1>6, <1>7
<1>9. popcount[0] = 0 /\ \A n \in Nat \ {0} : popcount[n] = (n % 2) + popcount[n \div 2]
  BY <1>8 DEF Body
<1>10. popcount = [n \in Nat |-> popcount[n]]
  BY <1>8 DEF Body
<1> DEFINE T == {n \in Nat : popcount[n] \in Nat}
<1>11. ASSUME NEW n \in Nat, \A m \in Nat : m < n => m \in T PROVE n \in T
  <2>1. CASE n = 0
    BY <2>1, <1>9
  <2>2. CASE n # 0
    <3>1. n \div 2 \in Nat /\ n \div 2 < n /\ n % 2 \in Nat
      BY <2>2, HalfIsLess
    <3>2. n \div 2 \in T
      BY <3>1, <1>11
    <3> QED  BY <3>1, <3>2, <2>2, <1>9
  <2> QED  BY <2>1, <2>2
<1> HIDE DEF T
<1>12. Nat \subseteq T
  BY <1>11, StrongInduction
<1>13. popcount \in [Nat -> Nat]
  BY <1>10, <1>12 DEF T
<1> QED  BY <1>9, <1>13

\* What popcount takes for a power of two is one, and _log is its exponent.
LEMMA PowerOfTwoIsPow2 ==
    ASSUME NEW n \in Int, PowerOfTwo(n)
    PROVE  n \in Nat \ {0} /\ Log[n] \in Nat /\ Pow2[Log[n]] = n
<1>1. \A m \in Nat : popcount[m] = 0 => m = 0
  <2> DEFINE T == {m \in Nat : popcount[m] = 0 => m = 0}
  <2>1. ASSUME NEW m \in Nat, \A k \in Nat : k < m => k \in T PROVE m \in T
    <3>1. CASE m = 0
      BY <3>1
    <3>2. CASE m # 0 /\ popcount[m] = 0
      <4>1. /\ m \div 2 \in Nat /\ m \div 2 < m /\ m % 2 \in {0, 1}
            /\ m = 2 * (m \div 2) + (m % 2)
        BY <3>2, HalfIsLess
      <4>2. popcount[m] = (m % 2) + popcount[m \div 2] /\ popcount[m \div 2] \in Nat
        BY <3>2, <4>1, PopcountValues
      <4>3. m % 2 = 0 /\ popcount[m \div 2] = 0
        BY <4>1, <4>2, <3>2
      <4>4. m \div 2 = 0
        BY <4>1, <4>3, <2>1
      <4> QED  BY <4>1, <4>3, <4>4, <3>2
    <3> QED  BY <3>1, <3>2
  <2> HIDE DEF T
  <2>2. Nat \subseteq T
    BY <2>1, StrongInduction
  <2> QED  BY <2>2 DEF T
<1> DEFINE T == {m \in Nat : popcount[m] = 1 => Pow2[Log[m]] = m}
<1>2. ASSUME NEW m \in Nat, \A k \in Nat : k < m => k \in T PROVE m \in T
  <2> SUFFICES ASSUME popcount[m] = 1 PROVE Pow2[Log[m]] = m
    OBVIOUS
  <2>1. m # 0
    BY PopcountValues
  <2>2. /\ m \div 2 \in Nat /\ m \div 2 < m /\ m % 2 \in {0, 1}
        /\ m = 2 * (m \div 2) + (m % 2)
    BY <2>1, HalfIsLess
  <2>3. popcount[m] = (m % 2) + popcount[m \div 2] /\ popcount[m \div 2] \in Nat
    BY <2>1, <2>2, PopcountValues
  <2>4. CASE m \div 2 = 0
    <3>1. m = 1
      BY <2>1, <2>2, <2>4
    <3>2. Log[m] = 0
      BY <2>4, LogValues
    <3> QED  BY <3>1, <3>2, Pow2Values
  <2>5. CASE m \div 2 # 0
    <3>1. popcount[m \div 2] # 0
      BY <2>5, <2>2, <1>1
    <3>2. m % 2 = 0 /\ popcount[m \div 2] = 1
      BY <3>1, <2>2, <2>3
    <3>3. Pow2[Log[m \div 2]] = m \div 2
      BY <3>2, <2>2, <1>2
    <3> DEFINE j == Log[m \div 2]
    <3>4. j \in Nat /\ Log[m] = 1 + j
      BY <2>2, <2>5, LogValues
    <3> HIDE DEF j
    <3>5. 1 + j \in Nat \ {0} /\ (1 + j) - 1 = j
      BY <3>4
    <3>6. Pow2[1 + j] = 2 * Pow2[j]
      BY <3>5, Pow2Values
    <3>7. Pow2[Log[m]] = 2 * (m \div 2)
      BY <3>3, <3>4, <3>6 DEF j
    <3> QED  BY <3>7, <3>2, <2>2
  <2> QED  BY <2>4, <2>5
<1> HIDE DEF T
<1>3. Nat \subseteq T
  BY <1>2, StrongInduction
<1>4. n \in Nat \ {0} /\ popcount[n] = 1
  BY DEF PowerOfTwo
<1> QED  BY <1>3, <1>4, LogValues DEF T

\* With a power of two of sets and cells in a line, shifts and masks are the
\* division of an address into tag, set and cell, and an evicted line gets the
\* address its block has.
THEOREM GeometryIsDivision ==
    ASSUME NEW size \in Int, NEW sets \in Int, PowerOfTwo(size), PowerOfTwo(sets),
           NEW a \in Nat, NEW tag \in Nat
    PROVE  /\ size \in Nat \ {0} /\ sets \in Nat \ {0}
           /\ SetIndex(a, size, sets) = (a \div size) % sets
           /\ TagOf(a, size, sets) = (a \div size) \div sets
           /\ EvictedAddr(tag, a, size, sets) = (tag * sets + ((a \div size) % sets)) * size
<1> DEFINE b == Log[size]
           s == Log[sets]
<1>1. /\ size \in Nat \ {0} /\ b \in Nat /\ Pow2[b] = size
      /\ sets \in Nat \ {0} /\ s \in Nat /\ Pow2[s] = sets
  BY PowerOfTwoIsPow2
<1> HIDE DEF b, s
<1>2. Pow2[b + s] = size * sets
  BY <1>1, Pow2Sum
<1> DEFINE blk == a \div size
           set == blk % sets
<1>3. blk \in Nat /\ a % size \in 0 .. size - 1 /\ a = blk * size + (a % size)
  BY <1>1, DivisionInverse
<1>4. SetIndex(a, size, sets) = set
  <2>1. BitAnd[blk][Pow2[s] - 1] = blk % Pow2[s]
    BY <1>1, <1>3, MaskIsRemainder
  <2> QED  BY <2>1, <1>1 DEF SetIndex, b, s
<1> HIDE DEF blk
<1>5. blk \div sets \in Nat /\ set \in 0 .. sets - 1 /\ blk = (blk \div sets) * sets + set
  BY <1>1, <1>3, DivisionInverse
<1>6. a \div (size * sets) = blk \div sets
  <2> DEFINE q == blk \div sets
             r == a % size
  <2> HIDE DEF q, r, set
  <2>1. /\ q \in Nat /\ set \in 0 .. sets - 1 /\ blk = q * sets + set
        /\ r \in 0 .. size - 1 /\ a = blk * size + r
    BY <1>3, <1>5 DEF q, r
  <2>2. size * sets \in Nat \ {0}
    BY <1>1
  <2>3. set * size + r \in 0 .. size * sets - 1
    <3>1. set + 1 <= sets /\ set \in Nat /\ r < size /\ r \in Nat
      BY <2>1, <1>1
    <3>2. (set + 1) * size <= sets * size
      BY <3>1, <1>1
    <3>3. (set + 1) * size = set * size + size /\ sets * size = size * sets /\ set * size \in Nat
      BY <3>1, <1>1
    <3> QED  BY <3>1, <3>2, <3>3, <2>2, <1>1
  <2>4. a = q * (size * sets) + (set * size + r)
    <3>1. (q * sets + set) * size = (q * sets) * size + set * size
      BY <2>1, <1>1
    <3>2. (q * sets) * size = q * (size * sets)
      BY <2>1, <1>1
    <3>3. (q * sets) * size \in Nat /\ set * size \in Nat
      BY <2>1, <1>1
    <3> QED  BY <3>1, <3>2, <3>3, <2>1
  <2>5. a \div (size * sets) = q
    BY <2>1, <2>2, <2>3, <2>4, Division
  <2> QED  BY <2>5 DEF q
<1>7. TagOf(a, size, sets) = blk \div sets
  BY <1>2, <1>6 DEF TagOf, b, s
<1>8. EvictedAddr(tag, a, size, sets) = (tag * sets + set) * size
  <2> DEFINE x == tag * Pow2[b + s]
             y == set * Pow2[b]
  <2>1. EvictedAddr(tag, a, size, sets) = Or(x, y)
    BY <1>4 DEF EvictedAddr, b, s
  <2> HIDE DEF set
  <2>2. y \in 0 .. Pow2[b + s] - 1
    <3>1. set + 1 <= sets /\ set \in Nat
      BY <1>5, <1>1
    <3>2. (set + 1) * size <= sets * size
      BY <3>1, <1>1
    <3>3. (set + 1) * size = set * size + size /\ sets * size = size * sets /\ set * size \in Nat
      BY <3>1, <1>1
    <3> QED  BY <3>1, <3>2, <3>3, <1>1, <1>2
  <2>3. BitAnd[x][y] = 0
    BY <2>2, <1>1, AndDisjoint
  <2>4. x = tag * (size * sets) /\ y = set * size
    BY <1>1, <1>2
  <2>5. tag * (size * sets) \in Nat /\ set * size \in Nat /\ set \in Nat
    BY <1>1, <1>5
  <2>6. Or(x, y) = tag * (size * sets) + set * size
    <3> HIDE DEF x, y
    <3> QED  BY <2>3, <2>4, <2>5 DEF Or
  <2>7. (tag * sets + set) * size = tag * (size * sets) + set * size
    BY <1>1, <2>5
  <2> QED  BY <2>1, <2>6, <2>7
<1> QED  BY <1>1, <1>4, <1>7, <1>8 DEF blk

----------------------------------------------------------------------------
(* The inductive invariant: what holds of the arguments, what the loader   *)
(* has done so far, and how page table, cache and the memory the guest     *)
(* should see fit together.                                                *)

\* The arguments read so far.  main goes on only with a block size that is a power
\* of two, or none.
Command ==
    /\ argv \in ARGVS /\ optind \in Nat \ {0}
    /\ config \in [A : Int, B : Int, C : Int, d : Int, infile : BOOLEAN, checkpoint : BOOLEAN]
    /\ phase # "over" /\ config.B # -1 =>
          PowerOfTwo(config.B) /\ \E i \in DOMAIN argv : argv[i].opt = "B" /\ argv[i].arg = config.B

Loading ==
    /\ elf \in ELFS /\ loaded \in 0 .. Len(elf)
    /\ phase \in {"run", "finalize"} => loaded = Len(elf) /\ data_seg = elf[2].vaddr

\* What the first segments have left in the page table: their file parts, and
\* zeros elsewhere, but for the slack; and a page wherever they reach.
LoadedCells ==
    \A a \in Addr \ Slack :
        /\ \A i \in 1 .. loaded : a \in FilePart(elf[i]) =>
              CellAt(table, a) = FILE[elf[i].off + (a - elf[i].vaddr)]
        /\ (\A i \in 1 .. loaded : a \notin FilePart(elf[i])) => CellAt(table, a) = 0

LoadedPages == \A i \in 1 .. loaded : \A n \in SegmentPages(elf[i]) : get_page(table, n) # 0

ImageLoaded == lines = {} /\ flat = Image(elf) /\ LoadedCells

\* A line of the cache, its first address, and its cells.
Line        == [set : 0 .. S - 1, tag : Nat, dirty : BOOLEAN, data : [0 .. config.B - 1 -> Nat]]
LineAddr(l) == (l.tag * S + l.set) * config.B
Offsets     == 0 .. config.B - 1

LinesAreLines(ls) ==
    /\ ls # {} => Configured
    /\ \A l \in ls : l \in Line /\ \A o \in Offsets : LineAddr(l) + o \in Addr

\* No block is in the cache twice.
OneCopy(ls) == \A l, m \in ls : l.set = m.set /\ l.tag = m.tag => l = m

\* A line that is not dirty is a copy of memory, and so is the part of any line
\* below the data segment, where no store goes through the cache.
CleanCells(t, ls) ==
    \A l \in ls : \A o \in Offsets :
        ~l.dirty \/ LineAddr(l) + o < data_seg => l.data[o] = CellAt(t, LineAddr(l) + o)

\* A cell the guest should see is in its line, if there is one, or in memory.
LineCells(ls, f) ==
    \A l \in ls : \A o \in Offsets :
        LineAddr(l) + o \in Addr \ Slack /\ LineAddr(l) + o >= data_seg =>
            l.data[o] = f[LineAddr(l) + o]

With(ls, a) == {l \in ls : l.set = Set(a) /\ l.tag = Tag(a)}
Held(ls, a) == Cached(a) /\ With(ls, a) # {}

MemoryCells(t, ls, f) == \A a \in Addr \ Slack : ~Held(ls, a) => CellAt(t, a) = f[a]

Coherent(t, ls, f) ==
    /\ LinesAreLines(ls) /\ OneCopy(ls)
    /\ CleanCells(t, ls) /\ LineCells(ls, f) /\ MemoryCells(t, ls, f)

CacheInv == Coherent(table, lines, flat)

\* Memory is what the guest should see, but for the lines to be written back.
Saved == \A a \in Addr \ (Slack \cup Unsaved) : CellAt(table, a) = flat[a]

TableInv == table \in Tables /\ LoadedPages /\ flat \in [Addr -> Nat]

Before == {"args", "init", "load"}

IInv ==
    /\ Command /\ Loading /\ accesses \in Nat
    /\ phase \in Before => TableInv /\ ImageLoaded
    /\ phase = "run" /\ ValidCache => TableInv /\ CacheInv
    /\ phase = "finalize" /\ ValidCache => TableInv /\ Saved
    /\ report.heap = {}

----------------------------------------------------------------------------
(* Addresses, blocks and lines                                             *)

\* The addresses are the cells of the pages.
LEMMA AddrIsCell == \A a : a \in Addr <=> a \in Nat /\ PageOf(a) \in PAGES
<1>1. PAGESIZE \in Nat \ {0} /\ PAGES \subseteq Nat
  BY PageAssumption
<1>2. ASSUME NEW n \in PAGES, NEW a \in n * PAGESIZE .. n * PAGESIZE + PAGESIZE - 1
      PROVE  a \in Nat /\ PageOf(a) = n
  <2> DEFINE m == PAGESIZE
             r == a - n * m
  <2>1. m \in Nat \ {0} /\ n \in Nat /\ n * m \in Nat
    BY <1>1
  <2>2. a \in Nat /\ r \in 0 .. m - 1 /\ a = n * m + r
    BY <1>2, <2>1
  <2> HIDE DEF r, m
  <2>3. a \div m = n
    BY <2>1, <2>2, Division
  <2> QED  BY <2>2, <2>3 DEF PageOf, m
<1>3. ASSUME NEW a \in Nat, PageOf(a) \in PAGES
      PROVE  a \in PageOf(a) * PAGESIZE .. PageOf(a) * PAGESIZE + PAGESIZE - 1
  <2> DEFINE m == PAGESIZE
             x == PageOf(a) * m
  <2>1. PageOf(a) \in Nat /\ OffsetOf(a) \in 0 .. m - 1 /\ a = x + OffsetOf(a)
    BY PageBounds
  <2>2. x \in Nat /\ m \in Nat
    BY <2>1, <1>1
  <2> HIDE DEF x, m
  <2>3. a \in x .. x + m - 1
    BY <2>1, <2>2
  <2> QED  BY <2>3 DEF x, m
<1> QED  BY <1>2, <1>3 DEF Addr

\* Set and tag are remainder and quotient, and an evicted line's address is made of
\* them again.
Divides ==
    /\ config.B \in Nat \ {0} /\ S \in Nat \ {0}
    /\ \A a \in Nat :
          /\ Set(a) = (a \div config.B) % S /\ Tag(a) = (a \div config.B) \div S
          /\ \A tag \in Nat : EvictedAddr(tag, a, config.B, S) = (tag * S + Set(a)) * config.B

\* A valid cache divides addresses.
LEMMA ValidDivides ==
    ASSUME Command, phase # "over", ValidCache, Configured
    PROVE  Divides
<1>1. config.A \in Int /\ config.B \in Int /\ config.C \in Int /\ config.B # -1
  BY DEF Command, Configured
<1>2. PowerOfTwo(config.B) /\ PowerOfTwo(S) /\ config.A > 0
  BY <1>1 DEF Command, ValidCache
<1>3. config.B > 0
  BY <1>2 DEF PowerOfTwo
<1>4. S \in Int
  <2> DEFINE n == config.A * config.B
  <2>1. n \in Nat /\ n > 0
    BY <1>1, <1>2, <1>3
  <2> HIDE DEF n
  <2>2. config.C \div n \in Int
    BY <2>1, <1>1
  <2> QED  BY <2>2 DEF S, SetCount, n
<1> DEFINE size == config.B
           sets == S
<1>5. size \in Int /\ sets \in Int /\ PowerOfTwo(size) /\ PowerOfTwo(sets)
  BY <1>1, <1>2, <1>4
<1> HIDE DEF size, sets
<1>6. /\ size \in Nat \ {0} /\ sets \in Nat \ {0}
      /\ \A a, tag \in Nat :
            /\ SetIndex(a, size, sets) = (a \div size) % sets
            /\ TagOf(a, size, sets) = (a \div size) \div sets
            /\ EvictedAddr(tag, a, size, sets) = (tag * sets + ((a \div size) % sets)) * size
  <2>1. \A a, tag \in Nat :
            /\ SetIndex(a, size, sets) = (a \div size) % sets
            /\ TagOf(a, size, sets) = (a \div size) \div sets
            /\ EvictedAddr(tag, a, size, sets) = (tag * sets + ((a \div size) % sets)) * size
    BY <1>5, GeometryIsDivision
  <2>2. size \in Nat \ {0} /\ sets \in Nat \ {0}
    BY <1>5, PowerOfTwoIsPow2
  <2> QED  BY <2>1, <2>2
<1>7. \A a \in Nat : Set(a) = SetIndex(a, size, sets) /\ Tag(a) = TagOf(a, size, sets)
  BY DEF Set, Tag, size, sets
<1>8. config.B \in Nat \ {0} /\ S \in Nat \ {0}
  BY <1>6 DEF size, sets
<1>9. \A a \in Nat :
          /\ Set(a) = (a \div config.B) % S /\ Tag(a) = (a \div config.B) \div S
  BY <1>6, <1>7 DEF size, sets
<1>10. \A a \in Nat : \A tag \in Nat :
          EvictedAddr(tag, a, config.B, S) = (tag * S + Set(a)) * config.B
  BY <1>6, <1>9 DEF size, sets
<1> QED  BY <1>8, <1>9, <1>10 DEF Divides

\* An address and its set, tag and block.
BlockParts ==
    \A a \in Nat :
        /\ Block(a) \in Nat /\ a - Block(a) \in Offsets /\ Block(a) + (a - Block(a)) = a
        /\ Set(a) \in 0 .. S - 1 /\ Tag(a) \in Nat
        /\ (Tag(a) * S + Set(a)) * config.B = Block(a)

LineParts ==
    \A s \in 0 .. S - 1 : \A t \in Nat : \A o \in Offsets :
        LET x == (t * S + s) * config.B + o
        IN  x \in Nat /\ Set(x) = s /\ Tag(x) = t /\ x - Block(x) = o

\* Both follow from the division: an address is its tag, set and offset.
LEMMA Blocks == Divides => BlockParts /\ LineParts
<1> SUFFICES ASSUME Divides PROVE BlockParts /\ LineParts
  OBVIOUS
<1> DEFINE n == config.B
           m == S
<1>1. n \in Nat \ {0} /\ m \in Nat \ {0}
  BY DEF Divides
<1>2. \A a \in Nat : Set(a) = (a \div n) % m /\ Tag(a) = (a \div n) \div m /\ Block(a) = (a \div n) * n
  BY DEF Divides, Block
<1>3. Offsets = 0 .. n - 1
  BY DEF Offsets
<1> HIDE DEF n, m
<1>4. ASSUME NEW a \in Nat
      PROVE  /\ Block(a) \in Nat /\ a - Block(a) \in 0 .. n - 1 /\ Block(a) + (a - Block(a)) = a
             /\ Set(a) \in 0 .. m - 1 /\ Tag(a) \in Nat
             /\ (Tag(a) * m + Set(a)) * n = Block(a)
  <2> DEFINE b == a \div n
  <2>1. b \in Nat /\ a % n \in 0 .. n - 1 /\ a = b * n + (a % n)
    BY <1>1, DivisionInverse
  <2> HIDE DEF b
  <2>2. b \div m \in Nat /\ b % m \in 0 .. m - 1 /\ b = (b \div m) * m + (b % m)
    BY <2>1, <1>1, DivisionInverse
  <2>3. Set(a) = b % m /\ Tag(a) = b \div m /\ Block(a) = b * n
    BY <1>2 DEF b
  <2>4. b * n \in Nat
    BY <2>1, <1>1
  <2>5. a - b * n = a % n
    BY <2>1, <2>4
  <2> QED  BY <2>1, <2>2, <2>3, <2>4, <2>5
<1>5. ASSUME NEW s \in 0 .. m - 1, NEW t \in Nat, NEW o \in 0 .. n - 1
      PROVE  LET x == (t * m + s) * n + o
             IN  x \in Nat /\ Set(x) = s /\ Tag(x) = t /\ x - Block(x) = o
  <2> DEFINE b == t * m + s
             x == b * n + o
  <2>1. b \in Nat
    BY <1>1
  <2>2. b \div m = t /\ b % m = s
    BY <1>1, Division
  <2> HIDE DEF b
  <2>3. b * n \in Nat /\ x \in Nat
    BY <2>1, <1>1
  <2>4. x \div n = b
    BY <2>1, <1>1, Division
  <2>5. x - b * n = o
    BY <2>3
  <2> HIDE DEF x
  <2>6. Set(x) = s /\ Tag(x) = t /\ Block(x) = b * n
    BY <1>2, <2>2, <2>3, <2>4
  <2> QED  BY <2>3, <2>5, <2>6 DEF x, b
<1> QED  BY <1>3, <1>4, <1>5 DEF BlockParts, LineParts, n, m

----------------------------------------------------------------------------
(* What happens to page table and cache, one move at a time                *)

\* The cells of a line have its set and tag, and a line with the set and tag of an
\* address has its cell.
LEMMA LineOf ==
    ASSUME BlockParts, LineParts, NEW ls, LinesAreLines(ls), NEW l \in ls
    PROVE  /\ l \in Line
           /\ \A o \in Offsets :
                 /\ LineAddr(l) + o \in Addr /\ LineAddr(l) + o \in Nat
                 /\ Set(LineAddr(l) + o) = l.set /\ Tag(LineAddr(l) + o) = l.tag
                 /\ (LineAddr(l) + o) - Block(LineAddr(l) + o) = o
                 /\ l \in With(ls, LineAddr(l) + o)
           /\ \A a \in Nat : l \in With(ls, a) =>
                 a - Block(a) \in Offsets /\ LineAddr(l) + (a - Block(a)) = a
<1>1. l \in Line /\ \A o \in Offsets : LineAddr(l) + o \in Addr
  BY DEF LinesAreLines
<1>2. l.set \in 0 .. S - 1 /\ l.tag \in Nat
  BY <1>1 DEF Line
<1>3. ASSUME NEW o \in Offsets
      PROVE  /\ LineAddr(l) + o \in Addr /\ LineAddr(l) + o \in Nat
             /\ Set(LineAddr(l) + o) = l.set /\ Tag(LineAddr(l) + o) = l.tag
             /\ (LineAddr(l) + o) - Block(LineAddr(l) + o) = o
             /\ l \in With(ls, LineAddr(l) + o)
  <2>1. LET x == (l.tag * S + l.set) * config.B + o
        IN  x \in Nat /\ Set(x) = l.set /\ Tag(x) = l.tag /\ x - Block(x) = o
    BY <1>2 DEF LineParts
  <2>2. (l.tag * S + l.set) * config.B + o = LineAddr(l) + o
    BY DEF LineAddr
  <2> QED  BY <1>1, <2>1, <2>2 DEF With
<1>4. ASSUME NEW a \in Nat, l \in With(ls, a)
      PROVE  a - Block(a) \in Offsets /\ LineAddr(l) + (a - Block(a)) = a
  <2>1. l.set = Set(a) /\ l.tag = Tag(a)
    BY <1>4 DEF With
  <2>2. /\ a - Block(a) \in Offsets /\ Block(a) + (a - Block(a)) = a
        /\ (Tag(a) * S + Set(a)) * config.B = Block(a)
    BY DEF BlockParts
  <2>3. LineAddr(l) = Block(a)
    BY <2>1, <2>2 DEF LineAddr
  <2> QED  BY <2>2, <2>3
<1> QED  BY <1>1, <1>3, <1>4

\* A table that reads the same does as well.
LEMMA SameTable ==
    ASSUME NEW t, NEW u, NEW ls, NEW f, Coherent(t, ls, f), SameCells(t, u)
    PROVE  Coherent(u, ls, f)
<1>1. \A a \in Addr : CellAt(u, a) = CellAt(t, a)
  BY AddrIsCell DEF SameCells
<1>2. CleanCells(u, ls)
  BY <1>1 DEF Coherent, CleanCells, LinesAreLines
<1>3. MemoryCells(u, ls, f)
  BY <1>1 DEF Coherent, MemoryCells
<1> QED  BY <1>2, <1>3 DEF Coherent

\* A line is filled from memory.
LEMMA FillLine ==
    ASSUME BlockParts, LineParts,
           NEW t, NEW ls, NEW f, Coherent(t, ls, f), Configured,
           NEW l \in Line, ~l.dirty, \A m \in ls : ~(m.set = l.set /\ m.tag = l.tag),
           \A o \in Offsets : LineAddr(l) + o \in Addr /\ l.data[o] = CellAt(t, LineAddr(l) + o)
    PROVE  Coherent(t, ls \cup {l}, f)
<1> DEFINE new == ls \cup {l}
<1>1. LinesAreLines(new)
  BY DEF Coherent, LinesAreLines
<1>2. OneCopy(new)
  BY DEF Coherent, OneCopy
<1>3. CleanCells(t, new)
  BY DEF Coherent, CleanCells
<1>4. LineCells(new, f)
  <2>1. ASSUME NEW o \in Offsets, LineAddr(l) + o \in Addr \ Slack, LineAddr(l) + o >= data_seg
        PROVE  l.data[o] = f[LineAddr(l) + o]
    <3>1. Set(LineAddr(l) + o) = l.set /\ Tag(LineAddr(l) + o) = l.tag
      BY <1>1, LineOf
    <3>2. ~Held(ls, LineAddr(l) + o)
      BY <3>1 DEF Held, With
    <3>3. CellAt(t, LineAddr(l) + o) = f[LineAddr(l) + o]
      BY <3>2, <2>1 DEF Coherent, MemoryCells
    <3> QED  BY <3>3
  <2>2. LineCells(ls, f)
    BY DEF Coherent
  <2> QED  BY <2>1, <2>2 DEF LineCells
<1>5. MemoryCells(t, new, f)
  <2>1. \A a : Held(ls, a) => Held(new, a)
    BY DEF Held, With
  <2> QED  BY <2>1 DEF Coherent, MemoryCells
<1> QED  BY <1>1, <1>2, <1>3, <1>4, <1>5 DEF Coherent

\* The line after a store of v.
Modified(l, a, v) == [l EXCEPT !.dirty = TRUE, !.data[a - Block(a)] = v]

\* The guest stores into a line.
LEMMA StoreLine ==
    ASSUME BlockParts, LineParts,
           NEW t, NEW ls, NEW f \in [Addr -> Nat], Coherent(t, ls, f),
           data_seg \in Nat,
           NEW a \in Addr, Cached(a), NEW l \in With(ls, a), NEW v \in Nat
    PROVE  Coherent(t, (ls \ {l}) \cup {Modified(l, a, v)}, [f EXCEPT ![a] = v])
<1> DEFINE k == a - Block(a)
           n == Modified(l, a, v)
           new == (ls \ {l}) \cup {n}
           g == [f EXCEPT ![a] = v]
<1>1. a \in Nat /\ l \in ls /\ LinesAreLines(ls) /\ OneCopy(ls)
  BY AddrIsCell DEF With, Coherent
<1>2. /\ l \in Line /\ k \in Offsets /\ LineAddr(l) + k = a
      /\ l.set = Set(a) /\ l.tag = Tag(a)
  BY <1>1, LineOf DEF With
<1>3. l = [set |-> l.set, tag |-> l.tag, dirty |-> l.dirty, data |-> l.data]
      /\ l.data \in [Offsets -> Nat] /\ l.set \in 0 .. S - 1 /\ l.tag \in Nat
  BY <1>2 DEF Line, Offsets
<1> HIDE DEF k
<1>4. /\ n.set = l.set /\ n.tag = l.tag /\ n.dirty = TRUE
      /\ n.data = [l.data EXCEPT ![k] = v] /\ n \in Line
  <2>1. n = [l EXCEPT !.dirty = TRUE, !.data[k] = v]
    BY DEF Modified, k
  <2> HIDE DEF n
  <2> QED  BY <2>1, <1>2, <1>3 DEF Line, Offsets
<1> HIDE DEF n
<1>5. \A o \in Offsets : n.data[o] = IF o = k THEN v ELSE l.data[o]
  BY <1>2, <1>3, <1>4
<1>6. LineAddr(n) = LineAddr(l)
  BY <1>4, <1>5 DEF LineAddr
<1>7. g \in [Addr -> Nat] /\ g[a] = v /\ \A x \in Addr : x # a => g[x] = f[x]
  OBVIOUS
<1> HIDE DEF g
<1>8. \A m \in ls \ {l} : ~(m.set = l.set /\ m.tag = l.tag)
  BY <1>1 DEF OneCopy
<1>9. \A o \in Offsets : LineAddr(l) + o \in Addr /\ (LineAddr(l) + o = a <=> o = k)
  <2>1. ASSUME NEW o \in Offsets PROVE LineAddr(l) + o \in Addr /\ (LineAddr(l) + o = a => o = k)
    <3>1. LineAddr(l) + o \in Addr /\ (LineAddr(l) + o) - Block(LineAddr(l) + o) = o
      BY <1>1, LineOf
    <3> QED  BY <3>1 DEF k
  <2> QED  BY <2>1, <1>2
<1>10. LinesAreLines(new)
  BY <1>1, <1>4, <1>5, <1>6, <1>9 DEF LinesAreLines
<1>11. OneCopy(new)
  BY <1>1, <1>4, <1>5, <1>8 DEF OneCopy
<1>12. CleanCells(t, new)
  <2>1. CleanCells(t, ls)
    BY DEF Coherent
  <2>2. ASSUME NEW o \in Offsets, LineAddr(n) + o < data_seg
        PROVE  n.data[o] = CellAt(t, LineAddr(n) + o)
    <3>1. o # k
      <4>1. a \in Nat /\ ~(a < data_seg)
        BY <1>1 DEF Cached
      <4> QED  BY <4>1, <2>2, <1>2, <1>6
    <3> QED  BY <3>1, <2>1, <2>2, <1>1, <1>4, <1>5, <1>6 DEF CleanCells
  <2> QED  BY <2>1, <2>2, <1>4, <1>5 DEF CleanCells
<1>13. LineCells(new, g)
  <2>1. LineCells(ls, f)
    BY DEF Coherent
  <2>2. ASSUME NEW m \in ls \ {l}, NEW o \in Offsets PROVE LineAddr(m) + o # a
    <3>1. Set(LineAddr(m) + o) = m.set /\ Tag(LineAddr(m) + o) = m.tag
      BY <1>1, LineOf
    <3> QED  BY <3>1, <1>2, <1>8
  <2>3. ASSUME NEW m \in ls \ {l}, NEW o \in Offsets,
               LineAddr(m) + o \in Addr \ Slack, LineAddr(m) + o >= data_seg
        PROVE  m.data[o] = g[LineAddr(m) + o]
    BY <2>1, <2>2, <2>3, <1>7 DEF LineCells
  <2>4. ASSUME NEW o \in Offsets, LineAddr(n) + o \in Addr \ Slack, LineAddr(n) + o >= data_seg
        PROVE  n.data[o] = g[LineAddr(n) + o]
    <3>1. CASE o = k
      BY <3>1, <1>2, <1>4, <1>5, <1>6, <1>7
    <3>2. CASE o # k
      <4>1. l.data[o] = f[LineAddr(l) + o]
        BY <2>1, <2>4, <1>1, <1>6 DEF LineCells
      <4> QED  BY <3>2, <4>1, <1>4, <1>5, <1>6, <1>7, <1>9
    <3> QED  BY <3>1, <3>2
  <2> QED  BY <2>3, <2>4 DEF LineCells
<1>14. MemoryCells(t, new, g)
  <2>1. ASSUME NEW x \in Addr \ Slack, ~Held(new, x) PROVE CellAt(t, x) = g[x]
    <3>1. n \in With(new, a)
      BY <1>2, <1>4, <1>5 DEF With
    <3>2. x # a
      BY <3>1, <2>1 DEF Held
    <3>3. ~Held(ls, x)
      <4>1. ASSUME NEW m \in With(ls, x) PROVE With(new, x) # {}
        <5>1. CASE m = l
          BY <5>1, <4>1, <1>4, <1>5 DEF With
        <5>2. CASE m # l
          BY <5>2, <4>1 DEF With
        <5> QED  BY <5>1, <5>2
      <4> QED  BY <4>1, <2>1 DEF Held
    <3>4. CellAt(t, x) = f[x]
      BY <3>3, <2>1 DEF Coherent, MemoryCells
    <3> QED  BY <3>2, <3>4, <1>7
  <2> QED  BY <2>1 DEF MemoryCells
<1>15. Coherent(t, new, g)
  BY <1>10, <1>11, <1>12, <1>13, <1>14 DEF Coherent
<1> QED  BY <1>15 DEF n, g

\* A line is given up, and written back if it is dirty.
LEMMA EvictLine ==
    ASSUME BlockParts, LineParts,
           data_seg \in Nat,
           NEW t, NEW u, NEW ls, NEW f, Coherent(t, ls, f), NEW l \in ls,
           \A a \in Addr : ~(l \in With(ls, a) /\ l.dirty) => CellAt(u, a) = CellAt(t, a),
           \A a \in Addr : l \in With(ls, a) /\ l.dirty => CellAt(u, a) = l.data[a - Block(a)]
    PROVE  Coherent(u, ls \ {l}, f)
<1> DEFINE new == ls \ {l}
<1>1. LinesAreLines(ls) /\ OneCopy(ls) /\ CleanCells(t, ls) /\ LineCells(ls, f) /\ MemoryCells(t, ls, f)
  BY DEF Coherent
<1>2. LinesAreLines(new)
  BY <1>1 DEF LinesAreLines
<1>3. OneCopy(new)
  BY <1>1 DEF OneCopy
<1>4. CleanCells(u, new)
  <2>1. ASSUME NEW m \in new, NEW o \in Offsets
        PROVE  CellAt(u, LineAddr(m) + o) = CellAt(t, LineAddr(m) + o)
    <3>1. LineAddr(m) + o \in Addr /\ Set(LineAddr(m) + o) = m.set /\ Tag(LineAddr(m) + o) = m.tag
      BY <1>1, LineOf
    <3>2. l \notin With(ls, LineAddr(m) + o)
      BY <3>1, <1>1 DEF With, OneCopy
    <3> QED  BY <3>1, <3>2
  <2> QED  BY <2>1, <1>1 DEF CleanCells
<1>5. LineCells(new, f)
  BY <1>1 DEF LineCells
<1>6. MemoryCells(u, new, f)
  <2>1. ASSUME NEW x \in Addr \ Slack, ~Held(new, x) PROVE CellAt(u, x) = f[x]
    <3>0. x \in Nat
      BY AddrIsCell
    <3>1. CASE l \notin With(ls, x)
      <4>1. ~Held(ls, x)
        BY <3>1, <2>1 DEF Held, With
      <4> QED  BY <4>1, <3>1, <1>1 DEF MemoryCells
    <3>2. CASE l \in With(ls, x)
      <4> DEFINE k == x - Block(x)
      <4>1. k \in Offsets /\ LineAddr(l) + k = x
        BY <3>0, <3>2, <1>1, LineOf
      <4> HIDE DEF k
      <4>2. CASE Cached(x)
        <5>1. x >= data_seg
          BY <4>2 DEF Cached
        <5>2. l.data[k] = f[x]
          BY <5>1, <4>1, <1>1 DEF LineCells
        <5>3. ~l.dirty => l.data[k] = CellAt(t, x)
          BY <4>1, <1>1 DEF CleanCells
        <5> QED  BY <5>2, <5>3, <3>2 DEF k
      <4>3. CASE ~Cached(x)
        <5>1. ~(x >= data_seg)
          BY <4>3, <1>1 DEF Cached, LinesAreLines
        <5>2. l.data[k] = CellAt(t, x)
          <6>1. x < data_seg \/ ~l.dirty
            BY <5>1, <3>0
          <6> QED  BY <6>1, <4>1, <1>1 DEF CleanCells
        <5>3. CellAt(t, x) = f[x]
          BY <4>3, <1>1 DEF MemoryCells, Held
        <5> QED  BY <5>2, <5>3, <3>2 DEF k
      <4> QED  BY <4>2, <4>3
    <3> QED  BY <3>1, <3>2
  <2> QED  BY <2>1 DEF MemoryCells
<1> QED  BY <1>2, <1>3, <1>4, <1>5, <1>6 DEF Coherent

----------------------------------------------------------------------------
(* The initial state                                                       *)

\* There is nothing in the first page table, and every cell is zero.
LEMMA EmptyTableReads ==
    /\ EmptyTable \in Tables
    /\ \A n \in PAGES : get_page(EmptyTable, n) = 0
    /\ \A a \in Nat : PageOf(a) \in PAGES => CellAt(EmptyTable, a) = 0
<1>1. EmptyTable.chain = [b \in Buckets |-> << >>] /\ EmptyTable.page = << >>
  BY DEF EmptyTable
<1>2. EmptyTable \in Tables
  BY <1>1 DEF EmptyTable, Tables
<1>3. ASSUME NEW n \in PAGES PROVE get_page(EmptyTable, n) = 0
  <2>1. HASH[n] \in Buckets
    BY DEF Buckets
  <2>2. EmptyTable.chain[HASH[n]] = << >>
    BY <1>1, <2>1
  <2>3. {i \in DOMAIN << >> : EmptyTable.page[<< >>[i]].num = n} = {}
    OBVIOUS
  <2> QED  BY <2>2, <2>3 DEF get_page
<1> QED  BY <1>2, <1>3 DEF CellAt

\* A file part is what the loader copies, or less.
LEMMA FileIsCopied ==
    ASSUME NEW e \in ELFS, NEW i \in DOMAIN e
    PROVE  /\ e[i].vaddr \in Nat /\ e[i].off \in Nat /\ e[i].filesz \in Nat /\ e[i].memsz \in Nat
           /\ v_align(e[i]) \in Nat
           /\ CopyFirst(e[i]) = e[i].vaddr
           /\ CopyLast(e[i]) = e[i].vaddr + e[i].filesz + v_align(e[i]) - 1
           /\ FilePart(e[i]) \subseteq CopyFirst(e[i]) .. CopyLast(e[i])
           /\ \A a \in FilePart(e[i]) : FILE[e[i].off + (a - e[i].vaddr)] \in Nat
<1> DEFINE p == e[i]
<1>1. p \in [vaddr : Nat, off : Nat, filesz : Nat, memsz : Nat]
  <2> DEFINE R == [vaddr : Nat, off : Nat, filesz : Nat, memsz : Nat]
  <2>1. e \in Seq(R)
    BY ElfAssumption
  <2> HIDE DEF R
  <2>2. e[i] \in R
    BY <2>1
  <2> QED  BY <2>2 DEF R
<1>2. \A a \in CopyFirst(p) .. CopyLast(p) : FILE[p.off + (a - CopyFirst(p))] \in Nat
  BY ElfAssumption
<1> HIDE DEF p
<1>3. p.vaddr \in Nat /\ p.off \in Nat /\ p.filesz \in Nat /\ p.memsz \in Nat
  BY <1>1
<1>4. v_align(p) \in Nat
  BY <1>3, PageBounds DEF v_align, OffsetOf
<1>5. CopyFirst(p) = p.vaddr /\ CopyLast(p) = p.vaddr + p.filesz + v_align(p) - 1
  BY DEF CopyFirst, CopyLast
<1>6. FilePart(p) \subseteq CopyFirst(p) .. CopyLast(p)
  BY <1>3, <1>4, <1>5 DEF FilePart
<1> QED  BY <1>2, <1>3, <1>4, <1>5, <1>6 DEF p

\* What the file says of a cell.
LEMMA ImageCells ==
    ASSUME NEW e \in ELFS
    PROVE  /\ Image(e) \in [Addr -> Nat]
           /\ \A a \in Addr :
                 /\ \A i \in DOMAIN e : a \in FilePart(e[i]) =>
                       Image(e)[a] = FILE[e[i].off + (a - e[i].vaddr)]
                 /\ (\A i \in DOMAIN e : a \notin FilePart(e[i])) => Image(e)[a] = 0
<1> DEFINE here(a) == {i \in DOMAIN e : a \in FilePart(e[i])}
           some(a) == CHOOSE i \in here(a) : TRUE
           cell(a) == IF here(a) = {} THEN 0 ELSE FILE[e[some(a)].off + (a - e[some(a)].vaddr)]
<1>1. Image(e) = [a \in Addr |-> cell(a)]
  BY DEF Image
<1>2. ASSUME NEW a \in Addr, NEW i \in DOMAIN e, a \in FilePart(e[i]) PROVE some(a) = i
  <2>1. some(a) \in DOMAIN e /\ a \in FilePart(e[some(a)])
    BY <1>2
  <2> HIDE DEF some, here
  <2>2. some(a) # i => FilePart(e[some(a)]) \cap FilePart(e[i]) = {}
    BY <2>1, ElfAssumption
  <2> QED  BY <2>1, <2>2, <1>2
<1>3. ASSUME NEW a \in Addr, NEW i \in DOMAIN e, a \in FilePart(e[i])
      PROVE  cell(a) = FILE[e[i].off + (a - e[i].vaddr)] /\ cell(a) \in Nat
  <2>1. here(a) # {} /\ some(a) = i
    BY <1>2, <1>3
  <2>2. cell(a) = FILE[e[i].off + (a - e[i].vaddr)]
    <3> HIDE DEF here, some
    <3> QED  BY <2>1
  <2> QED  BY <2>2, <1>3, FileIsCopied
<1>4. ASSUME NEW a \in Addr, \A i \in DOMAIN e : a \notin FilePart(e[i]) PROVE cell(a) = 0
  <2>1. here(a) = {}
    BY <1>4
  <2> HIDE DEF here
  <2> QED  BY <2>1
<1> HIDE DEF cell
<1>5. \A a \in Addr : cell(a) \in Nat
  BY <1>3, <1>4
<1> QED  BY <1>1, <1>3, <1>4, <1>5

\* Before main has done anything the page table is empty, and no segment is loaded.
LEMMA InitInv == Init => IInv
<1> SUFFICES ASSUME Init PROVE IInv
  OBVIOUS
<1>1. Command
  <2>1. config \in [A : Int, B : Int, C : Int, d : Int, infile : BOOLEAN, checkpoint : BOOLEAN]
        /\ config.B = -1
    BY DEF Init
  <2> QED  BY <2>1 DEF Init, Command
<1>2. Loading
  <2>1. elf \in ELFS /\ Len(elf) \in Nat
    BY ElfAssumption DEF Init
  <2> QED  BY <2>1 DEF Init, Loading
<1>3. table = EmptyTable /\ loaded = 0 /\ lines = {} /\ flat = Image(elf) /\ elf \in ELFS
  BY DEF Init
<1>4. TableInv
  BY <1>3, EmptyTableReads, ImageCells DEF TableInv, LoadedPages
<1>5. ImageLoaded
  <2>1. \A a \in Addr : CellAt(table, a) = 0
    BY <1>3, EmptyTableReads, AddrIsCell
  <2> QED  BY <1>3, <2>1 DEF ImageLoaded, LoadedCells
<1>6. phase = "args" /\ report.heap = {} /\ accesses \in Nat
  BY DEF Init, NoReport
<1> QED  BY <1>1, <1>2, <1>4, <1>5, <1>6 DEF IInv

----------------------------------------------------------------------------
(* The arguments and the loader                                            *)

\* The steps before the loader change what has been read of the arguments only.
LEMMA BeforeLoading ==
    ASSUME IInv, phase \in Before, phase' \in Before \cup {"over"}, Command',
           UNCHANGED <<elf, loaded, data_seg, memory, accesses, printed>>
    PROVE  IInv'
<1>1. /\ elf' = elf /\ loaded' = loaded /\ data_seg' = data_seg /\ table' = table
      /\ lines' = lines /\ flat' = flat /\ report' = report /\ accesses' = accesses
  BY DEF memory, printed
<1>2. Loading /\ TableInv /\ ImageLoaded /\ report.heap = {} /\ accesses \in Nat
  BY DEF IInv
<1>3. Loading' /\ phase' # "run" /\ phase' # "finalize"
  BY <1>1, <1>2 DEF Loading, Before
<1>4. TableInv'
  BY <1>1, <1>2 DEF TableInv, LoadedPages
<1>5. ImageLoaded'
  BY <1>1, <1>2 DEF ImageLoaded, LoadedCells, Slack
<1> QED  BY <1>1, <1>2, <1>3, <1>4, <1>5 DEF IInv

\* What Reading reads is an option and its argument.
LEMMA OptionIsOption ==
    ASSUME IInv, Reading
    PROVE  /\ Option \in [opt : OPTIONS, arg : Int]
           /\ optind \in DOMAIN argv /\ Option = argv[optind]
           /\ optind' \in Nat \ {0} /\ argv' = argv /\ argv \in ARGVS
           /\ phase = "args"
           /\ UNCHANGED <<elf, loaded, data_seg, memory, accesses, printed>>
<1>1. argv \in ARGVS /\ optind \in Nat \ {0} /\ optind <= Len(argv)
  BY DEF IInv, Command, Reading
<1> DEFINE R == [opt : OPTIONS, arg : Int]
<1>2. argv \in Seq(R)
  BY <1>1, ArgumentAssumption
<1> HIDE DEF R
<1>3. optind \in DOMAIN argv /\ argv[optind] \in R
  BY <1>1, <1>2
<1> QED  BY <1>1, <1>3 DEF Reading, Option, R

\* A step that reads an option and leaves the block size alone.
LEMMA OtherOption ==
    ASSUME IInv, Reading, config'.B = config.B, phase' \in Before \cup {"over"},
           config' \in [A : Int, B : Int, C : Int, d : Int, infile : BOOLEAN, checkpoint : BOOLEAN]
    PROVE  IInv'
<1>1. Command /\ phase = "args"
  BY OptionIsOption DEF IInv
<1>2. argv' = argv /\ optind' \in Nat \ {0} /\ argv \in ARGVS
  BY OptionIsOption
<1>3. Command'
  BY <1>1, <1>2 DEF Command
<1> QED  BY <1>1, <1>3, OptionIsOption, BeforeLoading DEF Before

\* The block size alone matters to what follows: a wrong one ends the process.
LEMMA ReadOptionInv == IInv /\ ReadOption => IInv'
<1> SUFFICES ASSUME IInv, ReadOption PROVE IInv'
  OBVIOUS
<1> DEFINE R == [A : Int, B : Int, C : Int, d : Int, infile : BOOLEAN, checkpoint : BOOLEAN]
<1>1. config \in R /\ Command
  BY DEF IInv, Command
<1>2. CASE Help
  BY <1>1, <1>2, OtherOption DEF Help, Over, Before
<1>3. CASE Infile
  <2>1. config' = [config EXCEPT !.infile = TRUE]
    BY <1>3 DEF Infile
  <2>2. config' \in R /\ config'.B = config.B
    BY <2>1, <1>1
  <2>3. phase' = "args"
    BY <1>3, OptionIsOption DEF Infile
  <2> QED  BY <1>3, <2>2, <2>3, OtherOption DEF Infile, Before
<1>4. CASE File
  <2>1. config' = [config EXCEPT !.checkpoint = TRUE] \/ config' = config
    BY <1>4 DEF File
  <2>2. config' \in R /\ config'.B = config.B
    BY <2>1, <1>1
  <2>3. phase' = "args"
    BY <1>4, OptionIsOption DEF File
  <2> QED  BY <1>4, <2>2, <2>3, OtherOption DEF File, Before
<1>5. CASE FileFails
  <2>1. config' = [config EXCEPT !.checkpoint = FALSE] \/ config' = config
    BY <1>5 DEF FileFails
  <2>2. config' \in R /\ config'.B = config.B
    BY <2>1, <1>1
  <2> QED  BY <1>5, <2>2, OtherOption DEF FileFails, Goto, Before
<1>6. CASE Number
  <2>1. /\ Reading /\ Option.opt \in {"A", "B", "C", "d"}
        /\ config' = [config EXCEPT ![Option.opt] = Option.arg]
        /\ phase' \in {"args", "over"}
        /\ Option.opt = "B" /\ phase' # "over" => ValidBlock(Option.arg)
    BY <1>6, OptionIsOption DEF Number, Over
  <2>2. Option.arg \in Int
    BY <2>1, OptionIsOption
  <2>3. CASE Option.opt # "B"
    <3>1. config' \in R /\ config'.B = config.B
      BY <1>1, <2>1, <2>2, <2>3
    <3> QED  BY <3>1, <2>1, OtherOption DEF Before
  <2>4. CASE Option.opt = "B"
    <3>1. config' = [config EXCEPT !.B = Option.arg]
      BY <2>1, <2>4
    <3>2. config' \in R /\ config'.B = Option.arg
      BY <3>1, <1>1, <2>2
    <3>3. phase' # "over" /\ Option.arg # -1 => PowerOfTwo(Option.arg)
      BY <2>1, <2>4 DEF ValidBlock
    <3>4. /\ argv' = argv /\ optind' \in Nat \ {0} /\ argv \in ARGVS
          /\ optind \in DOMAIN argv /\ argv[optind].opt = "B" /\ argv[optind].arg = Option.arg
      BY <2>1, <2>4, OptionIsOption
    <3>5. Command'
      BY <3>2, <3>3, <3>4 DEF Command
    <3> QED  BY <2>1, <3>5, OptionIsOption, BeforeLoading DEF Before
  <2> QED  BY <2>3, <2>4
<1> QED  BY <1>2, <1>3, <1>4, <1>5, <1>6 DEF ReadOption

\* The checks of main and of init_machine change nothing.
LEMMA SetUpInv == IInv /\ (CheckUsage \/ InitMachine \/ OpenFails) => IInv'
<1> SUFFICES ASSUME IInv, CheckUsage \/ InitMachine \/ OpenFails PROVE IInv'
  OBVIOUS
<1>1. /\ phase \in Before /\ phase' \in Before \cup {"over"}
      /\ UNCHANGED <<command, elf, loaded, data_seg, memory, accesses, printed>>
  BY DEF CheckUsage, InitMachine, OpenFails, Over, Goto, Before
<1>2. Command /\ phase # "over"
  BY <1>1 DEF IInv, Before
<1>3. Command'
  BY <1>1, <1>2 DEF Command, command
<1> QED  BY <1>1, <1>3, BeforeLoading

\* What a range of addresses needs is pages in use, and none if it is empty.
LEMMA CopyPages ==
    ASSUME NEW first \in Nat, NEW n \in Nat, first % PAGESIZE <= n
    PROVE  LET last == first + n - 1
           IN  /\ first > last => PageOf(first) .. PageOf(last) = {}
               /\ first <= last => last \in Nat /\ PageOf(first) \in Nat /\ PageOf(last) \in Nat
                                   /\ PageOf(first) <= PageOf(last)
<1> DEFINE last == first + n - 1
           m == PAGESIZE
<1>1. m \in Nat \ {0} /\ last \in Int
  BY PageAssumption
<1>2. ASSUME first > last PROVE PageOf(first) .. PageOf(last) = {}
  <2> DEFINE q == first \div m
             x == (first - 1) \div m
  <2>1. first % m \in 0 .. m - 1
    BY <1>1, DivisionInverse
  <2>2. n = 0 /\ last = first - 1 /\ first % m = 0
    BY <1>2, <2>1
  <2>3. q \in Nat /\ first = q * m
    <3>1. q \in Nat /\ first = q * m + (first % m)
      BY <1>1, DivisionInverse
    <3> QED  BY <3>1, <2>2, <1>1
  <2>4. x \in Int /\ x * m <= first - 1
    <3> HIDE DEF m
    <3> QED  BY <1>1
  <2> HIDE DEF q, x, m
  <2>5. x < q
    <3> SUFFICES ASSUME x >= q PROVE FALSE
      BY <2>3, <2>4
    <3>1. (x - q) * m >= 0 /\ (x - q) * m = x * m - q * m /\ x * m \in Int /\ q * m \in Int
      BY <1>1, <2>3, <2>4
    <3> QED  BY <3>1, <2>3, <2>4
  <2>6. PageOf(first) = q /\ PageOf(last) = x
    BY <2>2 DEF PageOf, q, x, m
  <2> QED  BY <2>3, <2>4, <2>5, <2>6
<1>3. ASSUME first <= last
      PROVE  /\ last \in Nat /\ PageOf(first) \in Nat /\ PageOf(last) \in Nat
             /\ PageOf(first) <= PageOf(last)
  <2>1. last \in Nat
    BY <1>3
  <2> HIDE DEF last
  <2> QED  BY <1>3, <2>1, PageBounds
<1> QED  BY <1>2, <1>3

\* What the loader does for one segment.
LEMMA LoadSegmentReads ==
    ASSUME NEW e \in ELFS, NEW i \in DOMAIN e, NEW t \in Tables
    PROVE  LET p == e[i]
               u == LoadSegment(t, p)
           IN  /\ u \in Tables /\ KeepsPages(t, u)
               /\ \A n \in SegmentPages(p) : n \in PAGES /\ get_page(u, n) # 0
               /\ \A a \in Nat : PageOf(a) \in PAGES =>
                     CellAt(u, a) = IF a \in CopyFirst(p) .. CopyLast(p)
                                    THEN FILE[p.off + (a - p.vaddr)] ELSE CellAt(t, a)
<1> DEFINE p == e[i]
           first == CopyFirst(p)
           last == CopyLast(p)
           f == [a \in first .. last |-> FILE[p.off + (a - first)]]
           v == PutAll(t, first, last, f)
           bfirst == BssStart(p)
           blast == BssStart(p) + (p.memsz - p.filesz) - 1
           u == LoadSegment(t, p)
<1>1. /\ p.vaddr \in Nat /\ p.off \in Nat /\ p.filesz \in Nat /\ p.memsz \in Nat
      /\ v_align(p) \in Nat /\ first = p.vaddr /\ last = p.vaddr + p.filesz + v_align(p) - 1
  BY FileIsCopied
<1>2. SegmentPages(p) \subseteq PAGES
      /\ \A a \in first .. last : FILE[p.off + (a - first)] \in Nat
  BY ElfAssumption
<1>3. u = MapBss(v, p)
  BY DEF LoadSegment, CopyFile
<1>4. /\ first > last => PageOf(first) .. PageOf(last) = {}
      /\ first <= last => last \in Nat /\ PageOf(first) <= PageOf(last)
                          /\ PageOf(first) \in Nat /\ PageOf(last) \in Nat
  <2> DEFINE n == p.filesz + v_align(p)
  <2>1. n \in Nat /\ last = first + n - 1 /\ first \in Nat
    BY <1>1
  <2>2. first % PAGESIZE <= n
    BY <1>1 DEF v_align
  <2> HIDE DEF n, first, last
  <2> QED  BY <2>1, <2>2, CopyPages
<1>5. PageOf(first) .. PageOf(last) \subseteq PAGES
  BY <1>2 DEF SegmentPages
<1>6. \A a \in first .. last : f[a] = FILE[p.off + (a - first)] /\ f[a] \in Nat
  BY <1>2
<1> HIDE DEF f
<1>7. /\ v \in Tables /\ KeepsPages(t, v)
      /\ first <= last => \A n \in PageOf(first) .. PageOf(last) : get_page(v, n) # 0
      /\ \A a \in Nat : PageOf(a) \in PAGES =>
            CellAt(v, a) = IF a \in first .. last THEN f[a] ELSE CellAt(t, a)
  <2>1. first \in Nat /\ last \in Int
    BY <1>1
  <2>2. \A a \in first .. last : f[a] \in Nat
    BY <1>6
  <2> HIDE DEF first, last
  <2> QED  BY <2>1, <2>2, <1>5, PutAllReads
<1> HIDE DEF v
<1>8. /\ u \in Tables /\ KeepsPages(v, u) /\ SameCells(v, u)
      /\ p.memsz > p.filesz => \A n \in PageOf(bfirst) .. PageOf(blast) : get_page(u, n) # 0
  <2>1. CASE p.memsz > p.filesz
    <3>1. bfirst \in Nat /\ blast \in Nat /\ bfirst <= blast
      <4>1. (p.filesz + p.vaddr) % PAGESIZE \in 0 .. PAGESIZE - 1
        <5> DEFINE x == p.filesz + p.vaddr
        <5>1. x \in Nat /\ PAGESIZE \in Nat \ {0}
          BY <1>1, PageAssumption
        <5> HIDE DEF x
        <5>2. x % PAGESIZE \in 0 .. PAGESIZE - 1
          BY <5>1, DivisionInverse
        <5> QED  BY <5>2 DEF x
      <4> DEFINE y == PAGESIZE - ((p.filesz + p.vaddr) % PAGESIZE)
      <4>2. y \in Nat
        BY <4>1, PageAssumption
      <4>3. bfirst = p.vaddr + (p.filesz + y)
        BY DEF BssStart, f_align
      <4> HIDE DEF y, p, bfirst
      <4>4. bfirst \in Nat
        BY <4>2, <4>3, <1>1
      <4>5. blast = bfirst + (p.memsz - p.filesz) - 1
        BY DEF bfirst
      <4> QED  BY <4>4, <4>5, <2>1, <1>1
    <3> DEFINE n == PageOf(bfirst)
               m == PageOf(blast)
    <3>2. n .. m \subseteq PAGES
      BY <2>1, <1>2 DEF SegmentPages
    <3>3. u = TouchAll(v, n, m)
      BY <2>1, <1>3 DEF MapBss
    <3> HIDE DEF bfirst, blast
    <3>4. n \in Nat /\ m \in Nat /\ n <= m
      BY <3>1, PageBounds
    <3> HIDE DEF n, m, u, p
    <3> QED  BY <3>2, <3>3, <3>4, <1>7, TouchAllReads DEF n, m
  <2>2. CASE ~(p.memsz > p.filesz)
    <3>1. u = v
      BY <2>2, <1>3 DEF MapBss
    <3> HIDE DEF u, p, bfirst, blast
    <3> QED  BY <3>1, <2>2, <1>7 DEF KeepsPages, SameCells
  <2> QED  BY <2>1, <2>2
<1> HIDE DEF u
<1>9. KeepsPages(t, u)
  BY <1>7, <1>8 DEF KeepsPages
<1>10. ASSUME NEW n \in SegmentPages(p) PROVE n \in PAGES /\ get_page(u, n) # 0
  <2>1. n \in PAGES
    BY <1>2
  <2>2. CASE n \in PageOf(first) .. PageOf(last)
    <3>1. first <= last
      <4>1. first \in Int /\ last \in Int
        BY <1>1
      <4> QED  BY <4>1, <2>2, <1>4
    <3> QED  BY <3>1, <2>1, <2>2, <1>7, <1>8 DEF KeepsPages
  <2>3. CASE n \notin PageOf(first) .. PageOf(last)
    <3>1. p.memsz > p.filesz /\ n \in PageOf(bfirst) .. PageOf(blast)
      BY <2>3 DEF SegmentPages
    <3> QED  BY <3>1, <2>1, <1>8
  <2> QED  BY <2>2, <2>3
<1>11. ASSUME NEW a \in Nat, PageOf(a) \in PAGES
       PROVE  CellAt(u, a) = IF a \in first .. last THEN FILE[p.off + (a - p.vaddr)] ELSE CellAt(t, a)
  <2>1. CellAt(u, a) = CellAt(v, a)
    BY <1>8, <1>11 DEF SameCells
  <2>2. CellAt(v, a) = IF a \in first .. last THEN f[a] ELSE CellAt(t, a)
    BY <1>7, <1>11
  <2> HIDE DEF p
  <2> QED  BY <2>1, <2>2, <1>1, <1>6
<1> QED  BY <1>8, <1>9, <1>10, <1>11 DEF u

\* One more segment: its file part is in memory, and no cell of another one changes.
LEMMA LoadNextInv == IInv /\ LoadNext => IInv'
<1> SUFFICES ASSUME IInv, LoadNext PROVE IInv'
  OBVIOUS
<1> DEFINE i == loaded + 1
           p == elf[i]
           copied == CopyFirst(p) .. CopyLast(p)
<1>1. /\ phase = "load" /\ phase' = "load" /\ elf' = elf /\ lines' = lines /\ flat' = flat
      /\ loaded' = i /\ table' = LoadSegment(table, p) /\ data_seg' = data_seg
      /\ report' = report /\ UNCHANGED command /\ loaded < Len(elf) /\ accesses' = accesses
  BY DEF LoadNext, printed
<1>2. Command /\ Loading /\ TableInv /\ ImageLoaded /\ report.heap = {} /\ accesses \in Nat
  BY <1>1 DEF IInv, Before
<1>3. elf \in ELFS /\ i \in DOMAIN elf /\ i \in Nat \ {0} /\ loaded \in Nat
  <2>1. elf \in ELFS /\ loaded \in 0 .. Len(elf)
    BY <1>2 DEF Loading
  <2>2. Len(elf) \in Nat /\ DOMAIN elf = 1 .. Len(elf)
    BY <2>1, ElfAssumption
  <2> QED  BY <1>1, <2>1, <2>2
<1>4. /\ table' \in Tables /\ KeepsPages(table, table')
      /\ \A n \in SegmentPages(p) : n \in PAGES /\ get_page(table', n) # 0
      /\ \A a \in Nat : PageOf(a) \in PAGES =>
            CellAt(table', a) = IF a \in copied
                                THEN FILE[p.off + (a - p.vaddr)] ELSE CellAt(table, a)
  <2>1. PICK t : t = table
    OBVIOUS
  <2>2. t \in Tables /\ table' = LoadSegment(t, p)
    BY <2>1, <1>1, <1>2 DEF TableInv
  <2> HIDE DEF i
  <2> QED  BY <2>1, <2>2, <1>3, LoadSegmentReads
<1>5. 1 .. loaded' = (1 .. loaded) \cup {i}
  BY <1>1, <1>3
<1>6. \A j \in 1 .. loaded : j \in DOMAIN elf /\ j # i
  <2>1. Len(elf) \in Nat /\ DOMAIN elf = 1 .. Len(elf)
    BY <1>3, ElfAssumption
  <2> QED  BY <2>1, <1>1, <1>3
<1>7. Command'
  BY <1>1, <1>2 DEF Command, command
<1>8. Loading'
  <2>1. Len(elf) \in Nat /\ DOMAIN elf = 1 .. Len(elf)
    BY <1>3, ElfAssumption
  <2> QED  BY <2>1, <1>1, <1>3 DEF Loading
<1>9. LoadedPages'
  <2>1. ASSUME NEW j \in 1 .. loaded, NEW n \in SegmentPages(elf[j]) PROVE get_page(table', n) # 0
    <3>1. get_page(table, n) # 0
      BY <1>2 DEF TableInv, LoadedPages
    <3>2. SegmentPages(elf[j]) \subseteq PAGES
      BY <1>3, <1>6, ElfAssumption
    <3> QED  BY <3>1, <3>2, <1>4 DEF KeepsPages
  <2> QED  BY <2>1, <1>1, <1>4, <1>5 DEF LoadedPages
<1>10. TableInv'
  BY <1>1, <1>2, <1>4, <1>9 DEF TableInv
<1>11. Slack' = Slack
  BY <1>1 DEF Slack
<1>12. \A a \in Addr \ Slack : a \in copied => a \in FilePart(p)
  <2> DEFINE end == p.vaddr + p.filesz
  <2>1. \A a \in end .. end + v_align(p) - 1 : a \in Slack
    BY <1>3 DEF Slack
  <2>2. /\ p.vaddr \in Nat /\ p.filesz \in Nat /\ v_align(p) \in Nat
        /\ CopyFirst(p) = p.vaddr /\ CopyLast(p) = end + v_align(p) - 1
    BY <1>3, FileIsCopied
  <2> HIDE DEF p
  <2>3. \A a \in copied : a \in end .. end + v_align(p) - 1 \/ a \in FilePart(p)
    BY <2>2 DEF FilePart
  <2> QED  BY <2>1, <2>3
<1>13. FilePart(p) \subseteq copied
  BY <1>3, FileIsCopied
<1>14. \A j \in 1 .. loaded : FilePart(elf[j]) \cap FilePart(p) = {}
  BY <1>3, <1>6, ElfAssumption
<1> HIDE DEF p, copied, i
<1>15. LoadedCells'
  <2> SUFFICES ASSUME NEW a \in Addr \ Slack
               PROVE  /\ \A j \in (1 .. loaded) \cup {i} : a \in FilePart(elf[j]) =>
                            CellAt(table', a) = FILE[elf[j].off + (a - elf[j].vaddr)]
                      /\ (\A j \in (1 .. loaded) \cup {i} : a \notin FilePart(elf[j])) =>
                            CellAt(table', a) = 0
    BY <1>1, <1>5, <1>11 DEF LoadedCells
  <2>1. a \in Nat /\ PageOf(a) \in PAGES
    BY AddrIsCell
  <2>2. /\ \A j \in 1 .. loaded : a \in FilePart(elf[j]) =>
              CellAt(table, a) = FILE[elf[j].off + (a - elf[j].vaddr)]
        /\ (\A j \in 1 .. loaded : a \notin FilePart(elf[j])) => CellAt(table, a) = 0
    BY <1>2 DEF ImageLoaded, LoadedCells
  <2>3. CASE a \in FilePart(p)
    <3>1. CellAt(table', a) = FILE[p.off + (a - p.vaddr)]
      BY <2>1, <2>3, <1>4, <1>13
    <3> QED  BY <3>1, <2>3, <1>14 DEF p
  <2>4. CASE a \notin FilePart(p)
    <3>1. CellAt(table', a) = CellAt(table, a)
      BY <2>1, <2>4, <1>4, <1>12
    <3> QED  BY <3>1, <2>2, <2>4 DEF p
  <2> QED  BY <2>3, <2>4
<1>16. ImageLoaded'
  BY <1>1, <1>2, <1>15 DEF ImageLoaded
<1> QED  BY <1>1, <1>2, <1>7, <1>8, <1>10, <1>16 DEF IInv

\* When all segments are loaded, memory is the image of the file.
LEMMA ImageIsMemory ==
    ASSUME Loading, ImageLoaded, loaded = Len(elf)
    PROVE  \A a \in Addr \ Slack : CellAt(table, a) = flat[a]
<1>1. elf \in ELFS /\ DOMAIN elf = 1 .. loaded
  BY ElfAssumption DEF Loading
<1>2. ASSUME NEW a \in Addr \ Slack PROVE CellAt(table, a) = Image(elf)[a]
  <2>1. /\ \A i \in DOMAIN elf : a \in FilePart(elf[i]) =>
              CellAt(table, a) = FILE[elf[i].off + (a - elf[i].vaddr)]
        /\ (\A i \in DOMAIN elf : a \notin FilePart(elf[i])) => CellAt(table, a) = 0
    BY <1>1, <1>2 DEF ImageLoaded, LoadedCells
  <2>2. /\ \A i \in DOMAIN elf : a \in FilePart(elf[i]) =>
              Image(elf)[a] = FILE[elf[i].off + (a - elf[i].vaddr)]
        /\ (\A i \in DOMAIN elf : a \notin FilePart(elf[i])) => Image(elf)[a] = 0
    BY <1>1, <1>2, ImageCells
  <2> QED  BY <2>1, <2>2
<1> QED  BY <1>2 DEF ImageLoaded

\* The run starts with an empty cache in front of the image.
LEMMA ReadSectionsInv == IInv /\ ReadSections => IInv'
<1> SUFFICES ASSUME IInv, ReadSections PROVE IInv'
  OBVIOUS
<1>1. /\ phase = "load" /\ phase' = "run" /\ loaded = Len(elf) /\ data_seg' = elf[2].vaddr
      /\ UNCHANGED <<command, elf, loaded, table, lines, flat, report, accesses>>
  BY DEF ReadSections, Goto, memory, printed
<1>2. Command /\ Loading /\ TableInv /\ ImageLoaded /\ report.heap = {} /\ accesses \in Nat
  BY <1>1 DEF IInv, Before
<1>3. Command' /\ phase' # "finalize" /\ phase' \notin Before
  BY <1>1, <1>2 DEF Command, command, Before
<1>4. Loading'
  BY <1>1, <1>2 DEF Loading
<1>5. TableInv'
  BY <1>1, <1>2 DEF TableInv, LoadedPages
<1>6. lines' = {} /\ Slack' = Slack
  BY <1>1, <1>2 DEF ImageLoaded, Slack
<1>7. MemoryCells(table, lines, flat)'
  <2>1. \A a \in Addr \ Slack : CellAt(table, a) = flat[a]
    BY <1>1, <1>2, ImageIsMemory
  <2> QED  BY <2>1, <1>1, <1>6 DEF MemoryCells
<1>8. CacheInv'
  BY <1>6, <1>7 DEF CacheInv, Coherent, LinesAreLines, OneCopy, CleanCells, LineCells
<1> QED  BY <1>1, <1>2, <1>3, <1>4, <1>5, <1>8 DEF IInv

----------------------------------------------------------------------------
(* What the accesses need                                                  *)

\* Where nothing but page table, lines and memory change, Coherent does not either.
LEMMA CoherentNext ==
    ASSUME UNCHANGED <<config, data_seg, elf>>, Coherent(table', lines', flat')
    PROVE  CacheInv'
<1>1. config' = config /\ data_seg' = data_seg /\ elf' = elf
  OBVIOUS
<1>2. S' = S /\ Offsets' = Offsets /\ Slack' = Slack /\ (Configured' <=> Configured)
  BY <1>1 DEF S, Offsets, Slack, Configured
<1>3. \A a : Set(a)' = Set(a) /\ Tag(a)' = Tag(a)
  BY <1>1, <1>2 DEF Set, Tag
<1>4. \A a : Cached(a)' <=> Cached(a)
  BY <1>1, <1>2 DEF Cached
<1>5. Line' = Line
  BY <1>1, <1>2 DEF Line
<1>6. \A l : LineAddr(l)' = LineAddr(l)
  BY <1>1, <1>2 DEF LineAddr
<1>7. LinesAreLines(lines)'
  BY <1>1, <1>2, <1>5, <1>6 DEF Coherent, LinesAreLines
<1>8. OneCopy(lines)'
  BY DEF Coherent, OneCopy
<1>9. CleanCells(table, lines)'
  BY <1>1, <1>2, <1>6 DEF Coherent, CleanCells
<1>10. LineCells(lines, flat)'
  BY <1>1, <1>2, <1>6 DEF Coherent, LineCells
<1>11. MemoryCells(table, lines, flat)'
  BY <1>2, <1>3, <1>4 DEF Coherent, MemoryCells, Held, With
<1> QED  BY <1>7, <1>8, <1>9, <1>10, <1>11 DEF CacheInv, Coherent

\* With a valid cache, what is not in a dirty line is in memory.
LEMMA CoherentIsSaved ==
    Command /\ phase # "over" /\ ValidCache /\ CacheInv => Saved
<1> SUFFICES ASSUME Command, phase # "over", ValidCache, CacheInv,
                    NEW a \in Addr \ (Slack \cup Unsaved)
             PROVE  CellAt(table, a) = flat[a]
  BY DEF Saved
<1>1. /\ LinesAreLines(lines) /\ CleanCells(table, lines) /\ LineCells(lines, flat)
      /\ MemoryCells(table, lines, flat)
  BY DEF CacheInv, Coherent
<1>2. CASE ~Held(lines, a)
  BY <1>1, <1>2 DEF MemoryCells
<1>3. CASE Held(lines, a)
  <2>1. Configured /\ a >= data_seg
    BY <1>3 DEF Held, Cached
  <2>2. PICK l \in lines : l \in With(lines, a)
    BY <1>3 DEF Held, With
  <2>3. BlockParts /\ LineParts
    BY <2>1, ValidDivides, Blocks
  <2>4. a \in Nat
    BY AddrIsCell
  <2> DEFINE k == a - Block(a)
  <2>5. k \in Offsets /\ LineAddr(l) + k = a
    BY <1>1, <2>2, <2>3, <2>4, LineOf
  <2> HIDE DEF k
  <2>6. ~l.dirty
    BY <2>1, <2>2 DEF Unsaved, Holding, With
  <2>7. l.data[k] = flat[a]
    BY <1>1, <2>1, <2>5 DEF LineCells
  <2>8. l.data[k] = CellAt(table, a)
    BY <1>1, <2>5, <2>6 DEF CleanCells
  <2> QED  BY <2>7, <2>8
<1> QED  BY <1>2, <1>3

\* The same, of the next state.
LEMMA SavedNext ==
    (Command /\ phase # "over" /\ ValidCache /\ CacheInv)' => Saved'
  BY CoherentIsSaved, PTL

\* What a step of the run has to show.
LEMMA RunStep ==
    ASSUME IInv, Running, accesses' \in Nat, report'.heap = {},
           phase' \in {"run", "finalize", "over"},
           ValidCache /\ phase' # "over" => TableInv',
           ValidCache /\ phase' = "run" => CacheInv',
           ValidCache /\ phase' = "finalize" => Saved'
    PROVE  IInv'
<1>1. phase = "run" /\ UNCHANGED <<command, elf, loaded, data_seg>>
  BY DEF Running
<1>2. Command /\ Loading
  BY DEF IInv
<1>3. Command'
  BY <1>1, <1>2 DEF Command, command
<1>4. Loading'
  BY <1>1, <1>2 DEF Loading
<1>5. ValidCache' <=> ValidCache
  BY <1>1 DEF ValidCache, Configured, S, command
<1> QED  BY <1>3, <1>4, <1>5 DEF IInv, Before

\* A step after which page table, lines and memory fit together.
LEMMA CoherentStep ==
    ASSUME IInv, Running, accesses' \in Nat, report'.heap = {},
           phase' \in {"run", "finalize", "over"},
           ValidCache => TableInv' /\ Coherent(table', lines', flat')
    PROVE  IInv'
<1>1. phase = "run" /\ UNCHANGED <<command, elf, loaded, data_seg>> /\ config' = config
  BY DEF Running, command
<1>2. ValidCache => CacheInv'
  BY <1>1, CoherentNext
<1>3. Command /\ phase' # "over" => Command'
  BY <1>1 DEF Command, command
<1>4. ValidCache' <=> ValidCache
  BY <1>1 DEF ValidCache, Configured, S
<1>5. ValidCache /\ phase' = "finalize" => Saved'
  BY <1>2, <1>3, <1>4, SavedNext DEF IInv
<1> QED  BY <1>2, <1>5, RunStep

\* What holds when the guest makes an access.
LEMMA RunFacts ==
    ASSUME IInv, phase = "run"
    PROVE  /\ elf \in ELFS /\ 2 \in DOMAIN elf /\ data_seg = elf[2].vaddr /\ data_seg \in Nat
           /\ accesses \in Nat /\ 100 + accesses \in Nat
           /\ ValidCache => /\ table \in Tables /\ LoadedPages /\ flat \in [Addr -> Nat]
                            /\ Coherent(table, lines, flat)
           /\ ValidCache /\ Configured =>
                /\ Divides /\ BlockParts /\ LineParts
                /\ config.A \in Int /\ config.A > 0
<1>1. elf \in ELFS /\ data_seg = elf[2].vaddr
  BY DEF IInv, Loading
<1>2. Len(elf) \in Nat /\ Len(elf) >= 2 /\ DOMAIN elf = 1 .. Len(elf)
  BY <1>1, ElfAssumption
<1>3. 2 \in DOMAIN elf
  BY <1>2
<1>4. data_seg \in Nat
  BY <1>1, <1>3, FileIsCopied
<1>5. ValidCache => TableInv /\ CacheInv
  BY DEF IInv
<1>6. Command /\ phase # "over" /\ accesses \in Nat
  BY DEF IInv
<1>7. ValidCache /\ Configured => Divides /\ BlockParts /\ LineParts
  BY <1>6, ValidDivides, Blocks
<1>8. ValidCache /\ Configured => config.A \in Int /\ config.A > 0
  BY <1>6 DEF ValidCache, Command
<1> QED  BY <1>1, <1>3, <1>4, <1>5, <1>6, <1>7, <1>8 DEF TableInv, CacheInv

\* A cell holds a number.
LEMMA CellIsNat ==
    ASSUME NEW t \in Tables, NEW a \in Nat, PageOf(a) \in PAGES
    PROVE  CellAt(t, a) \in Nat
<1> DEFINE p == get_page(t, PageOf(a))
<1>1. OffsetOf(a) \in 0 .. PAGESIZE - 1
  BY PageBounds
<1>2. CASE p = 0
  BY <1>2 DEF CellAt
<1>3. CASE p # 0
  <2>1. p \in DOMAIN t.page
    BY <1>3, GetPageFound
  <2>2. t.page \in Seq(Ptes)
    BY DEF Tables
  <2> HIDE DEF p
  <2>3. t.page[p] \in Ptes
    BY <2>1, <2>2
  <2>4. t.page[p].cell[OffsetOf(a)] \in Nat
    BY <2>3, <1>1 DEF Ptes
  <2> QED  BY <2>4, <1>3 DEF CellAt, p
<1> QED  BY <1>2, <1>3

\* The pages between two addresses are those of the addresses between them.
LEMMA RangePages ==
    ASSUME NEW first \in Nat, NEW last \in Nat, first <= last
    PROVE  /\ PageOf(first) \in Nat /\ PageOf(last) \in Nat /\ PageOf(first) <= PageOf(last)
           /\ \A a \in first .. last : PageOf(a) \in PageOf(first) .. PageOf(last)
           /\ \A n \in PageOf(first) .. PageOf(last) : \E a \in first .. last : PageOf(a) = n
<1>1. PageOf(first) \in Nat /\ PageOf(last) \in Nat /\ PageOf(first) <= PageOf(last)
  BY PageBounds
<1>2. ASSUME NEW a \in first .. last PROVE PageOf(a) \in PageOf(first) .. PageOf(last)
  <2>1. a \in Nat /\ first <= a /\ a <= last
    OBVIOUS
  <2>2. PageOf(a) \in Nat /\ PageOf(first) <= PageOf(a) /\ PageOf(a) <= PageOf(last)
    BY <2>1, PageBounds
  <2> QED  BY <2>2, <1>1
<1>3. ASSUME NEW n \in PageOf(first) .. PageOf(last)
      PROVE  \E a \in first .. last : PageOf(a) = n
  <2>1. CASE n = PageOf(first)
    BY <2>1
  <2>2. CASE n # PageOf(first)
    <3> DEFINE m == PAGESIZE
               f == PageOf(first)
               l == PageOf(last)
               x == n * m
    <3>1. /\ m \in Nat \ {0} /\ f \in Nat /\ l \in Nat
          /\ OffsetOf(first) \in 0 .. m - 1 /\ first = f * m + OffsetOf(first)
          /\ OffsetOf(last) \in 0 .. m - 1 /\ last = l * m + OffsetOf(last)
      BY PageAssumption, PageBounds
    <3>2. n \in Nat /\ f + 1 <= n /\ n <= l
      BY <2>2, <3>1
    <3> HIDE DEF m, f, l
    <3>3. x \in Nat /\ (n - (f + 1)) * m >= 0 /\ (l - n) * m >= 0
      BY <3>1, <3>2
    <3>4. /\ (n - (f + 1)) * m = x - f * m - m /\ (l - n) * m = l * m - x
          /\ f * m \in Nat /\ l * m \in Nat
      BY <3>1, <3>2
    <3>5. x \in first .. last
      <4> HIDE DEF x
      <4> QED  BY <3>1, <3>3, <3>4
    <3>6. (n * m + 0) \div m = n
      BY <3>1, <3>2, Division
    <3>7. x = n * m + 0
      BY <3>3
    <3>8. PageOf(x) = n
      BY <3>6, <3>7 DEF PageOf, m
    <3> QED  BY <3>5, <3>8
  <2> QED  BY <2>1, <2>2
<1> QED  BY <1>1, <1>2, <1>3

\* The block of an address the guest accesses is in pages in use.
LEMMA BlockIsInUse ==
    ASSUME Command, phase # "over", Configured, Divides, BlockParts, LineParts,
           NEW a \in GUEST_ADDRS, a \in Addr
    PROVE  LET first == PageOf(Block(a))
               last == PageOf(Block(a) + config.B - 1)
           IN  /\ first \in Nat /\ last \in Nat /\ first <= last /\ first .. last \subseteq PAGES
               /\ \A o \in Offsets : Block(a) + o \in Addr
<1> DEFINE b == Block(a)
           n == config.B
<1>1. a \in Nat /\ PageOf(a) \in PAGES
  BY AddrIsCell
<1>2. n \in Nat \ {0} /\ b \in Nat /\ Offsets = 0 .. n - 1
  BY <1>1 DEF Divides, BlockParts, Offsets
<1>3. PageOf(b) .. PageOf(b + n - 1) \subseteq PAGES
  <2>1. config.B # -1
    BY DEF Configured
  <2>2. PICK i \in DOMAIN argv : argv[i].opt = "B" /\ argv[i].arg = n /\ PowerOfTwo(n)
    BY <2>1 DEF Command
  <2>3. argv \in ARGVS
    BY DEF Command
  <2>4. BlockPages(a, n) \subseteq PAGES
    BY <2>2, <2>3, <1>1, ArgumentAssumption
  <2> QED  BY <2>4 DEF BlockPages, Block
<1> DEFINE last == b + n - 1
<1>4. last \in Nat /\ b <= last
  BY <1>2
<1> HIDE DEF last, b
<1>5. /\ PageOf(b) \in Nat /\ PageOf(last) \in Nat /\ PageOf(b) <= PageOf(last)
      /\ \A x \in b .. last : PageOf(x) \in PageOf(b) .. PageOf(last)
  BY <1>2, <1>4, RangePages
<1> HIDE DEF n
<1>6. ASSUME NEW o \in Offsets PROVE b + o \in Addr
  <2>1. b + o \in Nat /\ b + o \in b .. last
    BY <1>2, <1>4 DEF last
  <2>2. PageOf(b + o) \in PAGES
    BY <2>1, <1>3, <1>5 DEF last
  <2> QED  BY <2>1, <2>2, AddrIsCell
<1> QED  BY <1>3, <1>5, <1>6 DEF last, b, n

\* A line as it is filled.
LEMMA FilledIsLine ==
    ASSUME BlockParts, LineParts, table \in Tables, NEW a \in Nat,
           \A o \in Offsets : Block(a) + o \in Addr
    PROVE  /\ Filled(a) \in Line /\ ~Filled(a).dirty
           /\ Filled(a).set = Set(a) /\ Filled(a).tag = Tag(a)
           /\ LineAddr(Filled(a)) = Block(a)
           /\ \A o \in Offsets : Filled(a).data[o] = CellAt(table, Block(a) + o)
<1> DEFINE data == [o \in Offsets |-> CellAt(table, Block(a) + o)]
<1>1. Filled(a) = [set |-> Set(a), tag |-> Tag(a), dirty |-> FALSE, data |-> data]
  BY DEF Filled, Offsets
<1>2. \A o \in Offsets : CellAt(table, Block(a) + o) \in Nat
  BY AddrIsCell, CellIsNat
<1>3. data \in [Offsets -> Nat] /\ \A o \in Offsets : data[o] = CellAt(table, Block(a) + o)
  BY <1>2
<1> HIDE DEF data
<1>4. Set(a) \in 0 .. S - 1 /\ Tag(a) \in Nat /\ (Tag(a) * S + Set(a)) * config.B = Block(a)
  BY DEF BlockParts
<1>5. Filled(a) \in Line
  BY <1>1, <1>3, <1>4 DEF Line, Offsets
<1> QED  BY <1>1, <1>3, <1>4, <1>5 DEF LineAddr

\* A line that is written back is what its own cells read, and no other cell.
LEMMA WriteBackReads ==
    ASSUME Divides, BlockParts, LineParts, NEW t \in Tables, NEW ls, LinesAreLines(ls),
           NEW l \in ls, NEW a \in Nat, l.set = Set(a)
    PROVE  LET u == WriteBack(t, l, a)
           IN  /\ u \in Tables /\ KeepsPages(t, u)
               /\ \A x \in Addr : ~(l \in With(ls, x) /\ l.dirty) => CellAt(u, x) = CellAt(t, x)
               /\ \A x \in Addr : l \in With(ls, x) /\ l.dirty => CellAt(u, x) = l.data[x - Block(x)]
<1> DEFINE n == config.B
           first == LineAddr(l)
           last == first + n - 1
           f == [x \in first .. last |-> l.data[x - first]]
           u == WriteBack(t, l, a)
<1>1. n \in Nat \ {0} /\ Offsets = 0 .. n - 1
  BY DEF Divides, Offsets
<1>2. l \in Line
  BY DEF LinesAreLines
<1>3. l.data \in [Offsets -> Nat] /\ l.tag \in Nat /\ l.set \in 0 .. S - 1
  BY <1>2 DEF Line, Offsets
<1>4. EvictedAddr(l.tag, a, n, S) = first
  BY <1>3 DEF Divides, LineAddr
<1>5. u = IF l.dirty THEN PutAll(t, first, last, f) ELSE t
  BY <1>4 DEF WriteBack
<1>6. first \in Nat
  <2>1. 0 \in Offsets
    BY <1>1
  <2>2. first + 0 \in Nat
    BY <2>1, LineOf
  <2>3. LineAddr(l) \in Int
    <3> DEFINE s == S
               x == l.tag
               y == l.set
    <3>1. s \in Nat \ {0} /\ x \in Nat /\ y \in Nat
      BY <1>3 DEF Divides
    <3> HIDE DEF s, x, y, n
    <3>2. (x * s + y) * n \in Int
      BY <3>1, <1>1
    <3> QED  BY <3>2 DEF LineAddr, s, x, y, n
  <2> HIDE DEF first
  <2> QED  BY <2>2, <2>3 DEF first
<1>7. last \in Nat /\ first <= last
  BY <1>1, <1>6
<1>8. \A x : x \in first .. last => x - first \in Offsets /\ first + (x - first) = x
  <2> HIDE DEF first, n
  <2> QED  BY <1>1, <1>6
<1>9. ASSUME NEW x \in Addr
      PROVE  /\ x \in first .. last <=> l \in With(ls, x)
             /\ l \in With(ls, x) => x - first = x - Block(x)
  <2>1. x \in Nat
    BY AddrIsCell
  <2>2. ASSUME x \in first .. last PROVE l \in With(ls, x) /\ x - first = x - Block(x)
    <3> DEFINE k == x - first
    <3>1. k \in Offsets /\ first + k = x
      BY <2>2, <1>8
    <3> HIDE DEF k
    <3>2. l \in With(ls, first + k) /\ (first + k) - Block(first + k) = k
      BY <3>1, LineOf
    <3> QED  BY <3>1, <3>2 DEF k
  <2>3. ASSUME l \in With(ls, x) PROVE x \in first .. last
    <3> DEFINE k == x - Block(x)
    <3>1. k \in Offsets /\ first + k = x
      BY <2>1, <2>3, LineOf
    <3> HIDE DEF k, first
    <3> QED  BY <3>1, <1>1, <1>6
  <2> QED  BY <2>2, <2>3
<1>10. \A x \in first .. last : x \in Addr /\ f[x] = l.data[x - first] /\ f[x] \in Nat
  <2>1. ASSUME NEW x \in first .. last PROVE x \in Addr /\ l.data[x - first] \in Nat
    <3> DEFINE k == x - first
    <3>1. k \in Offsets /\ first + k = x
      BY <1>8
    <3> HIDE DEF k
    <3>2. first + k \in Addr
      BY <3>1, LineOf
    <3> QED  BY <3>1, <3>2, <1>3 DEF k
  <2> QED  BY <2>1
<1>11. PageOf(first) .. PageOf(last) \subseteq PAGES
  <2> HIDE DEF first, last
  <2>1. \A m \in PageOf(first) .. PageOf(last) : \E x \in first .. last : PageOf(x) = m
    BY <1>6, <1>7, RangePages
  <2> QED  BY <2>1, <1>10, AddrIsCell
<1> HIDE DEF f, u, first, last
<1>12. CASE l.dirty
  <2>1. u = PutAll(t, first, last, f)
    BY <1>5, <1>12
  <2>2. \A x \in first .. last : f[x] \in Nat
    BY <1>10
  <2>3. last \in Int
    BY <1>7
  <2>4. /\ u \in Tables /\ KeepsPages(t, u)
        /\ \A x \in Nat : PageOf(x) \in PAGES =>
              CellAt(u, x) = IF x \in first .. last THEN f[x] ELSE CellAt(t, x)
    BY <2>1, <2>2, <2>3, <1>6, <1>11, PutAllReads
  <2>5. \A x \in Addr : CellAt(u, x) = IF x \in first .. last THEN f[x] ELSE CellAt(t, x)
    BY <2>4, AddrIsCell
  <2>6. ASSUME NEW x \in Addr
        PROVE  /\ l \notin With(ls, x) => CellAt(u, x) = CellAt(t, x)
               /\ l \in With(ls, x) => CellAt(u, x) = l.data[x - Block(x)]
    BY <2>5, <1>9, <1>10
  <2> QED  BY <2>4, <2>6, <1>12 DEF u
<1>13. CASE ~l.dirty
  <2>1. u = t
    BY <1>5, <1>13
  <2> QED  BY <2>1, <1>13 DEF KeepsPages, u
<1> QED  BY <1>12, <1>13

\* The pages of the segments stay.
LEMMA LoadedPagesNext ==
    ASSUME Loading, LoadedPages, NEW t, KeepsPages(table, t), table' = t, elf' = elf, loaded' = loaded
    PROVE  LoadedPages'
<1>1. elf \in ELFS /\ loaded \in 0 .. Len(elf)
  BY DEF Loading
<1>2. Len(elf) \in Nat /\ DOMAIN elf = 1 .. Len(elf)
  BY <1>1, ElfAssumption
<1>3. ASSUME NEW i \in 1 .. loaded, NEW n \in SegmentPages(elf[i]) PROVE get_page(t, n) # 0
  <2>1. i \in DOMAIN elf
    BY <1>1, <1>2
  <2>2. SegmentPages(elf[i]) \subseteq PAGES
    BY <2>1, <1>1, ElfAssumption
  <2>3. get_page(table, n) # 0
    BY DEF LoadedPages
  <2> QED  BY <2>2, <2>3 DEF KeepsPages
<1> QED  BY <1>3 DEF LoadedPages

----------------------------------------------------------------------------
(* The accesses                                                            *)

\* Where an access may be made, and how far the run goes after it.
LEMMA AccessFacts ==
    ASSUME IInv, NEW a \in GUEST_ADDRS, Ordinary(a)
    PROVE  /\ Running /\ phase = "run" /\ accesses' \in Nat /\ a \in Addr /\ a \in Nat
           /\ Cached(a) /\ S > 0 /\ config.d > 0 => Configured
           /\ AfterAccess(a) => phase' \in {"run", "finalize"}
           /\ AfterAccess(a) /\ a < data_seg => phase' = "finalize"
<1>1. Running /\ accesses' = accesses + 1 /\ a \in Addr
  BY DEF Ordinary, Accessing
<1>2. phase = "run" /\ accesses \in Nat
  BY <1>1 DEF IInv, Running
<1>3. a \in Nat /\ data_seg \in Nat
  BY <1>1, <1>2, AddrIsCell, RunFacts
<1> QED  BY <1>1, <1>2, <1>3 DEF Cached, AfterAccess, Goto, InBounds

\* The access itself, once its line is there.
LEMMA UseLine ==
    ASSUME BlockParts, LineParts, data_seg \in Nat, accesses \in Nat, flat \in [Addr -> Nat],
           NEW op \in Ops, NEW a \in Addr, Cached(a),
           NEW t, NEW others, NEW l, l \notin others, l.set = Set(a), l.tag = Tag(a),
           Coherent(t, others \cup {l}, flat), Use(op, a, l, others)
    PROVE  Coherent(t, lines', flat') /\ flat' \in [Addr -> Nat]
<1>1. CASE op = "READ"
  <2>1. lines' = others \cup {l} /\ flat' = flat
    BY <1>1 DEF Use
  <2> QED  BY <2>1
<1>2. CASE op # "READ"
  <2> DEFINE ls == others \cup {l}
             v == NewValue
             n == Modified(l, a, v)
             g == [flat EXCEPT ![a] = v]
  <2>1. lines' = others \cup {n} /\ flat' = g
    BY <1>2 DEF Use, Modified
  <2>2. ls \ {l} = others /\ l \in With(ls, a)
    BY DEF With
  <2>3. v \in Nat
    BY DEF NewValue
  <2>4. g \in [Addr -> Nat]
    BY <2>3
  <2> HIDE DEF v
  <2>5. Coherent(t, (ls \ {l}) \cup {n}, g)
    <3> HIDE DEF ls
    <3>1. Coherent(t, ls, flat)
      BY DEF ls
    <3> QED  BY <3>1, <2>2, <2>3, StoreLine
  <2> HIDE DEF n, g, ls
  <2> QED  BY <2>1, <2>2, <2>4, <2>5
<1> QED  BY <1>1, <1>2

\* A line that is in the cache is used.
LEMMA HitInv ==
    ASSUME IInv, NEW op \in Ops, NEW a \in GUEST_ADDRS, Hit(op, a)
    PROVE  IInv'
<1>1. /\ Ordinary(a) /\ Cached(a) /\ AfterAccess(a) /\ table' = table /\ report' = report
      /\ \E l \in Holding(a) : Use(op, a, l, lines \ {l})
  BY DEF Hit, printed
<1>2. /\ Running /\ phase = "run" /\ accesses' \in Nat /\ a \in Addr
      /\ phase' \in {"run", "finalize"} /\ elf' = elf /\ loaded' = loaded
  BY <1>1, AccessFacts DEF Running
<1>3. ASSUME ValidCache PROVE TableInv' /\ Coherent(table', lines', flat')
  <2>1. PICK l \in lines : l.set = Set(a) /\ l.tag = Tag(a) /\ Use(op, a, l, lines \ {l})
    BY <1>1 DEF Holding
  <2>2. /\ data_seg \in Nat /\ accesses \in Nat /\ flat \in [Addr -> Nat]
        /\ table \in Tables /\ LoadedPages /\ Coherent(table, lines, flat)
    BY <1>2, <1>3, RunFacts
  <2>3. BlockParts /\ LineParts
    BY <1>1, <1>2, <1>3, RunFacts DEF Cached
  <2> DEFINE others == lines \ {l}
  <2>4. others \cup {l} = lines /\ l \notin others
    OBVIOUS
  <2>5. Coherent(table, lines', flat') /\ flat' \in [Addr -> Nat]
    <3> HIDE DEF others
    <3>1. Use(op, a, l, others)
      BY <2>1 DEF others
    <3> QED  BY <3>1, <2>1, <2>2, <2>3, <2>4, <1>1, <1>2, UseLine
  <2> QED  BY <2>2, <2>5, <1>1, <1>2 DEF TableInv, LoadedPages
<1>4. report'.heap = {}
  BY <1>1 DEF IInv
<1> QED  BY <1>1, <1>2, <1>3, <1>4, CoherentStep

\* A line that is not in the cache is put there, in place of another one perhaps,
\* and used.
LEMMA MissInv ==
    ASSUME IInv, NEW op \in Ops, NEW a \in GUEST_ADDRS, Miss(op, a)
    PROVE  IInv'
<1> DEFINE same == {l \in lines : l.set = Set(a)}
           read == TouchAll(table, PageOf(Block(a)), PageOf(Block(a) + config.B - 1))
           new == Filled(a)
<1>1. /\ Ordinary(a) /\ Cached(a) /\ AfterAccess(a) /\ report' = report /\ Holding(a) = {}
      /\ \/ table' = read /\ Use(op, a, new, lines)
         \/ \E l \in same : table' = WriteBack(read, l, a) /\ Use(op, a, new, lines \ {l})
  BY DEF Miss, printed
<1>2. /\ Running /\ phase = "run" /\ accesses' \in Nat /\ a \in Addr /\ a \in Nat
      /\ phase' \in {"run", "finalize"} /\ elf' = elf /\ loaded' = loaded
  BY <1>1, AccessFacts DEF Running
<1>3. ASSUME ValidCache PROVE TableInv' /\ Coherent(table', lines', flat')
  <2>1. /\ data_seg \in Nat /\ accesses \in Nat /\ flat \in [Addr -> Nat]
        /\ table \in Tables /\ LoadedPages /\ Coherent(table, lines, flat)
    BY <1>2, <1>3, RunFacts
  <2>2. Configured /\ Divides /\ BlockParts /\ LineParts
    BY <1>1, <1>2, <1>3, RunFacts DEF Cached
  <2>3. Command /\ phase # "over"
    BY <1>2 DEF IInv
  <2>4. \A o \in Offsets : Block(a) + o \in Addr
    BY <2>2, <2>3, <1>2, BlockIsInUse
  <2>5. read \in Tables /\ KeepsPages(table, read) /\ SameCells(table, read)
    <3> DEFINE first == PageOf(Block(a))
               last == PageOf(Block(a) + config.B - 1)
    <3>1. first \in Nat /\ last \in Nat /\ first <= last /\ first .. last \subseteq PAGES
      BY <2>2, <2>3, <1>2, BlockIsInUse
    <3> HIDE DEF first, last
    <3>2. read = TouchAll(table, first, last)
      BY DEF first, last
    <3> HIDE DEF read
    <3> QED  BY <3>1, <3>2, <2>1, TouchAllReads
  <2>6. /\ new \in Line /\ ~new.dirty /\ new.set = Set(a) /\ new.tag = Tag(a)
        /\ LineAddr(new) = Block(a)
        /\ \A o \in Offsets : new.data[o] = CellAt(table, Block(a) + o)
    BY <2>1, <2>2, <2>4, <1>2, FilledIsLine
  <2> HIDE DEF read, new
  <2>7. \A o \in Offsets : LineAddr(new) + o \in Addr
                           /\ new.data[o] = CellAt(read, LineAddr(new) + o)
    BY <2>4, <2>5, <2>6, AddrIsCell DEF SameCells
  <2>8. Coherent(read, lines, flat)
    BY <2>1, <2>5, SameTable
  <2>9. \A l \in lines : ~(l.set = new.set /\ l.tag = new.tag)
    BY <1>1, <2>6 DEF Holding
  <2>10. new \notin lines
    BY <2>9
  <2>11. ASSUME NEW t \in Tables, KeepsPages(table, t), table' = t,
                NEW others \in SUBSET lines, Coherent(t, others, flat),
                \A o \in Offsets : new.data[o] = CellAt(t, LineAddr(new) + o),
                Use(op, a, new, others)
         PROVE  TableInv' /\ Coherent(table', lines', flat')
    <3>1. Coherent(t, others \cup {new}, flat)
      <4>1. \A l \in others : ~(l.set = new.set /\ l.tag = new.tag)
        BY <2>9
      <4> QED  BY <4>1, <2>2, <2>6, <2>7, <2>11, FillLine
    <3>2. new \notin others
      BY <2>10
    <3>3. Coherent(t, lines', flat') /\ flat' \in [Addr -> Nat]
      BY <3>1, <3>2, <2>1, <2>2, <2>6, <2>11, <1>1, <1>2, UseLine
    <3>4. LoadedPages'
      BY <2>1, <2>11, <1>2, LoadedPagesNext DEF IInv
    <3> QED  BY <3>3, <3>4, <2>11 DEF TableInv
  <2>12. CASE table' = read /\ Use(op, a, new, lines)
    BY <2>12, <2>5, <2>7, <2>8, <2>11
  <2>13. ASSUME NEW l \in same, table' = WriteBack(read, l, a), Use(op, a, new, lines \ {l})
         PROVE  TableInv' /\ Coherent(table', lines', flat')
    <3> DEFINE t == WriteBack(read, l, a)
               others == lines \ {l}
    <3>1. l \in lines /\ l.set = Set(a) /\ LinesAreLines(lines)
      BY <2>8 DEF Coherent
    <3>2. /\ t \in Tables /\ KeepsPages(read, t)
          /\ \A x \in Addr : ~(l \in With(lines, x) /\ l.dirty) => CellAt(t, x) = CellAt(read, x)
          /\ \A x \in Addr : l \in With(lines, x) /\ l.dirty => CellAt(t, x) = l.data[x - Block(x)]
      BY <3>1, <2>2, <2>5, <1>2, WriteBackReads
    <3> HIDE DEF t
    <3>3. Coherent(t, others, flat)
      BY <3>1, <3>2, <2>1, <2>2, <2>8, EvictLine
    <3>4. ASSUME NEW o \in Offsets PROVE new.data[o] = CellAt(t, LineAddr(new) + o)
      <4>1. LineAddr(new) + o \in Addr /\ new.data[o] = CellAt(read, LineAddr(new) + o)
        BY <2>7
      <4>2. LET x == (new.tag * S + new.set) * config.B + o
            IN  Set(x) = new.set /\ Tag(x) = new.tag
        BY <2>2, <2>6 DEF LineParts, Line
      <4>3. Set(LineAddr(new) + o) = new.set /\ Tag(LineAddr(new) + o) = new.tag
        BY <4>2 DEF LineAddr
      <4>4. l \notin With(lines, LineAddr(new) + o)
        BY <4>3, <3>1, <2>9 DEF With
      <4> QED  BY <4>1, <4>4, <3>2
    <3>5. KeepsPages(table, t)
      BY <3>2, <2>5 DEF KeepsPages
    <3>6. table' = t /\ Use(op, a, new, others)
      BY <2>13 DEF t
    <3>7. others \in SUBSET lines
      OBVIOUS
    <3> HIDE DEF others
    <3> QED  BY <3>2, <3>3, <3>4, <3>5, <3>6, <3>7, <2>11
  <2> QED  BY <1>1, <2>12, <2>13 DEF read, new
<1>4. report'.heap = {}
  BY <1>1 DEF IInv
<1> QED  BY <1>1, <1>2, <1>3, <1>4, CoherentStep

\* An access that goes by the cache.  With a cache, a store does so below the data
\* segment only, where it ends the run: a line may hold what it writes.
LEMMA UncachedInv ==
    ASSUME IInv, NEW op \in Ops, NEW a \in GUEST_ADDRS, Uncached(op, a)
    PROVE  IInv'
<1> DEFINE v == NewValue
           g == [flat EXCEPT ![a] = v]
<1>1. /\ Ordinary(a) /\ ~Cached(a) /\ AfterAccess(a) /\ report' = report /\ lines' = lines
      /\ op = "READ" => table' = Touch(table, PageOf(a)) /\ flat' = flat
      /\ op # "READ" => table' = Put(table, a, v) /\ flat' = g
  BY DEF Uncached, printed
<1>2. /\ Running /\ phase = "run" /\ accesses' \in Nat /\ a \in Addr /\ a \in Nat
      /\ phase' \in {"run", "finalize"} /\ elf' = elf /\ loaded' = loaded
      /\ config' = config /\ data_seg' = data_seg
  BY <1>1, AccessFacts DEF Running, command
<1>3. report'.heap = {}
  BY <1>1 DEF IInv
<1>4. PageOf(a) \in PAGES
  BY <1>2, AddrIsCell
<1>5. ASSUME ValidCache
      PROVE  /\ data_seg \in Nat /\ v \in Nat /\ flat \in [Addr -> Nat] /\ table \in Tables
             /\ Loading /\ LoadedPages /\ Coherent(table, lines, flat)
  BY <1>2, <1>5, RunFacts DEF IInv, NewValue
<1> HIDE DEF v
<1>6. CASE op = "READ"
  <2>1. ASSUME ValidCache PROVE TableInv' /\ Coherent(table', lines', flat')
    <3> DEFINE t == Touch(table, PageOf(a))
    <3>1. t \in Tables /\ SameCells(table, t) /\ KeepsPages(table, t)
      BY <1>4, <1>5, <2>1, TouchReads, TouchKeepsPages DEF SameCells
    <3> HIDE DEF t
    <3>2. table' = t /\ flat' = flat /\ lines' = lines
      BY <1>1, <1>6 DEF t
    <3>3. Coherent(t, lines, flat)
      BY <3>1, <1>5, <2>1, SameTable
    <3>4. LoadedPages'
      BY <3>1, <3>2, <1>2, <1>5, <2>1, LoadedPagesNext
    <3> QED  BY <3>1, <3>2, <3>3, <3>4, <1>5, <2>1 DEF TableInv
  <2> QED  BY <2>1, <1>2, <1>3, CoherentStep
<1>7. CASE op # "READ"
  <2> DEFINE t == Put(table, a, v)
  <2>1. ASSUME ValidCache
        PROVE  /\ t \in Tables /\ KeepsPages(table, t)
               /\ \A x \in Addr : CellAt(t, x) = IF x = a THEN v ELSE CellAt(table, x)
    <3>1. t \in Tables /\ \A x \in Nat : PageOf(x) \in PAGES =>
                             CellAt(t, x) = IF x = a THEN v ELSE CellAt(table, x)
      BY <1>2, <1>4, <1>5, <2>1, PageTableIsMemory
    <3>2. KeepsPages(table, t)
      BY <1>2, <1>4, <1>5, <2>1, PutKeepsPages
    <3> QED  BY <3>1, <3>2, AddrIsCell
  <2> HIDE DEF t
  <2>2. table' = t /\ flat' = g /\ lines' = lines
    BY <1>1, <1>7 DEF t
  <2>3. ASSUME ValidCache
        PROVE  g \in [Addr -> Nat] /\ \A x \in Addr : g[x] = IF x = a THEN v ELSE flat[x]
    BY <1>2, <1>5, <2>3
  <2> HIDE DEF g
  <2>4. ASSUME ValidCache PROVE TableInv'
    <3>1. LoadedPages'
      BY <2>1, <2>2, <2>4, <1>2, <1>5, LoadedPagesNext
    <3> QED  BY <3>1, <2>1, <2>2, <2>3, <2>4 DEF TableInv
  <2>5. CASE Configured
    <3>1. ASSUME ValidCache PROVE phase' = "finalize" /\ Saved'
      <4>1. ~(a >= data_seg)
        BY <2>5, <1>1 DEF Cached
      <4>2. a < data_seg
        BY <4>1, <1>2, <1>5, <3>1
      <4>3. phase' = "finalize"
        BY <4>2, <1>1, AccessFacts
      <4>4. Saved
        BY <1>2, <1>5, <3>1, CoherentIsSaved DEF IInv
      <4>5. Unsaved' = Unsaved /\ Slack' = Slack
        BY <1>2, <2>2 DEF Unsaved, Slack, Configured, Holding, Set, Tag, S
      <4>6. \A x \in Addr \ (Slack \cup Unsaved) : CellAt(t, x) = g[x]
        BY <4>4, <2>1, <2>3, <3>1 DEF Saved
      <4> QED  BY <4>3, <4>5, <4>6, <2>2 DEF Saved
    <3> QED  BY <3>1, <2>4, <1>2, <1>3, RunStep
  <2>6. CASE ~Configured
    <3>1. ASSUME ValidCache PROVE Coherent(table', lines', flat')
      <4>1. lines = {}
        BY <2>6, <1>5, <3>1 DEF Coherent, LinesAreLines
      <4>2. \A x \in Addr \ Slack : CellAt(table, x) = flat[x]
        BY <2>6, <1>5, <3>1 DEF Coherent, MemoryCells, Held, Cached
      <4>3. MemoryCells(t, lines, g)
        BY <4>2, <2>1, <2>3, <3>1 DEF MemoryCells
      <4>4. Coherent(t, lines, g)
        BY <4>1, <4>3 DEF Coherent, LinesAreLines, OneCopy, CleanCells, LineCells
      <4> QED  BY <4>4, <2>2
    <3> QED  BY <3>1, <2>4, <1>2, <1>3, CoherentStep
  <2> QED  BY <2>5, <2>6
<1> QED  BY <1>6, <1>7

\* A step of the run that leaves page table, lines and memory alone.
LEMMA StillStep ==
    ASSUME IInv, Running, UNCHANGED memory, accesses' \in Nat, report'.heap = {},
           phase' \in {"run", "finalize", "over"}
    PROVE  IInv'
<1>1. table' = table /\ lines' = lines /\ flat' = flat /\ elf' = elf /\ loaded' = loaded
      /\ phase = "run"
  BY DEF memory, Running
<1>2. ValidCache => TableInv /\ Coherent(table, lines, flat)
  BY <1>1 DEF IInv, CacheInv
<1>3. ValidCache => TableInv' /\ Coherent(table', lines', flat')
  BY <1>1, <1>2 DEF TableInv, LoadedPages
<1> QED  BY <1>3, CoherentStep

\* An access that never comes back leaves everything as it is.
LEMMA NotServedInv ==
    ASSUME IInv, NEW a \in GUEST_ADDRS, NeverServed(a) \/ NoSets(a)
    PROVE  IInv'
<1>1. /\ Ordinary(a) /\ UNCHANGED <<memory, printed>> /\ phase' \in {"finalize", "over"}
  BY DEF NeverServed, NoSets, Goto, Over
<1>2. Running /\ accesses' \in Nat
  BY <1>1, AccessFacts
<1>3. report'.heap = {}
  BY <1>1 DEF IInv, printed
<1> QED  BY <1>1, <1>2, <1>3, StillStep

\* Nor does an access of address zero change anything.
LEMMA AccessNullInv ==
    ASSUME IInv, NEW op \in Ops, AccessNull(op)
    PROVE  IInv'
<1>1. /\ Running /\ accesses' = accesses + 1 /\ UNCHANGED <<memory, printed>>
      /\ phase' \in {"run", "over"}
  BY DEF AccessNull, Accessing, Over, Goto
<1>2. accesses' \in Nat /\ report'.heap = {}
  BY <1>1 DEF IInv, printed
<1> QED  BY <1>1, <1>2, StillStep

----------------------------------------------------------------------------
(* The walks of a checkpoint                                               *)

\* Not all of a page's neighbours are in use.
LEMMA WalksEnd ==
    ASSUME NEW P \in SUBSET PAGES, NEW n \in Int
    PROVE  /\ \E m \in n .. n + Cardinality(PAGES) : m \notin P /\ \A j \in n .. m - 1 : j \in P
           /\ \E m \in n - Cardinality(PAGES) .. n : m \notin P /\ \A j \in m + 1 .. n : j \in P
<1> DEFINE c == Cardinality(PAGES)
<1>1. IsFiniteSet(PAGES)
  BY SegmentAssumption
<1>2. c \in Nat
  BY <1>1, FS_CardinalityType
<1>3. \A T \in SUBSET PAGES : Cardinality(T) <= c
  BY <1>1, FS_Subset
<1> HIDE DEF c
<1>4. ASSUME NEW x \in Int PROVE ~(x .. x + c \subseteq P)
  <2>1. Cardinality(x .. x + c) = c + 1
    <3> DEFINE y == x + c
    <3>1. y \in Int /\ ~(x > y) /\ y - x + 1 = c + 1
      BY <1>2
    <3> HIDE DEF y
    <3> QED  BY <3>1, FS_Interval DEF y
  <2> QED  BY <2>1, <1>2, <1>3
<1> DEFINE Up == {k \in Nat : n + k \notin P}
           Down == {k \in Nat : n - k \notin P}
<1>5. \E m \in n .. n + c : m \notin P /\ \A j \in n .. m - 1 : j \in P
  <2>1. PICK x \in n .. n + c : x \notin P
    BY <1>4
  <2>2. x - n \in Up /\ x - n <= c
    BY <2>1, <1>2
  <2>3. PICK k \in Up : \A y \in Up : k <= y
    BY <2>2, LeastNatural
  <2>4. k \in Nat /\ k <= c /\ n + k \notin P
    BY <2>2, <2>3, <1>2
  <2>5. ASSUME NEW j \in n .. n + k - 1 PROVE j \in P
    <3>1. j - n \in Nat /\ j - n < k /\ n + (j - n) = j
      BY <2>4
    <3> QED  BY <3>1, <2>3, <2>4
  <2> HIDE DEF Up
  <2>6. n + k \in n .. n + c
    BY <2>4, <1>2
  <2> QED  BY <2>4, <2>5, <2>6
<1>6. \E m \in n - c .. n : m \notin P /\ \A j \in m + 1 .. n : j \in P
  <2>1. PICK x \in n - c .. n : x \notin P
    <3>1. n - c \in Int /\ (n - c) + c = n
      BY <1>2
    <3> QED  BY <3>1, <1>4
  <2>2. n - x \in Down /\ n - x <= c
    <3>1. n - x \in Nat /\ n - (n - x) = x /\ n - x <= c
      BY <2>1, <1>2
    <3> QED  BY <3>1, <2>1
  <2>3. PICK k \in Down : \A y \in Down : k <= y
    BY <2>2, LeastNatural
  <2>4. k \in Nat /\ k <= c /\ n - k \notin P
    <3>1. k \in Nat /\ n - k \notin P
      BY <2>3
    <3>2. k <= n - x
      BY <2>2, <2>3
    <3> QED  BY <3>1, <3>2, <2>1, <2>2, <1>2
  <2>5. ASSUME NEW j \in n - k + 1 .. n PROVE j \in P
    <3> DEFINE y == n - j
    <3>1. y \in Nat /\ y < k /\ n - y = j
      BY <2>4
    <3> HIDE DEF y
    <3>2. y \notin Down
      BY <3>1, <2>3, <2>4
    <3> QED  BY <3>1, <3>2
  <2> HIDE DEF Down
  <2>6. n - k \in n - c .. n
    BY <2>4, <1>2
  <2> QED  BY <2>4, <2>5, <2>6
<1> QED  BY <1>5, <1>6 DEF c

\* The first page there is none of, upwards and downwards.
LEMMA EndOfWalk ==
    ASSUME NEW n \in Int
    PROVE  /\ EndUp(n) \in Int /\ n <= EndUp(n) /\ ~Present(EndUp(n))
           /\ \A j \in n .. EndUp(n) - 1 : Present(j)
           /\ EndDown(n) \in Int /\ EndDown(n) <= n /\ ~Present(EndDown(n))
           /\ \A j \in EndDown(n) + 1 .. n : Present(j)
<1> DEFINE P == {m \in PAGES : get_page(table, m) # 0}
           c == Cardinality(PAGES)
<1>1. \A m : Present(m) <=> m \in P
  BY DEF Present
<1>2. c \in Nat
  BY SegmentAssumption, FS_CardinalityType
<1>3. /\ \E m \in n .. n + c : m \notin P /\ \A j \in n .. m - 1 : j \in P
      /\ \E m \in n - c .. n : m \notin P /\ \A j \in m + 1 .. n : j \in P
  <2>1. P \in SUBSET PAGES
    OBVIOUS
  <2> HIDE DEF P
  <2> QED  BY <2>1, WalksEnd
<1> HIDE DEF P, c
<1>4. /\ EndUp(n) \in n .. n + c /\ ~Present(EndUp(n))
      /\ \A j \in n .. EndUp(n) - 1 : Present(j)
  <2> DEFINE Q(m) == ~Present(m) /\ \A j \in n .. m - 1 : Present(j)
  <2>1. \E m \in n .. n + c : Q(m)
    BY <1>1, <1>3
  <2>2. EndUp(n) = CHOOSE m \in n .. n + c : Q(m)
    BY DEF EndUp, c
  <2> HIDE DEF Q
  <2>3. EndUp(n) \in n .. n + c /\ Q(EndUp(n))
    BY <2>1, <2>2
  <2> QED  BY <2>3 DEF Q
<1>5. /\ EndDown(n) \in n - c .. n /\ ~Present(EndDown(n))
      /\ \A j \in EndDown(n) + 1 .. n : Present(j)
  <2> DEFINE Q(m) == ~Present(m) /\ \A j \in m + 1 .. n : Present(j)
  <2>1. \E m \in n - c .. n : Q(m)
    BY <1>1, <1>3
  <2>2. EndDown(n) = CHOOSE m \in n - c .. n : Q(m)
    BY DEF EndDown, c
  <2> HIDE DEF Q
  <2>3. EndDown(n) \in n - c .. n /\ Q(EndDown(n))
    BY <2>1, <2>2
  <2> QED  BY <2>3 DEF Q
<1> QED  BY <1>2, <1>4, <1>5

\* The walk over the heap starts where there is no page.
LEMMA HeapWalkIsEmpty ==
    ASSUME data_seg \in Nat
    PROVE  Upward(HEAP_SEG, AfterData) = {}
<1> DEFINE n == AfterData
<1>1. PageOf(data_seg) \in Int
  BY PageBounds
<1>2. n \in Int /\ ~Present(n)
  BY <1>1, EndOfWalk DEF AfterData
<1> HIDE DEF n
<1>3. n <= EndUp(n) /\ EndUp(n) \in Int /\ \A j \in n .. EndUp(n) - 1 : Present(j)
  BY <1>2, EndOfWalk
<1>4. EndUp(n) = n
  <2>1. EndUp(n) > n => n \in n .. EndUp(n) - 1
    BY <1>2, <1>3
  <2> QED  BY <2>1, <1>2, <1>3
<1>5. n .. EndUp(n) - 1 = {}
  BY <1>2, <1>4
<1>6. Upward(HEAP_SEG, n) = {}
  BY <1>5 DEF Upward
<1> QED  BY <1>6 DEF n

\* A checkpoint the guest asks for.
LEMMA ReadCheckpointInv == IInv /\ ReadCheckpoint => IInv'
<1> SUFFICES ASSUME IInv, ReadCheckpoint PROVE IInv'
  OBVIOUS
<1>1. /\ Running /\ phase = "run" /\ UNCHANGED memory /\ accesses' = accesses + 1
      /\ phase' \in {"run", "over"}
      /\ report' = report \/ report' = Checkpoint
  BY DEF ReadCheckpoint, Accessing, Running, PrintState, Goto, Over, printed
<1>2. report'.heap = {}
  <2>1. Checkpoint.heap = {}
    BY <1>1, RunFacts, HeapWalkIsEmpty DEF Checkpoint
  <2> QED  BY <2>1, <1>1 DEF IInv
<1>3. accesses' \in Nat
  BY <1>1 DEF IInv
<1> QED  BY <1>1, <1>2, <1>3, StillStep

\* The assertion ends the process.
LEMMA WriteCheckpointInv == IInv /\ WriteCheckpoint => IInv'
<1> SUFFICES ASSUME IInv, WriteCheckpoint PROVE IInv'
  OBVIOUS
<1>1. Running /\ UNCHANGED <<memory, printed>> /\ accesses' = accesses + 1 /\ phase' = "over"
  BY DEF WriteCheckpoint, Accessing, Over
<1>2. accesses' \in Nat /\ report'.heap = {}
  BY <1>1 DEF IInv, printed
<1> QED  BY <1>1, <1>2, StillStep

\* The end of the run.
LEMMA StopInv == IInv /\ Stop => IInv'
<1> SUFFICES ASSUME IInv, Stop PROVE IInv'
  OBVIOUS
<1>1. Running /\ UNCHANGED <<memory, accesses, printed>> /\ phase' = "finalize"
  BY DEF Stop, Goto
<1>2. accesses' \in Nat /\ report'.heap = {}
  BY <1>1 DEF IInv, printed
<1> QED  BY <1>1, <1>2, StillStep

\* The checkpoint at the end, after which nothing runs.
LEMMA FinalizeInv == IInv /\ finalize => IInv'
<1> SUFFICES ASSUME IInv, finalize PROVE IInv'
  OBVIOUS
<1>1. /\ phase = "finalize" /\ phase' = "over"
      /\ UNCHANGED <<command, elf, loaded, data_seg, memory, accesses>>
      /\ report' = report \/ report' = Checkpoint
  BY DEF finalize, LogAtEnd, PrintState, Over, printed
<1>2. data_seg \in Nat
  <2>1. elf \in ELFS /\ data_seg = elf[2].vaddr
    BY <1>1 DEF IInv, Loading
  <2>2. Len(elf) \in Nat /\ Len(elf) >= 2 /\ DOMAIN elf = 1 .. Len(elf)
    BY <2>1, ElfAssumption
  <2>3. 2 \in DOMAIN elf
    BY <2>2
  <2> QED  BY <2>1, <2>3, FileIsCopied
<1>3. report'.heap = {}
  <2>1. Checkpoint.heap = {}
    BY <1>2, HeapWalkIsEmpty DEF Checkpoint
  <2> QED  BY <2>1, <1>1 DEF IInv
<1>4. Command' /\ Loading' /\ accesses' \in Nat
  BY <1>1 DEF IInv, Command, Loading, command
<1> QED  BY <1>1, <1>3, <1>4 DEF IInv, Before

----------------------------------------------------------------------------
(* The inductive invariant                                                 *)

\* Every step keeps the invariant.
LEMMA NextInv == IInv /\ [Next]_vars => IInv'
<1> SUFFICES ASSUME IInv, [Next]_vars PROVE IInv'
  OBVIOUS
<1>1. CASE ReadOption
  BY <1>1, ReadOptionInv
<1>2. CASE CheckUsage \/ InitMachine \/ OpenFails
  BY <1>2, SetUpInv
<1>3. CASE LoadNext
  BY <1>3, LoadNextInv
<1>4. CASE ReadSections
  BY <1>4, ReadSectionsInv
<1>5. ASSUME NEW a \in GUEST_ADDRS, NeverServed(a) \/ NoSets(a) PROVE IInv'
  BY <1>5, NotServedInv
<1>6. ASSUME NEW a \in GUEST_ADDRS, NEW op \in Ops, Access(op, a) PROVE IInv'
  BY <1>6, HitInv, MissInv, UncachedInv DEF Access
<1>7. ASSUME NEW op \in Ops, AccessNull(op) PROVE IInv'
  BY <1>7, AccessNullInv
<1>8. CASE ReadCheckpoint \/ WriteCheckpoint \/ Stop \/ finalize
  BY <1>8, ReadCheckpointInv, WriteCheckpointInv, StopInv, FinalizeInv
<1>9. CASE UNCHANGED vars
  <2>1. /\ UNCHANGED <<argv, optind, config, phase, elf, loaded, data_seg, table, lines, flat>>
        /\ UNCHANGED <<accesses, report>>
    BY <1>9 DEF vars, command, memory, printed
  <2>2. Command /\ Loading /\ accesses \in Nat /\ report.heap = {}
    BY DEF IInv
  <2>3. Command' /\ Loading' /\ accesses' \in Nat /\ report'.heap = {}
    BY <2>1, <2>2 DEF Command, Loading
  <2>4. TableInv => TableInv'
    BY <2>1 DEF TableInv, LoadedPages
  <2>5. ImageLoaded => ImageLoaded'
    BY <2>1 DEF ImageLoaded, LoadedCells, Slack
  <2>6. CacheInv => CacheInv'
    BY <2>1, CoherentNext DEF CacheInv
  <2>7. Saved => Saved'
    BY <2>1 DEF Saved, Slack, Unsaved, Configured, Holding, Set, Tag, S
  <2>8. ValidCache' <=> ValidCache
    BY <2>1 DEF ValidCache, Configured, S
  <2> QED  BY <2>1, <2>3, <2>4, <2>5, <2>6, <2>7, <2>8 DEF IInv
<1> QED  BY <1>1, <1>2, <1>3, <1>4, <1>5, <1>6, <1>7, <1>8, <1>9 DEF Next

\* The invariant holds in every state of a run, with whatever arguments, program and
\* accesses of the guest.
THEOREM Inductive == Spec => []IInv
  BY InitInv, NextInv, PTL DEF Spec

----------------------------------------------------------------------------
(* The properties                                                          *)

\* From its first cycle on, and through any valid cache, the guest sees the image
\* of its file and what it has stored since.
THEOREM GuestMemory == Spec => []GuestSeesMemory
<1>1. IInv => GuestSeesMemory
  <2> SUFFICES ASSUME IInv, phase = "run", ValidCache, NEW a \in Addr \ Slack
               PROVE  View(a) = flat[a]
    BY DEF GuestSeesMemory
  <2>1. Coherent(table, lines, flat)
    BY RunFacts
  <2>2. CASE Held(lines, a)
    <3>1. BlockParts /\ LineParts
      BY <2>2, RunFacts DEF Held, Cached
    <3>2. a \in Nat /\ a >= data_seg
      BY <2>2, AddrIsCell DEF Held, Cached
    <3>3. Holding(a) = With(lines, a) /\ Holding(a) # {}
      BY <2>2 DEF Held, Holding, With
    <3> DEFINE l == CHOOSE m \in Holding(a) : TRUE
               k == a - Block(a)
    <3>4. l \in lines /\ l \in With(lines, a)
      BY <3>3 DEF With
    <3>5. View(a) = l.data[k]
      BY <2>2, <3>3 DEF View, Held
    <3> HIDE DEF l, k
    <3>6. LinesAreLines(lines) /\ LineCells(lines, flat)
      BY <2>1 DEF Coherent
    <3>7. k \in Offsets /\ LineAddr(l) + k = a
      BY <3>1, <3>2, <3>4, <3>6, LineOf DEF k
    <3>8. l.data[k] = flat[a]
      BY <3>2, <3>4, <3>6, <3>7 DEF LineCells
    <3> QED  BY <3>5, <3>8
  <2>3. CASE ~Held(lines, a)
    <3>1. View(a) = CellAt(table, a)
      BY <2>3 DEF View, Held, Holding, With
    <3> QED  BY <3>1, <2>1, <2>3 DEF Coherent, MemoryCells
  <2> QED  BY <2>2, <2>3
<1> QED  BY <1>1, Inductive, PTL

\* What violates HeapIsPrinted is no accident of an instance: in no run does a
\* checkpoint print a cell under the heap.
THEOREM HeapWalkPrintsNothing == Spec => [](report.heap = {})
<1>1. IInv => report.heap = {}
  BY DEF IInv
<1> QED  BY <1>1, Inductive, PTL

\* The cells of a page are printed under their addresses, but for the zeros.
LEMMA PageIsPrinted ==
    ASSUME table \in Tables, NEW n, Present(n)
    PROVE  /\ \A c \in Cells(n * PAGESIZE, n) : c[1] \in Addr /\ c[2] = CellAt(table, c[1])
           /\ \A a \in Nat : PageOf(a) = n /\ CellAt(table, a) # 0 =>
                 <<a, CellAt(table, a)>> \in Cells(n * PAGESIZE, n)
<1> DEFINE m == PAGESIZE
           q == get_page(table, n)
           p == table.page[q]
           all == {<<n * m + i, p.cell[i]>> : i \in DOMAIN p.cell}
<1>1. m \in Nat \ {0} /\ n \in Nat /\ n \in PAGES /\ q # 0
  BY PageAssumption DEF Present
<1>2. p \in Ptes
  <2>1. q \in DOMAIN table.page
    BY <1>1, GetPageFound
  <2>2. table.page \in Seq(Ptes)
    BY DEF Tables
  <2> HIDE DEF q
  <2> QED  BY <2>1, <2>2
<1>3. DOMAIN p.cell = 0 .. m - 1
  BY <1>2 DEF Ptes
<1>4. Cells(n * m, n) = {c \in all : c[2] # 0}
  BY DEF Cells
<1>5. \A a \in Nat : PageOf(a) = n => CellAt(table, a) = p.cell[OffsetOf(a)]
  BY <1>1 DEF CellAt
<1> HIDE DEF p
<1>6. ASSUME NEW i \in 0 .. m - 1
      PROVE  n * m + i \in Nat /\ PageOf(n * m + i) = n /\ OffsetOf(n * m + i) = i
  <2>1. n * m \in Nat
    BY <1>1
  <2>2. (n * m + i) \div m = n /\ (n * m + i) % m = i
    <3> HIDE DEF m
    <3> QED  BY <1>1, Division
  <2> QED  BY <2>1, <2>2 DEF PageOf, OffsetOf
<1>7. ASSUME NEW c \in Cells(n * m, n) PROVE c[1] \in Addr /\ c[2] = CellAt(table, c[1])
  <2>1. PICK i \in 0 .. m - 1 : c = <<n * m + i, p.cell[i]>>
    BY <1>3, <1>4
  <2>2. PageOf(n * m + i) = n /\ OffsetOf(n * m + i) = i /\ n * m + i \in Nat
    BY <1>6
  <2> DEFINE a == n * m + i
  <2> HIDE DEF a
  <2>3. a \in Nat /\ PageOf(a) = n /\ OffsetOf(a) = i /\ c = <<a, p.cell[i]>>
    BY <2>1, <2>2 DEF a
  <2>4. a \in Addr /\ CellAt(table, a) = p.cell[i]
    BY <2>3, <1>1, <1>5, AddrIsCell
  <2> QED  BY <2>3, <2>4
<1>8. ASSUME NEW a \in Nat, PageOf(a) = n, CellAt(table, a) # 0
      PROVE  <<a, CellAt(table, a)>> \in Cells(n * m, n)
  <2> DEFINE i == OffsetOf(a)
  <2>1. i \in 0 .. m - 1 /\ a = n * m + i
    BY <1>8, PageBounds
  <2>2. CellAt(table, a) = p.cell[i]
    BY <1>5, <1>8
  <2> HIDE DEF i, m
  <2>3. <<a, p.cell[i]>> \in all
    BY <2>1, <1>3
  <2> QED  BY <2>2, <2>3, <1>4, <1>8
<1> QED  BY <1>7, <1>8

\* addr -= addr % PAGESIZE
LEMMA WalkStartIsPage == ASSUME NEW a \in Nat PROVE WalkStart(a) = PageOf(a) * PAGESIZE
<1>1. /\ PageOf(a) \in Nat /\ OffsetOf(a) \in 0 .. PAGESIZE - 1 /\ PAGESIZE \in Nat
      /\ a = PageOf(a) * PAGESIZE + OffsetOf(a)
  BY PageBounds, PageAssumption
<1> DEFINE x == PageOf(a) * PAGESIZE
<1>2. x \in Nat
  BY <1>1
<1> HIDE DEF x
<1>3. a - OffsetOf(a) = x
  BY <1>1, <1>2 DEF x
<1> QED  BY <1>3 DEF WalkStart, OffsetOf, x

\* A walk prints what the table holds, and all of it on the pages it comes through.
LEMMA WalkIsMemory ==
    ASSUME table \in Tables, NEW x \in Nat
    PROVE  LET up == Upward(WalkStart(x), PageOf(x))
               down == Downward(WalkStart(x), PageOf(x))
           IN  /\ \A c \in up \cup down : c[1] \in Addr /\ c[2] = CellAt(table, c[1])
               /\ \A a \in Nat :
                     /\ PageOf(x) <= PageOf(a) /\ \A n \in PageOf(x) .. PageOf(a) : Present(n)
                     /\ CellAt(table, a) # 0
                     => <<a, CellAt(table, a)>> \in up
               /\ \A a \in Nat :
                     /\ PageOf(a) = PageOf(x) /\ Present(PageOf(x))
                     /\ CellAt(table, a) # 0
                     => <<a, CellAt(table, a)>> \in down
<1> DEFINE n == PageOf(x)
           s == PAGESIZE
           first == WalkStart(x)
<1>1. n \in Nat /\ s \in Nat \ {0} /\ first = n * s
  BY PageBounds, PageAssumption, WalkStartIsPage
<1>2. /\ EndUp(n) \in Int /\ n <= EndUp(n) /\ ~Present(EndUp(n))
      /\ \A j \in n .. EndUp(n) - 1 : Present(j)
      /\ EndDown(n) \in Int /\ EndDown(n) <= n /\ ~Present(EndDown(n))
      /\ \A j \in EndDown(n) + 1 .. n : Present(j)
  <2> HIDE DEF n
  <2>1. n \in Int
    BY <1>1
  <2> QED  BY <2>1, EndOfWalk
<1>3. \A m \in Int : first + (m - n) * s = m * s /\ first - (n - m) * s = m * s
  <2> HIDE DEF n, s, first
  <2>1. ASSUME NEW m \in Int PROVE first + (m - n) * s = m * s /\ first - (n - m) * s = m * s
    <3>1. /\ (m - n) * s = m * s - n * s /\ (n - m) * s = n * s - m * s
          /\ m * s \in Int /\ n * s \in Int
      BY <1>1
    <3> QED  BY <3>1, <1>1
  <2> QED  BY <2>1
<1>4. /\ Upward(first, n) = UNION {Cells(first + (m - n) * s, m) : m \in n .. EndUp(n) - 1}
      /\ Downward(first, n) = UNION {Cells(first - (n - m) * s, m) : m \in EndDown(n) + 1 .. n}
  BY DEF Upward, Downward
<1> HIDE DEF n, s, first
<1>5. /\ \A c : c \in Upward(first, n) <=> \E m \in n .. EndUp(n) - 1 : c \in Cells(m * s, m)
      /\ \A c : c \in Downward(first, n) <=> \E m \in EndDown(n) + 1 .. n : c \in Cells(m * s, m)
  <2>1. \A m \in n .. EndUp(n) - 1 : m \in Int
    BY <1>1, <1>2
  <2>2. \A m \in EndDown(n) + 1 .. n : m \in Int
    BY <1>1, <1>2
  <2> QED  BY <2>1, <2>2, <1>3, <1>4
<1>6. ASSUME NEW c \in Upward(first, n) \cup Downward(first, n)
      PROVE  c[1] \in Addr /\ c[2] = CellAt(table, c[1])
  <2>1. PICK m : Present(m) /\ c \in Cells(m * s, m)
    BY <1>2, <1>5
  <2> QED  BY <2>1, PageIsPrinted DEF s
<1>7. ASSUME NEW a \in Nat, n <= PageOf(a), \A m \in n .. PageOf(a) : Present(m),
             CellAt(table, a) # 0
      PROVE  <<a, CellAt(table, a)>> \in Upward(first, n)
  <2> DEFINE m == PageOf(a)
  <2>1. m \in Nat
    BY PageBounds
  <2> HIDE DEF m
  <2>2. m < EndUp(n)
    <3>1. EndUp(n) <= m => EndUp(n) \in n .. m
      BY <2>1, <1>1, <1>2
    <3> QED  BY <3>1, <2>1, <1>2, <1>7 DEF m
  <2>3. m \in n .. EndUp(n) - 1 /\ Present(m)
    BY <2>1, <2>2, <1>1, <1>2, <1>7 DEF m
  <2>4. <<a, CellAt(table, a)>> \in Cells(m * s, m)
    BY <2>3, <1>7, PageIsPrinted DEF m, s
  <2> QED  BY <2>3, <2>4, <1>5
<1>8. ASSUME NEW a \in Nat, PageOf(a) = n, Present(n), CellAt(table, a) # 0
      PROVE  <<a, CellAt(table, a)>> \in Downward(first, n)
  <2>1. n \in EndDown(n) + 1 .. n
    <3>1. EndDown(n) # n
      BY <1>2, <1>8
    <3> QED  BY <3>1, <1>1, <1>2
  <2>2. <<a, CellAt(table, a)>> \in Cells(n * s, n)
    BY <1>8, PageIsPrinted DEF s
  <2> QED  BY <2>1, <2>2, <1>5
<1> QED  BY <1>6, <1>7, <1>8 DEF first, n

\* The stack's first page, where its walk starts.
LEMMA StackPage ==
    /\ StackTop \in Nat /\ StackTop = WalkStart(STACK_SEG - PAGESIZE)
    /\ WalkStart(StackTop) = StackTop
    /\ \A a \in STACK_SEG - PAGESIZE .. STACK_SEG - 1 :
          a \in Nat /\ PageOf(a) = PageOf(StackTop) /\ a \in Addr
<1> DEFINE m == PAGESIZE
           s == STACK_SEG
           y == s - m
           q == s \div m
<1>1. m \in Nat \ {0} /\ s \in Nat /\ s % m = 0 /\ PageOf(y) \in PAGES /\ PageOf(y) \in Nat
  BY PageAssumption, SegmentAssumption
<1>2. q \in Nat /\ s = q * m
  <2> HIDE DEF s, m
  <2>1. q \in Nat /\ s = q * m + (s % m)
    BY <1>1, DivisionInverse
  <2> QED  BY <2>1, <1>1
<1> HIDE DEF q
<1>3. y \in Nat
  <2>1. y \div m \in Nat /\ y \in Int
    BY <1>1 DEF PageOf
  <2> HIDE DEF y, m
  <2>2. y >= m * (y \div m)
    BY <2>1, <1>1
  <2>3. m * (y \div m) >= 0
    BY <2>1, <1>1
  <2>4. m * (y \div m) \in Int
    BY <2>1, <1>1
  <2> QED  BY <2>1, <2>2, <2>3, <2>4
<1>4. q - 1 \in Nat /\ y = (q - 1) * m
  <2> HIDE DEF s, m
  <2>1. y = q * m - m
    BY <1>2
  <2>2. (q - 1) * m = q * m - m
    BY <1>1, <1>2
  <2>3. q # 0
    BY <1>1, <1>3, <2>1
  <2> QED  BY <2>1, <2>2, <2>3, <1>2
<1> DEFINE k == q - 1
<1> HIDE DEF k
<1>5. k \in Nat /\ y = k * m
  BY <1>4 DEF k
<1>6. \A i \in 0 .. m - 1 : (k * m + i) \div m = k
  <2> HIDE DEF m
  <2> QED  BY <1>1, <1>5, Division
<1>7. PageOf(y) = k
  <2>1. 0 \in 0 .. m - 1 /\ y = k * m + 0
    BY <1>1, <1>3, <1>5
  <2> HIDE DEF y
  <2> QED  BY <2>1, <1>6 DEF PageOf
<1>8. WalkStart(y) = y
  <2> HIDE DEF y
  <2> QED  BY <1>3, <1>5, <1>7, WalkStartIsPage
<1>9. StackTop = y
  BY <1>8 DEF StackTop
<1>10. ASSUME NEW a \in y .. s - 1 PROVE a \in Nat /\ PageOf(a) = PageOf(y) /\ a \in Addr
  <2> DEFINE i == a - y
  <2>1. i \in 0 .. m - 1 /\ a = y + i /\ a \in Nat
    BY <1>1, <1>3
  <2> HIDE DEF i, y
  <2>2. PageOf(a) = k
    BY <2>1, <1>5, <1>6 DEF PageOf
  <2> QED  BY <2>1, <2>2, <1>1, <1>7, AddrIsCell
<1> QED  BY <1>3, <1>8, <1>9, <1>10

\* What memory, printed in a checkpoint of a run with a valid cache, has to do with
\* what the guest sees.
LEMMA ReportStep ==
    ASSUME IInv, [Next]_vars, reports' # reports, ValidCache
    PROVE  /\ phase \in {"run", "finalize"} /\ report' = Checkpoint
           /\ table \in Tables /\ LoadedPages /\ Saved
           /\ elf \in ELFS /\ 2 \in DOMAIN elf /\ 1 \in DOMAIN elf /\ loaded = Len(elf)
           /\ data_seg = elf[2].vaddr /\ data_seg \in Nat /\ elf[1].vaddr \in Nat
           /\ flat \in [Addr -> Nat]
<1>1. (ReadCheckpoint \/ finalize) /\ report' = Checkpoint
  BY DEF Next, vars, printed, memory, ReadOption, Help, Infile, File, FileFails, Number, Reading,
         CheckUsage, InitMachine, OpenFails, LoadNext, ReadSections, NeverServed, NoSets, Access,
         Hit, Miss, Uncached, AccessNull, ReadCheckpoint, WriteCheckpoint, Stop, finalize,
         PrintState, LogAtEnd
<1>2. phase \in {"run", "finalize"}
  BY <1>1 DEF ReadCheckpoint, Accessing, Running, finalize
<1>3. Command /\ Loading /\ TableInv /\ (phase = "run" => CacheInv) /\ (phase = "finalize" => Saved)
  BY <1>2 DEF IInv
<1>4. Saved
  BY <1>2, <1>3, CoherentIsSaved
<1>5. elf \in ELFS /\ loaded = Len(elf) /\ data_seg = elf[2].vaddr
  BY <1>2, <1>3 DEF Loading
<1>6. Len(elf) \in Nat /\ Len(elf) >= 2 /\ DOMAIN elf = 1 .. Len(elf)
  BY <1>5, ElfAssumption
<1>7. 1 \in DOMAIN elf /\ 2 \in DOMAIN elf
  BY <1>6
<1>8. elf[1].vaddr \in Nat /\ elf[2].vaddr \in Nat
  BY <1>5, <1>7, FileIsCopied
<1> QED  BY <1>1, <1>2, <1>3, <1>4, <1>5, <1>7, <1>8 DEF TableInv

\* The walks of a checkpoint.
LEMMA CheckpointParts ==
    ASSUME data_seg \in Nat
    PROVE  LET text == elf[1].vaddr
           IN  /\ Checkpoint.text = Upward(WalkStart(text), PageOf(text))
               /\ Checkpoint.data = Upward(WalkStart(data_seg), PageOf(data_seg))
               /\ Checkpoint.heap = {}
               /\ Checkpoint.stack = Downward(WalkStart(StackTop), PageOf(StackTop))
  BY HeapWalkIsEmpty, StackPage DEF Checkpoint

\* A checkpoint prints no value the guest does not see, but for lines that have
\* yet to be written back.
THEOREM CheckpointShowsMemory == Spec => CheckpointIsMemory
<1>1. ASSUME IInv, [Next]_vars
      PROVE  [ reports' # reports /\ ValidCache =>
                  \A c \in Printed' : c[1] \in (Slack \cup Unsaved) \/ c[2] = flat[c[1]] ]_vars
  <2> SUFFICES ASSUME reports' # reports, ValidCache, NEW c \in Printed'
               PROVE  c[1] \in (Slack \cup Unsaved) \/ c[2] = flat[c[1]]
    OBVIOUS
  <2>1. /\ report' = Checkpoint /\ table \in Tables /\ Saved
        /\ data_seg \in Nat /\ elf[1].vaddr \in Nat
    BY <1>1, ReportStep
  <2>2. c \in Checkpoint.text \cup Checkpoint.data \cup Checkpoint.heap \cup Checkpoint.stack
    BY <2>1 DEF Printed
  <2>3. c[1] \in Addr /\ c[2] = CellAt(table, c[1])
    <3>1. CASE c \in Checkpoint.text
      <4> DEFINE x == elf[1].vaddr
      <4>1. x \in Nat /\ c \in Upward(WalkStart(x), PageOf(x))
        BY <3>1, <2>1, CheckpointParts
      <4> HIDE DEF x
      <4> QED  BY <4>1, <2>1, WalkIsMemory
    <3>2. CASE c \in Checkpoint.data
      <4>1. c \in Upward(WalkStart(data_seg), PageOf(data_seg))
        BY <3>2, <2>1, CheckpointParts
      <4> QED  BY <4>1, <2>1, WalkIsMemory
    <3>3. CASE c \in Checkpoint.stack
      <4> DEFINE x == StackTop
      <4>1. x \in Nat /\ c \in Downward(WalkStart(x), PageOf(x))
        BY <3>3, <2>1, CheckpointParts, StackPage
      <4> HIDE DEF x
      <4> QED  BY <4>1, <2>1, WalkIsMemory
    <3> QED  BY <3>1, <3>2, <3>3, <2>1, <2>2, CheckpointParts
  <2> QED  BY <2>1, <2>3 DEF Saved
<1>2. IInv /\ [Next]_vars =>
         [ reports' # reports /\ ValidCache =>
              \A c \in Printed' : c[1] \in (Slack \cup Unsaved) \/ c[2] = flat[c[1]] ]_vars
  BY <1>1
<1> QED  BY <1>2, Inductive, PTL DEF Spec, CheckpointIsMemory

\* The pages of the data segment, from its first, are those the loader has made sure
\* of, if .bss does not start with a page behind a gap.
LEMMA DataPages ==
    ASSUME NEW e \in ELFS, NEW i \in DOMAIN e, ~BssBehindGap(e[i]),
           NEW a \in e[i].vaddr .. e[i].vaddr + e[i].memsz - 1
    PROVE  /\ a \in Nat /\ PageOf(e[i].vaddr) <= PageOf(a)
           /\ \A n \in PageOf(e[i].vaddr) .. PageOf(a) : n \in SegmentPages(e[i]) /\ n \in PAGES
<1> DEFINE p == e[i]
           v == p.vaddr
           end == p.vaddr + p.filesz
           last == CopyLast(p)
           m == PAGESIZE
           bss == BssStart(p) + (p.memsz - p.filesz) - 1
<1>1. /\ v \in Nat /\ p.filesz \in Nat /\ p.memsz \in Nat /\ v_align(p) \in Nat
      /\ CopyFirst(p) = v /\ last = end + v_align(p) - 1
  BY FileIsCopied
<1>2. SegmentPages(p) \subseteq PAGES
  BY ElfAssumption
<1>3. m \in Nat \ {0}
  BY PageAssumption
<1>4. a \in v .. v + p.memsz - 1 /\ ~BssBehindGap(p)
  OBVIOUS
<1>5. /\ PageOf(v) .. PageOf(last) \subseteq SegmentPages(p)
      /\ p.memsz > p.filesz => PageOf(BssStart(p)) .. PageOf(bss) \subseteq SegmentPages(p)
  BY <1>1 DEF SegmentPages
<1> HIDE DEF p
<1>6. a \in Nat /\ v <= a /\ PageOf(a) \in Nat /\ PageOf(v) \in Nat /\ PageOf(v) <= PageOf(a)
  <2>1. a \in Nat /\ v <= a
    BY <1>1, <1>4
  <2> HIDE DEF v
  <2> QED  BY <2>1, <1>1, PageBounds
<1>7. CASE a <= last
  <2>1. last \in Nat
    BY <1>1, <1>6, <1>7
  <2> HIDE DEF last
  <2>2. PageOf(a) <= PageOf(last) /\ PageOf(last) \in Nat
    BY <2>1, <1>6, <1>7, PageBounds
  <2> QED  BY <2>2, <1>2, <1>5, <1>6 DEF p, v
<1>8. CASE a > last
  <2>1. p.memsz > p.filesz /\ end \in Nat /\ end = v + p.filesz
    BY <1>1, <1>4, <1>8
  <2> DEFINE q == PageOf(end)
             r == end % m
  <2>2. q \in Nat /\ r \in 0 .. m - 1 /\ end = q * m + r
    <3> HIDE DEF end
    <3> QED  BY <2>1, PageBounds DEF OffsetOf
  <2>3. v_align(p) > 0 \/ r # 0
    BY <2>1, <1>1, <1>4 DEF BssBehindGap
  <2> HIDE DEF q, r
  <2>4. last \in Nat /\ PageOf(last) \in Nat /\ q <= PageOf(last)
    <3>1. CASE v_align(p) > 0
      <4>1. last \in Nat /\ end <= last
        BY <3>1, <2>1, <1>1
      <4> HIDE DEF last, end
      <4> QED  BY <4>1, <2>1, PageBounds DEF q
    <3>2. CASE v_align(p) = 0
      <4>1. r # 0 /\ last = end - 1
        BY <3>2, <2>3, <1>1
      <4>2. q * m \in Nat
        BY <2>2, <1>3
      <4> HIDE DEF last, end, m
      <4>3. r - 1 \in 0 .. m - 1 /\ last = q * m + (r - 1) /\ last \in Nat
        BY <4>1, <4>2, <2>2, <1>3
      <4>4. (q * m + (r - 1)) \div m = q
        BY <4>3, <2>2, <1>3, Division
      <4> QED  BY <4>3, <4>4, <2>2 DEF PageOf, m
    <3> QED  BY <3>1, <3>2, <1>1
  <2>5. BssStart(p) = (q + 1) * m
    <3>1. BssStart(p) = v + (p.filesz + (m - ((p.filesz + v) % m)))
      BY DEF BssStart, f_align
    <3>2. p.filesz + v = end
      BY <1>1
    <3>3. (q + 1) * m = q * m + m /\ q * m \in Nat
      BY <2>2, <1>3
    <3>4. BssStart(p) = v + (p.filesz + (m - r))
      BY <3>1, <3>2 DEF r
    <3> DEFINE x == q * m
               y == (q + 1) * m
               f == p.filesz
    <3>5. /\ y = x + m /\ x \in Nat /\ f \in Nat /\ v \in Nat /\ r \in Nat /\ m \in Nat
          /\ v + f = x + r /\ BssStart(p) = v + (f + (m - r))
      BY <3>3, <3>4, <2>1, <2>2, <1>1, <1>3
    <3> HIDE DEF v, end, m, x, y, f
    <3>6. BssStart(p) = y
      BY <3>5
    <3> QED  BY <3>6 DEF y
  <2> DEFINE b == BssStart(p)
  <2>6. b \in Nat /\ end <= b /\ PageOf(b) = q + 1
    <3>1. (q + 1) * m = q * m + m /\ q * m \in Nat /\ 0 \in 0 .. m - 1 /\ q + 1 \in Nat
      BY <2>2, <1>3
    <3> HIDE DEF m, end
    <3>2. ((q + 1) * m + 0) \div m = q + 1
      BY <3>1, <1>3, Division
    <3>3. b \in Nat /\ end <= b /\ b = (q + 1) * m + 0
      BY <3>1, <2>2, <2>5, <1>3
    <3> HIDE DEF b
    <3> QED  BY <3>2, <3>3 DEF PageOf, m
  <2>7. bss \in Nat /\ a <= bss
    <3>1. bss = b + (p.memsz - p.filesz) - 1
      OBVIOUS
    <3> HIDE DEF b, bss, v, end
    <3> QED  BY <3>1, <2>1, <2>6, <1>1, <1>4, <1>6
  <2>8. PageOf(bss) \in Nat /\ PageOf(a) <= PageOf(bss)
    <3> HIDE DEF bss
    <3> QED  BY <2>7, <1>6, PageBounds
  <2>9. PageOf(b) .. PageOf(bss) \subseteq SegmentPages(p)
    BY <2>1, <1>5
  <2>10. ASSUME NEW n \in PageOf(v) .. PageOf(a) PROVE n \in SegmentPages(p)
    <3>1. CASE n <= PageOf(last)
      <4> HIDE DEF last, v
      <4> QED  BY <3>1, <2>4, <1>5, <1>6
    <3>2. CASE n > PageOf(last)
      <4> HIDE DEF last, v, b, bss
      <4>1. n \in PageOf(b) .. PageOf(bss)
        BY <3>2, <2>2, <2>4, <2>6, <2>8, <1>6
      <4> QED  BY <4>1, <2>9
    <3> QED  BY <3>1, <3>2, <2>4, <1>6
  <2> QED  BY <2>10, <1>2, <1>6 DEF p, v
<1> QED  BY <1>6, <1>7, <1>8, <1>1

\* A checkpoint omits nothing but zeros from the data segment and the first page
\* of the stack, but for lines that have yet to be written back.
THEOREM CheckpointShowsData == Spec => CheckpointHasData
<1> DEFINE stack == STACK_SEG - PAGESIZE .. STACK_SEG - 1
           data == elf[2].vaddr .. elf[2].vaddr + elf[2].memsz - 1
<1>1. ASSUME IInv, [Next]_vars, reports' # reports, ValidCache, ~BssBehindGap(elf[2]),
             NEW a \in data \cup stack, a \notin Slack \cup Unsaved, flat[a] # 0
      PROVE  <<a, flat[a]>> \in Printed'
  <2>1. /\ report' = Checkpoint /\ table \in Tables /\ LoadedPages /\ Saved
        /\ elf \in ELFS /\ 2 \in DOMAIN elf /\ loaded = Len(elf) /\ data_seg = elf[2].vaddr
        /\ data_seg \in Nat
    BY <1>1, ReportStep
  <2>2. Printed' = Checkpoint.text \cup Checkpoint.data \cup Checkpoint.heap \cup Checkpoint.stack
    BY <2>1 DEF Printed
  <2>3. CASE a \in data
    <3>1. /\ a \in Nat /\ PageOf(data_seg) <= PageOf(a)
          /\ \A n \in PageOf(data_seg) .. PageOf(a) : n \in SegmentPages(elf[2]) /\ n \in PAGES
      BY <2>1, <2>3, <1>1, DataPages
    <3>2. 2 \in 1 .. loaded
      BY <2>1, ElfAssumption
    <3>3. \A n \in PageOf(data_seg) .. PageOf(a) : Present(n)
      BY <3>1, <3>2, <2>1 DEF LoadedPages, Present
    <3>4. a \in Addr
      <4>1. PageOf(a) \in PageOf(data_seg) .. PageOf(a)
        BY <3>1, <2>1, PageBounds
      <4> QED  BY <4>1, <3>1, AddrIsCell
    <3>5. CellAt(table, a) = flat[a]
      BY <3>4, <2>1, <1>1 DEF Saved
    <3>6. <<a, flat[a]>> \in Upward(WalkStart(data_seg), PageOf(data_seg))
      BY <3>1, <3>3, <3>5, <2>1, <1>1, WalkIsMemory
    <3> QED  BY <3>6, <2>1, <2>2, CheckpointParts
  <2>4. CASE a \in stack
    <3>1. a \in Nat /\ PageOf(a) = PageOf(StackTop) /\ a \in Addr /\ StackTop \in Nat
      BY <2>4, StackPage
    <3>2. CellAt(table, a) = flat[a]
      BY <3>1, <2>1, <1>1 DEF Saved
    <3>3. Present(PageOf(StackTop))
      <4>1. PageOf(a) \in PAGES /\ get_page(table, PageOf(a)) # 0
        BY <3>1, <3>2, <1>1, AddrIsCell DEF CellAt
      <4> QED  BY <4>1, <3>1 DEF Present
    <3>4. <<a, flat[a]>> \in Downward(WalkStart(StackTop), PageOf(StackTop))
      <4> DEFINE x == StackTop
      <4>1. x \in Nat /\ PageOf(a) = PageOf(x) /\ Present(PageOf(x)) /\ CellAt(table, a) # 0
        BY <3>1, <3>2, <3>3, <1>1
      <4> HIDE DEF x
      <4>2. <<a, CellAt(table, a)>> \in Downward(WalkStart(x), PageOf(x))
        BY <4>1, <3>1, <2>1, WalkIsMemory
      <4> QED  BY <4>2, <3>2 DEF x
    <3> QED  BY <3>4, <2>1, <2>2, CheckpointParts
  <2> QED  BY <2>3, <2>4
<1>2. IInv /\ [Next]_vars =>
         [ reports' # reports /\ ValidCache /\ ~BssBehindGap(elf[2]) =>
              LET p == elf[2]
                  top == STACK_SEG - PAGESIZE .. STACK_SEG - 1
              IN  \A a \in (p.vaddr .. p.vaddr + p.memsz - 1) \cup top :
                      a \in Slack \cup Unsaved \/ flat[a] = 0
                          \/ <<a, flat[a]>> \in Printed' ]_vars
  BY <1>1
<1> QED  BY <1>2, Inductive, PTL DEF Spec, CheckpointHasData
=============================================================================
