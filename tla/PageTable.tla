----------------------------- MODULE PageTable -----------------------------
(***************************************************************************)
(* The page table of ptable.c: a hash table of chains of pages, to which   *)
(* pages are only ever added, at the head of a chain.  A table is a record *)
(* of the chains, as sequences of pages' indices, and of the pages that    *)
(* have been allocated, in the order of allocation.  A page is its number  *)
(* and its cells; the protection bits are stored and never looked at, so   *)
(* they are left out.                                                      *)
(***************************************************************************)
EXTENDS Integers, Sequences

CONSTANTS PAGESIZE,     \* cells in a page
          PAGES,        \* the page numbers in use
          HASH          \* ptable_hash, from PAGES to the chains

ASSUME PageAssumption ==
    /\ PAGESIZE \in Nat \ {0}
    /\ PAGES \subseteq Nat
    /\ DOMAIN HASH = PAGES

Buckets == {HASH[n] : n \in PAGES}

PageOf(a)   == a \div PAGESIZE
OffsetOf(a) == a % PAGESIZE

EmptyTable == [chain |-> [b \in Buckets |-> << >>], page |-> << >>]

\* The tables a program can have made: chains of pages that exist.  A cell holds
\* an unsigned value.
Ptes   == [num : PAGES, cell : [0 .. PAGESIZE - 1 -> Nat]]
Tables == {t \in [chain : [Buckets -> Seq(Nat)], page : Seq(Ptes)] :
              \A b \in Buckets : \A i \in DOMAIN t.chain[b] : t.chain[b][i] \in DOMAIN t.page}

\* calloc
NewPage(n) == [num |-> n, cell |-> [o \in 0 .. PAGESIZE - 1 |-> 0]]

\* get_page: the first page of the chain with this number, or 0 for NULL.
get_page(t, n) ==
    LET c       == t.chain[HASH[n]]
        matches == {i \in DOMAIN c : t.page[c[i]].num = n}
    IN  IF matches = {} THEN 0
        ELSE c[CHOOSE i \in matches : \A j \in matches : i <= j]

\* add_page, when nothing else touches the table meanwhile.
add_page(t, n) ==
    [chain |-> [t.chain EXCEPT ![HASH[n]] = <<Len(t.page) + 1>> \o @],
     page  |-> Append(t.page, NewPage(n))]

\* The table after an access has made sure of its page, as _mem_read_byte,
\* _mem_write_byte and the loader do.
Touch(t, n) == IF get_page(t, n) = 0 THEN add_page(t, n) ELSE t

\* What is at address a, with no page standing for zeros.
CellAt(t, a) ==
    LET p == get_page(t, PageOf(a))
    IN  IF p = 0 THEN 0 ELSE t.page[p].cell[OffsetOf(a)]

\* _mem_write_byte
Put(t, a, v) ==
    LET u == Touch(t, PageOf(a))
    IN  [u EXCEPT !.page[get_page(u, PageOf(a))].cell[OffsetOf(a)] = v]

\* Pages first .. last are made sure of, in this order.
TouchAll(t, first, last) ==
    LET after[n \in 0 .. last - first + 1] ==
            IF n = 0 THEN t ELSE Touch(after[n - 1], first + (n - 1))
    IN  after[last - first + 1]

\* Addresses first .. last are written in this order, with the values of f.
PutAll(t, first, last, f) ==
    LET u == IF first > last THEN t ELSE TouchAll(t, PageOf(first), PageOf(last))
        At(p, o) == LET a == p.num * PAGESIZE + o
                    IN  IF a \in first .. last THEN f[a] ELSE p.cell[o]
    IN  [u EXCEPT !.page = [i \in DOMAIN u.page |->
            [num |-> u.page[i].num,
             cell |-> [o \in 0 .. PAGESIZE - 1 |-> At(u.page[i], o)]]]]
=============================================================================
