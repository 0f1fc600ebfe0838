--------------------------- MODULE PageTableProof ---------------------------
(***************************************************************************)
(* Proofs about the page table, for every page size, set of pages and hash *)
(* function.                                                               *)
(***************************************************************************)
EXTENDS PageTable, BitsProof

----------------------------------------------------------------------------
(* get_page                                                                *)

\* The entry of a chain that get_page stops at.
FirstOf(t, n, i) ==
    LET c == t.chain[HASH[n]]
    IN  /\ i \in DOMAIN c /\ t.page[c[i]].num = n
        /\ \A j \in DOMAIN c : t.page[c[j]].num = n => i <= j

\* A well-formed table, one component at a time.
LEMMA TableParts ==
    ASSUME NEW t \in Tables, NEW n \in PAGES
    PROVE  /\ HASH[n] \in Buckets
           /\ t.chain[HASH[n]] \in Seq(Nat)
           /\ t.page \in Seq(Ptes)
           /\ \A i \in DOMAIN t.chain[HASH[n]] : /\ t.chain[HASH[n]][i] \in DOMAIN t.page
                                                 /\ t.chain[HASH[n]][i] \in Nat \ {0}
<1>1. HASH[n] \in Buckets
  BY DEF Buckets
<1>2. t.chain \in [Buckets -> Seq(Nat)] /\ t.page \in Seq(Ptes)
  BY DEF Tables
<1>3. \A i \in DOMAIN t.chain[HASH[n]] : t.chain[HASH[n]][i] \in DOMAIN t.page
  BY <1>1 DEF Tables
<1>4. DOMAIN t.page = 1 .. Len(t.page) /\ Len(t.page) \in Nat
  BY <1>2
<1>5. \A i \in DOMAIN t.chain[HASH[n]] : t.chain[HASH[n]][i] \in Nat \ {0}
  BY <1>3, <1>4
<1> QED  BY <1>1, <1>2, <1>3, <1>5

\* get_page returns the first page of the number, or NULL when there is none.
LEMMA GetPageFirst ==
    ASSUME NEW t \in Tables, NEW n \in PAGES
    PROVE  /\ (\E i : FirstOf(t, n, i)) <=> get_page(t, n) # 0
           /\ \A i : FirstOf(t, n, i) => get_page(t, n) = t.chain[HASH[n]][i]
<1> DEFINE c == t.chain[HASH[n]]
           matches == {i \in DOMAIN c : t.page[c[i]].num = n}
<1>1. /\ c \in Seq(Nat) /\ DOMAIN c = 1 .. Len(c) /\ Len(c) \in Nat
      /\ \A i \in DOMAIN c : c[i] \in Nat \ {0}
  BY TableParts
<1>2. matches \subseteq Nat
  BY <1>1
<1>3. CASE matches = {}
  <2>1. get_page(t, n) = 0
    BY <1>3 DEF get_page
  <2>2. ~ \E i : FirstOf(t, n, i)
    BY <1>3 DEF FirstOf
  <2> QED  BY <2>1, <2>2
<1>4. CASE matches # {}
  <2>1. \E i \in matches : \A j \in matches : i <= j
    <3> HIDE DEF matches
    <3> QED  BY <1>2, <1>4, LeastNatural
  <2> DEFINE first == CHOOSE i \in matches : \A j \in matches : i <= j
  <2>2. first \in matches /\ \A j \in matches : first <= j
    <3> HIDE DEF matches
    <3> QED  BY <2>1
  <2>3. get_page(t, n) = c[first]
    BY <1>4 DEF get_page
  <2> HIDE DEF first
  <2>4. FirstOf(t, n, first)
    BY <2>2 DEF FirstOf
  <2>5. ASSUME NEW i, FirstOf(t, n, i) PROVE i = first
    <3>1. i \in matches /\ i <= first /\ first <= i
      BY <2>2, <2>5 DEF FirstOf
    <3>2. i \in Nat /\ first \in Nat
      BY <3>1, <2>2, <1>2
    <3> QED  BY <3>1, <3>2
  <2>6. c[first] # 0
    BY <1>1, <2>2
  <2> QED  BY <2>3, <2>4, <2>5, <2>6
<1> QED  BY <1>3, <1>4

\* A page that get_page finds exists, and has the number asked for.
LEMMA GetPageFound ==
    ASSUME NEW t \in Tables, NEW n \in PAGES, get_page(t, n) # 0
    PROVE  get_page(t, n) \in DOMAIN t.page /\ t.page[get_page(t, n)].num = n
<1>1. PICK i : FirstOf(t, n, i)
  BY GetPageFirst
<1>2. get_page(t, n) = t.chain[HASH[n]][i]
  BY <1>1, GetPageFirst
<1> QED  BY <1>1, <1>2, TableParts DEF FirstOf

----------------------------------------------------------------------------
(* add_page, and stores into a page                                        *)

\* A new page of number m before the entries "next", which replace its chain.
LinkPage(t, m, next) ==
    [chain |-> [t.chain EXCEPT ![HASH[m]] = <<Len(t.page) + 1>> \o next],
     page  |-> Append(t.page, NewPage(m))]

\* A page that is all zeros is a page.
LEMMA NewPageIsPage == ASSUME NEW n \in PAGES PROVE NewPage(n) \in Ptes
  BY DEF NewPage, Ptes

\* A page before any entries that exist makes a table of a table, and changes no
\* page.
LEMMA LinkPageIsTable ==
    ASSUME NEW t \in Tables, NEW m \in PAGES, NEW next \in Seq(Nat),
           \A i \in DOMAIN next : next[i] \in DOMAIN t.page
    PROVE  /\ LinkPage(t, m, next) \in Tables
           /\ DOMAIN LinkPage(t, m, next).page = DOMAIN t.page \cup {Len(t.page) + 1}
           /\ Len(t.page) + 1 \notin DOMAIN t.page
           /\ LinkPage(t, m, next).page[Len(t.page) + 1] = NewPage(m)
           /\ \A q \in DOMAIN t.page : LinkPage(t, m, next).page[q] = t.page[q]
<1> DEFINE u == LinkPage(t, m, next)
           p == Len(t.page) + 1
           d == <<p>> \o next
<1>1. t.page \in Seq(Ptes) /\ t.chain \in [Buckets -> Seq(Nat)] /\ HASH[m] \in Buckets
  BY TableParts DEF Tables
<1>2. DOMAIN t.page = 1 .. Len(t.page) /\ Len(t.page) \in Nat
  BY <1>1
<1>3. NewPage(m) \in Ptes
  BY NewPageIsPage
<1>4. /\ u.page = Append(t.page, NewPage(m))
      /\ u.chain = [t.chain EXCEPT ![HASH[m]] = d]
  BY DEF LinkPage
<1>5. /\ Append(t.page, NewPage(m)) \in Seq(Ptes)
      /\ DOMAIN Append(t.page, NewPage(m)) = 1 .. Len(t.page) + 1
      /\ Append(t.page, NewPage(m))[p] = NewPage(m)
      /\ \A q \in DOMAIN t.page : Append(t.page, NewPage(m))[q] = t.page[q]
  BY <1>1, <1>2, <1>3
<1>6. d \in Seq(Nat) /\ \A i \in DOMAIN d : d[i] \in DOMAIN t.page \cup {p}
  BY <1>2
<1>7. u.chain \in [Buckets -> Seq(Nat)]
  BY <1>1, <1>4, <1>6
<1>8. DOMAIN u.page = DOMAIN t.page \cup {p}
  BY <1>2, <1>4, <1>5
<1>9. \A b \in Buckets : \A i \in DOMAIN u.chain[b] : u.chain[b][i] \in DOMAIN u.page
  <2>1. ASSUME NEW b \in Buckets, b # HASH[m]
        PROVE  \A i \in DOMAIN u.chain[b] : u.chain[b][i] \in DOMAIN u.page
    <3>1. u.chain[b] = t.chain[b]
      BY <2>1, <1>1, <1>4
    <3> QED  BY <3>1, <1>8 DEF Tables
  <2>2. u.chain[HASH[m]] = d
    BY <1>1, <1>4
  <2> QED  BY <2>1, <2>2, <1>6, <1>8
<1>10. u \in [chain : [Buckets -> Seq(Nat)], page : Seq(Ptes)]
  <2>1. u = [chain |-> u.chain, page |-> u.page]
    BY DEF LinkPage
  <2> QED  BY <2>1, <1>4, <1>5, <1>7
<1>11. u \in Tables
  BY <1>9, <1>10 DEF Tables
<1>6a. p \notin DOMAIN t.page
  BY <1>2
<1> QED  BY <1>4, <1>5, <1>8, <1>11, <1>6a

\* add_page: the number's page is the new one, and every other number keeps its
\* page.
LEMMA AddPageGetPage ==
    ASSUME NEW t \in Tables, NEW m \in PAGES, NEW n \in PAGES
    PROVE  get_page(add_page(t, m), n) = IF n = m THEN Len(t.page) + 1 ELSE get_page(t, n)
<1> DEFINE p == Len(t.page) + 1
           c == t.chain[HASH[m]]
           u == LinkPage(t, m, c)
<1>1. add_page(t, m) = u
  BY DEF add_page, LinkPage
<1>2. c \in Seq(Nat) /\ \A i \in DOMAIN c : c[i] \in DOMAIN t.page
  BY TableParts
<1>3. /\ u \in Tables /\ p \notin DOMAIN t.page
      /\ u.page[p] = NewPage(m) /\ \A q \in DOMAIN t.page : u.page[q] = t.page[q]
  BY <1>2, LinkPageIsTable
<1>4. /\ u.chain[HASH[m]] = <<p>> \o c
      /\ \A b \in Buckets : b # HASH[m] => u.chain[b] = t.chain[b]
  BY TableParts DEF LinkPage, Tables
<1>5. u.page[p].num = m
  BY <1>3 DEF NewPage
<1>6. p \in Nat /\ p # 0
  BY TableParts
<1> HIDE DEF u, c, p
<1>7. /\ DOMAIN (<<p>> \o c) = 1 .. Len(c) + 1 /\ (<<p>> \o c)[1] = p
      /\ \A i \in DOMAIN c : (<<p>> \o c)[i + 1] = c[i]
      /\ DOMAIN c = 1 .. Len(c) /\ Len(c) \in Nat
  <2>1. c \in Seq(Nat) /\ <<p>> \in Seq(Nat) /\ Len(<<p>>) = 1 /\ <<p>>[1] = p
    BY <1>2, <1>6
  <2> QED  BY <2>1
<1>8. CASE n = m
  <2>1. FirstOf(u, n, 1)
    BY <1>4, <1>5, <1>7, <1>8 DEF FirstOf
  <2>2. get_page(u, n) = p
    BY <2>1, <1>3, <1>4, <1>7, <1>8, GetPageFirst
  <2> QED  BY <2>2, <1>1, <1>8 DEF p
<1>9. CASE n # m /\ HASH[n] # HASH[m]
  <2> DEFINE d == t.chain[HASH[n]]
  <2>1. u.chain[HASH[n]] = d
    BY <1>4, <1>9, TableParts
  <2>2. \A i \in DOMAIN d : u.page[d[i]] = t.page[d[i]]
    BY <1>3, TableParts
  <2>3. \A i : FirstOf(u, n, i) <=> FirstOf(t, n, i)
    BY <2>1, <2>2 DEF FirstOf
  <2> QED  BY <2>1, <2>3, <1>1, <1>3, <1>9, GetPageFirst
<1>10. CASE n # m /\ HASH[n] = HASH[m]
  <2>1. c = t.chain[HASH[n]] /\ u.chain[HASH[n]] = <<p>> \o c
    BY <1>4, <1>10 DEF c
  <2>2. ASSUME NEW i, FirstOf(t, n, i) PROVE FirstOf(u, n, i + 1)
    <3>1. i \in DOMAIN c /\ t.page[c[i]].num = n /\ \A j \in DOMAIN c : t.page[c[j]].num = n => i <= j
      BY <2>1, <2>2 DEF FirstOf
    <3>2. i + 1 \in DOMAIN (<<p>> \o c) /\ u.page[(<<p>> \o c)[i + 1]].num = n
      <4>1. i + 1 \in DOMAIN (<<p>> \o c) /\ (<<p>> \o c)[i + 1] = c[i]
        BY <3>1, <1>7
      <4> QED  BY <3>1, <4>1, <1>2, <1>3
    <3>3. ASSUME NEW j \in DOMAIN (<<p>> \o c), u.page[(<<p>> \o c)[j]].num = n PROVE i + 1 <= j
      <4>1. j # 1
        BY <3>3, <1>5, <1>7, <1>10
      <4>2. j - 1 \in DOMAIN c /\ (j - 1) + 1 = j
        BY <4>1, <1>7
      <4>3. t.page[c[j - 1]].num = n
        BY <3>3, <4>2, <1>2, <1>3, <1>7
      <4>4. i <= j - 1
        BY <4>2, <4>3, <3>1
      <4> QED  BY <4>4, <4>2, <3>1, <1>7
    <3> QED  BY <2>1, <3>2, <3>3 DEF FirstOf
  <2>3. ASSUME NEW i, FirstOf(u, n, i) PROVE \E j : FirstOf(t, n, j)
    <3>1. i \in DOMAIN (<<p>> \o c) /\ u.page[(<<p>> \o c)[i]].num = n
      BY <2>1, <2>3 DEF FirstOf
    <3>2. i # 1
      BY <3>1, <1>5, <1>7, <1>10
    <3>3. i - 1 \in DOMAIN c /\ (i - 1) + 1 = i
      BY <3>1, <3>2, <1>7
    <3>4. t.page[c[i - 1]].num = n
      BY <3>1, <3>3, <1>2, <1>3, <1>7
    <3>5. \A j \in DOMAIN c : t.page[c[j]].num = n => i - 1 <= j
      <4>1. ASSUME NEW j \in DOMAIN c, t.page[c[j]].num = n PROVE i - 1 <= j
        <5>1. j + 1 \in DOMAIN (<<p>> \o c) /\ u.page[(<<p>> \o c)[j + 1]].num = n
          BY <4>1, <1>2, <1>3, <1>7
        <5>2. i <= j + 1
          BY <5>1, <2>1, <2>3 DEF FirstOf
        <5> QED  BY <5>2, <3>1, <1>7
      <4> QED  BY <4>1
    <3> QED  BY <2>1, <3>3, <3>4, <3>5 DEF FirstOf
  <2>4. CASE get_page(t, n) = 0
    <3>1. get_page(u, n) = 0
      BY <2>3, <2>4, <1>3, GetPageFirst
    <3> QED  BY <3>1, <2>4, <1>1, <1>10
  <2>5. CASE get_page(t, n) # 0
    <3>1. PICK i : FirstOf(t, n, i)
      BY <2>5, GetPageFirst
    <3>2. /\ get_page(t, n) = t.chain[HASH[n]][i]
          /\ get_page(u, n) = u.chain[HASH[n]][i + 1]
      BY <3>1, <2>2, <1>3, GetPageFirst
    <3>3. i \in DOMAIN c
      BY <3>1, <2>1 DEF FirstOf
    <3> QED  BY <3>2, <3>3, <2>1, <1>1, <1>7, <1>10
  <2> QED  BY <2>4, <2>5
<1> QED  BY <1>8, <1>9, <1>10

\* u is t after a store of v into cell o of page p, which moves no page.
Stored(t, u, p, o, v) ==
    /\ u \in Tables /\ u.chain = t.chain
    /\ DOMAIN u.page = DOMAIN t.page
    /\ \A q \in DOMAIN t.page : u.page[q].num = t.page[q].num
    /\ \A q \in DOMAIN t.page : \A x \in 0 .. PAGESIZE - 1 :
          u.page[q].cell[x] = IF q = p /\ x = o THEN v ELSE t.page[q].cell[x]
    /\ \A n \in PAGES : get_page(u, n) = get_page(t, n)

\* What a store into a page does to a table.
LEMMA StoreKeepsPages ==
    ASSUME NEW t \in Tables, NEW p \in DOMAIN t.page, NEW o \in 0 .. PAGESIZE - 1, NEW v \in Nat
    PROVE  Stored(t, [t EXCEPT !.page[p].cell[o] = v], p, o, v)
<1> DEFINE u == [t EXCEPT !.page[p].cell[o] = v]
<1>1. t.page \in Seq(Ptes) /\ t.chain \in [Buckets -> Seq(Nat)]
      /\ \A q \in DOMAIN t.page : t.page[q] \in Ptes
  BY DEF Tables
<1>2. t = [chain |-> t.chain, page |-> t.page]
  BY DEF Tables
<1>3. u.chain = t.chain /\ u.page = [t.page EXCEPT ![p].cell[o] = v]
      /\ u = [chain |-> u.chain, page |-> u.page]
  BY <1>2
<1>4. t.page[p] = [num |-> t.page[p].num, cell |-> t.page[p].cell]
      /\ t.page[p].num \in PAGES /\ t.page[p].cell \in [0 .. PAGESIZE - 1 -> Nat]
  BY <1>1 DEF Ptes
<1> DEFINE new == [t.page[p] EXCEPT !.cell[o] = v]
<1>5. new.num = t.page[p].num /\ new.cell = [t.page[p].cell EXCEPT ![o] = v]
      /\ new = [num |-> new.num, cell |-> new.cell]
  BY <1>4
<1>6. new \in Ptes
  <2>1. new.cell \in [0 .. PAGESIZE - 1 -> Nat] /\ new.num \in PAGES
    BY <1>4, <1>5
  <2> QED  BY <2>1, <1>5 DEF Ptes
<1>7. u.page = [t.page EXCEPT ![p] = new]
  BY <1>3
<1> HIDE DEF new, u
<1>8. u.page \in Seq(Ptes) /\ DOMAIN u.page = DOMAIN t.page
      /\ u.page[p] = new /\ \A q \in DOMAIN t.page : q # p => u.page[q] = t.page[q]
  <2> DEFINE pages == t.page
  <2>1. pages \in Seq(Ptes) /\ p \in DOMAIN pages /\ u.page = [pages EXCEPT ![p] = new]
    BY <1>1, <1>7
  <2> HIDE DEF pages
  <2>2. u.page \in Seq(Ptes) /\ DOMAIN u.page = DOMAIN pages
    BY <2>1, <1>6
  <2>3. u.page[p] = new /\ \A q \in DOMAIN pages : q # p => u.page[q] = pages[q]
    BY <2>1
  <2> QED  BY <2>2, <2>3 DEF pages
<1>9. u \in Tables
  <2>1. u \in [chain : [Buckets -> Seq(Nat)], page : Seq(Ptes)]
    BY <1>1, <1>3, <1>8
  <2>2. \A b \in Buckets : \A i \in DOMAIN u.chain[b] : u.chain[b][i] \in DOMAIN u.page
    BY <1>3, <1>8 DEF Tables
  <2> QED  BY <2>1, <2>2 DEF Tables
<1>10. \A q \in DOMAIN t.page : u.page[q].num = t.page[q].num
  BY <1>5, <1>8
<1>11. \A q \in DOMAIN t.page : \A x \in 0 .. PAGESIZE - 1 :
          u.page[q].cell[x] = IF q = p /\ x = o THEN v ELSE t.page[q].cell[x]
  BY <1>4, <1>5, <1>8
<1>6a. ASSUME NEW n \in PAGES PROVE get_page(u, n) = get_page(t, n)
  <2> DEFINE c == t.chain[HASH[n]]
  <2>1. u.chain[HASH[n]] = c /\ \A i \in DOMAIN c : u.page[c[i]].num = t.page[c[i]].num
    BY <1>3, <1>10, TableParts
  <2>2. \A i : FirstOf(u, n, i) <=> FirstOf(t, n, i)
    BY <2>1 DEF FirstOf
  <2> QED  BY <2>1, <2>2, <1>9, GetPageFirst
<1>13. Stored(t, u, p, o, v)
  BY <1>3, <1>8, <1>9, <1>10, <1>11, <1>6a DEF Stored
<1> QED  BY <1>13 DEF u

----------------------------------------------------------------------------
(* The page table as a memory                                              *)

\* The offset is a cell of the page, and a page and an offset have one address.
LEMMA Addresses ==
    ASSUME NEW a \in Nat, NEW b \in Nat
    PROVE  /\ OffsetOf(a) \in 0 .. PAGESIZE - 1
           /\ PageOf(a) = PageOf(b) /\ OffsetOf(a) = OffsetOf(b) => a = b
<1>1. PAGESIZE \in Nat \ {0}
  BY PageAssumption
<1>2. a % PAGESIZE \in 0 .. PAGESIZE - 1
  BY <1>1
<1>3. a = PAGESIZE * (a \div PAGESIZE) + (a % PAGESIZE) /\ b = PAGESIZE * (b \div PAGESIZE) + (b % PAGESIZE)
  BY <1>1
<1> QED  BY <1>2, <1>3 DEF PageOf, OffsetOf

\* A table whose page has been made sure of has the page, and reads as before.
LEMMA TouchReads ==
    ASSUME NEW t \in Tables, NEW m \in PAGES
    PROVE  /\ Touch(t, m) \in Tables
           /\ get_page(Touch(t, m), m) # 0
           /\ \A a \in Nat : PageOf(a) \in PAGES => CellAt(Touch(t, m), a) = CellAt(t, a)
<1>1. CASE get_page(t, m) # 0
  BY <1>1 DEF Touch
<1>2. CASE get_page(t, m) = 0
  <2> DEFINE u == add_page(t, m)
             p == Len(t.page) + 1
  <2>1. Touch(t, m) = u
    BY <1>2 DEF Touch
  <2>2. u = LinkPage(t, m, t.chain[HASH[m]])
    BY DEF add_page, LinkPage
  <2>3. t.chain[HASH[m]] \in Seq(Nat) /\ \A i \in DOMAIN t.chain[HASH[m]] : t.chain[HASH[m]][i] \in DOMAIN t.page
    BY TableParts
  <2>4. /\ u \in Tables /\ p \notin DOMAIN t.page
        /\ u.page[p] = NewPage(m) /\ \A q \in DOMAIN t.page : u.page[q] = t.page[q]
    BY <2>2, <2>3, LinkPageIsTable
  <2>5. p \in Nat /\ p # 0
    BY TableParts
  <2>6. \A n \in PAGES : get_page(u, n) = IF n = m THEN p ELSE get_page(t, n)
    BY AddPageGetPage
  <2> HIDE DEF u, p
  <2>7. ASSUME NEW a \in Nat, PageOf(a) \in PAGES PROVE CellAt(u, a) = CellAt(t, a)
    <3>1. CASE PageOf(a) = m
      <4>1. CellAt(u, a) = NewPage(m).cell[OffsetOf(a)]
        BY <3>1, <2>4, <2>5, <2>6 DEF CellAt
      <4>2. CellAt(t, a) = 0
        BY <3>1, <1>2 DEF CellAt
      <4> QED  BY <4>1, <4>2, Addresses DEF NewPage
    <3>2. CASE PageOf(a) # m
      <4>1. get_page(u, PageOf(a)) = get_page(t, PageOf(a))
        BY <3>2, <2>6, <2>7
      <4>2. get_page(t, PageOf(a)) # 0 => get_page(t, PageOf(a)) \in DOMAIN t.page
        BY <2>7, GetPageFound
      <4> QED  BY <4>1, <4>2, <2>4 DEF CellAt
    <3> QED  BY <3>1, <3>2
  <2> QED  BY <2>1, <2>4, <2>5, <2>6, <2>7
<1> QED  BY <1>1, <1>2

\* The page table is a memory: what is read at an address is what was last
\* written there, a byte never written reads as zero, and a write changes no
\* other byte, whichever pages share a chain and in whatever order they came.
THEOREM PageTableIsMemory ==
    ASSUME NEW t \in Tables, NEW a \in Nat, PageOf(a) \in PAGES, NEW v \in Nat
    PROVE  /\ Put(t, a, v) \in Tables
           /\ \A b \in Nat : PageOf(b) \in PAGES =>
                 CellAt(Put(t, a, v), b) = IF b = a THEN v ELSE CellAt(t, b)
<1> DEFINE u == Touch(t, PageOf(a))
           p == get_page(u, PageOf(a))
           w == [u EXCEPT !.page[p].cell[OffsetOf(a)] = v]
<1>1. Put(t, a, v) = w
  BY DEF Put
<1>2. /\ u \in Tables /\ p # 0
      /\ \A b \in Nat : PageOf(b) \in PAGES => CellAt(u, b) = CellAt(t, b)
  BY TouchReads
<1>3. p \in DOMAIN u.page /\ u.page[p].num = PageOf(a)
  BY <1>2, GetPageFound
<1> HIDE DEF u, p
<1>4. OffsetOf(a) \in 0 .. PAGESIZE - 1
  BY Addresses
<1>5. Stored(u, w, p, OffsetOf(a), v)
  BY <1>2, <1>3, <1>4, StoreKeepsPages
<1> HIDE DEF w
<1>6. /\ w \in Tables /\ \A n \in PAGES : get_page(w, n) = get_page(u, n)
      /\ \A q \in DOMAIN u.page : \A x \in 0 .. PAGESIZE - 1 :
            w.page[q].cell[x] = IF q = p /\ x = OffsetOf(a) THEN v ELSE u.page[q].cell[x]
  BY <1>5 DEF Stored
<1>7. ASSUME NEW b \in Nat, PageOf(b) \in PAGES
      PROVE  CellAt(w, b) = IF b = a THEN v ELSE CellAt(u, b)
  <2> DEFINE q == get_page(u, PageOf(b))
  <2>1. OffsetOf(b) \in 0 .. PAGESIZE - 1 /\ (b = a <=> PageOf(b) = PageOf(a) /\ OffsetOf(b) = OffsetOf(a))
    BY Addresses
  <2>2. q # 0 => q \in DOMAIN u.page /\ u.page[q].num = PageOf(b)
    BY <1>2, <1>7, GetPageFound
  <2>3. get_page(w, PageOf(b)) = q
    BY <1>6, <1>7
  <2>4. q = p <=> PageOf(b) = PageOf(a)
    <3>1. PageOf(b) = PageOf(a) => q = p
      BY DEF p
    <3>2. q = p => PageOf(b) = PageOf(a)
      BY <1>2, <1>3, <2>2
    <3> QED  BY <3>1, <3>2
  <2> HIDE DEF q
  <2>5. CASE q = 0
    <3>1. CellAt(w, b) = 0 /\ CellAt(u, b) = 0
      BY <2>3, <2>5 DEF CellAt, q
    <3>2. b # a
      BY <2>1, <2>4, <2>5, <1>2
    <3> QED  BY <3>1, <3>2
  <2>6. CASE q # 0
    <3>1. CellAt(w, b) = w.page[q].cell[OffsetOf(b)] /\ CellAt(u, b) = u.page[q].cell[OffsetOf(b)]
      BY <2>3, <2>6 DEF CellAt, q
    <3>2. w.page[q].cell[OffsetOf(b)] = IF q = p /\ OffsetOf(b) = OffsetOf(a) THEN v ELSE u.page[q].cell[OffsetOf(b)]
      BY <1>6, <2>1, <2>2, <2>6
    <3> QED  BY <3>1, <3>2, <2>1, <2>4
  <2> QED  BY <2>5, <2>6
<1> QED  BY <1>1, <1>2, <1>6, <1>7

----------------------------------------------------------------------------
(* Ranges of pages and addresses                                           *)

\* u has the pages t has, and more perhaps.
KeepsPages(t, u) == \A n \in PAGES : get_page(t, n) # 0 => get_page(u, n) # 0

\* u reads like t.
SameCells(t, u) == \A a \in Nat : PageOf(a) \in PAGES => CellAt(u, a) = CellAt(t, a)

\* To make sure of a page takes none away.
LEMMA TouchKeepsPages ==
    ASSUME NEW t \in Tables, NEW m \in PAGES
    PROVE  KeepsPages(t, Touch(t, m))
<1>1. CASE get_page(t, m) # 0
  BY <1>1 DEF Touch, KeepsPages
<1>2. CASE get_page(t, m) = 0
  <2>1. Touch(t, m) = add_page(t, m)
    BY <1>2 DEF Touch
  <2>2. Len(t.page) + 1 # 0
    BY TableParts
  <2>3. \A n \in PAGES : get_page(add_page(t, m), n) = IF n = m THEN Len(t.page) + 1 ELSE get_page(t, n)
    BY AddPageGetPage
  <2> QED  BY <2>1, <2>2, <2>3 DEF KeepsPages
<1> QED  BY <1>1, <1>2

\* A store takes no page away, and leaves its own page in place.
LEMMA PutKeepsPages ==
    ASSUME NEW t \in Tables, NEW a \in Nat, PageOf(a) \in PAGES, NEW v \in Nat
    PROVE  KeepsPages(t, Put(t, a, v)) /\ get_page(Put(t, a, v), PageOf(a)) # 0
<1> DEFINE u == Touch(t, PageOf(a))
           p == get_page(u, PageOf(a))
           w == [u EXCEPT !.page[p].cell[OffsetOf(a)] = v]
<1>1. Put(t, a, v) = w
  BY DEF Put
<1>2. u \in Tables /\ p # 0 /\ KeepsPages(t, u)
  BY TouchReads, TouchKeepsPages
<1>3. p \in DOMAIN u.page
  BY <1>2, GetPageFound
<1> HIDE DEF u, p
<1>4. Stored(u, w, p, OffsetOf(a), v)
  BY <1>2, <1>3, Addresses, StoreKeepsPages
<1> HIDE DEF w
<1>5. \A n \in PAGES : get_page(w, n) = get_page(u, n)
  BY <1>4 DEF Stored
<1>6. get_page(u, PageOf(a)) # 0
  BY <1>2 DEF p
<1> QED  BY <1>1, <1>2, <1>5, <1>6 DEF KeepsPages

\* The pages of a range are all there once they have been made sure of, and
\* nothing reads differently.
LEMMA TouchAllReads ==
    ASSUME NEW t \in Tables, NEW first \in Nat, NEW last \in Nat,
           first <= last, first .. last \subseteq PAGES
    PROVE  /\ TouchAll(t, first, last) \in Tables
           /\ KeepsPages(t, TouchAll(t, first, last))
           /\ SameCells(t, TouchAll(t, first, last))
           /\ \A n \in first .. last : get_page(TouchAll(t, first, last), n) # 0
<1> DEFINE k == last - first + 1
           D == 0 .. k
           p == [n \in D |-> IF n = 0 THEN 0 ELSE n - 1]
           G == [n \in D |-> [u \in Tables |-> IF n = 0 THEN u ELSE Touch(u, first + (n - 1))]]
           Value(f, n) == IF n = 0 THEN t ELSE Touch(f[n - 1], first + (n - 1))
           Body(f) == [n \in D |-> Value(f, n)]
<1>1. k \in Nat \ {0}
  OBVIOUS
<1> HIDE DEF k
<1>2. D \in SUBSET Nat /\ 0 \in D /\ k \in D
  BY <1>1
<1>3. \A n \in D : n # 0 => n - 1 \in D /\ n - 1 < n /\ first + (n - 1) \in first .. last /\ first + (n - 1) \in PAGES
  <2>1. ASSUME NEW n \in D, n # 0 PROVE n - 1 \in D /\ n - 1 < n /\ first + (n - 1) \in first .. last
    BY <2>1 DEF k
  <2> QED  BY <2>1
<1> HIDE DEF D
<1>4. p \in [D -> D] /\ \A n \in D \ {0} : p[n] = n - 1 /\ p[n] < n
  BY <1>2, <1>3
<1>5. /\ G \in [D -> [Tables -> Tables]]
      /\ \A n \in D \ {0} : \A u \in Tables : G[n][u] = Touch(u, first + (n - 1))
  <2>1. ASSUME NEW n \in D, NEW u \in Tables
        PROVE  (IF n = 0 THEN u ELSE Touch(u, first + (n - 1))) \in Tables
    BY <1>3, TouchReads
  <2> QED  BY <2>1
<1> HIDE DEF p, G
<1>6. IsRecursion(D, p, Tables, t, G)
  BY <1>2, <1>4, <1>5 DEF IsRecursion
<1>7. PICK F : IsSolution(D, p, Tables, t, G, F)
  BY <1>6, Recursion
<1>8. F \in [D -> Tables] /\ F[0] = t /\ \A n \in D \ {0} : F[n] = G[n][F[p[n]]]
  BY <1>7 DEF IsSolution
<1>9. ASSUME NEW n \in D PROVE F[n] = Value(F, n)
  <2>1. CASE n = 0
    BY <2>1, <1>8
  <2>2. CASE n # 0
    <3>1. F[n - 1] \in Tables /\ F[n] = G[n][F[n - 1]]
      BY <2>2, <1>3, <1>4, <1>8
    <3> QED  BY <3>1, <2>2, <1>5
  <2> QED  BY <2>1, <2>2
<1> HIDE DEF Value
<1>10. F = Body(F)
  BY <1>8, <1>9
<1> DEFINE after == CHOOSE f : f = Body(f)
<1>11. TouchAll(t, first, last) = after[k]
  BY DEF TouchAll, Value, D, k
<1>12. after = Body(after)
  <2> HIDE DEF Body
  <2> QED  BY <1>10
<1> HIDE DEF after
<1>13. \A n \in D : after[n] = Value(after, n)
  BY <1>12
<1> DEFINE Good(n) == /\ after[n] \in Tables
                      /\ KeepsPages(t, after[n]) /\ SameCells(t, after[n])
                      /\ \A j \in first .. first + (n - 1) : get_page(after[n], j) # 0
           T == {n \in D : Good(n)}
<1>14. ASSUME NEW n \in D, \A m \in D : m < n => m \in T PROVE n \in T
  <2>1. CASE n = 0
    <3>1. after[n] = t
      BY <2>1, <1>13 DEF Value
    <3>2. first .. first + (n - 1) = {}
      BY <2>1
    <3> QED  BY <3>1, <3>2 DEF KeepsPages, SameCells
  <2>2. CASE n # 0
    <3> DEFINE u == after[n - 1]
               m == first + (n - 1)
               w == Touch(u, m)
    <3>1. n - 1 \in D /\ n - 1 < n /\ m \in PAGES
      BY <2>2, <1>3
    <3>2. after[n] = w
      BY <2>2, <1>13 DEF Value
    <3>3. Good(n - 1)
      BY <3>1, <1>14
    <3>4. /\ u \in Tables /\ KeepsPages(t, u) /\ SameCells(t, u)
          /\ \A j \in first .. first + ((n - 1) - 1) : get_page(u, j) # 0
      BY <3>3
    <3>5. \A j \in first .. m : j \in PAGES /\ (j = m \/ j \in first .. first + ((n - 1) - 1))
      <4>1. n \in Nat /\ m \in first .. last
        BY <1>2, <1>3, <2>2
      <4> QED  BY <4>1
    <3> HIDE DEF u, m
    <3>6. w \in Tables /\ KeepsPages(u, w) /\ SameCells(u, w) /\ get_page(w, m) # 0
      BY <3>1, <3>4, TouchReads, TouchKeepsPages DEF SameCells
    <3> HIDE DEF w
    <3>7. KeepsPages(t, w) /\ SameCells(t, w)
      BY <3>4, <3>6 DEF KeepsPages, SameCells
    <3>8. \A j \in first .. m : get_page(w, j) # 0
      BY <3>4, <3>5, <3>6 DEF KeepsPages
    <3> QED  BY <3>2, <3>6, <3>7, <3>8 DEF m
  <2> QED  BY <2>1, <2>2
<1> HIDE DEF T
<1>15. D \subseteq T
  BY <1>2, <1>14, StrongInduction
<1>16. Good(k)
  BY <1>2, <1>15 DEF T
<1>17. first + (k - 1) = last
  BY DEF k
<1> QED  BY <1>11, <1>16, <1>17

\* Pages grow with addresses, and a page and an offset have their address.
LEMMA PageBounds ==
    ASSUME NEW a \in Nat
    PROVE  /\ PageOf(a) \in Nat /\ OffsetOf(a) \in 0 .. PAGESIZE - 1
           /\ a = PageOf(a) * PAGESIZE + OffsetOf(a)
           /\ \A b \in Nat : a <= b => PageOf(a) <= PageOf(b)
<1>1. PAGESIZE \in Nat \ {0}
  BY PageAssumption
<1> DEFINE n == PAGESIZE
<1> HIDE DEF n
<1>2. n \in Nat \ {0}
  BY <1>1 DEF n
<1>3. a \div n \in Nat /\ a % n \in 0 .. n - 1 /\ a = (a \div n) * n + (a % n)
  BY <1>2
<1>4. ASSUME NEW b \in Nat, a <= b PROVE a \div n <= b \div n
  <2> DEFINE p == a \div n
             q == b \div n
  <2>1. /\ p \in Nat /\ q \in Nat /\ p * n <= a /\ b < q * n + n
    BY <1>2, <1>4
  <2> HIDE DEF p, q
  <2>2. CASE q < p
    <3>1. (q + 1) * n <= p * n
      BY <2>1, <2>2, <1>2
    <3>2. (q + 1) * n = q * n + n /\ q * n \in Nat /\ p * n \in Nat
      BY <2>1, <1>2
    <3> QED  BY <3>1, <3>2, <2>1, <1>2, <1>4
  <2> QED  BY <2>1, <2>2 DEF p, q
<1> QED  BY <1>3, <1>4 DEF n, PageOf, OffsetOf

\* What is written to a range of addresses is what is read there, and no other
\* cell is changed.
LEMMA PutAllReads ==
    ASSUME NEW t \in Tables, NEW first \in Nat, NEW last \in Int,
           first <= last => PageOf(first) .. PageOf(last) \subseteq PAGES,
           NEW f, \A a \in first .. last : f[a] \in Nat
    PROVE  /\ PutAll(t, first, last, f) \in Tables
           /\ KeepsPages(t, PutAll(t, first, last, f))
           /\ first <= last => \A n \in PageOf(first) .. PageOf(last) :
                                  get_page(PutAll(t, first, last, f), n) # 0
           /\ \A a \in Nat : PageOf(a) \in PAGES =>
                 CellAt(PutAll(t, first, last, f), a) =
                    IF a \in first .. last THEN f[a] ELSE CellAt(t, a)
<1> DEFINE u == IF first > last THEN t ELSE TouchAll(t, PageOf(first), PageOf(last))
           At(p, o) == LET a == p.num * PAGESIZE + o
                       IN  IF a \in first .. last THEN f[a] ELSE p.cell[o]
           New(p) == [num |-> p.num, cell |-> [o \in 0 .. PAGESIZE - 1 |-> At(p, o)]]
           page == [i \in DOMAIN u.page |-> New(u.page[i])]
           w == [u EXCEPT !.page = page]
<1>1. PutAll(t, first, last, f) = w
  BY DEF PutAll
<1>2. /\ u \in Tables /\ KeepsPages(t, u) /\ SameCells(t, u)
      /\ first <= last => \A n \in PageOf(first) .. PageOf(last) : get_page(u, n) # 0
  <2>1. CASE first > last
    BY <2>1 DEF KeepsPages, SameCells
  <2>2. CASE first <= last
    <3> DEFINE m == PageOf(first)
               n == PageOf(last)
    <3>1. m \in Nat /\ n \in Nat /\ m <= n
      BY <2>2, PageBounds
    <3>2. u = TouchAll(t, m, n) /\ m .. n \subseteq PAGES
      BY <2>2
    <3> HIDE DEF m, n, u
    <3>3. u \in Tables /\ KeepsPages(t, u) /\ SameCells(t, u) /\ \A j \in m .. n : get_page(u, j) # 0
      BY <3>1, <3>2, TouchAllReads
    <3> QED  BY <3>3 DEF m, n
  <2> QED  BY <2>1, <2>2
<1> HIDE DEF u
<1>3. /\ u.page \in Seq(Ptes) /\ u.chain \in [Buckets -> Seq(Nat)]
      /\ \A i \in DOMAIN u.page : u.page[i] \in Ptes
      /\ u = [chain |-> u.chain, page |-> u.page]
  BY <1>2 DEF Tables
<1>4. ASSUME NEW p \in Ptes, NEW o \in 0 .. PAGESIZE - 1 PROVE At(p, o) \in Nat
  BY DEF Ptes
<1>5. ASSUME NEW p \in Ptes PROVE New(p) \in Ptes /\ New(p).num = p.num
  <2>1. p.num \in PAGES
    BY DEF Ptes
  <2>2. [o \in 0 .. PAGESIZE - 1 |-> At(p, o)] \in [0 .. PAGESIZE - 1 -> Nat]
    BY <1>4
  <2> HIDE DEF At
  <2> QED  BY <2>1, <2>2 DEF Ptes
<1>6. w.chain = u.chain /\ w.page = page /\ w = [chain |-> w.chain, page |-> w.page]
  <2> HIDE DEF page
  <2>1. u = [chain |-> u.chain, page |-> u.page]
    BY <1>3
  <2>2. w = [chain |-> u.chain, page |-> page]
    BY <2>1
  <2> QED  BY <2>2
<1> HIDE DEF w, At
<1>7. page \in Seq(Ptes) /\ DOMAIN page = DOMAIN u.page
      /\ \A i \in DOMAIN u.page : page[i] = New(u.page[i])
  <2> DEFINE pages == u.page
  <2> HIDE DEF New
  <2>1. DOMAIN pages = 1 .. Len(pages) /\ Len(pages) \in Nat
    BY <1>3
  <2>2. page \in [1 .. Len(pages) -> Ptes]
    BY <2>1, <1>3, <1>5
  <2> QED  BY <2>1, <2>2
<1> HIDE DEF page, New
<1>8. w \in Tables
  <2>1. w \in [chain : [Buckets -> Seq(Nat)], page : Seq(Ptes)]
    BY <1>3, <1>6, <1>7
  <2>2. \A b \in Buckets : \A i \in DOMAIN w.chain[b] : w.chain[b][i] \in DOMAIN w.page
    BY <1>2, <1>6, <1>7 DEF Tables
  <2> QED  BY <2>1, <2>2 DEF Tables
<1>9. ASSUME NEW n \in PAGES PROVE get_page(w, n) = get_page(u, n)
  <2> DEFINE c == u.chain[HASH[n]]
  <2>1. w.chain[HASH[n]] = c /\ \A i \in DOMAIN c : w.page[c[i]].num = u.page[c[i]].num
    <3>1. ASSUME NEW i \in DOMAIN c PROVE w.page[c[i]].num = u.page[c[i]].num
      <4>1. c[i] \in DOMAIN u.page
        BY <1>2, TableParts
      <4> QED  BY <4>1, <1>3, <1>5, <1>6, <1>7
    <3> QED  BY <3>1, <1>6
  <2>2. \A i : FirstOf(w, n, i) <=> FirstOf(u, n, i)
    BY <2>1 DEF FirstOf
  <2> QED  BY <2>1, <2>2, <1>2, <1>8, GetPageFirst
<1>10. ASSUME NEW a \in Nat, PageOf(a) \in PAGES
       PROVE  CellAt(w, a) = IF a \in first .. last THEN f[a] ELSE CellAt(u, a)
  <2> DEFINE p == get_page(u, PageOf(a))
  <2>1. get_page(w, PageOf(a)) = p
    BY <1>9, <1>10
  <2>2. CASE p = 0
    <3>1. CellAt(w, a) = 0 /\ CellAt(u, a) = 0
      BY <2>1, <2>2 DEF CellAt
    <3>2. a \notin first .. last
      <4>1. SUFFICES ASSUME a \in first .. last PROVE FALSE
        OBVIOUS
      <4>2. first <= last /\ first \in Nat /\ last \in Nat /\ first <= a /\ a <= last
        BY <4>1
      <4>3. PageOf(a) \in PageOf(first) .. PageOf(last)
        BY <4>2, PageBounds
      <4> QED  BY <4>2, <4>3, <1>2, <2>2
    <3> QED  BY <3>1, <3>2
  <2>3. CASE p # 0
    <3> DEFINE o == OffsetOf(a)
    <3>1. p \in DOMAIN u.page /\ u.page[p].num = PageOf(a)
      BY <2>3, <1>2, <1>10, GetPageFound
    <3>2. o \in 0 .. PAGESIZE - 1 /\ a = PageOf(a) * PAGESIZE + o
      BY PageBounds
    <3>3. CellAt(w, a) = w.page[p].cell[o] /\ CellAt(u, a) = u.page[p].cell[o]
      BY <2>1, <2>3 DEF CellAt
    <3> HIDE DEF p, o
    <3>4. w.page[p].cell[o] = At(u.page[p], o)
      <4>1. w.page[p] = New(u.page[p])
        BY <3>1, <1>6, <1>7
      <4> QED  BY <4>1, <3>2 DEF New
    <3> QED  BY <3>1, <3>2, <3>3, <3>4 DEF At
  <2> QED  BY <2>2, <2>3
<1>11. KeepsPages(t, w)
  BY <1>2, <1>9 DEF KeepsPages
<1>12. first <= last => \A n \in PageOf(first) .. PageOf(last) : get_page(w, n) # 0
  BY <1>2, <1>9
<1>13. \A a \in Nat : PageOf(a) \in PAGES =>
          CellAt(w, a) = IF a \in first .. last THEN f[a] ELSE CellAt(t, a)
  BY <1>2, <1>10 DEF SameCells
<1> QED  BY <1>1, <1>8, <1>11, <1>12, <1>13
=============================================================================
