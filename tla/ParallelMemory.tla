--------------------------- MODULE ParallelMemory ---------------------------
(***************************************************************************)
(* The PARALLEL build with what two of its threads share beyond the        *)
(* pipeline registers: the fetch and the memory thread both go to guest    *)
(* memory in the same cycle, and either may be the first to touch a page.  *)
(* Nothing guards the page table.  The steps are those of another thread's *)
(* view: the head of a chain is read by get_page, read again by add_page,  *)
(* and written; a chain behind its head never changes.                     *)
(*                                                                         *)
(* One word of each page is followed, its first.                           *)
(***************************************************************************)
EXTENDS ParallelSim, PageTable

CONSTANTS FetchStage,   \* the other stage that reads memory
          LoadedTable,  \* the page table as the loader has left it
          FETCHED,      \* the pages the fetch stage may read from
          ACCESSED      \* the pages the memory stage may access

ASSUME ParallelAssumption ==
    /\ FetchStage \in Stages
    /\ LoadedTable \in Tables
    /\ FETCHED \subseteq PAGES /\ ACCESSED \subseteq PAGES

VARIABLES table,        \* ptable
          access,       \* the access of each stage, and how far it has come
          flat,         \* auxiliary: the word of each page as last written
          raced         \* auxiliary: has one of the two overlaps happened?

memVars == <<table, access, flat, raced>>
parVars == <<vars, memVars>>

Readers == {FetchStage, MemoryStage}

\* "found" is the page the access goes to, "next" the chain add_page has put
\* its new page before.
NoAccess == [step |-> "none", page |-> 0, write |-> FALSE, found |-> 0,
             next |-> << >>]

\* The first word of page n.
WordOf(t, n) == CellAt(t, n * PAGESIZE)

ParInit ==
    /\ Init
    /\ table = LoadedTable
    /\ access = [s \in Readers |-> NoAccess]
    /\ flat = [n \in PAGES |-> WordOf(LoadedTable, n)]
    /\ raced = FALSE

\* Stage s, at work, takes a step of its access.
Step(s, from, to) ==
    /\ ~exited
    /\ pc[s] = "work"
    /\ access[s].step = from
    /\ access' = [access EXCEPT ![s] = to]
    /\ UNCHANGED vars

\* get_page
LookUp(s) ==
    /\ \E n \in IF s = FetchStage THEN FETCHED ELSE ACCESSED,
           w \in IF s = FetchStage THEN {FALSE} ELSE BOOLEAN :
           LET p == get_page(table, n)
           IN  Step(s, "none", [step |-> IF p = 0 THEN "missing" ELSE "ready",
                                page |-> n, write |-> w, found |-> p, next |-> << >>])
    /\ UNCHANGED <<table, flat, raced>>

\* A mutant: the new page is not linked to the rest of its chain.
LinkAlone(n) == << >>

\* npage->p_next
Link(n) == table.chain[HASH[n]]

\* add_page up to the store into the table: the page is made, and linked to
\* the head of its chain.
Prepare(s) ==
    /\ Step(s, "missing", [access[s] EXCEPT !.step = "linked",
                                           !.next = Link(access[s].page)])
    /\ UNCHANGED <<table, flat, raced>>

\* The two overlaps of two threads in which a page is lost: another has linked
\* its own page to the head that is now replaced, or is about to add the same
\* page.
Overlap(s) ==
    \E u \in Readers \ {s} :
        \/ access[u].step = "linked" /\ HASH[access[u].page] = HASH[access[s].page]
        \/ /\ access[u].step \in {"missing", "linked"}
           /\ access[u].page = access[s].page

\* The store into the table.
Publish(s) ==
    LET n == access[s].page
        p == Len(table.page) + 1
    IN  /\ Step(s, "linked", [access[s] EXCEPT !.step = "ready", !.found = p,
                                              !.next = << >>])
        /\ table' = [chain |-> [table.chain EXCEPT ![HASH[n]] = <<p>> \o access[s].next],
                     page |-> Append(table.page, NewPage(n))]
        /\ raced' = (raced \/ Overlap(s))
        /\ UNCHANGED flat

\* The read or the write itself, and the rest of the stage's work.  A stage may
\* also have no access to make.
Finish(s) ==
    /\ Run(s)
    /\ access[s].step \in {"none", "ready"}
    /\ access' = [access EXCEPT ![s] = NoAccess]
    /\ IF access[s].write
       THEN /\ table' = [table EXCEPT !.page[access[s].found].cell[0] = num_instr + 2]
            /\ flat' = [flat EXCEPT ![access[s].page] = num_instr + 2]
       ELSE UNCHANGED <<table, flat>>
    /\ UNCHANGED raced

\* The access of an exit is to a special address, with no page.
Reader(s) ==
    \/ LookUp(s) \/ Prepare(s) \/ Publish(s) \/ Finish(s)
    \/ access[s].step = "none" /\ Exit(s) /\ UNCHANGED memVars
    \/ (FirstStart(s) \/ End(s) \/ Start(s) \/ Check(s)) /\ UNCHANGED memVars

ParMain     == Main /\ UNCHANGED memVars
ParStage(s) == IF s \in Readers THEN Reader(s) ELSE Stage(s) /\ UNCHANGED memVars

ParNext == ParMain \/ \E s \in Stages : ParStage(s)

ParSpec == ParInit /\ [][ParNext]_parVars
           /\ WF_parVars(ParMain) /\ \A s \in Stages : WF_parVars(ParStage(s))

----------------------------------------------------------------------------
\* The page table is the memory of the guest, and a page once found is the page
\* of its number for good, however look-ups, additions, reads and writes of the
\* two threads fall together: only the two overlaps of add_page lose a page.
TableIsMemory ==
    ~raced =>
        /\ \A n \in PAGES : WordOf(table, n) = flat[n]
        /\ \A s \in Readers : access[s].found # 0 =>
                access[s].found = get_page(table, access[s].page)
=============================================================================
