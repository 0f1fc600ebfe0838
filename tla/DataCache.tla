----------------------------- MODULE DataCache -----------------------------
(***************************************************************************)
(* The data cache as the pipeline uses it: cache.c, and the part of mem.c  *)
(* that counts down the delay of a miss, fills a line and writes a dirty   *)
(* one back.  Every cycle the fetch stage runs, then the memory stage,     *)
(* then the clock; while an access is in flight, both stages repeat it.    *)
(*                                                                         *)
(* Memory is an array of words.  The code probes the cache once per byte;  *)
(* the accesses the processor lets through are aligned words, all of whose *)
(* bytes are in one line, so the first probe decides and the other seven   *)
(* touch the same line again.                                              *)
(***************************************************************************)
EXTENDS Lru

CONSTANTS S,            \* number of sets
          B,            \* words of a line
          TAGS,         \* number of tags: memory has TAGS * S blocks
          DELAY,        \* d, the cycles a miss takes
          VALUES,       \* what a word may hold
          GUEST_ADDRS,  \* the words the guest's loads and stores access
          FETCH_ADDRS   \* the words of data that instructions are fetched
                        \* from: none, unless the guest jumps into its data

Sets    == 0 .. S - 1
Offsets == 0 .. B - 1
Tags    == 0 .. TAGS - 1
Blocks  == 0 .. TAGS * S - 1
Addr    == 0 .. TAGS * S * B - 1

ASSUME CacheAssumption ==
    /\ S \in Nat \ {0} /\ B \in Nat \ {0} /\ TAGS \in Nat \ {0}
    /\ DELAY \in Nat \ {0}
    /\ 0 \in VALUES
    /\ GUEST_ADDRS \subseteq Addr
    /\ FETCH_ADDRS \subseteq Addr

Requests  == [op : {"READ"}, addr : GUEST_ADDRS, val : {0}]
             \cup [op : {"WRITE"}, addr : GUEST_ADDRS, val : VALUES]
NoRequest == [op |-> "NONE", addr |-> 0, val |-> 0]
NoFetch   == TAGS * S * B

VARIABLES
    lines,          \* cache->sets[s].lines[w]
    lru_matrix,     \* cache->sets[s].lru_matrix
    next_lru,       \* cache->sets[s].next_lru
    mem,            \* what is in guest.mem
    inflight, inflight_addr, inflight_cycles,
    dmem_status,
    turn,           \* who runs next in the cycle: "F", "M" or "clock"
    fetchPC,        \* the data word current_PC is the address of, or NoFetch
    corrected,      \* current_PC comes from a RET, BR or BLR in X, or from a
                    \* mispredicted B.cond in M
    F_stop,         \* F_in->status is STAT_HLT or STAT_INS
    req,            \* the access of the instruction in M
    answer,         \* the word the last load returned
    stalled         \* auxiliary: the cycles the pipeline has been frozen

cache    == <<lines, lru_matrix, next_lru, mem>>
miss     == <<inflight, inflight_addr, inflight_cycles>>
pipeline == <<fetchPC, corrected, req, answer, stalled>>
vars     == <<cache, miss, dmem_status, turn, F_stop, pipeline>>

----------------------------------------------------------------------------
(* Where a word is: get_set, get_line, and the address of an evicted line  *)

BlockOf(a) == a \div B
SetOf(a)   == BlockOf(a) % S
TagOf(a)   == BlockOf(a) \div S
Offset(a)  == a % B

HitWays(a) == {w \in Ways : lines[SetOf(a)][w].valid /\ lines[SetOf(a)][w].tag = TagOf(a)}

\* A mutant: the search for a line stops at the first way.
HitsFirstWay(a) == 0 \in HitWays(a)

Hits(a)   == HitWays(a) # {}
HitWay(a) == CHOOSE w \in HitWays(a) : \A v \in HitWays(a) : w <= v

\* get_word_cache
CachedWord(a) == lines[SetOf(a)][HitWay(a)].data[Offset(a)]

\* A mutant: the set is left out of the address.
EvictedBlockOfTag(l, a) == l.tag * S

\* evicted_line->block_addr of line l, given up for address a.
EvictedBlock(l, a) == l.tag * S + SetOf(a)

----------------------------------------------------------------------------
(* One access of the cache                                                 *)

EmptyLine == [valid |-> FALSE, tag |-> 0, dirty |-> FALSE, data |-> [o \in Offsets |-> 0]]

InitMem == [a \in Addr |-> 0]

\* A mutant: a store does not mark the line dirty.
AccessedClean(l, r) ==
    IF r.op = "WRITE" THEN [l EXCEPT !.data[Offset(r.addr)] = r.val] ELSE l

\* The line after set_word_cache, or as get_word_cache leaves it.
Accessed(l, r) ==
    IF r.op = "WRITE" THEN [l EXCEPT !.dirty = TRUE, !.data[Offset(r.addr)] = r.val]
    ELSE l

Use(s, w) ==
    /\ lru_matrix' = [lru_matrix EXCEPT ![s] = Touch(lru_matrix[s], w)]
    /\ next_lru' = [next_lru EXCEPT ![s] = Victim(Touch(lru_matrix[s], w))]

\* A mutant: the count starts one late.
RemainingAfter(a) ==
    IF inflight /\ inflight_addr = BlockOf(a) THEN inflight_cycles ELSE DELAY + 1

\* A mutant: the count starts again in every cycle.
RemainingRestart(a) == DELAY

\* The cycles an access that misses still has to wait for, this one included.
Remaining(a) ==
    IF inflight /\ inflight_addr = BlockOf(a) THEN inflight_cycles ELSE DELAY

Hit(r) ==
    LET s == SetOf(r.addr)
        w == HitWay(r.addr)
    IN  /\ Hits(r.addr)
        /\ lines' = [lines EXCEPT ![s][w] = Accessed(lines[s][w], r)]
        /\ Use(s, w)
        /\ dmem_status' = "READY"
        /\ UNCHANGED <<mem, miss>>

Wait(r) ==
    /\ ~Hits(r.addr)
    /\ Remaining(r.addr) > 1
    /\ inflight' = TRUE
    /\ inflight_addr' = BlockOf(r.addr)
    /\ inflight_cycles' = Remaining(r.addr) - 1
    /\ dmem_status' = "IN_FLIGHT"
    /\ UNCHANGED cache

\* The last cycle of a miss: the block is read, a line given up and, if it was
\* dirty, written back.
Fill(r) ==
    LET s   == SetOf(r.addr)
        w   == SelectLine([v \in Ways |-> lines[s][v].valid], next_lru[s])
        old == lines[s][w]
        new == [valid |-> TRUE, tag |-> TagOf(r.addr), dirty |-> r.op = "WRITE",
                data |-> [o \in Offsets |-> mem[BlockOf(r.addr) * B + o]]]
    IN  /\ ~Hits(r.addr)
        /\ Remaining(r.addr) = 1
        /\ lines' = [lines EXCEPT ![s][w] = Accessed(new, r)]
        /\ Use(s, w)
        /\ mem' = IF old.valid /\ old.dirty
                  THEN [a \in Addr |-> IF BlockOf(a) = EvictedBlock(old, r.addr)
                                       THEN old.data[Offset(a)] ELSE mem[a]]
                  ELSE mem
        /\ inflight' = FALSE
        /\ inflight_addr' = BlockOf(r.addr)
        /\ inflight_cycles' = 0
        /\ dmem_status' = "READY"

----------------------------------------------------------------------------
(* The cycle                                                               *)

Init ==
    /\ lines = [s \in Sets |-> [w \in Ways |-> EmptyLine]]
    /\ lru_matrix = [s \in Sets |-> NoOrder]
    /\ next_lru = [s \in Sets |-> NoWay]
    /\ mem = InitMem
    /\ inflight = FALSE /\ inflight_addr = 0 /\ inflight_cycles = DELAY
    /\ dmem_status = "READY"
    /\ turn = "F"
    /\ fetchPC = NoFetch /\ corrected = FALSE /\ F_stop = FALSE
    /\ req = NoRequest /\ answer = 0 /\ stalled = 0

\* F_in->status is sticky: after a stop the fetch stage makes HLTs and calls imem
\* no more, until a corrected PC clears the status.
Stopped == F_stop /\ ~corrected

\* imem: a word of data is read through the cache like any other, though what it
\* reads, or 0 in the cycles of a miss, is an error: STAT_INS.
FetchData(r) ==
    /\ ~Stopped /\ fetchPC = r.addr
    /\ Hit(r) \/ Wait(r) \/ Fill(r)
    /\ F_stop' = TRUE

\* No PC, or one in the text, which is not cached and may hold a stop.
FetchText ==
    /\ ~Stopped /\ fetchPC = NoFetch
    /\ F_stop' \in BOOLEAN
    /\ UNCHANGED <<cache, miss, dmem_status>>

MakeHLT ==
    /\ Stopped
    /\ UNCHANGED <<cache, miss, dmem_status, F_stop>>

Fetch ==
    /\ turn = "F" /\ turn' = "M"
    /\ \/ \E a \in FETCH_ADDRS : FetchData([op |-> "READ", addr |-> a, val |-> 0])
       \/ FetchText
       \/ MakeHLT
    /\ UNCHANGED pipeline

\* dmem, for an instruction without an access.
NoAccess ==
    /\ turn = "M" /\ turn' = "clock"
    /\ req = NoRequest
    /\ UNCHANGED <<cache, miss, dmem_status, F_stop, pipeline>>

Serve(r) ==
    /\ turn = "M" /\ turn' = "clock"
    /\ req = r
    /\ Hit(r) \/ Fill(r)
    /\ req' = NoRequest
    /\ answer' = IF r.op = "READ" THEN CachedWord(r.addr)' ELSE answer
    /\ UNCHANGED <<fetchPC, corrected, F_stop, stalled>>

Stall(r) ==
    /\ turn = "M" /\ turn' = "clock"
    /\ req = r
    /\ Wait(r)
    /\ UNCHANGED <<F_stop, pipeline>>

\* The pipeline is frozen as long as an access is in flight.
Freeze ==
    /\ dmem_status = "IN_FLIGHT"
    /\ stalled' = IF stalled > DELAY THEN stalled ELSE stalled + 1
    /\ UNCHANGED <<fetchPC, corrected, req>>

\* The registers load.
Load ==
    /\ dmem_status = "READY"
    /\ fetchPC' \in FETCH_ADDRS \cup {NoFetch}
    /\ corrected' \in BOOLEAN
    /\ req' \in Requests \cup {NoRequest}
    /\ stalled' = 0

Clock ==
    /\ turn = "clock" /\ turn' = "F"
    /\ Freeze \/ Load
    /\ UNCHANGED <<cache, miss, dmem_status, F_stop, answer>>

Next ==
    \/ Fetch \/ NoAccess \/ Clock
    \/ \E r \in Requests : Serve(r) \/ Stall(r)

\* The loop of runElf goes on to the next cycle as long as it runs.
Spec == Init /\ [][Next]_vars /\ WF_vars(Next)

----------------------------------------------------------------------------
(* What the cache has to get right                                         *)

Line == [valid : BOOLEAN, tag : Tags, dirty : BOOLEAN, data : [Offsets -> VALUES]]

TypeOK ==
    /\ lines \in [Sets -> [Ways -> Line]]
    /\ lru_matrix \in [Sets -> Matrices]
    /\ next_lru \in [Sets -> Ways \cup {NoWay}]
    /\ mem \in [Addr -> VALUES]
    /\ inflight \in BOOLEAN /\ inflight_addr \in Blocks /\ inflight_cycles \in 0 .. DELAY
    /\ dmem_status \in {"READY", "IN_FLIGHT"}
    /\ turn \in {"F", "M", "clock"}
    /\ fetchPC \in FETCH_ADDRS \cup {NoFetch}
    /\ corrected \in BOOLEAN /\ F_stop \in BOOLEAN
    /\ req \in Requests \cup {NoRequest}
    /\ answer \in VALUES
    /\ stalled \in 0 .. DELAY + 1

\* A block is in one line at most: a second copy would go stale at the next
\* store, and write old data back when it is evicted.
OneCopy ==
    \A s \in Sets : \A v, w \in Ways :
        /\ lines[s][v].valid /\ lines[s][w].valid
        /\ lines[s][v].tag = lines[s][w].tag
        => v = w

\* A clean line can be given up without a write-back: it agrees with memory.
CleanMatchesMemory ==
    \A s \in Sets : \A w \in Ways : \A o \in Offsets :
        lines[s][w].valid /\ ~lines[s][w].dirty =>
            lines[s][w].data[o] = mem[(lines[s][w].tag * S + s) * B + o]

\* What the guest sees at an address.
View == [a \in Addr |-> IF Hits(a) THEN CachedWord(a) ELSE mem[a]]

Flat == INSTANCE FlatMemory WITH memory <- View

\* Through any sequence of hits, misses and evictions, a load returns the last
\* word stored at its address, and every access is performed at most once.
ImplementsFlatMemory == Flat!Spec

\* Fetch and memory stage miss on different blocks: the fetch, which a corrected
\* PC repeats in every frozen cycle, and the access restart each other's count.
Contended ==
    /\ corrected /\ fetchPC # NoFetch
    /\ req # NoRequest /\ BlockOf(fetchPC) # BlockOf(req.addr)

\* The miss in flight is that of a fetch which will not be repeated, and no
\* access in M: nobody is left to finish it.
Abandoned == dmem_status = "IN_FLIGHT" /\ req = NoRequest /\ Stopped

\* Every access is performed, and the pipeline goes on after it, however the
\* misses of the two stages interleave, but for two ways to hang: for good in an
\* abandoned miss, or as long as both stages miss on different blocks.
PerformedUnlessHung ==
    []<>~Contended =>
        /\ Flat!Fairness
        /\ []<>(turn = "clock" /\ dmem_status = "READY") \/ <>[]Abandoned

\* An access that hits does not stall; one that misses is in the memory stage
\* for DELAY cycles, which is DELAY - 1 cycles in flight.  A fetch from the data
\* at the same time starts the count again, and one from the same block may have
\* begun it: those accesses are not promised anything.
MissPenalty ==
    [][ /\ req # NoRequest /\ req' = NoRequest
        /\ fetchPC = NoFetch
        /\ BlockOf(req.addr) \notin {BlockOf(a) : a \in FETCH_ADDRS}
        => stalled = IF Hits(req.addr) THEN 0 ELSE DELAY - 1 ]_vars

\* Memory accesses that miss "will stall for the designated number of delay
\* cycles", and "instruction memory will never incur a miss penalty": whatever
\* is fetched, the pipeline is not frozen longer.
StallsAtMostDelay == stalled <= DELAY
=============================================================================
