----------------------------- MODULE CacheSim -----------------------------
(***************************************************************************)
(* csim: the cache without a memory.  Its trace loop drives check_hit and  *)
(* handle_miss through access_data, and prints what they counted.  The     *)
(* accesses modelled are those that fall into one set, since a set shares  *)
(* nothing with another but the counters; which set and tag an address has *)
(* is the business of module Geometry.                                     *)
(***************************************************************************)
EXTENDS CacheSet, FiniteSets

CONSTANTS Tags,         \* the tags of the addresses in the trace
          NoTag         \* no line of the trace is half done

VARIABLES tag, dirty,   \* of the line in each way
          hit_count, miss_count,
          dirty_eviction_count, clean_eviction_count,
          pending,      \* the line "M" of the trace between its two accesses
          wrote         \* auxiliary: whether the last access was a write

counts  == <<hit_count, miss_count, dirty_eviction_count, clean_eviction_count>>
simVars == <<vars, tag, dirty, counts, pending, wrote>>

SimInit ==
    /\ Init
    /\ tag = [w \in Ways |-> NoTag]
    /\ dirty = [w \in Ways |-> FALSE]
    /\ hit_count = 0 /\ miss_count = 0
    /\ dirty_eviction_count = 0 /\ clean_eviction_count = 0
    /\ pending = NoTag
    /\ wrote = FALSE

\* get_line: the ways that hold the block.
Holding(t) == {w \in Ways : valid[w] /\ tag[w] = t}

CheckHit(t, op) ==
    \E w \in Holding(t) :
        /\ \A v \in Holding(t) : w <= v
        /\ Hit(w)
        /\ dirty' = [dirty EXCEPT ![w] = @ \/ op = "WRITE"]
        /\ hit_count' = hit_count + 1
        /\ UNCHANGED <<tag, miss_count, dirty_eviction_count, clean_eviction_count>>

\* A mutant: a line keeps the dirty bit of the block it held before.
FilledDirtyKept(w, op) == dirty[w] \/ op = "WRITE"

\* The dirty bit of a line that has just been filled.
FilledDirty(w, op) == op = "WRITE"

HandleMiss(t, op) ==
    LET w == SelectLine(valid, next_lru)
    IN  /\ Holding(t) = {}
        /\ Miss
        /\ tag' = [tag EXCEPT ![w] = t]
        /\ dirty' = [dirty EXCEPT ![w] = FilledDirty(w, op)]
        /\ miss_count' = miss_count + 1
        /\ dirty_eviction_count' =
               dirty_eviction_count + (IF valid[w] /\ dirty[w] THEN 1 ELSE 0)
        /\ clean_eviction_count' =
               clean_eviction_count + (IF valid[w] /\ ~dirty[w] THEN 1 ELSE 0)
        /\ UNCHANGED hit_count

\* access_data
AccessData(t, op) ==
    /\ CheckHit(t, op) \/ HandleMiss(t, op)
    /\ wrote' = (op = "WRITE")

\* The lines of a trace: "L", "S", and "M", which is a read and then a write.
Load(t)   == pending = NoTag /\ AccessData(t, "READ") /\ UNCHANGED pending
Store(t)  == pending = NoTag /\ AccessData(t, "WRITE") /\ UNCHANGED pending
Modify(t) == pending = NoTag /\ AccessData(t, "READ") /\ pending' = t
ModifyWrite ==
    /\ pending # NoTag
    /\ AccessData(pending, "WRITE")
    /\ pending' = NoTag

SimNext == ModifyWrite \/ \E t \in Tags : Load(t) \/ Store(t) \/ Modify(t)

SimSpec == SimInit /\ [][SimNext]_simVars

----------------------------------------------------------------------------
\* The blocks in the order the matrix gives them: a way is as far from the end
\* as there are ways used before it.
Held   == {w \in Ways : valid[w]}
Rank(w) == Cardinality({v \in Held : lru_matrix[v][w]}) + 1

RecentTags ==
    [k \in 1 .. Cardinality(Held) |-> tag[CHOOSE w \in Held : Rank(w) = k]]

List == INSTANCE LruList
        WITH recent <- RecentTags,
             unsaved <- {tag[w] : w \in {v \in Held : dirty[v]}},
             hits <- hit_count, misses <- miss_count,
             dirtyEvictions <- dirty_eviction_count,
             cleanEvictions <- clean_eviction_count

\* The ways, the matrix, next_lru and the dirty bits of a set amount to a list
\* of blocks in the order of their use, and the statistics csim prints are
\* the hits, misses and evictions of that list.
ImplementsLruList == List!Spec
=============================================================================
