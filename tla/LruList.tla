------------------------------ MODULE LruList ------------------------------
(***************************************************************************)
(* What a least recently used, write-back set of A lines promises, with no *)
(* ways, no matrix and no next_lru: a list of blocks, the last used first, *)
(* and the counts that follow from it.  CacheSim implements it.            *)
(***************************************************************************)
EXTENDS Naturals, Sequences, SequencesExt

CONSTANTS A,            \* the number of lines
          Tags          \* the blocks that compete for them

VARIABLES recent,       \* the blocks held, the last used first
          unsaved,      \* those among them written since they came in
          wrote,        \* whether the last access was a write
          hits, misses, dirtyEvictions, cleanEvictions

vars == <<recent, unsaved, wrote, hits, misses, dirtyEvictions, cleanEvictions>>

Init ==
    /\ recent = << >> /\ unsaved = {} /\ wrote = FALSE
    /\ hits = 0 /\ misses = 0 /\ dirtyEvictions = 0 /\ cleanEvictions = 0

Written(t, write) == IF write THEN {t} ELSE {}

Hit(t, write) ==
    /\ \E k \in DOMAIN recent :
           recent[k] = t /\ recent' = <<t>> \o RemoveAt(recent, k)
    /\ unsaved' = unsaved \cup Written(t, write)
    /\ hits' = hits + 1
    /\ UNCHANGED <<misses, dirtyEvictions, cleanEvictions>>

MissFree(t, write) ==
    /\ ~Contains(recent, t) /\ Len(recent) < A
    /\ recent' = <<t>> \o recent
    /\ unsaved' = unsaved \cup Written(t, write)
    /\ misses' = misses + 1
    /\ UNCHANGED <<hits, dirtyEvictions, cleanEvictions>>

MissEvict(t, write) ==
    /\ ~Contains(recent, t) /\ Len(recent) = A
    /\ recent' = <<t>> \o Front(recent)
    /\ unsaved' = (unsaved \ {Last(recent)}) \cup Written(t, write)
    /\ misses' = misses + 1
    /\ IF Last(recent) \in unsaved
       THEN dirtyEvictions' = dirtyEvictions + 1 /\ UNCHANGED cleanEvictions
       ELSE cleanEvictions' = cleanEvictions + 1 /\ UNCHANGED dirtyEvictions
    /\ UNCHANGED hits

Next == \E t \in Tags, write \in BOOLEAN :
            /\ wrote' = write
            /\ Hit(t, write) \/ MissFree(t, write) \/ MissEvict(t, write)

Spec == Init /\ [][Next]_vars
=============================================================================
