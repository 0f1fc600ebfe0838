------------------------------ MODULE CacheSet ------------------------------
(***************************************************************************)
(* One set of the cache, seen only as a replacement policy: which of its   *)
(* ways hold a line, and in what order they were used.  It is what the     *)
(* theorems about the LRU matrix are about; DataCache uses the same        *)
(* operators in every one of its sets.                                     *)
(***************************************************************************)
EXTENDS Lru

CONSTANT ACCESS_MAX     \* bound on the accesses considered

ASSUME AccessBound == ACCESS_MAX \in Nat

VARIABLES valid,        \* the ways that hold a line
          lru_matrix,
          next_lru,
          last,         \* auxiliary: when each way was last used, 0 if never
          now           \* auxiliary: the accesses so far

vars == <<valid, lru_matrix, next_lru, last, now>>

\* create_cache
Init ==
    /\ valid = [w \in Ways |-> FALSE]
    /\ lru_matrix = NoOrder
    /\ next_lru = NoWay
    /\ last = [w \in Ways |-> 0]
    /\ now = 0

\* A mutant: the line to replace is looked up before the access is entered.
UseStale(w) ==
    /\ lru_matrix' = Touch(lru_matrix, w)
    /\ next_lru' = Victim(lru_matrix)
    /\ now' = now + 1
    /\ last' = [last EXCEPT ![w] = now']

\* A line is used: lru and what check_hit and handle_miss do with its result.
Use(w) ==
    /\ lru_matrix' = Touch(lru_matrix, w)
    /\ next_lru' = Victim(lru_matrix')
    /\ now' = now + 1
    /\ last' = [last EXCEPT ![w] = now']

\* check_hit finds the line in way w.
Hit(w) ==
    /\ now < ACCESS_MAX
    /\ valid[w]
    /\ Use(w)
    /\ UNCHANGED valid

\* handle_miss puts a line in the way select_line chooses.
Miss ==
    /\ now < ACCESS_MAX
    /\ LET w == SelectLine(valid, next_lru)
       IN  /\ valid' = [valid EXCEPT ![w] = TRUE]
           /\ Use(w)

Next == Miss \/ \E w \in Ways : Hit(w)

Spec == Init /\ [][Next]_vars

----------------------------------------------------------------------------
TypeOK ==
    /\ valid \in [Ways -> BOOLEAN]
    /\ lru_matrix \in Matrices
    /\ next_lru \in Ways \cup {NoWay}
    /\ last \in [Ways -> 0 .. now]
    /\ now \in 0 .. ACCESS_MAX

\* The matrix says which of two ways was used later, whatever the accesses
\* were: lru in cache.c never loses or invents an order.
MatrixIsOrder ==
    \A i, j \in Ways : lru_matrix[i][j] <=> last[i] > last[j]

\* No line is given up while another line of the set has gone unused for
\* longer, and none while a way is free: what select_line chooses on a miss.
EvictsLeastRecent ==
    [][ \A w \in Ways : valid[w] /\ last'[w] # last[w] /\ Miss =>
            \A v \in Ways : valid[v] /\ (v # w => last[v] > last[w]) ]_vars
=============================================================================
