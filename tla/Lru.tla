-------------------------------- MODULE Lru --------------------------------
(***************************************************************************)
(* The replacement order of cache.c: a matrix of A by A bits, in which row *)
(* i holds the ways that way i has been used after.  The code packs it in  *)
(* one 64-bit word (A <= 8), bit i * A + j for row i and column j.         *)
(***************************************************************************)
EXTENDS Integers

CONSTANT A      \* the associativity

ASSUME AssociativityAssumption == A \in 1 .. 8

Ways     == 0 .. A - 1
Matrices == [Ways -> [Ways -> BOOLEAN]]

\* calloc and "lru_matrix = 0"; "next_lru = ~0" is no way at all.
NoOrder == [i \in Ways |-> [j \in Ways |-> FALSE]]
NoWay   == A

\* A mutant: the column is not cleared.
TouchRowOnly(m, w) ==
    [i \in Ways |-> [j \in Ways |-> IF i = w THEN i # j ELSE m[i][j]]]

\* lru: the accessed way's row is set, and then its column is cleared.
Touch(m, w) ==
    [i \in Ways |-> [j \in Ways |-> IF j = w THEN FALSE
                                    ELSE IF i = w THEN TRUE ELSE m[i][j]]]

\* The result of lru: the first row that is all zeros, or 0.
ZeroRows(m) == {r \in Ways : \A j \in Ways : ~m[r][j]}

Victim(m) ==
    IF ZeroRows(m) = {} THEN 0
    ELSE CHOOSE r \in ZeroRows(m) : \A q \in ZeroRows(m) : r <= q

\* select_line: the first invalid line, or the one lru returned last.
SelectLine(valid, next) ==
    IF \A w \in Ways : valid[w] THEN next
    ELSE CHOOSE w \in Ways : ~valid[w] /\ \A v \in Ways : ~valid[v] => w <= v
=============================================================================
