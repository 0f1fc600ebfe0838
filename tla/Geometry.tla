------------------------------ MODULE Geometry ------------------------------
(***************************************************************************)
(* Where cache.c puts an address: shifts and masks made from A, B and C,   *)
(* which nothing has checked.  Addresses and B count cells, not bytes.     *)
(***************************************************************************)
EXTENDS Bits

\* _log: the loop counts the halvings that leave more than zero.
Log[x \in Nat] == IF x \div 2 = 0 THEN 0 ELSE 1 + Log[x \div 2]

\* __builtin_popcountll
popcount[x \in Nat] == IF x = 0 THEN 0 ELSE (x % 2) + popcount[x \div 2]

\* S, from the arguments.
SetCount(A, B, C) == C \div (A * B)

\* __builtin_popcountll(x) == 1, for an int: a negative one has its upper bits set.
PowerOfTwo(x) == x > 0 /\ popcount[x] = 1

\* get_set
SetIndex(a, B, S) == BitAnd[a \div Pow2[Log[B]]][S - 1]

\* get_line
TagOf(a, B, S) == a \div Pow2[Log[B] + Log[S]]

\* A mutant: the set is left out of the address.
EvictedAddrOfTag(tag, a, B, S) == tag * Pow2[Log[B] + Log[S]]

\* evicted_line->block_addr, for a line given up for address a.
EvictedAddr(tag, a, B, S) ==
    Or(tag * Pow2[Log[B] + Log[S]], SetIndex(a, B, S) * Pow2[Log[B]])
=============================================================================
