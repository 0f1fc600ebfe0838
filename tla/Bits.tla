------------------------------- MODULE Bits -------------------------------
(***************************************************************************)
(* Numbers as strings of bits, for the shifts and masks of cache.c and     *)
(* hw_elts.c.                                                              *)
(***************************************************************************)
EXTENDS Integers

\* 1 << n
Pow2[n \in Nat] == IF n = 0 THEN 1 ELSE 2 * Pow2[n - 1]

\* (x >> i) & 1
Bit(x, i) == (x \div Pow2[i]) % 2

\* x & y, bit by bit from the lowest.
BitAnd[x \in Nat] ==
    [y \in Nat |-> IF x = 0 THEN 0 ELSE 2 * BitAnd[x \div 2][y \div 2] + (x % 2) * (y % 2)]

\* x | y and x ^ y
Or(x, y)  == x + y - BitAnd[x][y]
Xor(x, y) == x + y - 2 * BitAnd[x][y]
=============================================================================
