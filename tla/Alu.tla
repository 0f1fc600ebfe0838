-------------------------------- MODULE Alu --------------------------------
(***************************************************************************)
(* The arithmetic and logic unit of hw_elts.c on words of WIDTH bits (64   *)
(* in the program).  The operators are pure.  A move-immediate field is a  *)
(* quarter of a word, as 16 bits are of 64.                                *)
(***************************************************************************)
EXTENDS Bits

CONSTANT WIDTH              \* bits in a machine word

ASSUME WidthAssumption == WIDTH \in Nat /\ WIDTH > 0 /\ WIDTH % 4 = 0

Modulus == Pow2[WIDTH]
Word    == 0 .. Modulus - 1
FIELD   == WIDTH \div 4     \* bits of a MOVZ/MOVK immediate

\* NZCV as four named bits; PACK_CC and the GET_xF macros are the record.
Flags == [N : BOOLEAN, Z : BOOLEAN, C : BOOLEAN, V : BOOLEAN]

Conds == {"EQ", "NE", "CS", "CC", "MI", "PL", "VS", "VC",
          "HI", "LS", "GE", "LT", "GT", "LE", "AL", "NV"}

AluOps == {"PLUS_OP", "MINUS_OP", "INV_OP", "OR_OP", "EOR_OP", "AND_OP",
           "MOV_OP", "MOVK_OP", "LSL_OP", "LSR_OP", "ASR_OP", "PASS_A_OP",
           "CSEL_OP", "CSINV_OP", "CSINC_OP", "CSNEG_OP", "CBZ_OP", "CBNZ_OP"}

----------------------------------------------------------------------------
Negative(x) == Bit(x, WIDTH - 1) = 1
Wrap(n)     == n % Modulus

Not(x)    == Modulus - 1 - x
And(a, b) == BitAnd[a][b]

ShiftLeft(x, n)  == Wrap(x * Pow2[n])
ShiftRight(x, n) == x \div Pow2[n]
ShiftRightSigned(x, n) ==
    IF Negative(x) THEN Not(ShiftRight(Not(x), n)) ELSE ShiftRight(x, n)

\* The ripple carry adder: the number in s of the cells below cell i, and the carry
\* that comes out of them.
Rca(a, b, cin) ==
    LET rca[i \in Nat] ==
            IF i = 0 THEN [s |-> 0, c_out |-> cin]
            ELSE LET below == rca[i - 1]
                     ones  == Bit(a, i - 1) + Bit(b, i - 1) + below.c_out
                 IN  [s |-> below.s + (ones % 2) * Pow2[i - 1], c_out |-> ones \div 2]
    IN  rca

AddSum(a, b, cin)   == Rca(a, b, cin)[WIDTH].s
AddCarry(a, b, cin) == Rca(a, b, cin)[WIDTH].c_out = 1

----------------------------------------------------------------------------
CondHolds(cond, f) ==
    CASE cond = "EQ" -> f.Z
      [] cond = "NE" -> ~f.Z
      [] cond = "CS" -> f.C
      [] cond = "CC" -> ~f.C
      [] cond = "MI" -> f.N
      [] cond = "PL" -> ~f.N
      [] cond = "VS" -> f.V
      [] cond = "VC" -> ~f.V
      [] cond = "HI" -> f.C /\ ~f.Z
      [] cond = "LS" -> ~f.C \/ f.Z
      [] cond = "GE" -> f.N = f.V
      [] cond = "LT" -> f.N # f.V
      [] cond = "GT" -> ~f.Z /\ f.N = f.V
      [] cond = "LE" -> f.Z \/ f.N # f.V
      [] OTHER       -> TRUE

\* val_e of alu().
AluValue(op, a, b, hw, nzcv, cond) ==
    CASE op = "PLUS_OP"   -> AddSum(a, b, 0)
      [] op = "MINUS_OP"  -> AddSum(a, Not(b), 1)
      [] op = "INV_OP"    -> Or(a, Not(b))
      [] op = "OR_OP"     -> Or(a, b)
      [] op = "EOR_OP"    -> Xor(a, b)
      [] op = "AND_OP"    -> And(a, b)
      [] op = "MOV_OP"    -> Or(a, ShiftLeft(b, hw))
      [] op = "MOVK_OP"   -> Or(And(a, Not(ShiftLeft(Pow2[FIELD] - 1, hw))), ShiftLeft(b, hw))
      [] op = "LSL_OP"    -> ShiftLeft(a, b % WIDTH)
      [] op = "LSR_OP"    -> ShiftRight(a, b % WIDTH)
      [] op = "ASR_OP"    -> ShiftRightSigned(a, b % WIDTH)
      [] op = "CSEL_OP"   -> IF CondHolds(cond, nzcv) THEN a ELSE b
      [] op = "CSINV_OP"  -> IF CondHolds(cond, nzcv) THEN a ELSE Not(b)
      [] op = "CSINC_OP"  -> IF CondHolds(cond, nzcv) THEN a ELSE AddSum(b, 1, 0)
      [] op = "CSNEG_OP"  -> IF CondHolds(cond, nzcv) THEN a ELSE AddSum(Not(b), 1, 0)
      [] OTHER            -> a           \* PASS_A_OP, CBZ_OP, CBNZ_OP

\* nzcv_dst of alu(): the addition, the subtraction and the logical
\* operations set flags, and only when asked.
AluFlags(op, a, b, nzcv, setFlags) ==
    LET r == AluValue(op, a, b, 0, nzcv, "AL")
    IN  IF ~setFlags THEN nzcv
        ELSE CASE op = "PLUS_OP" ->
                    [N |-> Negative(r), Z |-> r = 0, C |-> AddCarry(a, b, 0),
                     V |-> Negative(a) = Negative(b) /\ Negative(r) # Negative(a)]
               [] op = "MINUS_OP" ->
                    [N |-> Negative(r), Z |-> r = 0, C |-> AddCarry(a, Not(b), 1),
                     V |-> Negative(a) # Negative(b) /\ Negative(r) # Negative(a)]
               [] op \in {"INV_OP", "OR_OP", "EOR_OP", "AND_OP"} ->
                    [N |-> Negative(r), Z |-> r = 0, C |-> FALSE, V |-> FALSE]
               [] OTHER -> nzcv

\* cond_val of alu(), computed from the flags it has just produced.
AluCond(op, r, cond, nzcvOut) ==
    CASE op = "CBZ_OP"  -> r = 0
      [] op = "CBNZ_OP" -> r # 0
      [] OTHER          -> CondHolds(cond, nzcvOut)
=============================================================================
