-------------------------------- MODULE Isa --------------------------------
(***************************************************************************)
(* What the stages know of an instruction: opcodes, formats, control       *)
(* signals, register extraction, and the address map of the guest.  An     *)
(* instruction is a record of the fields of insnbits the stages look at.   *)
(* Addresses count instructions, so the code's "+ 4" is "+ 1" here.        *)
(***************************************************************************)
EXTENDS Alu

CONSTANTS EC,               \* the extra-credit build, #ifdef EC
          TEXT_SEG,         \* seg_start_addr[TEXT_SEG]
          DATA_SEG,         \* seg_start_addr[DATA_SEG]
          STACK_SEG,        \* seg_start_addr[STACK_SEG]
          KERNEL_SEG        \* seg_start_addr[KERNEL_SEG]

ASSUME SegmentAssumption ==
    /\ EC \in BOOLEAN
    /\ {TEXT_SEG, DATA_SEG, STACK_SEG, KERNEL_SEG} \subseteq Nat
    /\ 0 < TEXT_SEG /\ TEXT_SEG < DATA_SEG /\ DATA_SEG < STACK_SEG
    /\ STACK_SEG < KERNEL_SEG /\ KERNEL_SEG < Modulus - 2

SP_NUM  == 31
XZR_NUM == 32
LINK    == 30               \* X30, the register BL writes

NULL_ADDR          == 0
RET_FROM_MAIN_ADDR == 0
IO_CHAR_ADDR       == Modulus - 1
CHECKPOINT_ADDR    == Modulus - 2

ImemAddr    == TEXT_SEG .. DATA_SEG - 1
DmemAddr    == DATA_SEG .. KERNEL_SEG - 1
SpecialAddr == {NULL_ADDR, IO_CHAR_ADDR, CHECKPOINT_ADDR}

\* Accesses mem.c sends to the cache when there is one.
CacheableAddr == (DATA_SEG .. Modulus - 1) \ SpecialAddr

----------------------------------------------------------------------------
BaseOps == {"NOP", "LDUR", "STUR", "MOVK", "MOVZ", "ADRP", "ADD_RI", "ADDS_RR",
            "CMN_RR", "SUB_RI", "SUBS_RR", "CMP_RR", "MVN", "ORR_RR", "EOR_RR",
            "ANDS_RR", "TST_RR", "LSL_RI", "LSR_RI", "LSL_RR", "LSR_RR", "ASR",
            "B", "B_COND", "BL", "RET", "HLT", "ERROR"}
ECOps   == {"CSEL", "CSINV", "CSINC", "CSNEG", "CBZ", "CBNZ", "BR", "BLR"}
Ops     == BaseOps \cup ECOps

Instr == [op : Ops, rd : 0 .. SP_NUM, rn : 0 .. SP_NUM, rm : 0 .. SP_NUM, imm : Int,
          hw : Nat, cond : Conds]

\* ftable: the format of each opcode.
FormatM  == {"LDUR", "STUR"}
FormatI1 == {"MOVK", "MOVZ"}
FormatI2 == {"ADRP"}
FormatRR == {"ADDS_RR", "CMN_RR", "SUBS_RR", "CMP_RR", "MVN", "ORR_RR", "EOR_RR",
             "ANDS_RR", "TST_RR", "LSL_RR", "LSR_RR"}
FormatRI == {"ADD_RI", "SUB_RI", "LSL_RI", "LSR_RI", "ASR"}
FormatB3 == {"RET"}
CondSels == {"CSEL", "CSINV", "CSINC", "CSNEG"}
CompareBranches  == {"CBZ", "CBNZ"}
IndirectBranches == {"BR", "BLR"}

\* itable and fix_instr_aliases: the opcode of an instruction.  SUBS, ADDS and
\* ANDS with register 31 as destination are CMP, CMN and TST.  A build without
\* EC has no entry for the extra opcodes.
Opcode(i) ==
    CASE i.op = "SUBS_RR" /\ i.rd = 31 -> "CMP_RR"
      [] i.op = "ADDS_RR" /\ i.rd = 31 -> "CMN_RR"
      [] i.op = "ANDS_RR" /\ i.rd = 31 -> "TST_RR"
      [] i.op \in ECOps /\ ~EC         -> "ERROR"
      [] OTHER                         -> i.op

----------------------------------------------------------------------------
(* Register extraction: the format_x functions and fix_regs, which decides *)
(* whether 31 names SP or XZR.                                             *)

ZeroRegOps == FormatRR \cup FormatI1 \cup {"LSL_RI", "LSR_RI", "ASR"} \cup ECOps

FixReg(n, isZero) == IF n = SP_NUM /\ isZero THEN XZR_NUM ELSE n

Dst(i, op) ==
    IF op \in {"BL", "BLR"} THEN LINK                        \* dst_sel
    ELSE IF op \in FormatM \cup FormatI1 \cup FormatI2 \cup FormatRR
                   \cup FormatRI \cup CondSels
    THEN FixReg(i.rd, op \in ZeroRegOps \cup FormatM)
    ELSE XZR_NUM

Src1(i, op) ==
    IF op \in FormatM \cup FormatRR \cup FormatRI \cup FormatB3 \cup CondSels
              \cup IndirectBranches
    THEN FixReg(i.rn, op \in ZeroRegOps)
    ELSE IF op \in {"MOVK"} \cup CompareBranches
    THEN FixReg(i.rd, TRUE)
    ELSE XZR_NUM

Src2(i, op) ==
    IF op \in FormatRR \cup CondSels THEN FixReg(i.rm, TRUE)
    ELSE IF op = "STUR" THEN Dst(i, op)                      \* src2_sel
    ELSE XZR_NUM

----------------------------------------------------------------------------
(* generate_DXMW_control, one set of opcodes per signal.                   *)

VALA_SEL   == {"ADRP", "BL", "BLR"}
SET_FLAGS  == {"ADDS_RR", "CMN_RR", "SUBS_RR", "CMP_RR", "ANDS_RR", "TST_RR"}
VALB_SEL   == FormatRR \cup CondSels
DMEM_READ  == {"LDUR"}
DMEM_WRITE == {"STUR"}
WVAL_SEL   == {"LDUR"}
W_ENABLE   == ({"LDUR", "BL", "BLR"} \cup FormatI1 \cup FormatI2 \cup FormatRI
               \cup FormatRR \cup CondSels) \ {"CMN_RR", "CMP_RR", "TST_RR"}

\* decide_alu_op
AluOp(op) ==
    CASE op \in {"LDUR", "STUR", "ADD_RI", "ADDS_RR", "CMN_RR"} -> "PLUS_OP"
      [] op \in {"SUB_RI", "SUBS_RR", "CMP_RR"}                 -> "MINUS_OP"
      [] op = "MOVZ"                                            -> "MOV_OP"
      [] op = "MOVK"                                            -> "MOVK_OP"
      [] op = "MVN"                                             -> "INV_OP"
      [] op = "ORR_RR"                                          -> "OR_OP"
      [] op = "EOR_RR"                                          -> "EOR_OP"
      [] op \in {"ANDS_RR", "TST_RR"}                           -> "AND_OP"
      [] op \in {"LSL_RI", "LSL_RR"}                            -> "LSL_OP"
      [] op \in {"LSR_RI", "LSR_RR"}                            -> "LSR_OP"
      [] op = "ASR"                                             -> "ASR_OP"
      [] op = "CSEL"                                            -> "CSEL_OP"
      [] op = "CSINV"                                           -> "CSINV_OP"
      [] op = "CSINC"                                           -> "CSINC_OP"
      [] op = "CSNEG"                                           -> "CSNEG_OP"
      [] op = "CBZ"                                             -> "CBZ_OP"
      [] op = "CBNZ"                                            -> "CBNZ_OP"
      [] OTHER                                                  -> "PASS_A_OP"

\* extract_immval: the operand an instruction carries; branches and the other
\* formats leave it 0.
Imm(i, op) ==
    IF op \in FormatM \cup FormatI1 \cup FormatRI THEN Wrap(i.imm) ELSE 0

\* The successor the fetch stage predicts: a direct branch is taken.
Predict(pc, i, op) ==
    IF op \in {"B", "BL", "B_COND"} \cup CompareBranches
    THEN Wrap(pc + i.imm)
    ELSE Wrap(pc + 1)

\* The value ADRP computes in fetch, with pages of FIELD-bit offsets.
AdrpValue(pc, i) == Wrap((pc - (pc % Pow2[FIELD])) + i.imm * Pow2[FIELD])
=============================================================================
