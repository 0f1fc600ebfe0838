----------------------------- MODULE SeqMachine -----------------------------
(***************************************************************************)
(* What the emulator promises: the guest program runs one instruction at a *)
(* time, in program order, each with its whole effect.  There is no        *)
(* pipeline, no forwarding, no cache and no speculation here.  Pipeline    *)
(* implements this specification.                                          *)
(*                                                                         *)
(* How a run ends is in "status": "AOK" while it runs, "HLT", "INS" and    *)
(* "ADR" for the statuses of the processor, "EXIT" when the emulator's     *)
(* process itself ends in the middle of an access (a null read, a write to *)
(* the checkpoint address).  The program counter is 0 once a run is over.  *)
(***************************************************************************)
EXTENDS Isa, Sequences

CONSTANTS INIT_MEM,     \* the data memory the loader leaves
          INPUT         \* the words scanf may deliver

VARIABLES prog, pc, gpr, nzcv, mem, io, status

vars == <<prog, pc, gpr, nzcv, mem, io, status>>

Regs == 0 .. SP_NUM

\* The state runElf sets up: the stack pointer, the flags and the entry point.
\* Any program may be in the text segment; it never changes.
Init ==
    /\ DOMAIN prog = ImemAddr
    /\ pc = TEXT_SEG
    /\ gpr = [r \in Regs |-> IF r = SP_NUM THEN STACK_SEG - 1 ELSE 0]
    /\ nzcv = [N |-> FALSE, Z |-> TRUE, C |-> FALSE, V |-> FALSE]
    /\ mem = INIT_MEM
    /\ io = << >>
    /\ status = "AOK"

RegVal(r) == IF r = XZR_NUM THEN 0 ELSE gpr[r]

SetReg(dst, enable, v) ==
    gpr' = IF enable /\ dst # XZR_NUM THEN [gpr EXCEPT ![dst] = v] ELSE gpr

Stop(how) ==
    /\ status' = how
    /\ pc' = 0
    /\ UNCHANGED <<prog, gpr, nzcv, mem, io>>

\* An instruction that computes, moves data or transfers control.
Execute(i, op) ==
    LET a     == RegVal(Src1(i, op))
        b     == RegVal(Src2(i, op))
        opA   == IF op = "ADRP" THEN AdrpValue(pc, i)
                 ELSE IF op \in VALA_SEL THEN Wrap(pc + 1) ELSE a
        opB   == IF op \in VALB_SEL THEN b ELSE Imm(i, op)
        e     == AluValue(AluOp(op), opA, opB, i.hw, nzcv, i.cond)
        taken == \/ op \in {"B", "BL"}
                 \/ op = "B_COND" /\ CondHolds(i.cond, nzcv)
                 \/ op = "CBZ" /\ a = 0
                 \/ op = "CBNZ" /\ a # 0
    IN  /\ pc' = IF op \in FormatB3 \cup IndirectBranches THEN a
                 ELSE IF taken THEN Wrap(pc + i.imm)
                 ELSE Wrap(pc + 1)
        /\ nzcv' = AluFlags(AluOp(op), opA, opB, nzcv, op \in SET_FLAGS)
        /\ SetReg(Dst(i, op), op \in W_ENABLE, e)
        /\ UNCHANGED <<prog, mem, io, status>>

Access(i, op) ==
    LET a == AddSum(RegVal(Src1(i, op)), Imm(i, op), 0)
        v == RegVal(Src2(i, op))
    IN  \/ /\ a \notin DmemAddr \cup SpecialAddr
           /\ Stop("ADR")
        \/ /\ \/ op = "LDUR" /\ a = NULL_ADDR
              \/ op = "STUR" /\ a = CHECKPOINT_ADDR
           /\ Stop("EXIT")
        \/ /\ op = "LDUR"
           /\ \E r \in CASE a \in DmemAddr       -> {mem[a]}
                         [] a = IO_CHAR_ADDR     -> INPUT
                         [] a = CHECKPOINT_ADDR  -> {0}
                         [] OTHER                -> {} :
                 SetReg(Dst(i, op), TRUE, r)
           /\ pc' = Wrap(pc + 1)
           /\ UNCHANGED <<prog, nzcv, mem, io, status>>
        \/ /\ op = "STUR"
           /\ a \in DmemAddr \cup {NULL_ADDR, IO_CHAR_ADDR}
           /\ mem' = IF a \in DmemAddr THEN [mem EXCEPT ![a] = v] ELSE mem
           /\ io'  = IF a = IO_CHAR_ADDR THEN Append(io, v) ELSE io
           /\ pc' = Wrap(pc + 1)
           /\ UNCHANGED <<prog, gpr, nzcv, status>>

\* One instruction.  Control that reaches address 0 has returned from the
\* start function.  A word that is no instruction stops the machine, as "INS"
\* or, when a stall makes the pipeline fetch it twice, as "HLT".
Step ==
    /\ status = "AOK"
    /\ IF pc = RET_FROM_MAIN_ADDR THEN Stop("HLT")
       ELSE IF pc \notin ImemAddr THEN Stop("INS") \/ Stop("HLT")
       ELSE LET i  == prog[pc]
                op == Opcode(i)
            IN  CASE op = "HLT"               -> Stop("HLT")
                  [] op = "ERROR"             -> Stop("INS") \/ Stop("HLT")
                  [] op \in {"LDUR", "STUR"}  -> Access(i, op)
                  [] OTHER                    -> Execute(i, op)

Spec == Init /\ [][Step]_vars
=============================================================================
