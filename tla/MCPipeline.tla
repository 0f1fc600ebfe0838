----------------------------- MODULE MCPipeline -----------------------------
(***************************************************************************)
(* Instances of Pipeline for TLC: words of four bits, a text segment of    *)
(* six instructions, programs over pools of instructions.                  *)
(***************************************************************************)
EXTENDS PipelineCorrect

Ins(op, rd, rn, rm, imm) ==
    [NoInstr EXCEPT !.op = op, !.rd = rd, !.rn = rn, !.rm = rm, !.imm = imm]

Movz(rd, hw)      == [Ins("MOVZ", rd, 0, 0, 1) EXCEPT !.hw = hw]
Adds(rd, rn, rm)  == Ins("ADDS_RR", rd, rn, rm, 0)
Subs(rd, rn, rm)  == Ins("SUBS_RR", rd, rn, rm, 0)
AddI(rd, rn, n)   == Ins("ADD_RI", rd, rn, 0, n)
Ldur(rt, rn, n)   == Ins("LDUR", rt, rn, 0, n)
Stur(rt, rn, n)   == Ins("STUR", rt, rn, 0, n)
Branch(n)         == Ins("B", 0, 0, 0, n)
BranchLink(n)     == Ins("BL", 0, 0, 0, n)
BranchIf(c, n)    == [Ins("B_COND", 0, 0, 0, n) EXCEPT !.cond = c]
Ret(rn)           == Ins("RET", 0, rn, 0, 0)
Nop               == NoInstr
Hlt               == Ins("HLT", 0, 0, 0, 0)
Undefined         == Ins("ERROR", 0, 0, 0, 0)

\* A pool of instructions is a sequence, and a program a choice of some of them
\* at the start of the text, the rest of which is filled with one instruction
\* and ends in an undefined word.
Filled(s, fill) ==
    [a \in ImemAddr |-> IF a \in DOMAIN s THEN s[a]
                        ELSE IF a + 1 \in ImemAddr THEN fill ELSE Undefined]

Programs(pool, n, fill) ==
    {Filled([j \in 1 .. n |-> pool[c[j]]], fill) : c \in [1 .. n -> DOMAIN pool]}

\* Data, load-use, return and branch hazards.  SP is a data address; X30 is 0 at
\* the start.
HazardPool ==
    << AddI(30, 0, 3),            \* X30 <- X0 + 3, an address in the text
       Subs(0, 31, 30),           \* X0 <- - X30, flags (CMP when rd is 31)
       Ldur(30, 31, 0),           \* X30 <- mem[SP]
       Stur(30, 31, 0),           \* mem[SP] <- X30
       Stur(0, 31, 4),            \* print X0
       BranchIf("NE", 2), BranchLink(2), Ret(30), Undefined >>

\* The extra-credit instructions.
ECPool ==
    << AddI(30, 0, 3), Subs(0, 31, 30), Ldur(30, 31, 0),
       Ins("CBZ", 30, 0, 0, 2), Ins("CBNZ", 30, 0, 0, 2), Ins("BR", 0, 30, 0, 0),
       Ins("BLR", 0, 30, 0, 0), [Ins("CSINC", 0, 0, 30, 0) EXCEPT !.cond = "NE"],
       Hlt >>

\* Exceptions.  X0 and X30 start at 0, so [X30, 1] is a text address and out of
\* bounds for data.
FaultPool ==
    << Ldur(0, 30, 1), Stur(30, 0, 1), Ldur(30, 31, 0), Stur(31, 31, 0),
       Adds(0, 30, 30), Subs(30, 31, 0), AddI(0, 0, 1), BranchIf("EQ", 2),
       Undefined >>

\* Register 31, loads from address 0 behind which a return waits, and branches to
\* the data at 8.
EdgePool ==
    << Ldur(30, 0, 0), Ret(30), Adds(0, 0, 30), Ins("CBNZ", 31, 0, 0, 2),
       Ins("CBZ", 31, 0, 0, 2), Ldur(0, 30, 1), Stur(30, 31, 4), Branch(6),
       BranchIf("NE", 7) >>

\* The run over every order of the stages, with a cache.
OrderPool ==
    << AddI(30, 30, 3), Subs(0, 31, 30), Ldur(30, 31, 0), Stur(30, 31, 0),
       Stur(0, 31, 4), BranchIf("NE", 2), Ret(30), Hlt >>

Pools == <<HazardPool, ECPool, FaultPool, EdgePool>>
Fills == <<Undefined, Nop, Undefined, Nop>>

Sizes == <<4, 3, 4, 3>>

\* All programs of three or four instructions of one pool; as one set comprehension,
\* since TLC takes long over a union of large sets.
mcAllPrograms ==
    {Filled([j \in 1 .. Sizes[k] |-> Pools[k][c[j]]], Fills[k]) :
        k \in 1 .. 4, c \in [1 .. 4 -> 1 .. 9]}

mcOrderPrograms   == Programs(OrderPool, 3, Undefined)
mcECShortPrograms == Programs(ECPool, 3, Nop)
mcFaultPrograms   == Programs(FaultPool, 4, Undefined)
mcMem            == [a \in Word |-> IF a = STACK_SEG - 1 THEN 4 ELSE 0]
mcInput          == {1}
=============================================================================
