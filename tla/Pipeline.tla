------------------------------ MODULE Pipeline ------------------------------
(***************************************************************************)
(* The five-stage pipeline of the PIPE build: the stage functions of       *)
(* pipe/instr_*.c, forward_reg, handle_hazards, and the cycle loop of      *)
(* runElf that latches the pipeline registers.                             *)
(*                                                                         *)
(* A cycle is one step of each stage, in an order PRECEDES allows, and     *)
(* then one Clock step.  The sequential build runs the stages in program   *)
(* order; the RANDOM build draws an order and the PARALLEL build runs a    *)
(* thread per stage between two barriers (module ParallelSim): any order.  *)
(*                                                                         *)
(* With CACHED, an access to cacheable memory may miss any number of times *)
(* before it completes: the delay a particular cache imposes is the        *)
(* business of module DataCache, and the pipeline has to be right for all  *)
(* of them.                                                                *)
(***************************************************************************)
EXTENDS Isa, Sequences

CONSTANTS PROGRAMS,     \* the programs considered, functions on ImemAddr
          INIT_MEM,     \* the data memory the loader leaves
          INPUT,        \* the words scanf may deliver
          CACHED,       \* is there a data cache?
          PRECEDES,     \* <<s, t>>: stage s runs before stage t in a cycle
          CYCLE_MAX     \* cycle_max

Stages == {"F", "D", "X", "M", "W"}
Regs   == 0 .. SP_NUM
Status == {"BUB", "AOK", "HLT", "ADR", "INS"}

\* PRECEDES in the sequential build, and in the RANDOM build, whose table of
\* orders has all 120.
InProgramOrder == {<<"F", "D">>, <<"D", "X">>, <<"X", "M">>, <<"M", "W">>}
AnyOrder       == {}

ASSUME PipelineAssumption ==
    /\ PROGRAMS # {} /\ PROGRAMS \subseteq [ImemAddr -> Instr]
    /\ INIT_MEM \in [Word -> Word]
    /\ INPUT \subseteq Word
    /\ CACHED \in BOOLEAN
    /\ PRECEDES \subseteq Stages \X Stages
    /\ CYCLE_MAX \in Nat \ {0}

VARIABLES
    prog,                                   \* instruction memory
    fOut, dOut, xOut, mOut, wOut,           \* output sides, read by a stage
    fIn, dIn, xIn, mIn, wIn,                \* input sides, written by a stage
    F_PC, M_PC, D_src1, D_src2,             \* wires to the clocked logic
    X_nzcvval, X_set_flags, W_wval,
    dmem_status,
    PC, gpr, nzcv, mem, io, status,         \* the guest
    done,                                   \* stages that ran in this cycle
    num_instr,                              \* cycles completed
    ended,                                  \* "" while the loop runs, then why
                                            \* it ended: "loop" or "exit"
    nzcvOld                                 \* auxiliary: the flags before the
                                            \* instruction now in M

pipeRegs == <<fOut, dOut, xOut, mOut, wOut>>
guest    == <<PC, gpr, nzcv, mem, io, status>>
vars == <<prog, fOut, dOut, xOut, mOut, wOut, fIn, dIn, xIn, mIn, wIn, F_PC, M_PC,
          D_src1, D_src2, X_nzcvval, X_set_flags, W_wval, dmem_status, PC, gpr,
          nzcv, mem, io, status, done, num_instr, ended, nzcvOld>>

----------------------------------------------------------------------------
(* The field pc of a register is auxiliary: the address its instruction    *)
(* came from.                                                              *)

NoInstr == [op |-> "NOP", rd |-> 0, rn |-> 0, rm |-> 0, imm |-> 0, hw |-> 0,
            cond |-> "EQ"]

\* What memset leaves of each register: a NOP with status STAT_BUB.
FBubble == [pred_PC |-> 0, status |-> "BUB"]
DBubble == [i |-> NoInstr, op |-> "NOP", mp |-> 0, status |-> "BUB", pc |-> 0]
XBubble == [op |-> "NOP", mp |-> 0, vala_sel |-> FALSE, valb_sel |-> FALSE,
            set_flags |-> FALSE, dmem_read |-> FALSE, dmem_write |-> FALSE,
            wval_sel |-> FALSE, w_enable |-> FALSE, ALU_op |-> "PLUS_OP",
            cond |-> "EQ", val_a |-> 0, val_b |-> 0, val_imm |-> 0, val_hw |-> 0,
            dst |-> 0, status |-> "BUB", pc |-> 0]
MBubble == [op |-> "NOP", mp |-> 0, cond_holds |-> FALSE, dmem_read |-> FALSE,
            dmem_write |-> FALSE, wval_sel |-> FALSE, w_enable |-> FALSE,
            val_b |-> 0, dst |-> 0, val_ex |-> 0, status |-> "BUB", pc |-> 0]
WBubble == [op |-> "NOP", wval_sel |-> FALSE, w_enable |-> FALSE, dst |-> 0,
            val_ex |-> 0, val_mem |-> 0, status |-> "BUB", pc |-> 0]

InitFlags == [N |-> FALSE, Z |-> TRUE, C |-> FALSE, V |-> FALSE]

\* machine_t after init_machine and the beginning of runElf, with the entry
\* point at the start of the text.
Init ==
    /\ prog \in PROGRAMS
    /\ fOut = [pred_PC |-> TEXT_SEG, status |-> "AOK"]
    /\ dOut = DBubble /\ xOut = XBubble /\ mOut = MBubble /\ wOut = WBubble
    /\ fIn = FBubble
    /\ dIn = DBubble /\ xIn = XBubble /\ mIn = MBubble /\ wIn = WBubble
    /\ F_PC = 0 /\ M_PC = 0 /\ D_src1 = 0 /\ D_src2 = 0
    /\ X_nzcvval = InitFlags /\ X_set_flags = FALSE /\ W_wval = 0
    /\ dmem_status = "READY"
    /\ PC = TEXT_SEG
    /\ gpr = [r \in Regs |-> IF r = SP_NUM THEN STACK_SEG - 1 ELSE 0]
    /\ nzcv = InitFlags
    /\ mem = INIT_MEM
    /\ io = << >>
    /\ status = "AOK"
    /\ done = {} /\ num_instr = 0 /\ ended = "" /\ nzcvOld = InitFlags

\* Stage s runs next.
Turn(s) ==
    /\ ended = ""
    /\ s \notin done
    /\ \A t \in Stages : <<t, s>> \in PRECEDES => t \in done
    /\ done' = done \cup {s}

----------------------------------------------------------------------------
(* Fetch                                                                   *)

IndirectInX == xOut.op = "RET" \/ xOut.op \in IndirectBranches
MispredInM  == mOut.op = "B_COND" /\ ~mOut.cond_holds

SelectPC ==
    IF dOut.op = "RET" /\ fOut.pred_PC = RET_FROM_MAIN_ADDR THEN 0
    ELSE IF IndirectInX THEN xOut.val_a
    ELSE IF MispredInM THEN mOut.mp
    ELSE fOut.pred_PC

\* F_in->status as the stage finds it, once a corrected PC has cleared what a
\* wrong-path fetch left there.
FetchStatus ==
    IF SelectPC # 0 /\ (IndirectInX \/ MispredInM) THEN "AOK" ELSE fIn.status

StatusOf(op) == CASE op = "ERROR" -> "INS" [] op = "HLT" -> "HLT" [] OTHER -> "AOK"

Fetch ==
    LET pc     == SelectPC
        halt   == pc = 0 \/ FetchStatus \in {"HLT", "INS"}
        inText == pc \in ImemAddr
        i      == IF inText THEN prog[pc] ELSE NoInstr
        op     == IF halt THEN "HLT" ELSE IF inText THEN Opcode(i) ELSE "ERROR"
        st     == StatusOf(op)
    IN  /\ Turn("F")
        /\ fOut' = [fOut EXCEPT !.status = st]
        /\ fIn' = [fIn EXCEPT !.status = IF st = "AOK" THEN FetchStatus ELSE st]
        /\ dIn' = [i |-> i, op |-> op, status |-> st, pc |-> pc,
                   mp |-> IF halt THEN dIn.mp
                          ELSE IF op = "ADRP" THEN AdrpValue(pc, i)
                          ELSE Wrap(pc + 1)]
        /\ F_PC' = IF halt THEN F_PC ELSE Predict(pc, i, op)
        \* imem reads the word even when the address is an error, and a data
        \* address goes through the cache.
        /\ dmem_status' \in IF CACHED /\ ~halt /\ pc \in CacheableAddr
                            THEN {"READY", "IN_FLIGHT"} ELSE {dmem_status}
        /\ UNCHANGED <<prog, dOut, xOut, mOut, wOut, xIn, mIn, wIn, M_PC, D_src1,
                       D_src2, X_nzcvval, X_set_flags, W_wval, guest, num_instr,
                       ended, nzcvOld>>

----------------------------------------------------------------------------
(* Decode                                                                  *)

RegRead(r) == IF r = XZR_NUM THEN 0 ELSE gpr[r]

Decode ==
    LET i  == dOut.i
        op == dOut.op
    IN  /\ Turn("D")
        /\ D_src1' = Src1(i, op)
        /\ D_src2' = Src2(i, op)
        /\ xIn' = [op |-> op, mp |-> dOut.mp, status |-> dOut.status, pc |-> dOut.pc,
                   vala_sel |-> op \in VALA_SEL, valb_sel |-> op \in VALB_SEL,
                   set_flags |-> op \in SET_FLAGS,
                   dmem_read |-> op \in DMEM_READ, dmem_write |-> op \in DMEM_WRITE,
                   wval_sel |-> op \in WVAL_SEL, w_enable |-> op \in W_ENABLE,
                   ALU_op |-> AluOp(op), cond |-> i.cond,
                   val_a |-> RegRead(Src1(i, op)), val_b |-> RegRead(Src2(i, op)),
                   val_imm |-> Imm(i, op), val_hw |-> i.hw, dst |-> Dst(i, op)]
        /\ UNCHANGED <<prog, pipeRegs, fIn, dIn, mIn, wIn, F_PC, M_PC, X_nzcvval,
                       X_set_flags, W_wval, dmem_status, guest, num_instr, ended,
                       nzcvOld>>

----------------------------------------------------------------------------
(* Execute                                                                 *)

Execute ==
    LET a == IF xOut.vala_sel THEN xOut.mp ELSE xOut.val_a
        b == IF xOut.valb_sel THEN xOut.val_b ELSE xOut.val_imm
        e == AluValue(xOut.ALU_op, a, b, xOut.val_hw, nzcv, xOut.cond)
        f == AluFlags(xOut.ALU_op, a, b, nzcv, xOut.set_flags)
    IN  /\ Turn("X")
        /\ mIn' = [op |-> xOut.op, mp |-> xOut.mp, status |-> xOut.status,
                   pc |-> xOut.pc, dmem_read |-> xOut.dmem_read,
                   dmem_write |-> xOut.dmem_write, wval_sel |-> xOut.wval_sel,
                   w_enable |-> xOut.w_enable, val_b |-> xOut.val_b,
                   dst |-> xOut.dst, val_ex |-> e,
                   cond_holds |-> AluCond(xOut.ALU_op, e, xOut.cond, f)]
        /\ X_nzcvval' = f
        /\ X_set_flags' = xOut.set_flags
        /\ UNCHANGED <<prog, pipeRegs, fIn, dIn, xIn, wIn, F_PC, M_PC, D_src1,
                       D_src2, W_wval, dmem_status, guest, num_instr, ended,
                       nzcvOld>>

----------------------------------------------------------------------------
(* Memory                                                                  *)

Accesses == mOut.dmem_read \/ mOut.dmem_write
DmemErr  == Accesses /\ mOut.val_ex \notin DmemAddr \cup SpecialAddr

\* A mutant: the address after the instruction in M.
InstrPCNext == mOut.mp

\* The address of the instruction in M, from the sequential successor it carries.
InstrPC == Wrap(mOut.mp - 1)

\* The stage's results when its access, if any, delivered rval.
MemoryResult(rval) ==
    LET st == IF DmemErr THEN "ADR" ELSE mOut.status
    IN  /\ wIn' = [op |-> mOut.op, status |-> st, pc |-> mOut.pc,
                   wval_sel |-> mOut.wval_sel, w_enable |-> mOut.w_enable,
                   dst |-> mOut.dst, val_ex |-> mOut.val_ex, val_mem |-> rval]
        /\ M_PC' = InstrPC
        /\ F_PC' = IF st \in {"INS", "ADR"} THEN M_PC' ELSE F_PC
        /\ UNCHANGED <<prog, pipeRegs, fIn, dIn, xIn, mIn, D_src1, D_src2,
                       X_nzcvval, X_set_flags, W_wval, PC, gpr, nzcv, status,
                       num_instr, nzcvOld>>

\* The access missed and is in flight: the read yields 0, the write nothing.
MemoryMiss ==
    /\ Turn("M")
    /\ CACHED /\ Accesses /\ mOut.val_ex \in CacheableAddr
    /\ dmem_status' = "IN_FLIGHT"
    /\ MemoryResult(0)
    /\ UNCHANGED <<mem, io, ended>>

\* A null read exits the emulator, a write to the checkpoint address fails an
\* assertion.
MemoryExit ==
    /\ Turn("M")
    /\ \/ mOut.dmem_read /\ mOut.val_ex = NULL_ADDR
       \/ mOut.dmem_write /\ mOut.val_ex = CHECKPOINT_ADDR
    /\ ended' = "exit"
    /\ UNCHANGED <<prog, pipeRegs, fIn, dIn, xIn, mIn, wIn, F_PC, M_PC, D_src1,
                   D_src2, X_nzcvval, X_set_flags, W_wval, dmem_status, guest,
                   num_instr, nzcvOld>>

\* No access, or one that completes.  An access out of bounds is carried out
\* like any other, and reported in the status.
MemoryDone ==
    LET a == mOut.val_ex
    IN  /\ Turn("M")
        /\ ~(mOut.dmem_read /\ a = NULL_ADDR)
        /\ ~(mOut.dmem_write /\ a = CHECKPOINT_ADDR)
        /\ dmem_status' = IF CACHED /\ Accesses /\ a \in CacheableAddr
                          THEN "READY" ELSE dmem_status
        /\ mem' = IF mOut.dmem_write /\ a \notin SpecialAddr
                  THEN [mem EXCEPT ![a] = mOut.val_b] ELSE mem
        /\ io' = IF mOut.dmem_write /\ a = IO_CHAR_ADDR
                 THEN Append(io, mOut.val_b) ELSE io
        /\ \E r \in CASE ~mOut.dmem_read \/ a = CHECKPOINT_ADDR -> {0}
                      [] mOut.dmem_read /\ a = IO_CHAR_ADDR     -> INPUT
                      [] OTHER                                  -> {mem[a]} :
              MemoryResult(r)
        /\ UNCHANGED ended

Memory == MemoryMiss \/ MemoryExit \/ MemoryDone

----------------------------------------------------------------------------
(* Writeback                                                               *)

Wback ==
    /\ Turn("W")
    /\ W_wval' = IF wOut.wval_sel THEN wOut.val_mem ELSE wOut.val_ex
    /\ UNCHANGED <<prog, pipeRegs, fIn, dIn, xIn, mIn, wIn, F_PC, M_PC, D_src1,
                   D_src2, X_nzcvval, X_set_flags, dmem_status, guest, num_instr,
                   ended, nzcvOld>>

----------------------------------------------------------------------------
(* forward_reg: the value of register src for the instruction in D, given  *)
(* the one it read from the register file.  X comes before M before W.     *)

\* A mutant: the older result, in M, is preferred to the one in X.
ForwardOldest(src, val) ==
    IF src = XZR_NUM THEN val
    ELSE IF mOut.w_enable /\ mOut.dst = src
         THEN IF mOut.wval_sel THEN wIn.val_mem ELSE mOut.val_ex
    ELSE IF xOut.w_enable /\ xOut.dst = src THEN mIn.val_ex
    ELSE IF wOut.w_enable /\ wOut.dst = src
         THEN IF wOut.wval_sel THEN wOut.val_mem ELSE wOut.val_ex
    ELSE val

Forward(src, val) ==
    IF src = XZR_NUM THEN val
    ELSE IF xOut.w_enable /\ xOut.dst = src THEN mIn.val_ex
    ELSE IF mOut.w_enable /\ mOut.dst = src
         THEN IF mOut.wval_sel THEN wIn.val_mem ELSE mOut.val_ex
    ELSE IF wOut.w_enable /\ wOut.dst = src
         THEN IF wOut.wval_sel THEN wOut.val_mem ELSE wOut.val_ex
    ELSE val

----------------------------------------------------------------------------
(* handle_hazards.  The control signal of each register is a record field; *)
(* the conditions carry the names of the code.                             *)

f_stall       == fOut.status \in {"HLT", "INS"}
ret_from_main == dOut.op = "RET" /\ Forward(D_src1, xIn.val_a) = RET_FROM_MAIN_ADDR
ret           == dOut.op = "RET" /\ ~ret_from_main
br            == dOut.op \in IndirectBranches
mispred       == xOut.op = "B_COND" /\ ~mIn.cond_holds
load_use      == /\ dOut.op \notin IndirectBranches
                 /\ xOut.op = "LDUR" /\ xOut.dst # XZR_NUM
                 /\ xOut.dst \in {D_src1, D_src2}
cb            == /\ ~load_use
                 /\ \/ dOut.op = "CBZ"  /\ Forward(D_src1, xIn.val_a) # 0
                    \/ dOut.op = "CBNZ" /\ Forward(D_src1, xIn.val_a) = 0

\* pipe_control_stage
Ctl(bubble, stall) ==
    CASE bubble /\ stall   -> "P_ERROR"
      [] bubble /\ ~stall  -> "P_BUBBLE"
      [] ~bubble /\ stall  -> "P_STALL"
      [] OTHER             -> "P_LOAD"

fCtl == Ctl(ret_from_main /\ ~f_stall, f_stall \/ load_use \/ ret \/ br)

\* A mutant: a RET bubbles D even when it has to wait there for a load.
dCtlRetFirst == Ctl(ret \/ mispred \/ ret_from_main \/ br \/ cb, load_use)

dCtl == Ctl((ret /\ ~load_use) \/ mispred \/ ret_from_main \/ br \/ cb, load_use)

\* A mutant: a mispredicted branch squashes D but not X.
xCtlKeep == Ctl(load_use, FALSE)

xCtl == Ctl(load_use \/ mispred, FALSE)

ctl ==
    IF dmem_status = "IN_FLIGHT"
    THEN [F |-> "P_STALL", D |-> "P_STALL", X |-> "P_STALL", M |-> "P_STALL",
          W |-> "P_BUBBLE"]
    ELSE [F |-> fCtl, D |-> dCtl, X |-> xCtl, M |-> "P_LOAD", W |-> "P_LOAD"]

\* A mutant: the flags are set again in every cycle of a stall.
deassert_flagsNoStall == {wIn.status, mOut.status} \cap {"INS", "ADR"} # {}

deassert_flags ==
    \/ dmem_status = "IN_FLIGHT"
    \/ {wIn.status, mOut.status} \cap {"INS", "ADR"} # {}

\* The predicted PC once handle_hazards has corrected a compare-and-branch.
CorrectedPC == IF dmem_status # "IN_FLIGHT" /\ cb THEN dOut.mp ELSE F_PC

\* regfile_write
WriteBack == wOut.w_enable /\ wOut.status = "AOK" /\ wOut.dst # XZR_NUM

\* A mutant: a bubble changes the status and keeps the control signals.
LatchStatus(c, in, out, bubble) ==
    CASE c = "P_LOAD" -> in [] c = "P_STALL" -> out
      [] OTHER -> [out EXCEPT !.status = "BUB"]

Latch(c, in, out, bubble) ==
    CASE c = "P_LOAD" -> in [] c = "P_STALL" -> out [] OTHER -> bubble

----------------------------------------------------------------------------
(* The end of an iteration of the loop of runElf.                          *)

Clock ==
    LET xFwd == [xIn EXCEPT !.val_a = Forward(D_src1, xIn.val_a),
                            !.val_b = Forward(D_src2, xIn.val_b)]
        newPC == IF wIn.status \in {"ADR", "INS"} THEN M_PC ELSE CorrectedPC
        fNew  == [fIn EXCEPT !.pred_PC = newPC]
    IN  /\ ended = "" /\ done = Stages
        /\ nzcv' = IF ~deassert_flags /\ X_set_flags THEN X_nzcvval ELSE nzcv
        /\ gpr' = IF WriteBack THEN [gpr EXCEPT ![wOut.dst] = W_wval] ELSE gpr
        /\ PC' = newPC
        /\ fIn' = fNew
        /\ xIn' = xFwd
        /\ F_PC' = CorrectedPC
        /\ fOut' = Latch(ctl.F, fNew, fOut, FBubble)
        /\ dOut' = Latch(ctl.D, dIn, dOut, DBubble)
        /\ xOut' = Latch(ctl.X, xFwd, xOut, XBubble)
        /\ mOut' = Latch(ctl.M, mIn, mOut, MBubble)
        /\ wOut' = Latch(ctl.W, wIn, wOut, WBubble)
        /\ status' = IF "P_ERROR" \in {ctl[s] : s \in Stages} THEN "HLT"
                     ELSE wOut.status
        /\ num_instr' = num_instr + 1
        /\ ended' = IF status' \in {"AOK", "BUB"} /\ num_instr' < CYCLE_MAX
                    THEN "" ELSE "loop"
        /\ done' = {}
        /\ nzcvOld' = IF ctl.M = "P_LOAD" THEN nzcv ELSE nzcvOld
        /\ UNCHANGED <<prog, dIn, mIn, wIn, M_PC, D_src1, D_src2, X_nzcvval,
                       X_set_flags, W_wval, dmem_status, mem, io>>

----------------------------------------------------------------------------
Next == Fetch \/ Decode \/ Execute \/ Memory \/ Wback \/ Clock

Spec == Init /\ [][Next]_vars
=============================================================================
