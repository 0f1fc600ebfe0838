-------------------------- MODULE PipelineCorrect --------------------------
(***************************************************************************)
(* What the pipeline has to get right.  The main property is that it       *)
(* implements SeqMachine: an instruction takes effect, for a reader of the *)
(* sequential machine, in the step in which the memory stage completes it. *)
(***************************************************************************)
EXTENDS Pipeline

Terminal == {"HLT", "ADR", "INS"}

\* The values the control part of the state ranges over.
TypeOK ==
    /\ fIn.status \in Status \ {"ADR"}
    /\ dOut.status \in Status \ {"ADR"}
    /\ xOut.status \in Status \ {"ADR"}
    /\ mOut.status \in Status \ {"ADR"}
    /\ wOut.status \in Status
    /\ status \in Status
    /\ dmem_status \in {"READY", "IN_FLIGHT"}
    /\ done \in SUBSET Stages
    /\ ended \in {"", "loop", "exit"}
    /\ num_instr \in 0 .. CYCLE_MAX

\* The memory stage has completed the instruction in M in this cycle.
Committed ==
    /\ "M" \in done /\ ended # "exit"
    /\ dmem_status = "READY" /\ wOut.status \notin Terminal

Overlay(regs, w) ==
    IF w.w_enable /\ w.status = "AOK" /\ w.dst # XZR_NUM
    THEN [regs EXCEPT ![w.dst] = IF w.wval_sel THEN w.val_mem ELSE w.val_ex]
    ELSE regs

absStatus ==
    IF ended = "exit" THEN "EXIT"
    ELSE IF ended = "loop" /\ status \in Terminal THEN status
    ELSE IF wOut.status \in Terminal THEN wOut.status
    ELSE IF Committed /\ wIn.status \in Terminal THEN wIn.status
    ELSE "AOK"

\* The registers with the results that are on their way to the register file.
absGpr ==
    IF ended = "loop" /\ status \in Terminal THEN gpr
    ELSE IF Committed THEN Overlay(Overlay(gpr, wOut), wIn)
    ELSE Overlay(gpr, wOut)

\* X writes the flags one cycle before M completes the instruction.
absNzcv ==
    IF absStatus # "AOK" \/ Committed \/ mOut.status = "BUB" THEN nzcv ELSE nzcvOld

\* The address of the oldest instruction that has not completed.
absPC ==
    IF absStatus # "AOK" THEN 0
    ELSE IF mOut.status # "BUB" /\ ~Committed THEN mOut.pc
    ELSE IF xOut.status # "BUB" THEN xOut.pc
    ELSE IF dOut.status # "BUB" THEN dOut.pc
    ELSE SelectPC

Sequential == INSTANCE SeqMachine
         WITH pc <- absPC, gpr <- absGpr, nzcv <- absNzcv, status <- absStatus

\* Whatever the hazards, the guest's registers, flags, memory and output go
\* through the states of a machine that runs one instruction at a time: no
\* wrong-path effect, no effect lost or repeated across a stall, no stale
\* operand.  (forward.c, hazard_control.c, the stages and the latches of
\* proc.c together.)
ImplementsSeqMachine == Sequential!Spec

----------------------------------------------------------------------------
(* Hazard control                                                          *)

\* A register is asked to bubble and to stall at once, which pipe_control_stage
\* turns into a halt of the machine, in one case only: a RET that waits for its
\* address to be loaded, when the address of that load looks like the return
\* from the start function.
ConflictOnlyAtLoadedReturn ==
    done = Stages /\ (\E s \in Stages : ctl[s] = "P_ERROR") => load_use /\ ret_from_main

\* A compare-and-branch that was predicted taken and is not continues at its
\* sequential successor: handle_hazards overrides the predicted PC.
CompareBranchCorrected ==
    [][ done = Stages /\ cb /\ dmem_status = "READY" =>
            fOut'.pred_PC = dOut.mp ]_vars

----------------------------------------------------------------------------
(* Halts                                                                   *)

\* The statuses of an instruction that stops the machine when it is reached.
Stop == {"HLT", "INS"}

\* Behind an instruction that stops the machine there are only stops, in every
\* stage, and the fetch stage delivers no other: a wrong-path stop is squashed
\* together with all that was fetched behind it, before the corrected PC
\* brings live instructions in again.
OnlyStopsBehindAStop ==
    /\ wOut.status \in Stop => mOut.status \in Stop
    /\ mOut.status \in Stop => xOut.status \in Stop
    /\ xOut.status \in Stop => dOut.status \in Stop
    /\ dOut.status \in Stop => fIn.status \in Stop

\* A bubble or a stop carries no control signal that could change the guest.
Squashed == {"BUB", "HLT", "INS"}

SquashedIsInert ==
    /\ xOut.status \in Squashed =>
          ~(xOut.dmem_read \/ xOut.dmem_write \/ xOut.w_enable \/ xOut.set_flags)
    /\ mOut.status \in Squashed => ~(mOut.dmem_read \/ mOut.dmem_write \/ mOut.w_enable)
    /\ wOut.status \in Squashed => ~wOut.w_enable

\* Halts and undefined instructions are precise: from the cycle in which one is
\* in M no store, output or flag follows, and from W no register either, though
\* the stages go on working until the loop sees the status.
HaltIsPrecise ==
    [][ /\ {mOut.status, wOut.status} \cap Stop # {} => UNCHANGED <<nzcv, mem, io>>
        /\ wOut.status \in Stop => UNCHANGED gpr ]_vars

----------------------------------------------------------------------------
(* Exceptions                                                              *)

absVars == <<prog, absPC, absGpr, absNzcv, mem, io, absStatus>>

\* A load of the return address from address 0, and a return behind it.
LoadedReturn == load_use /\ ret_from_main

\* What the pipeline does beyond the sequential machine when an access is out
\* of bounds: the faulting access itself reaches memory, and an instruction
\* already behind it may still store, print, set flags or, reading address 0,
\* end the process or halt the machine before the loop ends.
FaultDisturbance ==
    /\ \/ absStatus = "AOK" /\ DmemErr /\ absStatus' = "ADR"
       \/ absStatus = "ADR" /\ absStatus' \in {"ADR", "EXIT"}
       \/ absStatus = "ADR" /\ absStatus' = "HLT" /\ LoadedReturn
    /\ UNCHANGED <<prog, absGpr>>

(***************************************************************************)
(* The two known divergences of the extra-credit build.                    *)
(***************************************************************************)

\* The oldest instruction that has not completed.
absInstr == prog[absPC]

\* BR and BLR are exempt from the load-use stall: right behind a load of their
\* register they go to the address the load read from.
LoadedBranch ==
    /\ EC /\ absStatus = "AOK" /\ absPC \in ImemAddr
    /\ absInstr.op \in IndirectBranches
    /\ wOut.op = "LDUR" /\ wOut.dst = Src1(absInstr, absInstr.op)
    /\ absPC' = wOut.val_ex
    /\ absGpr' = IF absInstr.op = "BLR"
                 THEN [absGpr EXCEPT ![LINK] = Wrap(absPC + 1)] ELSE absGpr
    /\ UNCHANGED <<prog, absNzcv, mem, io, absStatus>>

\* A compare-and-branch that is not taken goes to its target all the same when
\* the machine stops there: F is stalled, and the corrected PC is not latched.
LostCorrection ==
    /\ EC /\ absStatus = "AOK" /\ absPC \in ImemAddr
    /\ absInstr.op \in CompareBranches
    /\ (absInstr.op = "CBZ") # (Sequential!RegVal(Src1(absInstr, absInstr.op)) = 0)
    /\ absPC' = Wrap(absPC + absInstr.imm)
    /\ absPC' \in ImemAddr => Opcode(prog[absPC']) \in {"HLT", "ERROR"}
    /\ UNCHANGED <<prog, absGpr, absNzcv, mem, io, absStatus>>

\* A load from address 0 behind which a return waits halts the machine, by way
\* of P_ERROR, before it is performed; the register the instruction before it
\* was about to write keeps its value.
ReturnOverNullLoad ==
    /\ done = Stages /\ LoadedReturn
    /\ absStatus = "AOK" /\ absPC \in ImemAddr
    /\ absInstr.op = "LDUR"
    /\ AddSum(Sequential!RegVal(Src1(absInstr, "LDUR")), Imm(absInstr, "LDUR"), 0) = NULL_ADDR
    /\ absStatus' = "HLT" /\ absPC' = 0
    /\ absGpr' = Overlay(gpr, wOut)
    /\ UNCHANGED <<prog, absNzcv, mem, io>>

\* While the fetch stage reads the data through the cache, it sets dmem_status
\* for the memory stage as well: the store in M may take effect and not be
\* completed, and be repeated; or, if F runs after M, an instruction is completed,
\* or taken back, with no effect but on one register and on where the run goes on;
\* and behind a load that was taken back BR and BLR may go astray.
DataFetchDisturbance ==
    /\ CACHED /\ SelectPC \in CacheableAddr
    /\ \/ /\ UNCHANGED <<absPC, absGpr, absNzcv, absStatus>>
          /\ mOut.dmem_write
          /\ mem' \in {mem, [mem EXCEPT ![mOut.val_ex] = mOut.val_b]}
          /\ io' \in {io, Append(io, mOut.val_b)}
       \/ /\ UNCHANGED <<mem, io>>
          /\ \/ "M" \in done
             \/ EC /\ absPC \in ImemAddr /\ absInstr.op \in IndirectBranches
          /\ \E r \in Regs : \A s \in Regs \ {r} : absGpr'[s] = absGpr[s]
    /\ UNCHANGED prog

KnownDivergence ==
    \/ FaultDisturbance \/ ReturnOverNullLoad \/ DataFetchDisturbance
    \/ LoadedBranch \/ LostCorrection

\* Every step of the pipeline, for every program, is a step of the sequential
\* machine or one of these: in particular no register changes from an address
\* fault on, and no other use of a stale operand or of a wrong path is left.
DivergesOnlyAsKnown ==
    Sequential!Init /\ [][Sequential!Step \/ KnownDivergence]_absVars

\* The instruction whose status ends the loop, and the PC the guest is left
\* with ("PC of the excepting instruction", proc.c).
ExceptionPC(how) ==
    done = Stages /\ ended' = "loop" /\ status' = how => PC' = wOut.pc

\* After an undefined instruction the guest's PC is its address.
UndefinedInstrPC == [][ExceptionPC("INS")]_vars

\* After an address fault the guest's PC is the address of the access.
AddressFaultPC == [][ExceptionPC("ADR")]_vars

\* An instruction behind one that raised an exception never updates NZCV.
NoFlagsBehindException ==
    [][ (absStatus \in {"INS", "ADR"}) => nzcv' = nzcv ]_vars

=============================================================================
