--------------------------- MODULE PipelineProof ---------------------------
(***************************************************************************)
(* Proofs about the pipeline, for every word width, program, memory, cache *)
(* behaviour and order of the stages: its control; the ALU; the values in  *)
(* the data path, and the address an undefined instruction leaves; and     *)
(* that it implements the sequential machine but for the divergences that  *)
(* DivergesOnlyAsKnown names.                                              *)
(***************************************************************************)
EXTENDS PipelineCorrect, BitsProof

----------------------------------------------------------------------------
(* The inductive invariant.  What a stage leaves in its input register is   *)
(* tied to the output register it read, once the stage has run in the       *)
(* cycle.                                                                   *)

Live == Status \ {"ADR"}
Mute == {"NOP", "HLT", "ERROR"}

\* A squashed instruction is one of the operations that do nothing, with every
\* control signal off.
InertD(d) == d.status \in Squashed => d.op \in Mute
InertX(x) == x.status \in Squashed =>
                 /\ x.op \in Mute /\ ~x.set_flags
                 /\ ~x.dmem_read /\ ~x.dmem_write /\ ~x.w_enable
InertM(m) == m.status \in Squashed =>
                 m.op \in Mute /\ ~m.dmem_read /\ ~m.dmem_write /\ ~m.w_enable
InertW(w) == w.status \in Squashed => ~w.w_enable

OutputsInert == InertD(dOut) /\ InertX(xOut) /\ InertM(mOut) /\ InertW(wOut)

FetchDone ==
    "F" \in done =>
        /\ InertD(dIn) /\ dIn.status \in Live
        /\ dIn.status \in Stop => fIn.status \in Stop
        /\ dOut.status \in Stop => dIn.status \in Stop
DecodeDone ==
    "D" \in done =>
        /\ InertX(xIn) /\ xIn.status = dOut.status /\ xIn.op = dOut.op
ExecuteDone ==
    "X" \in done =>
        /\ InertM(mIn) /\ mIn.status = xOut.status /\ mIn.op = xOut.op
        /\ xOut.status \in Squashed => ~X_set_flags
MemoryDoneInv ==
    "M" \in done /\ ended # "exit" =>
        /\ InertW(wIn) /\ wIn.status \in Status
        /\ wIn.status \in Stop => mOut.status \in Stop

\* Once a register-indirect jump is in X, or a mispredicted branch in M, what
\* was fetched behind it is gone.
RedirectSquashes ==
    /\ IndirectInX => dOut.status = "BUB"
    /\ MispredInM  => dOut.status = "BUB" /\ xOut.status = "BUB"

\* The input registers are records whose fields the clock may rewrite.
Records ==
    /\ fIn = [pred_PC |-> fIn.pred_PC, status |-> fIn.status]
    /\ xIn = [x \in DOMAIN XBubble |-> xIn[x]]

\* Another cycle starts only below the limit.
BelowLimit == ended = "" => num_instr < CYCLE_MAX

IInv == /\ Records /\ TypeOK /\ BelowLimit /\ OutputsInert /\ RedirectSquashes
        /\ OnlyStopsBehindAStop /\ FetchDone /\ DecodeDone /\ ExecuteDone
        /\ MemoryDoneInv

----------------------------------------------------------------------------
LEMMA InitIInv == Init => IInv
<1> SUFFICES ASSUME Init PROVE IInv
  OBVIOUS
<1> USE DEF Init
<1>1. Records
  BY DEF Records, FBubble, XBubble
<1>0. BelowLimit
  <2>1. num_instr = 0
    OBVIOUS
  <2>2. CYCLE_MAX \in Nat \ {0}
    BY PipelineAssumption
  <2>3. 0 < CYCLE_MAX
    <3> HIDE DEF Init
    <3> QED  BY <2>2
  <2> QED  BY <2>1, <2>3 DEF BelowLimit
<1>2. TypeOK
  <2>1. num_instr \in 0 .. CYCLE_MAX
    <3>1. num_instr = 0
      OBVIOUS
    <3>2. CYCLE_MAX \in Nat
      BY PipelineAssumption
    <3> HIDE DEF Init
    <3> QED  BY <3>1, <3>2
  <2>2. /\ fIn.status = "BUB" /\ dOut.status = "BUB" /\ xOut.status = "BUB"
        /\ mOut.status = "BUB" /\ wOut.status = "BUB"
    BY DEF FBubble, DBubble, XBubble, MBubble, WBubble
  <2>3. done \in SUBSET Stages
    OBVIOUS
  <2> QED  BY <2>1, <2>2, <2>3 DEF TypeOK, Status
<1>3. OutputsInert
  BY DEF OutputsInert, InertD, InertX, InertM, InertW, Mute, DBubble, XBubble,
         MBubble, WBubble
<1>4. RedirectSquashes /\ OnlyStopsBehindAStop
  BY DEF RedirectSquashes, OnlyStopsBehindAStop, DBubble, XBubble, MBubble, WBubble,
         Stop
<1>5. FetchDone /\ DecodeDone /\ ExecuteDone /\ MemoryDoneInv
  BY DEF FetchDone, DecodeDone, ExecuteDone, MemoryDoneInv
<1> QED  BY <1>0, <1>1, <1>2, <1>3, <1>4, <1>5 DEF IInv

----------------------------------------------------------------------------
(* The stages                                                              *)

LEMMA FetchIInv == IInv /\ Fetch => IInv'
<1> SUFFICES ASSUME IInv, Fetch PROVE IInv'
  OBVIOUS
<1> DEFINE pc == SelectPC
           halt == pc = 0 \/ FetchStatus \in {"HLT", "INS"}
           i == IF pc \in ImemAddr THEN prog[pc] ELSE NoInstr
           op == IF halt THEN "HLT" ELSE IF pc \in ImemAddr THEN Opcode(i) ELSE "ERROR"
           st == StatusOf(op)
<1>1. /\ done' = done \cup {"F"} /\ ended' = ended
      /\ fIn' = [fIn EXCEPT !.status = IF st = "AOK" THEN FetchStatus ELSE st]
      /\ dIn'.op = op /\ dIn'.status = st
      /\ dmem_status' \in {"READY", "IN_FLIGHT"}
  BY DEF Fetch, Turn, IInv, TypeOK
<1>2. UNCHANGED <<prog, dOut, xOut, mOut, wOut, xIn, mIn, wIn, X_set_flags, status,
                  num_instr>>
  BY DEF Fetch, guest
<1>3. st \in {"AOK", "HLT", "INS"} /\ (halt => st = "HLT") /\ (st # "AOK" => op \in Mute)
  BY DEF StatusOf, Mute
<1>4. FetchStatus \in Live
  BY DEF FetchStatus, IInv, TypeOK, Live, Status
<1>5. fIn'.status = IF st = "AOK" THEN FetchStatus ELSE st
  BY <1>1 DEF IInv, Records
<1>6. dOut.status \in Stop => halt
  <2> SUFFICES ASSUME dOut.status \in Stop PROVE FetchStatus \in Stop
    BY DEF Stop
  <2>1. ~IndirectInX /\ ~MispredInM
    BY DEF IInv, RedirectSquashes, Stop
  <2> QED  BY <2>1 DEF FetchStatus, IInv, OnlyStopsBehindAStop
<1> HIDE DEF pc, halt, i, op, st
<1>7. Records' /\ BelowLimit'
  BY <1>1, <1>2, <1>5 DEF IInv, Records, BelowLimit
<1>8. TypeOK'
  <2>1. fIn'.status \in Status \ {"ADR"}
    BY <1>3, <1>4, <1>5 DEF Live, Status
  <2>2. done' \in SUBSET Stages
    BY <1>1 DEF IInv, TypeOK, Stages
  <2> QED  BY <1>1, <1>2, <2>1, <2>2 DEF IInv, TypeOK
<1>9. OutputsInert' /\ RedirectSquashes'
  BY <1>2 DEF IInv, OutputsInert, RedirectSquashes, IndirectInX, MispredInM
<1>10. OnlyStopsBehindAStop'
  BY <1>2, <1>3, <1>5, <1>6 DEF IInv, OnlyStopsBehindAStop, Stop
<1>11. FetchDone'
  BY <1>1, <1>2, <1>3, <1>5, <1>6 DEF FetchDone, InertD, Squashed, Stop, Live, Status
<1>12. DecodeDone' /\ ExecuteDone' /\ MemoryDoneInv'
  BY <1>1, <1>2 DEF IInv, DecodeDone, ExecuteDone, MemoryDoneInv
<1> QED  BY <1>7, <1>8, <1>9, <1>10, <1>11, <1>12 DEF IInv

\* The signals the decode stage gives a squashed instruction.
LEMMA MuteSignals ==
    ASSUME NEW op \in Mute
    PROVE  /\ op \notin SET_FLAGS /\ op \notin DMEM_READ /\ op \notin DMEM_WRITE
           /\ op \notin W_ENABLE
BY DEF Mute, SET_FLAGS, DMEM_READ, DMEM_WRITE, W_ENABLE, FormatI1, FormatI2,
       FormatRI, FormatRR, CondSels

LEMMA DecodeIInv == IInv /\ Decode => IInv'
<1> SUFFICES ASSUME IInv, Decode PROVE IInv'
  OBVIOUS
<1> DEFINE op == dOut.op
<1>1. /\ done' = done \cup {"D"} /\ ended' = ended
      /\ xIn' = [x \in DOMAIN XBubble |-> xIn'[x]]
      /\ xIn'.op = op /\ xIn'.status = dOut.status
      /\ xIn'.set_flags = (op \in SET_FLAGS)
      /\ xIn'.dmem_read = (op \in DMEM_READ) /\ xIn'.dmem_write = (op \in DMEM_WRITE)
      /\ xIn'.w_enable = (op \in W_ENABLE)
  BY DEF Decode, Turn, XBubble
<1>2. UNCHANGED <<prog, dOut, xOut, mOut, wOut, fIn, dIn, mIn, wIn, X_set_flags,
                  status, dmem_status, num_instr>>
  BY DEF Decode, guest, pipeRegs
<1>3. InertX(xIn')
  BY <1>1, MuteSignals DEF IInv, OutputsInert, InertD, InertX
<1>4. Records' /\ BelowLimit'
  BY <1>1, <1>2 DEF IInv, Records, BelowLimit
<1>5. TypeOK'
  BY <1>1, <1>2 DEF IInv, TypeOK, Stages
<1>6. OutputsInert' /\ RedirectSquashes' /\ OnlyStopsBehindAStop'
  BY <1>2 DEF IInv, OutputsInert, RedirectSquashes, IndirectInX, MispredInM,
              OnlyStopsBehindAStop
<1>7. DecodeDone'
  BY <1>1, <1>2, <1>3 DEF DecodeDone
<1>8. FetchDone' /\ ExecuteDone' /\ MemoryDoneInv'
  BY <1>1, <1>2 DEF IInv, FetchDone, ExecuteDone, MemoryDoneInv
<1> QED  BY <1>4, <1>5, <1>6, <1>7, <1>8 DEF IInv

LEMMA ExecuteIInv == IInv /\ Execute => IInv'
<1> SUFFICES ASSUME IInv, Execute PROVE IInv'
  OBVIOUS
<1>1. /\ done' = done \cup {"X"} /\ ended' = ended
      /\ mIn'.op = xOut.op /\ mIn'.status = xOut.status
      /\ mIn'.dmem_read = xOut.dmem_read /\ mIn'.dmem_write = xOut.dmem_write
      /\ mIn'.w_enable = xOut.w_enable
      /\ X_set_flags' = xOut.set_flags
  BY DEF Execute, Turn
<1>2. UNCHANGED <<prog, dOut, xOut, mOut, wOut, fIn, dIn, xIn, wIn, status,
                  dmem_status, num_instr>>
  BY DEF Execute, guest, pipeRegs
<1>3. Records' /\ BelowLimit' /\ TypeOK'
  BY <1>1, <1>2 DEF IInv, Records, BelowLimit, TypeOK, Stages
<1>4. OutputsInert' /\ RedirectSquashes' /\ OnlyStopsBehindAStop'
  BY <1>2 DEF IInv, OutputsInert, RedirectSquashes, IndirectInX, MispredInM,
              OnlyStopsBehindAStop
<1>5. ExecuteDone'
  BY <1>1, <1>2 DEF IInv, OutputsInert, ExecuteDone, InertX, InertM
<1>6. FetchDone' /\ DecodeDone' /\ MemoryDoneInv'
  BY <1>1, <1>2 DEF IInv, FetchDone, DecodeDone, MemoryDoneInv
<1> QED  BY <1>3, <1>4, <1>5, <1>6 DEF IInv

LEMMA MemoryIInv == IInv /\ Memory => IInv'
<1> SUFFICES ASSUME IInv, Memory PROVE IInv'
  OBVIOUS
<1>1. /\ done' = done \cup {"M"}
      /\ ended' \in {ended, "exit"}
      /\ dmem_status' \in {"READY", "IN_FLIGHT"}
      /\ UNCHANGED <<dOut, xOut, mOut, wOut, fIn, dIn, xIn, mIn, X_set_flags, status,
                     num_instr>>
  BY DEF Memory, MemoryMiss, MemoryExit, MemoryDone, MemoryResult, Turn, guest,
         pipeRegs, IInv, TypeOK
<1>2. \/ ended' = "exit"
      \/ /\ wIn'.status = IF DmemErr THEN "ADR" ELSE mOut.status
         /\ wIn'.w_enable = mOut.w_enable
  BY DEF Memory, MemoryMiss, MemoryExit, MemoryDone, MemoryResult
<1>3. mOut.status \in Squashed => ~DmemErr
  BY DEF IInv, OutputsInert, InertM, DmemErr, Accesses
<1>0. BelowLimit'
  BY <1>1 DEF IInv, BelowLimit
<1>4. Records' /\ OutputsInert' /\ RedirectSquashes' /\ OnlyStopsBehindAStop'
  BY <1>1 DEF IInv, Records, OutputsInert, RedirectSquashes, IndirectInX, MispredInM,
              OnlyStopsBehindAStop
<1>5. TypeOK'
  <2>1. done' \in SUBSET Stages
    BY <1>1 DEF IInv, TypeOK, Stages
  <2> QED  BY <1>1, <2>1 DEF IInv, TypeOK
<1>6. MemoryDoneInv'
  <2> SUFFICES ASSUME wIn'.status = IF DmemErr THEN "ADR" ELSE mOut.status,
                      wIn'.w_enable = mOut.w_enable
               PROVE  /\ InertW(wIn') /\ wIn'.status \in Status
                      /\ wIn'.status \in Stop => mOut'.status \in Stop
    BY <1>1, <1>2 DEF MemoryDoneInv
  <2>1. InertW(wIn')
    BY DEF IInv, OutputsInert, InertM, InertW, Squashed
  <2> QED  BY <1>1, <2>1 DEF IInv, TypeOK, Status, Stop
<1>7. FetchDone' /\ DecodeDone' /\ ExecuteDone'
  BY <1>1 DEF IInv, FetchDone, DecodeDone, ExecuteDone
<1> QED  BY <1>0, <1>4, <1>5, <1>6, <1>7 DEF IInv

LEMMA WbackIInv == IInv /\ Wback => IInv'
<1> SUFFICES ASSUME IInv, Wback PROVE IInv'
  OBVIOUS
<1>1. /\ done' = done \cup {"W"}
      /\ UNCHANGED <<dOut, xOut, mOut, wOut, fIn, dIn, xIn, mIn, wIn, X_set_flags,
                     status, dmem_status, num_instr, ended>>
  BY DEF Wback, Turn, guest, pipeRegs
<1>2. TypeOK'
  <2>1. done' \in SUBSET Stages
    BY <1>1 DEF IInv, TypeOK, Stages
  <2> QED  BY <1>1, <2>1 DEF IInv, TypeOK
<1>3. /\ Records' /\ BelowLimit' /\ OutputsInert' /\ RedirectSquashes'
      /\ OnlyStopsBehindAStop'
  BY <1>1 DEF IInv, Records, BelowLimit, OutputsInert, RedirectSquashes, IndirectInX, MispredInM,
              OnlyStopsBehindAStop
<1>4. FetchDone' /\ DecodeDone' /\ ExecuteDone' /\ MemoryDoneInv'
  BY <1>1 DEF IInv, FetchDone, DecodeDone, ExecuteDone, MemoryDoneInv
<1> QED  BY <1>2, <1>3, <1>4 DEF IInv

----------------------------------------------------------------------------
(* The clock                                                               *)

\* What handle_hazards makes of the registers, with the cases that matter to
\* the invariant told apart.
LEMMA ClockLatches ==
    ASSUME Clock
    PROVE  /\ dmem_status = "IN_FLIGHT" =>
                  UNCHANGED <<dOut, xOut, mOut>> /\ wOut' = WBubble
           /\ dmem_status # "IN_FLIGHT" =>
                  /\ mOut' = mIn /\ wOut' = wIn
                  /\ load_use \/ mispred => xOut' = XBubble
                  /\ ~(load_use \/ mispred) => xOut' = xIn'
                  /\ load_use => dOut' \in {dOut, DBubble}
                  /\ ~load_use /\ (ret \/ mispred \/ ret_from_main \/ br \/ cb) =>
                         dOut' = DBubble
                  /\ ~load_use /\ ~(ret \/ mispred \/ ret_from_main \/ br \/ cb) =>
                         dOut' = dIn
<1> USE DEF Clock, Latch
<1>1. CASE dmem_status = "IN_FLIGHT"
  BY <1>1 DEF ctl
<1>2. CASE dmem_status # "IN_FLIGHT"
  <2>1. mOut' = mIn /\ wOut' = wIn
    BY <1>2 DEF ctl
  <2>2. xOut' = Latch(xCtl, xIn', xOut, XBubble)
    BY <1>2 DEF ctl
  <2>3. dOut' = Latch(dCtl, dIn, dOut, DBubble)
    BY <1>2 DEF ctl
  <2>4. /\ load_use \/ mispred => xOut' = XBubble
        /\ ~(load_use \/ mispred) => xOut' = xIn'
    BY <2>2 DEF xCtl, Ctl
  <2>5. load_use => dOut' \in {dOut, DBubble}
    BY <2>3 DEF dCtl, Ctl
  <2>6. ~load_use /\ (ret \/ mispred \/ ret_from_main \/ br \/ cb) => dOut' = DBubble
    BY <2>3 DEF dCtl, Ctl
  <2>7. ~load_use /\ ~(ret \/ mispred \/ ret_from_main \/ br \/ cb) => dOut' = dIn
    BY <2>3 DEF dCtl, Ctl
  <2> QED  BY <1>2, <2>1, <2>4, <2>5, <2>6, <2>7
<1> QED  BY <1>1, <1>2

\* A squashed instruction raises no hazard.
LEMMA MuteRaisesNoHazard ==
    /\ dOut.op \in Mute => ~(ret \/ ret_from_main \/ br \/ cb)
    /\ xOut.op \in Mute => ~(load_use \/ mispred)
BY DEF Mute, ret, ret_from_main, br, cb, load_use, mispred, IndirectBranches

LEMMA BubblesAreInert ==
    /\ InertD(DBubble) /\ InertX(XBubble) /\ InertM(MBubble) /\ InertW(WBubble)
    /\ DBubble.status = "BUB" /\ XBubble.status = "BUB" /\ WBubble.status = "BUB"
    /\ XBubble.op = "NOP"
BY DEF InertD, InertX, InertM, InertW, DBubble, XBubble, MBubble, WBubble, Mute

LEMMA ClockIInv == IInv /\ Clock => IInv'
<1> SUFFICES ASSUME IInv, Clock PROVE IInv'
  OBVIOUS
<1> DEFINE flight == dmem_status = "IN_FLIGHT"
           goes   == ~(ret \/ mispred \/ ret_from_main \/ br \/ cb)
<1>1. /\ done = Stages /\ done' = {} /\ ended = ""
      /\ ended' \in {"", "loop"}
      /\ UNCHANGED <<dIn, mIn, wIn, X_set_flags, dmem_status>>
      /\ fIn'.status = fIn.status
      /\ fIn' = [pred_PC |-> fIn'.pred_PC, status |-> fIn'.status]
  BY DEF Clock, IInv, Records
<1>2. /\ xIn'.status = xIn.status /\ xIn'.op = xIn.op
      /\ xIn'.set_flags = xIn.set_flags /\ xIn'.dmem_read = xIn.dmem_read
      /\ xIn'.dmem_write = xIn.dmem_write /\ xIn'.w_enable = xIn.w_enable
      /\ xIn' = [x \in DOMAIN XBubble |-> xIn'[x]]
  BY DEF Clock, IInv, Records, XBubble
<1>3. /\ InertD(dIn) /\ dIn.status \in Live
      /\ dIn.status \in Stop => fIn.status \in Stop
      /\ dOut.status \in Stop => dIn.status \in Stop
      /\ InertX(xIn') /\ xIn'.status = dOut.status /\ xIn'.op = dOut.op
      /\ InertM(mIn) /\ mIn.status = xOut.status /\ mIn.op = xOut.op
      /\ InertW(wIn) /\ wIn.status \in Status
      /\ wIn.status \in Stop => mOut.status \in Stop
  BY <1>1, <1>2 DEF IInv, FetchDone, DecodeDone, ExecuteDone, MemoryDoneInv, Stages, InertX
<1>4. /\ flight => UNCHANGED <<dOut, xOut, mOut>> /\ wOut' = WBubble
      /\ ~flight => mOut' = mIn /\ wOut' = wIn
      /\ ~flight /\ (load_use \/ mispred) => xOut' = XBubble
      /\ ~flight /\ ~(load_use \/ mispred) => xOut' = xIn'
      /\ ~flight /\ load_use => dOut' \in {dOut, DBubble}
      /\ ~flight /\ ~load_use /\ ~goes => dOut' = DBubble
      /\ ~flight /\ ~load_use /\ goes => dOut' = dIn
  BY ClockLatches
<1> HIDE DEF flight, goes
<1>5. Records'
  BY <1>1, <1>2 DEF Records
<1>6. TypeOK' /\ BelowLimit'
  <2>0. num_instr' = num_instr + 1
    BY DEF Clock
  <2>1. ended' = "" => num_instr' < CYCLE_MAX
    BY DEF Clock
  <2>2. CYCLE_MAX \in Nat /\ num_instr \in Nat /\ num_instr < CYCLE_MAX
    <3>1. num_instr \in 0 .. CYCLE_MAX /\ num_instr < CYCLE_MAX
      BY <1>1 DEF IInv, TypeOK, BelowLimit
    <3>2. CYCLE_MAX \in Nat
      BY PipelineAssumption
    <3> QED  BY <3>1, <3>2
  <2>3. num_instr' \in 0 .. CYCLE_MAX
    BY <2>0, <2>2
  <2>4. BelowLimit'
    BY <2>1 DEF BelowLimit
  <2>5. status' \in Status
    BY DEF Clock, IInv, TypeOK, Status
  <2>6. fIn'.status \in Live /\ dOut'.status \in Live
    BY <1>1, <1>3, <1>4, BubblesAreInert DEF IInv, TypeOK, Live, Status
  <2>7. xOut'.status \in Live /\ mOut'.status \in Live /\ wOut'.status \in Status
    BY <1>3, <1>4, BubblesAreInert DEF IInv, TypeOK, Live, Status
  <2>8. done' \in SUBSET Stages /\ dmem_status' \in {"READY", "IN_FLIGHT"}
    BY <1>1 DEF IInv, TypeOK
  <2> QED  BY <1>1, <2>3, <2>4, <2>5, <2>6, <2>7, <2>8 DEF TypeOK, Live
<1>7. OutputsInert'
  <2>1. InertD(dOut')
    BY <1>3, <1>4, BubblesAreInert DEF IInv, OutputsInert
  <2>2. InertX(xOut')
    BY <1>3, <1>4, BubblesAreInert DEF IInv, OutputsInert
  <2>3. InertM(mOut') /\ InertW(wOut')
    BY <1>3, <1>4, BubblesAreInert DEF IInv, OutputsInert
  <2> QED  BY <2>1, <2>2, <2>3 DEF OutputsInert
<1>8. RedirectSquashes'
  <2>1. CASE flight
    BY <1>4, <2>1 DEF IInv, RedirectSquashes, IndirectInX, MispredInM
  <2>2. CASE ~flight
    <3>1. ASSUME IndirectInX' PROVE dOut'.status = "BUB"
      <4>1. xOut' = xIn' /\ ~load_use
        BY <1>4, <2>2, <3>1, BubblesAreInert DEF IndirectInX, IndirectBranches
      <4>2. dOut.op = "RET" \/ dOut.op \in IndirectBranches
        BY <1>3, <3>1, <4>1 DEF IndirectInX
      <4>3. ~goes
        BY <4>2 DEF goes, ret, br
      <4> QED  BY <1>4, <2>2, <4>1, <4>3, BubblesAreInert
    <3>2. ASSUME MispredInM' PROVE dOut'.status = "BUB" /\ xOut'.status = "BUB"
      <4>1. mispred
        BY <1>3, <1>4, <2>2, <3>2 DEF MispredInM, mispred
      <4>2. ~load_use /\ ~goes
        BY <4>1 DEF mispred, load_use, goes
      <4> QED  BY <1>4, <2>2, <4>1, <4>2, BubblesAreInert
    <3> QED  BY <3>1, <3>2 DEF RedirectSquashes
  <2> QED  BY <2>1, <2>2
<1>9. OnlyStopsBehindAStop'
  <2>1. /\ wOut.status \in Stop => mOut.status \in Stop
        /\ mOut.status \in Stop => xOut.status \in Stop
        /\ xOut.status \in Stop => dOut.status \in Stop
        /\ dOut.status \in Stop => fIn.status \in Stop
    BY DEF IInv, OnlyStopsBehindAStop
  <2>2. "BUB" \notin Stop /\ Stop \subseteq Squashed
    BY DEF Stop, Squashed
  <2>3. dOut.status \in Stop /\ ~mispred => goes
    <3>1. dOut.status \in Stop => dOut.op \in Mute
      BY <2>2 DEF IInv, OutputsInert, InertD
    <3> QED  BY <3>1, MuteRaisesNoHazard DEF goes
  <2>4. xOut.status \in Stop => ~load_use /\ ~mispred
    BY <2>2, MuteRaisesNoHazard DEF IInv, OutputsInert, InertX
  <2>5. CASE flight
    BY <1>1, <1>4, <2>1, <2>2, <2>5, BubblesAreInert DEF OnlyStopsBehindAStop
  <2>6. CASE ~flight
    <3>1. wOut'.status \in Stop => mOut'.status \in Stop
      BY <1>3, <1>4, <2>1, <2>6
    <3>2. mOut'.status \in Stop => xOut'.status \in Stop
      BY <1>3, <1>4, <2>1, <2>4, <2>6
    <3>3. xOut'.status \in Stop => dOut'.status \in Stop
      BY <1>3, <1>4, <2>2, <2>3, <2>6, BubblesAreInert
    <3>4. dOut'.status \in Stop => fIn'.status \in Stop
      BY <1>1, <1>3, <1>4, <2>1, <2>2, <2>6, BubblesAreInert
    <3> QED  BY <3>1, <3>2, <3>3, <3>4 DEF OnlyStopsBehindAStop
  <2> QED  BY <2>5, <2>6
<1>10. FetchDone' /\ DecodeDone' /\ ExecuteDone' /\ MemoryDoneInv'
  BY <1>1 DEF FetchDone, DecodeDone, ExecuteDone, MemoryDoneInv
<1> QED  BY <1>5, <1>6, <1>7, <1>8, <1>9, <1>10 DEF IInv

LEMMA StepIInv == IInv /\ [Next]_vars => IInv'
<1> SUFFICES ASSUME IInv, [Next]_vars PROVE IInv'
  OBVIOUS
<1>1. CASE UNCHANGED vars
  <2> USE <1>1 DEF vars, IInv
  <2>1. Records' /\ TypeOK' /\ BelowLimit'
    BY DEF Records, TypeOK, BelowLimit
  <2>2. OutputsInert' /\ RedirectSquashes' /\ OnlyStopsBehindAStop'
    BY DEF OutputsInert, RedirectSquashes, IndirectInX, MispredInM, OnlyStopsBehindAStop
  <2>3. FetchDone' /\ DecodeDone'
    BY DEF FetchDone, DecodeDone
  <2>4. ExecuteDone' /\ MemoryDoneInv'
    BY DEF ExecuteDone, MemoryDoneInv
  <2> QED  BY <2>1, <2>2, <2>3, <2>4
<1> QED  BY <1>1, FetchIInv, DecodeIInv, ExecuteIInv, MemoryIInv, WbackIInv, ClockIInv
         DEF Next

THEOREM Invariant == Spec => []IInv
  BY InitIInv, StepIInv, PTL DEF Spec

----------------------------------------------------------------------------
(* The theorems                                                            *)

\* Every status, the cycle count and the turn of the stages keep their ranges.
THEOREM TypeCorrect == Spec => []TypeOK
<1>1. IInv => TypeOK
  BY DEF IInv
<1> QED  BY <1>1, Invariant, PTL

\* Behind an instruction that stops the machine every stage holds a stop, for
\* every program, cache and order of the stages.
THEOREM OnlyStopsBehindAStopAlways == Spec => []OnlyStopsBehindAStop
<1>1. IInv => OnlyStopsBehindAStop
  BY DEF IInv
<1> QED  BY <1>1, Invariant, PTL

\* No bubble and no stop carries a signal that could change the guest.
THEOREM SquashedIsInertAlways == Spec => []SquashedIsInert
<1>1. IInv => SquashedIsInert
  BY DEF IInv, OutputsInert, InertX, InertM, InertW, SquashedIsInert
<1> QED  BY <1>1, Invariant, PTL

\* Halts and undefined instructions are precise in every build of the pipeline.
THEOREM HaltIsPreciseAlways == Spec => HaltIsPrecise
<1> DEFINE Precise ==
        /\ {mOut.status, wOut.status} \cap Stop # {} => UNCHANGED <<nzcv, mem, io>>
        /\ wOut.status \in Stop => UNCHANGED gpr
<1>1. IInv /\ [Next]_vars => [Precise]_vars
  <2> SUFFICES ASSUME IInv, Next PROVE Precise
    OBVIOUS
  <2>1. CASE Fetch
    BY <2>1 DEF Fetch, guest
  <2>2. CASE Decode
    BY <2>2 DEF Decode, guest
  <2>3. CASE Execute
    BY <2>3 DEF Execute, guest
  <2>4. CASE Memory
    <3>1. UNCHANGED <<gpr, nzcv>>
      BY <2>4 DEF Memory, MemoryMiss, MemoryExit, MemoryDone, MemoryResult, guest
    <3>2. ASSUME mOut.status \in Stop PROVE UNCHANGED <<mem, io>>
      <4>1. ~mOut.dmem_read /\ ~mOut.dmem_write
        BY <3>2 DEF IInv, OutputsInert, InertM, Stop, Squashed
      <4> QED  BY <2>4, <4>1 DEF Memory, MemoryMiss, MemoryExit, MemoryDone, Accesses, guest
    <3> QED  BY <3>1, <3>2 DEF IInv, OnlyStopsBehindAStop
  <2>5. CASE Wback
    BY <2>5 DEF Wback, guest
  <2>6. CASE Clock
    <3>1. UNCHANGED <<mem, io>>
      BY <2>6 DEF Clock
    <3>2. ASSUME mOut.status \in Stop PROVE UNCHANGED nzcv
      <4>1. ~X_set_flags
        BY <2>6, <3>2 DEF Clock, IInv, OnlyStopsBehindAStop, ExecuteDone, Stages, Stop,
                          Squashed
      <4> QED  BY <2>6, <4>1 DEF Clock
    <3>3. ASSUME wOut.status \in Stop PROVE UNCHANGED gpr
      <4>1. ~WriteBack
        BY <3>3 DEF WriteBack, Stop
      <4> QED  BY <2>6, <4>1 DEF Clock
    <3> QED  BY <3>1, <3>2, <3>3 DEF IInv, OnlyStopsBehindAStop
  <2> QED  BY <2>1, <2>2, <2>3, <2>4, <2>5, <2>6 DEF Next
<1>2. Spec => [][Precise]_vars
  <2> HIDE DEF Precise
  <2> QED  BY <1>1, Invariant, PTL DEF Spec
<1> QED  BY <1>2 DEF HaltIsPrecise

\* In every state, a register is asked to bubble and to stall at once only when
\* a RET waits for the load of an address that looks like the return from the
\* start function.
THEOREM ConflictOnlyAtLoadedReturnAlways == ConflictOnlyAtLoadedReturn
<1> SUFFICES ASSUME NEW s \in Stages, ctl[s] = "P_ERROR", dmem_status # "IN_FLIGHT"
             PROVE  load_use /\ ret_from_main
  BY DEF ConflictOnlyAtLoadedReturn, ctl, Stages
<1>1. fCtl = "P_ERROR" \/ dCtl = "P_ERROR" \/ xCtl = "P_ERROR"
  BY DEF ctl, Stages
<1>2. CASE fCtl = "P_ERROR"
  BY <1>2 DEF fCtl, Ctl, ret, br, ret_from_main, IndirectBranches
<1>3. CASE dCtl = "P_ERROR"
  BY <1>3 DEF dCtl, Ctl, load_use, mispred, br, cb
<1>4. CASE xCtl = "P_ERROR"
  BY <1>4 DEF xCtl, Ctl
<1> QED  BY <1>1, <1>2, <1>3, <1>4

----------------------------------------------------------------------------
(* The data path.  Every value in it is a word: the operations on words    *)
(* are closed, and the values come from the program, from memory and from  *)
(* the operations.                                                         *)

WordsD(d) == d.i \in Instr /\ d.mp \in Word /\ d.pc \in Word
WordsX(x) ==
    /\ x.mp \in Word /\ x.val_a \in Word /\ x.val_b \in Word /\ x.val_imm \in Word
    /\ x.pc \in Word /\ x.val_hw \in Nat
WordsM(m) == m.mp \in Word /\ m.val_b \in Word /\ m.val_ex \in Word /\ m.pc \in Word
WordsW(w) == w.val_ex \in Word /\ w.val_mem \in Word /\ w.pc \in Word

GuestWords ==
    /\ prog \in [ImemAddr -> Instr] /\ gpr \in [Regs -> Word] /\ mem \in [Word -> Word]
FetchWords ==
    /\ fOut = [pred_PC |-> fOut.pred_PC, status |-> fOut.status]
    /\ fOut.pred_PC \in Word /\ F_PC \in Word /\ M_PC \in Word /\ W_wval \in Word
OutputWords == WordsD(dOut) /\ WordsX(xOut) /\ WordsM(mOut) /\ WordsW(wOut)
InputWords  == WordsD(dIn) /\ WordsX(xIn) /\ WordsM(mIn) /\ WordsW(wIn)

Values == GuestWords /\ FetchWords /\ OutputWords /\ InputWords

(* Undefined instructions.  Behind one there are halts only, it carries    *)
(* the address after its own, and from the cycle in which it is in M its   *)
(* own address is in F_PC.                                                 *)

CarriesNext(x) == x.status = "INS" => x.mp = Wrap(x.pc + 1)

HaltsBehind ==
    /\ wOut.status = "INS" => mOut.status = "HLT"
    /\ mOut.status = "INS" => xOut.status = "HLT"
    /\ xOut.status = "INS" => dOut.status = "HLT"
    /\ "F" \in done /\ dOut.status = "INS" => dIn.status = "HLT"

AddressKept ==
    /\ CarriesNext(dOut) /\ CarriesNext(xOut) /\ CarriesNext(mOut)
    /\ "F" \in done => CarriesNext(dIn)
    /\ "D" \in done => xIn.mp = dOut.mp /\ xIn.pc = dOut.pc
    /\ "X" \in done => mIn.mp = xOut.mp /\ mIn.pc = xOut.pc

AddressFetched ==
    /\ "M" \in done /\ ended # "exit" =>
          /\ wIn.pc = mOut.pc
          /\ mOut.status \in Stop => wIn.status = mOut.status
          /\ mOut.status = "INS" => F_PC = mOut.pc
    /\ wOut.status = "INS" => F_PC = wOut.pc

EInv == IInv /\ Values /\ HaltsBehind /\ AddressKept /\ AddressFetched

\* Register numbers are those of the register file, or XZR.
LEMMA RegisterNumbers ==
    ASSUME NEW i \in Instr, NEW op
    PROVE  /\ Src1(i, op) \in 0 .. XZR_NUM /\ Src2(i, op) \in 0 .. XZR_NUM
           /\ Dst(i, op) \in 0 .. XZR_NUM
<1>1. /\ i.rd \in 0 .. SP_NUM /\ i.rn \in 0 .. SP_NUM /\ i.rm \in 0 .. SP_NUM
  BY DEF Instr
<1>2. \A n \in 0 .. SP_NUM : \A z : FixReg(n, z) \in 0 .. XZR_NUM
  BY DEF FixReg, SP_NUM, XZR_NUM
<1>3. XZR_NUM \in 0 .. XZR_NUM /\ LINK \in 0 .. XZR_NUM
  BY DEF XZR_NUM, LINK
<1>4. Dst(i, op) \in 0 .. XZR_NUM
  BY <1>1, <1>2, <1>3 DEF Dst
<1>5. Src1(i, op) \in 0 .. XZR_NUM
  BY <1>1, <1>2, <1>3 DEF Src1
<1>6. Src2(i, op) \in 0 .. XZR_NUM
  BY <1>1, <1>2, <1>3, <1>4 DEF Src2
<1> QED  BY <1>4, <1>5, <1>6


----------------------------------------------------------------------------
(* Words                                                                   *)

\* There are words, and 0 is one.
LEMMA ModulusIsPositive == Modulus \in Nat /\ 0 < Modulus /\ 0 \in Word
<1>1. Modulus \in Nat \ {0}
  BY WidthAssumption, Pow2Values DEF Modulus
<1> QED  BY <1>1 DEF Word

\* Reduction modulo the word size yields a word.
LEMMA WrapIsWord ==
    ASSUME NEW n \in Int
    PROVE  Wrap(n) \in Word
<1>1. Modulus \in Nat /\ 0 < Modulus
  BY ModulusIsPositive
<1> QED  BY <1>1 DEF Wrap, Word

\* A cell of the adder, given what the cells below it have left.
Cell(a, b, i, below) ==
    LET ones == Bit(a, i - 1) + Bit(b, i - 1) + below.c_out
    IN  [s |-> below.s + (ones % 2) * Pow2[i - 1], c_out |-> ones \div 2]

\* The adder, unfolded.
LEMMA RcaValues ==
    ASSUME NEW a \in Nat, NEW b \in Nat, NEW cin \in {0, 1}
    PROVE  /\ \A i \in Nat : Rca(a, b, cin)[i] \in [s : Nat, c_out : {0, 1}]
           /\ Rca(a, b, cin)[0] = [s |-> 0, c_out |-> cin]
           /\ \A i \in Nat \ {0} : Rca(a, b, cin)[i] = Cell(a, b, i, Rca(a, b, cin)[i - 1])
<1> DEFINE R == [s : Nat, c_out : {0, 1}]
           first == [s |-> 0, c_out |-> cin]
           p == [n \in Nat |-> IF n = 0 THEN 0 ELSE n - 1]
           G == [n \in Nat |-> [r \in R |-> IF n = 0 THEN r ELSE Cell(a, b, n, r)]]
           Body(f) == [i \in Nat |-> IF i = 0 THEN first
                                     ELSE LET below == f[i - 1]
                                              ones  == Bit(a, i - 1) + Bit(b, i - 1) + below.c_out
                                          IN  [s |-> below.s + (ones % 2) * Pow2[i - 1],
                                               c_out |-> ones \div 2]]
           rca == Rca(a, b, cin)
<1>1. p \in [Nat -> Nat] /\ \A n \in Nat \ {0} : p[n] = n - 1 /\ n - 1 \in Nat /\ p[n] < n
  OBVIOUS
<1>2. ASSUME NEW n \in Nat \ {0}, NEW r \in R PROVE Cell(a, b, n, r) \in R
  <2> DEFINE ones == Bit(a, n - 1) + Bit(b, n - 1) + r.c_out
  <2>1. n - 1 \in Nat
    OBVIOUS
  <2>2. Bit(a, n - 1) \in {0, 1} /\ Bit(b, n - 1) \in {0, 1} /\ Pow2[n - 1] \in Nat
    BY <2>1, NextBit
  <2>3. ones \in 0 .. 3
    BY <2>2
  <2> HIDE DEF ones
  <2>4. ones \div 2 \in {0, 1} /\ ones % 2 \in {0, 1}
    BY <2>3
  <2>5. (ones % 2) * Pow2[n - 1] \in Nat
    BY <2>2, <2>4
  <2>6. r.s + (ones % 2) * Pow2[n - 1] \in Nat
    BY <2>5
  <2> QED  BY <2>4, <2>6 DEF Cell, ones
<1>3. first \in R
  OBVIOUS
<1>4. G \in [Nat -> [R -> R]] /\ \A n \in Nat \ {0} : \A r \in R : G[n][r] = Cell(a, b, n, r)
  BY <1>2
<1> HIDE DEF p, G, R, first
<1>5. IsRecursion(Nat, p, R, first, G)
  BY <1>1, <1>3, <1>4 DEF IsRecursion
<1>6. PICK F : IsSolution(Nat, p, R, first, G, F)
  BY <1>5, Recursion
<1>7. /\ F \in [Nat -> R] /\ F[0] = first
      /\ \A n \in Nat \ {0} : F[n] = Cell(a, b, n, F[n - 1])
  <2>1. F \in [Nat -> R] /\ F[0] = first /\ \A n \in Nat \ {0} : F[n] = G[n][F[p[n]]]
    BY <1>6 DEF IsSolution
  <2>2. ASSUME NEW n \in Nat \ {0} PROVE F[n] = Cell(a, b, n, F[n - 1])
    <3>1. p[n] = n - 1 /\ F[n - 1] \in R
      BY <1>1, <2>1
    <3> QED  BY <3>1, <2>1, <1>4
  <2> QED  BY <2>1, <2>2
<1>8. F = Body(F)
  BY <1>7 DEF Cell
<1> HIDE DEF Body, rca
<1>9. rca = CHOOSE f : f = Body(f)
  BY DEF rca, Rca, Body, first
<1>10. rca = Body(rca)
  BY <1>8, <1>9
<1>11. rca[0] = first /\ \A n \in Nat \ {0} : rca[n] = Cell(a, b, n, rca[n - 1])
  BY <1>10 DEF Body, Cell
<1> DEFINE T == {n \in Nat : rca[n] \in R}
<1>12. ASSUME NEW n \in Nat, \A m \in Nat : m < n => m \in T PROVE n \in T
  <2>1. CASE n = 0
    BY <2>1, <1>3, <1>11
  <2>2. CASE n # 0
    <3>1. n - 1 \in Nat /\ n - 1 < n
      BY <2>2
    <3>2. rca[n - 1] \in R
      BY <3>1, <1>12
    <3> QED  BY <3>2, <2>2, <1>2, <1>11
  <2> QED  BY <2>1, <2>2
<1> HIDE DEF T
<1>13. Nat \subseteq T
  BY <1>12, StrongInduction
<1>14. \A n \in Nat : rca[n] \in R
  BY <1>13 DEF T
<1> QED  BY <1>11, <1>14 DEF rca, R, first

\* The cells below cell i add the lowest i bits, and pass on the carry.
LEMMA CellsAdd ==
    ASSUME NEW a \in Nat, NEW b \in Nat, NEW cin \in {0, 1}
    PROVE  \A i \in Nat :
              LET r == Rca(a, b, cin)[i]
              IN  /\ r.s \in 0 .. Pow2[i] - 1 /\ r.c_out \in {0, 1}
                  /\ r.s + r.c_out * Pow2[i] = (a % Pow2[i]) + (b % Pow2[i]) + cin
<1> DEFINE Adds(r, i) ==
               /\ r.s \in 0 .. Pow2[i] - 1 /\ r.c_out \in {0, 1}
               /\ r.s + r.c_out * Pow2[i] = (a % Pow2[i]) + (b % Pow2[i]) + cin
           rca == Rca(a, b, cin)
           T == {i \in Nat : Adds(rca[i], i)}
<1>0. /\ \A i \in Nat : rca[i] \in [s : Nat, c_out : {0, 1}]
      /\ rca[0] = [s |-> 0, c_out |-> cin]
      /\ \A i \in Nat \ {0} : rca[i] = Cell(a, b, i, rca[i - 1])
  BY RcaValues
<1> HIDE DEF rca
<1>1. ASSUME NEW i \in Nat, \A k \in Nat : k < i => k \in T PROVE i \in T
  <2>1. CASE i = 0
    <3>1. Pow2[0] = 1 /\ a % 1 = 0 /\ b % 1 = 0
      BY Pow2Values
    <3>2. Adds([s |-> 0, c_out |-> cin], 0)
      BY <3>1
    <3> QED  BY <3>2, <2>1, <1>0
  <2>2. CASE i # 0
    <3> DEFINE j == i - 1
               P == Pow2[j]
               A == Bit(a, j)
               B == Bit(b, j)
               x == a % P
               y == b % P
               s == rca[j].s
               c == rca[j].c_out
               ones == A + B + c
    <3>1. j \in Nat /\ j < i /\ i = j + 1
      BY <2>2
    <3>2. /\ A \in {0, 1} /\ B \in {0, 1} /\ P \in Nat \ {0} /\ Pow2[i] = 2 * P
          /\ a % Pow2[i] = x + A * P /\ b % Pow2[i] = y + B * P
      BY <3>1, NextBit
    <3>3. s \in 0 .. P - 1 /\ c \in {0, 1} /\ s + c * P = x + y + cin
      BY <3>1, <1>1
    <3>4. rca[i] = [s |-> s + (ones % 2) * P, c_out |-> ones \div 2]
      BY <2>2, <1>0 DEF Cell
    <3>5. x \in Nat /\ y \in Nat
      <4> HIDE DEF P
      <4> QED  BY <3>2
    <3> HIDE DEF P, A, B, x, y, s, c, T
    <3>6. ones \in 0 .. 3
      BY <3>2, <3>3
    <3> DEFINE u == ones % 2
               v == ones \div 2
    <3>7. u \in {0, 1} /\ v \in {0, 1} /\ 2 * v + u = ones
      BY <3>6
    <3> HIDE DEF u, v, ones
    <3>8. s + u * P \in 0 .. 2 * P - 1
      <4>1. u * P = 0 \/ u * P = P
        BY <3>2, <3>7
      <4> QED  BY <4>1, <3>2, <3>3
    <3>9. (s + u * P) + v * (2 * P) = (x + A * P) + (y + B * P) + cin
      <4>1. u * P + v * (2 * P) = (2 * v + u) * P
        BY <3>2, <3>7
      <4>2. (2 * v + u) * P = A * P + B * P + c * P
        BY <3>2, <3>3, <3>7 DEF ones
      <4>3. u * P \in Nat /\ v * (2 * P) \in Nat /\ A * P \in Nat /\ B * P \in Nat /\ c * P \in Nat
        BY <3>2, <3>3, <3>7
      <4> QED  BY <4>1, <4>2, <4>3, <3>3, <3>5
    <3>10. Adds(rca[i], i)
      BY <3>2, <3>4, <3>7, <3>8, <3>9 DEF u, v
    <3> QED  BY <3>10 DEF T
  <2> QED  BY <2>1, <2>2
<1> HIDE DEF T
<1>2. Nat \subseteq T
  BY <1>1, StrongInduction
<1> QED  BY <1>2 DEF T, rca

\* What the adder leaves is the sum, modulo the size of a word, and its last
\* carry says whether the sum is a word.
THEOREM AdderAdds ==
    ASSUME NEW a \in Word, NEW b \in Word, NEW cin \in {0, 1}
    PROVE  /\ AddSum(a, b, cin) = Wrap(a + b + cin)
           /\ AddSum(a, b, cin) \in Word
           /\ AddCarry(a, b, cin) <=> a + b + cin >= Modulus
<1> DEFINE M == Modulus
           s == Rca(a, b, cin)[WIDTH].s
           c == Rca(a, b, cin)[WIDTH].c_out
<1>1. M \in Nat \ {0} /\ a \in 0 .. M - 1 /\ b \in 0 .. M - 1
  BY ModulusIsPositive DEF Word
<1>2. s \in 0 .. M - 1 /\ c \in {0, 1} /\ s + c * M = (a % M) + (b % M) + cin
  BY <1>1, WidthAssumption, CellsAdd DEF Modulus
<1>3. AddSum(a, b, cin) = s /\ (AddCarry(a, b, cin) <=> c = 1)
  BY DEF AddSum, AddCarry
<1> HIDE DEF M, s, c
<1>4. a % M = a /\ b % M = b
  BY <1>1
<1>5. s + c * M = a + b + cin
  BY <1>2, <1>4
<1>6. (a + b + cin) % M = s
  <2>1. c \in Nat /\ c * M \in Nat /\ c * M + s = a + b + cin
    BY <1>1, <1>2, <1>5
  <2>2. (c * M + s) % M = s
    BY <2>1, <1>1, <1>2, Division
  <2> QED  BY <2>1, <2>2
<1>7. c = 1 <=> a + b + cin >= M
  <2>1. (c * M = 0 /\ c = 0) \/ (c * M = M /\ c = 1)
    BY <1>1, <1>2
  <2> QED  BY <2>1, <1>1, <1>2, <1>5
<1> QED  BY <1>2, <1>3, <1>6, <1>7 DEF Wrap, Word, M

\* The other operations on bits yield words.
LEMMA WordsAreClosed ==
    \A a, b \in Word :
       /\ And(a, b) \in Word /\ Or(a, b) \in Word /\ Xor(a, b) \in Word
       /\ \A n \in Nat : ShiftRight(a, n) \in Word
<1> SUFFICES ASSUME NEW a \in Word, NEW b \in Word
             PROVE  /\ And(a, b) \in Word /\ Or(a, b) \in Word /\ Xor(a, b) \in Word
                    /\ \A n \in Nat : ShiftRight(a, n) \in Word
  OBVIOUS
<1> DEFINE M == Modulus
           m == BitAnd[a][b]
<1>1. M \in Nat \ {0} /\ a \in 0 .. M - 1 /\ b \in 0 .. M - 1 /\ a \in Nat /\ b \in Nat
  BY ModulusIsPositive DEF Word
<1>2. m \in Nat /\ m <= a /\ m <= b
  BY <1>1, BitAndBound
<1>3. Or(a, b) \in 0 .. M - 1
  BY <1>1, WidthAssumption, OrBelow DEF Modulus
<1>4. And(a, b) = m /\ Or(a, b) = a + b - m /\ Xor(a, b) = a + b - 2 * m
  BY DEF And, Or, Xor
<1> HIDE DEF M, m
<1>5. And(a, b) \in 0 .. M - 1 /\ Xor(a, b) \in 0 .. M - 1
  BY <1>1, <1>2, <1>3, <1>4
<1>6. ASSUME NEW n \in Nat PROVE ShiftRight(a, n) \in 0 .. M - 1
  <2> DEFINE P == Pow2[n]
             q == a \div P
  <2>1. P \in Nat \ {0}
    BY Pow2Values
  <2>2. q \in Nat /\ a % P \in 0 .. P - 1 /\ a = q * P + (a % P)
    <3> HIDE DEF P
    <3> QED  BY <2>1, <1>1, DivisionInverse
  <2>3. ShiftRight(a, n) = q
    BY DEF ShiftRight
  <2> HIDE DEF P, q
  <2>4. q <= q * P /\ q * P \in Nat
    BY <2>1, <2>2
  <2> QED  BY <2>1, <2>2, <2>3, <2>4, <1>1
<1> QED  BY <1>3, <1>5, <1>6 DEF Word, M

----------------------------------------------------------------------------
(* What the flags say                                                      *)

\* The number a word stands for in two's complement.
Signed(x) == IF Negative(x) THEN x - Modulus ELSE x

\* The signed numbers a word can stand for.
SignedWord == -Pow2[WIDTH - 1] .. Pow2[WIDTH - 1] - 1

\* The highest bit is the sign.
LEMMA SignBit ==
    ASSUME NEW x \in Word
    PROVE  /\ Pow2[WIDTH - 1] \in Nat \ {0} /\ Modulus = 2 * Pow2[WIDTH - 1]
           /\ x \in 0 .. 2 * Pow2[WIDTH - 1] - 1
           /\ Negative(x) <=> x >= Pow2[WIDTH - 1]
<1> DEFINE i == WIDTH - 1
           P == Pow2[i]
           b == Bit(x, i)
<1>1. i \in Nat /\ i + 1 = WIDTH /\ x \in Nat /\ x \in 0 .. Modulus - 1
  BY WidthAssumption, ModulusIsPositive DEF Word
<1>2. b \in {0, 1} /\ P \in Nat \ {0} /\ Modulus = 2 * P /\ x % Modulus = (x % P) + b * P
  BY <1>1, NextBit DEF Modulus
<1>3. Negative(x) <=> b = 1
  BY DEF Negative
<1> HIDE DEF i, P, b
<1>4. x % P \in 0 .. P - 1 /\ x % Modulus = x
  BY <1>1, <1>2
<1>5. (b = 0 /\ b * P = 0) \/ (b = 1 /\ b * P = P)
  BY <1>2
<1> QED  BY <1>1, <1>2, <1>3, <1>4, <1>5 DEF i, P

\* An addition's flags: C says whether the unsigned sum is too large for a word,
\* V whether the signed one is, and N, without V, is its sign.
THEOREM AdditionFlags ==
    ASSUME NEW a \in Word, NEW b \in Word, NEW f
    PROVE  LET flags == AluFlags("PLUS_OP", a, b, f, TRUE)
               sum   == Signed(a) + Signed(b)
           IN  /\ flags \in Flags
               /\ flags.Z <=> Wrap(a + b) = 0
               /\ flags.C <=> a + b >= Modulus
               /\ flags.V <=> sum \notin SignedWord
               /\ (flags.N <=> flags.V) <=> sum >= 0
<1> DEFINE r == AddSum(a, b, 0)
           H == Pow2[WIDTH - 1]
           flags == AluFlags("PLUS_OP", a, b, f, TRUE)
<1>1. r = Wrap(a + b) /\ r \in Word /\ (AddCarry(a, b, 0) <=> a + b >= Modulus)
  <2>1. a \in Int /\ b \in Int /\ a + b + 0 = a + b
    BY ModulusIsPositive DEF Word
  <2> QED  BY <2>1, AdderAdds
<1>2. AluValue("PLUS_OP", a, b, 0, f, "AL") = r
  BY DEF AluValue
<1>3. flags = [N |-> Negative(r), Z |-> r = 0, C |-> AddCarry(a, b, 0),
               V |-> Negative(a) = Negative(b) /\ Negative(r) # Negative(a)]
  BY <1>2 DEF AluFlags
<1>4. /\ H \in Nat \ {0} /\ Modulus = 2 * H
      /\ a \in 0 .. 2 * H - 1 /\ (Negative(a) <=> a >= H)
      /\ b \in 0 .. 2 * H - 1 /\ (Negative(b) <=> b >= H)
      /\ (Negative(r) <=> r >= H)
  BY <1>1, SignBit
<1>5. /\ Signed(a) = IF a >= H THEN a - 2 * H ELSE a
      /\ Signed(b) = IF b >= H THEN b - 2 * H ELSE b
  BY <1>4 DEF Signed
<1>6. r = IF a + b >= 2 * H THEN a + b - 2 * H ELSE a + b
  <2> HIDE DEF r, H
  <2> QED  BY <1>1, <1>4 DEF Wrap
<1>7. SignedWord = -H .. H - 1
  BY DEF SignedWord
<1>8. /\ flags \in Flags
      /\ (flags.N <=> Negative(r)) /\ (flags.Z <=> r = 0) /\ (flags.C <=> AddCarry(a, b, 0))
      /\ flags.V <=> (Negative(a) <=> Negative(b)) /\ ~(Negative(r) <=> Negative(a))
  <2> DEFINE n == Negative(r)
             z == r = 0
             c == AddCarry(a, b, 0)
             v == Negative(a) = Negative(b) /\ Negative(r) # Negative(a)
  <2>1. flags = [N |-> n, Z |-> z, C |-> c, V |-> v]
    BY <1>3
  <2>2. /\ n \in BOOLEAN /\ z \in BOOLEAN /\ c \in BOOLEAN /\ v \in BOOLEAN
        /\ Negative(a) \in BOOLEAN /\ Negative(b) \in BOOLEAN
    BY DEF Negative, AddCarry
  <2>3. v <=> (Negative(a) <=> Negative(b)) /\ ~(n <=> Negative(a))
    <3> HIDE DEF r, flags
    <3> QED  BY <2>2, Zenon
  <2> HIDE DEF r, flags, n, z, c, v
  <2>4. flags \in Flags
    BY <2>1, <2>2 DEF Flags
  <2>5. flags.N = n /\ flags.Z = z /\ flags.C = c /\ flags.V = v
    BY <2>1
  <2> QED  BY <2>3, <2>4, <2>5, Zenon DEF n, z, c, v
<1> HIDE DEF r, H, flags
<1>9. /\ (a >= H <=> b >= H) /\ ~(r >= H <=> a >= H) <=> Signed(a) + Signed(b) \notin -H .. H - 1
      /\ (r >= H <=> Signed(a) + Signed(b) \notin -H .. H - 1) <=> Signed(a) + Signed(b) >= 0
  <2> DEFINE x == Signed(a)
             y == Signed(b)
  <2> HIDE DEF x, y
  <2>1. x = (IF a >= H THEN a - 2 * H ELSE a) /\ y = (IF b >= H THEN b - 2 * H ELSE b)
    BY <1>5 DEF x, y
  <2>2. /\ (a >= H <=> b >= H) /\ ~(r >= H <=> a >= H) <=> x + y \notin -H .. H - 1
        /\ (r >= H <=> x + y \notin -H .. H - 1) <=> x + y >= 0
    <3>1. CASE a >= H /\ b >= H
      BY <2>1, <1>4, <1>6, <3>1
    <3>2. CASE a >= H /\ b < H
      BY <2>1, <1>4, <1>6, <3>2
    <3>3. CASE a < H /\ b >= H
      BY <2>1, <1>4, <1>6, <3>3
    <3>4. CASE a < H /\ b < H
      BY <2>1, <1>4, <1>6, <3>4
    <3>5. a \in Int /\ b \in Int /\ H \in Int
      BY <1>4
    <3> QED  BY <3>1, <3>2, <3>3, <3>4, <3>5
  <2> QED  BY <2>2 DEF x, y
<1>10. /\ flags.Z <=> Wrap(a + b) = 0
       /\ flags.C <=> a + b >= Modulus
       /\ flags.V <=> Signed(a) + Signed(b) \notin SignedWord
       /\ (flags.N <=> flags.V) <=> Signed(a) + Signed(b) >= 0
  BY <1>1, <1>4, <1>7, <1>8, <1>9
<1> QED  BY <1>8, <1>10 DEF flags

\* A subtraction's flags: C says whether there was no borrow, V whether the signed
\* difference is too large for a word, and N, without V, is its sign.
THEOREM SubtractionFlags ==
    ASSUME NEW a \in Word, NEW b \in Word, NEW f
    PROVE  LET flags == AluFlags("MINUS_OP", a, b, f, TRUE)
           IN  /\ flags \in Flags
               /\ flags.Z <=> a = b
               /\ flags.C <=> a >= b
               /\ flags.V <=> Signed(a) - Signed(b) \notin SignedWord
               /\ (flags.N <=> flags.V) <=> Signed(a) >= Signed(b)
<1> DEFINE r == AddSum(a, Not(b), 1)
           H == Pow2[WIDTH - 1]
           flags == AluFlags("MINUS_OP", a, b, f, TRUE)
<1>0. /\ a \in Int /\ b \in Int /\ Modulus \in Int
      /\ Not(b) \in Word /\ a + Not(b) + 1 = a - b + Modulus
  BY ModulusIsPositive DEF Word, Not
<1>1. r = Wrap(a - b + Modulus) /\ r \in Word
      /\ (AddCarry(a, Not(b), 1) <=> a - b + Modulus >= Modulus)
  BY <1>0, AdderAdds
<1>2. AluValue("MINUS_OP", a, b, 0, f, "AL") = r
  BY DEF AluValue
<1>3. flags = [N |-> Negative(r), Z |-> r = 0, C |-> AddCarry(a, Not(b), 1),
               V |-> Negative(a) # Negative(b) /\ Negative(r) # Negative(a)]
  BY <1>2 DEF AluFlags
<1>4. /\ H \in Nat \ {0} /\ Modulus = 2 * H
      /\ a \in 0 .. 2 * H - 1 /\ (Negative(a) <=> a >= H)
      /\ b \in 0 .. 2 * H - 1 /\ (Negative(b) <=> b >= H)
      /\ (Negative(r) <=> r >= H)
  BY <1>1, SignBit
<1>5. /\ Signed(a) = IF a >= H THEN a - 2 * H ELSE a
      /\ Signed(b) = IF b >= H THEN b - 2 * H ELSE b
  BY <1>4 DEF Signed
<1>6. r = IF a >= b THEN a - b ELSE a - b + 2 * H
  <2> HIDE DEF r, H
  <2> QED  BY <1>1, <1>4 DEF Wrap
<1>7. SignedWord = -H .. H - 1
  BY DEF SignedWord
<1>8. /\ flags \in Flags
      /\ (flags.N <=> Negative(r)) /\ (flags.Z <=> r = 0) /\ (flags.C <=> AddCarry(a, Not(b), 1))
      /\ flags.V <=> ~(Negative(a) <=> Negative(b)) /\ ~(Negative(r) <=> Negative(a))
  <2> DEFINE n == Negative(r)
             z == r = 0
             c == AddCarry(a, Not(b), 1)
             v == Negative(a) # Negative(b) /\ Negative(r) # Negative(a)
  <2>1. flags = [N |-> n, Z |-> z, C |-> c, V |-> v]
    BY <1>3
  <2>2. /\ n \in BOOLEAN /\ z \in BOOLEAN /\ c \in BOOLEAN /\ v \in BOOLEAN
        /\ Negative(a) \in BOOLEAN /\ Negative(b) \in BOOLEAN
    BY DEF Negative, AddCarry
  <2>3. v <=> ~(Negative(a) <=> Negative(b)) /\ ~(n <=> Negative(a))
    <3> HIDE DEF r, flags
    <3> QED  BY <2>2, Zenon
  <2> HIDE DEF r, flags, n, z, c, v
  <2>4. flags \in Flags
    BY <2>1, <2>2 DEF Flags
  <2>5. flags.N = n /\ flags.Z = z /\ flags.C = c /\ flags.V = v
    BY <2>1
  <2> QED  BY <2>3, <2>4, <2>5, Zenon DEF n, z, c, v
<1> HIDE DEF r, H, flags
<1>9. /\ ~(a >= H <=> b >= H) /\ ~(r >= H <=> a >= H) <=> Signed(a) - Signed(b) \notin -H .. H - 1
      /\ (r >= H <=> Signed(a) - Signed(b) \notin -H .. H - 1) <=> Signed(a) >= Signed(b)
  <2> DEFINE x == Signed(a)
             y == Signed(b)
  <2> HIDE DEF x, y
  <2>1. x = (IF a >= H THEN a - 2 * H ELSE a) /\ y = (IF b >= H THEN b - 2 * H ELSE b)
    BY <1>5 DEF x, y
  <2>2. /\ ~(a >= H <=> b >= H) /\ ~(r >= H <=> a >= H) <=> x - y \notin -H .. H - 1
        /\ (r >= H <=> x - y \notin -H .. H - 1) <=> x >= y
    <3>1. CASE a >= H /\ b >= H
      BY <2>1, <1>4, <1>6, <3>1
    <3>2. CASE a >= H /\ b < H
      BY <2>1, <1>4, <1>6, <3>2
    <3>3. CASE a < H /\ b >= H
      BY <2>1, <1>4, <1>6, <3>3
    <3>4. CASE a < H /\ b < H
      BY <2>1, <1>4, <1>6, <3>4
    <3>5. a \in Int /\ b \in Int /\ H \in Int
      BY <1>4
    <3> QED  BY <3>1, <3>2, <3>3, <3>4, <3>5
  <2> QED  BY <2>2 DEF x, y
<1>10. r = 0 <=> a = b
  BY <1>4, <1>6
<1>11. a - b + Modulus >= Modulus <=> a >= b
  BY <1>0
<1>12. /\ flags.Z <=> a = b
       /\ flags.C <=> a >= b
       /\ flags.V <=> Signed(a) - Signed(b) \notin SignedWord
       /\ (flags.N <=> flags.V) <=> Signed(a) >= Signed(b)
  BY <1>1, <1>4, <1>7, <1>8, <1>9, <1>10, <1>11
<1> QED  BY <1>8, <1>12 DEF flags

\* After a subtraction the conditions compare its operands: as signed numbers, or
\* as unsigned ones.
THEOREM ConditionsCompare ==
    ASSUME NEW a \in Word, NEW b \in Word, NEW f
    PROVE  LET Holds(cond) == CondHolds(cond, AluFlags("MINUS_OP", a, b, f, TRUE))
           IN  /\ Holds("EQ") <=> a = b
               /\ Holds("NE") <=> a # b
               /\ Holds("CS") <=> a >= b
               /\ Holds("CC") <=> a < b
               /\ Holds("HI") <=> a > b
               /\ Holds("LS") <=> a <= b
               /\ Holds("GE") <=> Signed(a) >= Signed(b)
               /\ Holds("LT") <=> Signed(a) < Signed(b)
               /\ Holds("GT") <=> Signed(a) > Signed(b)
               /\ Holds("LE") <=> Signed(a) <= Signed(b)
<1> DEFINE flags == AluFlags("MINUS_OP", a, b, f, TRUE)
<1>1. /\ flags \in Flags
      /\ flags.Z <=> a = b
      /\ flags.C <=> a >= b
      /\ (flags.N <=> flags.V) <=> Signed(a) >= Signed(b)
  BY SubtractionFlags
<1> HIDE DEF flags
<1>2. /\ flags.N \in BOOLEAN /\ flags.V \in BOOLEAN
      /\ (flags.N = flags.V) <=> (flags.N <=> flags.V)
  BY <1>1 DEF Flags
<1>3. a \in Int /\ b \in Int /\ Signed(a) \in Int /\ Signed(b) \in Int
  BY ModulusIsPositive DEF Word, Signed
<1>4. a = b <=> Signed(a) = Signed(b)
  <2> DEFINE M == Modulus
             H == Pow2[WIDTH - 1]
  <2>1. /\ H \in Nat \ {0} /\ M = 2 * H
        /\ a \in 0 .. 2 * H - 1 /\ (Negative(a) <=> a >= H)
        /\ b \in 0 .. 2 * H - 1 /\ (Negative(b) <=> b >= H)
    BY SignBit
  <2>2. /\ Signed(a) = IF a >= H THEN a - 2 * H ELSE a
        /\ Signed(b) = IF b >= H THEN b - 2 * H ELSE b
    BY <2>1 DEF Signed
  <2> HIDE DEF M, H
  <2> QED  BY <2>1, <2>2
<1>5. /\ CondHolds("EQ", flags) <=> flags.Z
      /\ CondHolds("NE", flags) <=> ~flags.Z
      /\ CondHolds("CS", flags) <=> flags.C
      /\ CondHolds("CC", flags) <=> ~flags.C
      /\ CondHolds("HI", flags) <=> flags.C /\ ~flags.Z
      /\ CondHolds("LS", flags) <=> ~flags.C \/ flags.Z
      /\ CondHolds("GE", flags) <=> flags.N = flags.V
      /\ CondHolds("LT", flags) <=> flags.N # flags.V
      /\ CondHolds("GT", flags) <=> ~flags.Z /\ flags.N = flags.V
      /\ CondHolds("LE", flags) <=> flags.Z \/ flags.N # flags.V
  BY DEF CondHolds
<1>6. /\ CondHolds("EQ", flags) <=> a = b
      /\ CondHolds("NE", flags) <=> a # b
      /\ CondHolds("CS", flags) <=> a >= b
      /\ CondHolds("CC", flags) <=> a < b
      /\ CondHolds("HI", flags) <=> a > b
      /\ CondHolds("LS", flags) <=> a <= b
  BY <1>1, <1>3, <1>5
<1>7. /\ CondHolds("GE", flags) <=> Signed(a) >= Signed(b)
      /\ CondHolds("LT", flags) <=> ~(Signed(a) >= Signed(b))
      /\ CondHolds("GT", flags) <=> a # b /\ Signed(a) >= Signed(b)
      /\ CondHolds("LE", flags) <=> a = b \/ ~(Signed(a) >= Signed(b))
  BY <1>1, <1>2, <1>5
<1>8. /\ CondHolds("LT", flags) <=> Signed(a) < Signed(b)
      /\ CondHolds("GT", flags) <=> Signed(a) > Signed(b)
      /\ CondHolds("LE", flags) <=> Signed(a) <= Signed(b)
  BY <1>3, <1>4, <1>7
<1> QED  BY <1>6, <1>7, <1>8 DEF flags

\* An arithmetic shift divides the signed number, rounding down: the copies of the
\* sign that the code makes by complementing twice are those of the quotient.
THEOREM ArithmeticShift ==
    ASSUME NEW a \in Word, NEW b \in Word, NEW hw, NEW f, NEW c
    PROVE  /\ AluValue("ASR_OP", a, b, hw, f, c) \in Word
           /\ Signed(AluValue("ASR_OP", a, b, hw, f, c)) = Signed(a) \div Pow2[b % WIDTH]
<1> DEFINE n == b % WIDTH
           P == Pow2[n]
           H == Pow2[WIDTH - 1]
           r == AluValue("ASR_OP", a, b, hw, f, c)
<1>1. n \in Nat
  <2>1. WIDTH \in Nat \ {0} /\ b \in Nat
    BY WidthAssumption, ModulusIsPositive DEF Word
  <2> QED  BY <2>1
<1>2. P \in Nat \ {0}
  BY <1>1, Pow2Values
<1>3. /\ H \in Nat \ {0} /\ Modulus = 2 * H
      /\ a \in 0 .. 2 * H - 1 /\ (Negative(a) <=> a >= H)
      /\ \A x \in 0 .. 2 * H - 1 : Negative(x) <=> x >= H
  BY SignBit DEF Word
<1>4. r = IF Negative(a) THEN Not(Not(a) \div P) ELSE a \div P
  BY DEF AluValue, ShiftRightSigned, ShiftRight
<1>5. \A x : Not(x) = 2 * H - 1 - x
  BY <1>3 DEF Not
<1>6. \A x : Signed(x) = IF Negative(x) THEN x - 2 * H ELSE x
  BY <1>3 DEF Signed
<1>7. Word = 0 .. 2 * H - 1
  BY <1>3 DEF Word
<1> SUFFICES r \in 0 .. 2 * H - 1 /\ Signed(r) = Signed(a) \div P
  BY <1>7
<1> HIDE DEF n, P, H, r
<1>8. ASSUME NEW x \in 0 .. H - 1
      PROVE  /\ x \div P \in 0 .. H - 1
             /\ (-1 - x) \div P = -1 - (x \div P)
  <2> DEFINE q == x \div P
             t == x % P
  <2>1. q \in Nat /\ t \in 0 .. P - 1 /\ x = q * P + t
    <3>1. x \in Nat
      BY <1>3
    <3> QED  BY <3>1, <1>2, DivisionInverse
  <2> HIDE DEF q, t
  <2>2. q <= q * P /\ q * P \in Nat
    BY <1>2, <2>1
  <2>3. q \in 0 .. H - 1
    BY <1>3, <2>1, <2>2
  <2>4. -1 - x = (-1 - q) * P + (P - 1 - t)
    BY <1>2, <2>1
  <2>5. P - 1 - t \in 0 .. P - 1 /\ -1 - q \in Int
    BY <1>2, <2>1
  <2>6. \A k \in Int, u \in 0 .. P - 1 : (k * P + u) \div P = k
    BY <1>2
  <2> QED  BY <2>3, <2>4, <2>5, <2>6 DEF q
<1>9. CASE a < H
  <2>1. a \in 0 .. H - 1 /\ ~Negative(a)
    BY <1>3, <1>9
  <2>2. r = a \div P /\ r \in 0 .. H - 1
    BY <2>1, <1>4, <1>8
  <2>3. r \in 0 .. 2 * H - 1 /\ ~Negative(r)
    BY <2>2, <1>3
  <2> QED  BY <2>1, <2>2, <2>3, <1>6
<1>10. CASE a >= H
  <2> DEFINE y == 2 * H - 1 - a
             q == y \div P
  <2>1. y \in 0 .. H - 1 /\ Negative(a) /\ Not(a) = y
    BY <1>3, <1>5, <1>10
  <2>2. q \in 0 .. H - 1 /\ (-1 - y) \div P = -1 - q
    BY <2>1, <1>8
  <2>3. r = 2 * H - 1 - q
    BY <2>1, <1>4, <1>5
  <2>4. -1 - y = a - 2 * H
    BY <1>3
  <2> HIDE DEF y, q
  <2>5. r \in 0 .. 2 * H - 1 /\ Negative(r)
    BY <2>2, <2>3, <1>3
  <2>6. r - 2 * H = -1 - q
    BY <2>2, <2>3, <1>3
  <2> QED  BY <2>1, <2>2, <2>4, <2>5, <2>6, <1>6
<1> QED  BY <1>3, <1>9, <1>10

----------------------------------------------------------------------------
(* What the stages compute is a word                                       *)

\* The address before the one after p is p.
LEMMA WrapBack ==
    ASSUME NEW p \in Word
    PROVE  Wrap(Wrap(p + 1) - 1) = p
<1> DEFINE m == Modulus
<1>1. m \in Nat /\ 0 < m /\ p \in 0 .. m - 1
  BY ModulusIsPositive DEF Word
<1>2. \A n : Wrap(n) = n % m
  BY DEF Wrap
<1> HIDE DEF m
<1>3. CASE p + 1 < m
  <2>1. (p + 1) % m = p + 1 /\ p % m = p
    BY <1>1, <1>3
  <2>2. (p + 1) - 1 = p
    BY <1>1
  <2> QED  BY <1>2, <2>1, <2>2
<1>4. CASE p + 1 = m
  <2>1. m % m = 0
    BY <1>1
  <2>2. (0 - 1) % m = m - 1
    BY <1>1
  <2>3. m - 1 = p
    BY <1>1, <1>4
  <2> QED  BY <1>2, <1>4, <2>1, <2>2, <2>3
<1> QED  BY <1>1, <1>3, <1>4

\* 1 is a word.
LEMMA OneIsWord == 1 \in Word
<1>1. Pow2[WIDTH - 1] \in Nat \ {0} /\ Modulus = 2 * Pow2[WIDTH - 1]
  BY SignBit, ModulusIsPositive
<1> QED  BY <1>1 DEF Word

\* Whatever the operation, the ALU yields a word.
LEMMA AluIsClosed ==
    ASSUME NEW op, NEW a \in Word, NEW b \in Word, NEW hw \in Nat, NEW f, NEW c
    PROVE  AluValue(op, a, b, hw, f, c) \in Word
<1>1. \A x \in Word : Not(x) \in Word /\ x \in Int
  BY ModulusIsPositive DEF Not, Word
<1>2. \A x, y \in Word : \A k \in {0, 1} : AddSum(x, y, k) \in Word
  BY AdderAdds
<1>3. \A x \in Word : AddSum(x, 1, 0) \in Word
  <2>1. 1 \in Word
    BY OneIsWord
  <2> QED  BY <2>1, <1>2
<1>4. \A x \in Int, n \in Nat : ShiftLeft(x, n) \in Word
  <2> SUFFICES ASSUME NEW x \in Int, NEW n \in Nat PROVE ShiftLeft(x, n) \in Word
    OBVIOUS
  <2>1. Pow2[n] \in Int
    BY Pow2Values
  <2>2. x * Pow2[n] \in Int
    BY <2>1
  <2> QED  BY <2>2, WrapIsWord DEF ShiftLeft
<1>5. b % WIDTH \in 0 .. WIDTH - 1 /\ b % WIDTH \in Nat
  <2>1. WIDTH \in Nat /\ 0 < WIDTH
    BY WidthAssumption
  <2>2. b \in Int
    BY <1>1
  <2>3. \A w \in Nat : 0 < w => b % w \in 0 .. w - 1 /\ b % w \in Nat
    BY <2>2
  <2> QED  BY <2>1, <2>3
<1>6. ShiftRight(a, b % WIDTH) \in Word /\ ShiftRightSigned(a, b % WIDTH) \in Word
  BY <1>1, <1>5, WordsAreClosed DEF ShiftRightSigned
<1>7. /\ ShiftLeft(b, hw) \in Word /\ ShiftLeft(Pow2[FIELD] - 1, hw) \in Word
      /\ ShiftLeft(a, b % WIDTH) \in Word
  <2>1. FIELD \in Nat
    BY WidthAssumption DEF FIELD
  <2>2. Pow2[FIELD] - 1 \in Int
    BY <2>1, Pow2Values
  <2> QED  BY <1>1, <1>4, <1>5, <2>2
<1>8. /\ Or(a, b) \in Word /\ Or(a, Not(b)) \in Word /\ Xor(a, b) \in Word /\ And(a, b) \in Word
      /\ Or(a, ShiftLeft(b, hw)) \in Word
      /\ Or(And(a, Not(ShiftLeft(Pow2[FIELD] - 1, hw))), ShiftLeft(b, hw)) \in Word
  BY <1>1, <1>7, WordsAreClosed
<1>9. Not(b) \in Word /\ AddSum(Not(b), 1, 0) \in Word /\ AddSum(b, 1, 0) \in Word
      /\ AddSum(a, b, 0) \in Word /\ AddSum(a, Not(b), 1) \in Word
  BY <1>1, <1>2, <1>3
<1> QED  BY <1>6, <1>7, <1>8, <1>9 DEF AluValue

\* The registers start with words in them, and a bubble holds words.
LEMMA NoInstrIsInstr == NoInstr \in Instr
BY DEF NoInstr, Instr, Ops, BaseOps, Conds, SP_NUM

LEMMA BubbleWords == WordsD(DBubble) /\ WordsX(XBubble) /\ WordsM(MBubble) /\ WordsW(WBubble)
BY ModulusIsPositive, NoInstrIsInstr
DEF WordsD, WordsX, WordsM, WordsW, DBubble, XBubble, MBubble, WBubble

\* The initial state satisfies the invariant.
LEMMA InitEInv == Init => EInv
<1> SUFFICES ASSUME Init PROVE EInv
  OBVIOUS
<1>1. IInv
  BY InitIInv
<1>2. GuestWords
  <2>1. prog \in [ImemAddr -> Instr] /\ mem \in [Word -> Word]
    BY PipelineAssumption DEF Init
  <2>2. STACK_SEG - 1 \in Word
    BY ModulusIsPositive, SegmentAssumption DEF Word
  <2>3. gpr \in [Regs -> Word]
    BY <2>2, ModulusIsPositive DEF Init
  <2> QED  BY <2>1, <2>3 DEF GuestWords
<1>3. FetchWords
  <2>1. TEXT_SEG \in Word
    BY ModulusIsPositive, SegmentAssumption DEF Word
  <2> QED  BY <2>1, ModulusIsPositive DEF Init, FetchWords
<1>4. OutputWords /\ InputWords
  BY BubbleWords DEF Init, OutputWords, InputWords
<1>5. HaltsBehind /\ AddressKept /\ AddressFetched
  BY DEF Init, HaltsBehind, AddressKept, AddressFetched, CarriesNext, DBubble, XBubble, MBubble,
         WBubble
<1> QED  BY <1>1, <1>2, <1>3, <1>4, <1>5 DEF EInv, Values

----------------------------------------------------------------------------
(* The stages                                                              *)

\* What a stage can see is a word.
LEMMA SelectedIsWord ==
    ASSUME Values
    PROVE  SelectPC \in Word
BY ModulusIsPositive
DEF Values, FetchWords, OutputWords, WordsX, WordsM, SelectPC

\* What fetch and decode compute from an address and an instruction are words.
LEMMA AddressWords ==
    ASSUME NEW p \in Word, NEW i \in Instr, NEW op
    PROVE  /\ Wrap(p + 1) \in Word /\ AdrpValue(p, i) \in Word /\ Predict(p, i, op) \in Word
           /\ Imm(i, op) \in Word
<1>1. p \in Int /\ i.imm \in Int
  BY ModulusIsPositive DEF Word, Instr
<1>2. FIELD \in Nat
  BY WidthAssumption DEF FIELD
<1>3. Pow2[FIELD] \in Int /\ p % Pow2[FIELD] \in Int
  <2>1. Pow2[FIELD] \in Int
    BY <1>2, Pow2Values
  <2>2. 0 < Pow2[FIELD]
    BY <1>2, Pow2Values
  <2>3. \A m \in Int : 0 < m => p % m \in Int
    BY <1>1
  <2> QED  BY <2>1, <2>2, <2>3
<1>4. (p - (p % Pow2[FIELD])) + i.imm * Pow2[FIELD] \in Int
  BY <1>1, <1>3
<1>5. p + 1 \in Int /\ p + i.imm \in Int
  BY <1>1
<1> QED  BY <1>1, <1>4, <1>5, WrapIsWord, ModulusIsPositive DEF AdrpValue, Predict, Imm

\* F delivers an undefined word with the address after it, and halts behind one.
LEMMA FetchEInv == EInv /\ Fetch => EInv'
<1> SUFFICES ASSUME EInv, Fetch PROVE EInv'
  OBVIOUS
<1> DEFINE pc == SelectPC
           halt == pc = 0 \/ FetchStatus \in {"HLT", "INS"}
           i == IF pc \in ImemAddr THEN prog[pc] ELSE NoInstr
           op == IF halt THEN "HLT" ELSE IF pc \in ImemAddr THEN Opcode(i) ELSE "ERROR"
           st == StatusOf(op)
<1>1. IInv' /\ IInv /\ Values
  BY FetchIInv DEF EInv
<1>2. /\ done' = done \cup {"F"} /\ ended' = ended
      /\ fOut' = [fOut EXCEPT !.status = st]
      /\ dIn' = [i |-> i, op |-> op, status |-> st, pc |-> pc,
                 mp |-> IF halt THEN dIn.mp
                        ELSE IF op = "ADRP" THEN AdrpValue(pc, i) ELSE Wrap(pc + 1)]
      /\ F_PC' = IF halt THEN F_PC ELSE Predict(pc, i, op)
      /\ UNCHANGED <<prog, dOut, xOut, mOut, wOut, xIn, mIn, wIn, M_PC, W_wval, gpr, mem>>
  BY DEF Fetch, Turn, guest
<1>3. i \in Instr /\ pc \in Word
  <2>1. prog \in [ImemAddr -> Instr]
    BY <1>1 DEF Values, GuestWords
  <2> QED  BY <1>1, <2>1, NoInstrIsInstr, SelectedIsWord
<1>4. st = "INS" => ~halt /\ op = "ERROR"
  BY DEF StatusOf
<1>5. dOut.status \in Stop => halt
  <2> SUFFICES ASSUME dOut.status \in Stop PROVE FetchStatus \in Stop
    BY DEF Stop
  <2>1. ~IndirectInX /\ ~MispredInM
    BY <1>1 DEF IInv, RedirectSquashes, Stop
  <2> QED  BY <1>1, <2>1 DEF FetchStatus, IInv, OnlyStopsBehindAStop
<1>6. halt => st = "HLT"
  BY DEF StatusOf
<1> HIDE DEF pc, halt, i, op, st
<1>7. dIn'.i = i /\ dIn'.pc = pc /\ dIn'.status = st
      /\ dIn'.mp = IF halt THEN dIn.mp
                   ELSE IF op = "ADRP" THEN AdrpValue(pc, i) ELSE Wrap(pc + 1)
  BY <1>2
<1>8. FetchWords'
  <2>1. fOut = [pred_PC |-> fOut.pred_PC, status |-> fOut.status]
    BY <1>1 DEF Values, FetchWords
  <2>2. fOut' = [pred_PC |-> fOut.pred_PC, status |-> st]
    BY <1>2, <2>1
  <2>3. F_PC' \in Word
    BY <1>1, <1>2, <1>3, AddressWords DEF Values, FetchWords
  <2> QED  BY <1>1, <1>2, <2>2, <2>3 DEF Values, FetchWords
<1>9. WordsD(dIn)'
  <2>1. dIn.mp \in Word
    BY <1>1 DEF Values, InputWords, WordsD
  <2> QED  BY <1>3, <1>7, <2>1, AddressWords DEF WordsD
<1>10. Values'
  BY <1>1, <1>2, <1>8, <1>9 DEF Values, GuestWords, OutputWords, InputWords, WordsX, WordsM, WordsW, WordsD
<1>11. HaltsBehind'
  BY <1>2, <1>5, <1>6, <1>7 DEF EInv, HaltsBehind, Stop
<1>12. AddressKept'
  BY <1>2, <1>4, <1>7 DEF EInv, AddressKept, CarriesNext
<1>13. AddressFetched'
  <2>1. mOut.status \in Stop \/ wOut.status \in Stop => F_PC' = F_PC
    BY <1>1, <1>2, <1>5 DEF IInv, OnlyStopsBehindAStop
  <2> QED  BY <1>2, <2>1 DEF EInv, AddressFetched, Stop
<1> QED  BY <1>1, <1>10, <1>11, <1>12, <1>13 DEF EInv

\* A register read yields a word.
LEMMA RegisterWords ==
    ASSUME Values, NEW r \in 0 .. XZR_NUM
    PROVE  RegRead(r) \in Word
<1>1. r # XZR_NUM => r \in Regs
  BY DEF Regs, SP_NUM, XZR_NUM
<1> QED  BY <1>1, ModulusIsPositive DEF Values, GuestWords, RegRead

\* D passes the address on, and reads words.
LEMMA DecodeEInv == EInv /\ Decode => EInv'
<1> SUFFICES ASSUME EInv, Decode PROVE EInv'
  OBVIOUS
<1>1. IInv' /\ IInv /\ Values
  BY DecodeIInv DEF EInv
<1>2. /\ done' = done \cup {"D"}
      /\ UNCHANGED <<prog, fOut, dOut, xOut, mOut, wOut, dIn, mIn, wIn, F_PC, M_PC, W_wval, gpr,
                     mem, ended>>
  BY DEF Decode, Turn, guest, pipeRegs
<1>3. /\ xIn'.mp = dOut.mp /\ xIn'.pc = dOut.pc
      /\ xIn'.val_a = RegRead(Src1(dOut.i, dOut.op)) /\ xIn'.val_b = RegRead(Src2(dOut.i, dOut.op))
      /\ xIn'.val_imm = Imm(dOut.i, dOut.op) /\ xIn'.val_hw = dOut.i.hw
  BY DEF Decode
<1>4. dOut.i \in Instr /\ dOut.mp \in Word /\ dOut.pc \in Word
  BY <1>1 DEF Values, OutputWords, WordsD
<1>5. WordsX(xIn)'
  <2>1. dOut.i.hw \in Nat
    BY <1>4 DEF Instr
  <2>2. Imm(dOut.i, dOut.op) \in Word
    BY <1>4, AddressWords
  <2> QED  BY <1>1, <1>3, <1>4, <2>1, <2>2, RegisterNumbers, RegisterWords DEF WordsX
<1>6. Values'
  BY <1>1, <1>2, <1>5 DEF Values, GuestWords, FetchWords, OutputWords, InputWords, WordsX, WordsM, WordsW, WordsD
<1>7. HaltsBehind' /\ AddressKept' /\ AddressFetched'
  BY <1>2, <1>3 DEF EInv, HaltsBehind, AddressKept, AddressFetched, CarriesNext
<1> QED  BY <1>1, <1>6, <1>7 DEF EInv

\* X passes the address on, and computes a word.
LEMMA ExecuteEInv == EInv /\ Execute => EInv'
<1> SUFFICES ASSUME EInv, Execute PROVE EInv'
  OBVIOUS
<1> DEFINE a == IF xOut.vala_sel THEN xOut.mp ELSE xOut.val_a
           b == IF xOut.valb_sel THEN xOut.val_b ELSE xOut.val_imm
<1>1. IInv' /\ IInv /\ Values
  BY ExecuteIInv DEF EInv
<1>2. /\ done' = done \cup {"X"}
      /\ UNCHANGED <<prog, fOut, dOut, xOut, mOut, wOut, dIn, xIn, wIn, F_PC, M_PC, W_wval, gpr,
                     mem, ended>>
  BY DEF Execute, Turn, guest, pipeRegs
<1>3. /\ mIn'.mp = xOut.mp /\ mIn'.pc = xOut.pc /\ mIn'.val_b = xOut.val_b
      /\ mIn'.val_ex = AluValue(xOut.ALU_op, a, b, xOut.val_hw, nzcv, xOut.cond)
  BY DEF Execute
<1>4. a \in Word /\ b \in Word /\ WordsX(xOut)
  BY <1>1 DEF Values, OutputWords, WordsX
<1> HIDE DEF a, b
<1>5. WordsM(mIn)'
  <2>1. AluValue(xOut.ALU_op, a, b, xOut.val_hw, nzcv, xOut.cond) \in Word
    BY <1>4, AluIsClosed DEF WordsX
  <2> QED  BY <1>3, <1>4, <2>1 DEF WordsM, WordsX
<1>6. Values'
  BY <1>1, <1>2, <1>5 DEF Values, GuestWords, FetchWords, OutputWords, InputWords, WordsX, WordsM, WordsW, WordsD
<1>7. HaltsBehind' /\ AddressKept' /\ AddressFetched'
  BY <1>2, <1>3 DEF EInv, HaltsBehind, AddressKept, AddressFetched, CarriesNext
<1> QED  BY <1>1, <1>6, <1>7 DEF EInv

\* W changes none of it.
LEMMA WbackEInv == EInv /\ Wback => EInv'
<1> SUFFICES ASSUME EInv, Wback PROVE EInv'
  OBVIOUS
<1>1. IInv' /\ IInv /\ Values
  BY WbackIInv DEF EInv
<1>2. /\ done' = done \cup {"W"}
      /\ W_wval' = IF wOut.wval_sel THEN wOut.val_mem ELSE wOut.val_ex
      /\ UNCHANGED <<prog, fOut, dOut, xOut, mOut, wOut, dIn, xIn, mIn, wIn, F_PC, M_PC, gpr,
                     mem, ended>>
  BY DEF Wback, Turn, guest, pipeRegs
<1>3. Values'
  BY <1>1, <1>2 DEF Values, GuestWords, FetchWords, OutputWords, InputWords, WordsX, WordsM, WordsW, WordsD
<1>4. HaltsBehind' /\ AddressKept' /\ AddressFetched'
  BY <1>2 DEF EInv, HaltsBehind, AddressKept, AddressFetched, CarriesNext
<1> QED  BY <1>1, <1>3, <1>4 DEF EInv

\* M delivers the address of the instruction it finds undefined in F_PC.
LEMMA MemoryEInv == EInv /\ Memory => EInv'
<1> SUFFICES ASSUME EInv, Memory PROVE EInv'
  OBVIOUS
<1>1. IInv' /\ IInv /\ Values /\ WordsM(mOut)
  BY MemoryIInv DEF EInv, Values, OutputWords
<1>2. /\ done' = done \cup {"M"}
      /\ UNCHANGED <<prog, fOut, dOut, xOut, mOut, wOut, dIn, xIn, mIn, W_wval, gpr>>
  BY DEF Memory, MemoryMiss, MemoryExit, MemoryDone, MemoryResult, Turn, guest, pipeRegs
<1>3. GuestWords'
  <2>1. mem \in [Word -> Word] /\ mOut.val_ex \in Word /\ mOut.val_b \in Word
    BY <1>1 DEF Values, GuestWords, WordsM
  <2>2. mem' \in {mem, [mem EXCEPT ![mOut.val_ex] = mOut.val_b]}
    BY DEF Memory, MemoryMiss, MemoryExit, MemoryDone, guest
  <2>3. mem' \in [Word -> Word]
    BY <2>1, <2>2
  <2> QED  BY <1>1, <1>2, <2>3 DEF Values, GuestWords
<1>4. ended' # "exit" =>
          \E r \in Word :
             LET st == IF DmemErr THEN "ADR" ELSE mOut.status
             IN  /\ wIn' = [op |-> mOut.op, status |-> st, pc |-> mOut.pc,
                            wval_sel |-> mOut.wval_sel, w_enable |-> mOut.w_enable,
                            dst |-> mOut.dst, val_ex |-> mOut.val_ex, val_mem |-> r]
                 /\ M_PC' = InstrPC
                 /\ F_PC' = IF st \in {"INS", "ADR"} THEN M_PC' ELSE F_PC
  <2> SUFFICES ASSUME ended' # "exit" PROVE \E r \in Word : MemoryResult(r)
    BY DEF MemoryResult
  <2>1. CASE MemoryMiss
    BY <2>1, ModulusIsPositive DEF MemoryMiss
  <2>2. CASE MemoryExit
    BY <2>2 DEF MemoryExit
  <2>3. CASE MemoryDone
    <3>1. mem[mOut.val_ex] \in Word
      BY <1>1 DEF Values, GuestWords, WordsM
    <3>2. INPUT \subseteq Word
      BY PipelineAssumption
    <3> QED  BY <2>3, <3>1, <3>2, ModulusIsPositive DEF MemoryDone
  <2> QED  BY <2>1, <2>2, <2>3 DEF Memory
<1>5. ended' = "exit" => UNCHANGED <<F_PC, M_PC, wIn>>
  <2>1. ended # "exit"
    BY DEF Memory, MemoryMiss, MemoryExit, MemoryDone, Turn
  <2> QED  BY <2>1 DEF Memory, MemoryMiss, MemoryExit, MemoryDone
<1>6. InstrPC \in Word
  <2>1. mOut.mp - 1 \in Int
    BY <1>1, ModulusIsPositive DEF WordsM, Word
  <2> QED  BY <2>1, WrapIsWord DEF InstrPC
<1>7. WordsW(wIn)' /\ M_PC' \in Word /\ F_PC' \in Word
  <2>1. CASE ended' = "exit"
    BY <1>1, <1>5, <2>1 DEF Values, InputWords, FetchWords, WordsW
  <2>2. CASE ended' # "exit"
    BY <1>1, <1>4, <1>6, <2>2 DEF Values, FetchWords, WordsM, WordsW
  <2> QED  BY <2>1, <2>2
<1>8. Values'
  <2>1. FetchWords' /\ InputWords'
    BY <1>1, <1>2, <1>7 DEF Values, FetchWords, InputWords, WordsX, WordsM, WordsD
  <2>2. OutputWords'
    BY <1>1, <1>2 DEF Values, OutputWords, WordsX, WordsM, WordsD, WordsW
  <2> QED  BY <1>3, <2>1, <2>2 DEF Values
<1>9. mOut.status \in Stop => ~DmemErr
  BY <1>1 DEF IInv, OutputsInert, InertM, DmemErr, Accesses, Stop, Squashed
<1>10. mOut.status = "INS" => InstrPC = mOut.pc
  <2> SUFFICES ASSUME mOut.status = "INS" PROVE InstrPC = mOut.pc
    OBVIOUS
  <2>1. mOut.mp = Wrap(mOut.pc + 1)
    BY DEF EInv, AddressKept, CarriesNext
  <2>2. mOut.pc \in Word
    BY <1>1 DEF WordsM
  <2> QED  BY <2>1, <2>2, WrapBack DEF InstrPC
<1>11. HaltsBehind' /\ AddressKept'
  BY <1>2 DEF EInv, HaltsBehind, AddressKept, CarriesNext
<1>12. AddressFetched'
  <2>1. ASSUME ended' # "exit"
        PROVE  /\ wIn'.pc = mOut.pc
               /\ mOut.status \in Stop => wIn'.status = mOut.status
               /\ mOut.status = "INS" => F_PC' = mOut.pc
    BY <1>4, <1>9, <1>10, <2>1 DEF Stop
  <2>2. wOut.status = "INS" => F_PC' = wOut.pc
    <3> SUFFICES ASSUME wOut.status = "INS" PROVE F_PC' = wOut.pc
      OBVIOUS
    <3>1. F_PC = wOut.pc /\ mOut.status = "HLT"
      BY DEF EInv, AddressFetched, HaltsBehind
    <3>2. F_PC' = F_PC
      BY <1>4, <1>5, <1>9, <3>1 DEF Stop
    <3> QED  BY <3>1, <3>2
  <2> QED  BY <1>2, <2>1, <2>2 DEF AddressFetched
<1> QED  BY <1>1, <1>8, <1>11, <1>12 DEF EInv

\* The clock hands on words, addresses and stops in order.
LEMMA ClockEInv == EInv /\ Clock => EInv'
<1> SUFFICES ASSUME EInv, Clock PROVE EInv'
  OBVIOUS
<1> DEFINE flight == dmem_status = "IN_FLIGHT"
           goes   == ~(ret \/ mispred \/ ret_from_main \/ br \/ cb)
<1>1. /\ IInv' /\ IInv /\ Values
      /\ WordsD(dOut) /\ WordsX(xOut) /\ WordsM(mOut) /\ WordsW(wOut)
      /\ WordsD(dIn) /\ WordsX(xIn) /\ WordsM(mIn) /\ WordsW(wIn)
  BY ClockIInv DEF EInv, Values, OutputWords, InputWords
<1>2. /\ done = Stages /\ done' = {} /\ ended = ""
      /\ F_PC' = CorrectedPC
      /\ UNCHANGED <<prog, dIn, mIn, wIn, M_PC, W_wval, mem>>
  BY DEF Clock
<1>3. /\ xIn'.mp = xIn.mp /\ xIn'.pc = xIn.pc /\ xIn'.status = xIn.status
      /\ xIn'.val_imm = xIn.val_imm /\ xIn'.val_hw = xIn.val_hw
      /\ xIn'.val_a = Forward(D_src1, xIn.val_a) /\ xIn'.val_b = Forward(D_src2, xIn.val_b)
  BY <1>1 DEF Clock, IInv, Records, XBubble
<1>4. /\ flight => UNCHANGED <<dOut, xOut, mOut>> /\ wOut' = WBubble
      /\ ~flight => mOut' = mIn /\ wOut' = wIn
      /\ ~flight /\ (load_use \/ mispred) => xOut' = XBubble
      /\ ~flight /\ ~(load_use \/ mispred) => xOut' = xIn'
      /\ ~flight /\ load_use => dOut' \in {dOut, DBubble}
      /\ ~flight /\ ~load_use /\ ~goes => dOut' = DBubble
      /\ ~flight /\ ~load_use /\ goes => dOut' = dIn
  BY ClockLatches
<1>5. CorrectedPC \in {F_PC, dOut.mp} /\ (dOut.status \in Stop => CorrectedPC = F_PC)
  <2>1. dOut.status \in Stop => dOut.op \in Mute
    BY <1>1 DEF IInv, OutputsInert, InertD, Stop, Squashed
  <2> QED  BY <2>1, MuteRaisesNoHazard DEF CorrectedPC
<1> HIDE DEF flight, goes
<1>6. FetchWords'
  <2>1. CorrectedPC \in Word
    BY <1>1, <1>5 DEF Values, FetchWords, WordsD
  <2>2. PICK p \in Word : fIn' = [fIn EXCEPT !.pred_PC = p]
    BY <1>1, <2>1 DEF Clock, Values, FetchWords
  <2>3. fIn = [pred_PC |-> fIn.pred_PC, status |-> fIn.status]
    BY <1>1 DEF IInv, Records
  <2>4. fIn' = [pred_PC |-> p, status |-> fIn.status]
    BY <2>2, <2>3
  <2>5. fOut' \in {fIn', fOut, FBubble}
    BY DEF Clock, Latch
  <2>6. fOut' = [pred_PC |-> fOut'.pred_PC, status |-> fOut'.status] /\ fOut'.pred_PC \in Word
    <3>1. CASE fOut' = fIn'
      BY <2>4, <3>1
    <3>2. CASE fOut' = fOut
      BY <1>1, <3>2 DEF Values, FetchWords
    <3>3. CASE fOut' = FBubble
      BY <3>3, ModulusIsPositive DEF FBubble
    <3> QED  BY <2>5, <3>1, <3>2, <3>3
  <2> QED  BY <1>1, <1>2, <2>1, <2>6 DEF Values, FetchWords
<1>7. WordsX(xIn)'
  <2>1. \A src : \A val \in Word : Forward(src, val) \in Word
    BY <1>1 DEF Forward, WordsX, WordsM, WordsW
  <2> QED  BY <1>1, <1>3, <2>1 DEF WordsX
<1>8. GuestWords'
  <2>1. gpr \in [Regs -> Word] /\ W_wval \in Word
    BY <1>1 DEF Values, GuestWords, FetchWords
  <2>2. gpr' \in {gpr, [gpr EXCEPT ![wOut.dst] = W_wval]}
    BY DEF Clock
  <2>3. gpr' \in [Regs -> Word]
    BY <2>1, <2>2
  <2> QED  BY <1>1, <1>2, <2>3 DEF Values, GuestWords
<1>9. OutputWords'
  <2>1. dOut' \in {dOut, dIn, DBubble} /\ xOut' \in {xOut, xIn', XBubble}
        /\ mOut' \in {mOut, mIn} /\ wOut' \in {wIn, WBubble}
    BY <1>4
  <2>2. WordsD(dOut)' /\ WordsM(mOut)' /\ WordsW(wOut)'
    BY <1>1, <2>1, BubbleWords DEF WordsD, WordsM, WordsW
  <2>3. WordsX(xOut)'
    BY <1>1, <1>7, <2>1, BubbleWords DEF WordsX
  <2> QED  BY <2>2, <2>3 DEF OutputWords
<1>10. InputWords'
  BY <1>1, <1>2, <1>7 DEF InputWords, WordsD, WordsM, WordsW
<1>11. /\ mIn.status = xOut.status /\ xIn.status = dOut.status
       /\ wIn.status \in Stop => mOut.status \in Stop
  BY <1>1, <1>2 DEF IInv, DecodeDone, ExecuteDone, MemoryDoneInv, Stages
<1>12. /\ mIn.mp = xOut.mp /\ mIn.pc = xOut.pc /\ xIn.mp = dOut.mp /\ xIn.pc = dOut.pc
       /\ CarriesNext(dOut) /\ CarriesNext(xOut) /\ CarriesNext(mOut) /\ CarriesNext(dIn)
  BY <1>2 DEF EInv, AddressKept, Stages
<1>13. wIn.status = "INS" => mOut.status = "INS" /\ F_PC = wIn.pc
  BY <1>2, <1>11 DEF EInv, AddressFetched, Stages, Stop
<1>14. /\ mOut.status = "INS" => xOut.status = "HLT"
       /\ xOut.status = "INS" => dOut.status = "HLT"
       /\ dOut.status = "INS" => dIn.status = "HLT"
  BY <1>2 DEF EInv, HaltsBehind, Stages
<1>15. /\ mOut.status = "INS" => dOut.status \in Stop
       /\ xOut.status \in Stop => ~load_use /\ ~mispred
       /\ dOut.status \in Stop /\ ~mispred => goes
  <2>1. dOut.status \in Stop => dOut.op \in Mute
    BY <1>1 DEF IInv, OutputsInert, InertD, Stop, Squashed
  <2>2. xOut.status \in Stop => xOut.op \in Mute
    BY <1>1 DEF IInv, OutputsInert, InertX, Stop, Squashed
  <2>3. mOut.status \in Stop => dOut.status \in Stop
    BY <1>1 DEF IInv, OnlyStopsBehindAStop
  <2> QED  BY <2>1, <2>2, <2>3, MuteRaisesNoHazard DEF goes, Stop
<1>16. HaltsBehind'
  <2>1. CASE flight
    BY <1>2, <1>4, <1>14, <2>1, BubblesAreInert DEF HaltsBehind
  <2>2. CASE ~flight
    <3>1. wOut'.status = "INS" => mOut'.status = "HLT"
      BY <1>4, <1>11, <1>13, <1>14, <2>2
    <3>2. mOut'.status = "INS" => xOut'.status = "HLT"
      BY <1>3, <1>4, <1>11, <1>14, <1>15, <2>2 DEF Stop
    <3>3. xOut'.status = "INS" => dOut'.status = "HLT"
      BY <1>3, <1>4, <1>11, <1>14, <1>15, <2>2, BubblesAreInert DEF Stop
    <3> QED  BY <1>2, <3>1, <3>2, <3>3 DEF HaltsBehind
  <2> QED  BY <2>1, <2>2
<1>17. AddressKept'
  <2>1. CarriesNext(dOut)'
    BY <1>4, <1>12, BubblesAreInert DEF CarriesNext
  <2>2. CarriesNext(xOut)'
    BY <1>3, <1>4, <1>11, <1>12, BubblesAreInert DEF CarriesNext
  <2>3. CarriesNext(mOut)'
    BY <1>4, <1>11, <1>12 DEF CarriesNext
  <2> QED  BY <1>2, <2>1, <2>2, <2>3 DEF AddressKept
<1>18. AddressFetched'
  <2>1. wOut'.status = "INS" => F_PC' = wOut'.pc
    BY <1>2, <1>4, <1>5, <1>13, <1>15, BubblesAreInert
  <2> QED  BY <1>2, <2>1 DEF AddressFetched
<1> QED  BY <1>1, <1>6, <1>8, <1>9, <1>10, <1>16, <1>17, <1>18 DEF EInv, Values

\* Every step keeps the invariant.
LEMMA StepEInv == EInv /\ [Next]_vars => EInv'
<1> SUFFICES ASSUME EInv, [Next]_vars PROVE EInv'
  OBVIOUS
<1>1. CASE UNCHANGED vars
  <2>1. IInv'
    BY StepIInv DEF EInv
  <2> USE <1>1 DEF vars, EInv
  <2>2. GuestWords' /\ FetchWords'
    BY DEF Values, GuestWords, FetchWords
  <2>3. OutputWords' /\ InputWords'
    BY DEF Values, OutputWords, InputWords, WordsD, WordsX, WordsM, WordsW
  <2>4. HaltsBehind' /\ AddressKept' /\ AddressFetched'
    BY DEF HaltsBehind, AddressKept, AddressFetched, CarriesNext
  <2> QED  BY <2>1, <2>2, <2>3, <2>4 DEF Values
<1> QED  BY <1>1, FetchEInv, DecodeEInv, ExecuteEInv, MemoryEInv, WbackEInv, ClockEInv
         DEF Next

\* Every step keeps the invariant, so it holds always.
THEOREM UndefinedInvariant == Spec => []EInv
  BY InitEInv, StepEInv, PTL DEF Spec

\* Every value in the pipeline registers, on the wires, in the register file
\* and in memory is a word, and every access of a stage falls in memory.
THEOREM DataPathTypeCorrect == Spec => []Values
<1>1. EInv => Values
  BY DEF EInv
<1> QED  BY <1>1, UndefinedInvariant, PTL

\* An undefined instruction leaves the guest's PC at its own address, in every
\* build of the pipeline: the halts behind it are what keeps F_PC from moving
\* on before the loop ends.
THEOREM UndefinedInstrPCAlways == Spec => UndefinedInstrPC
<1>1. EInv /\ [Next]_vars => [ExceptionPC("INS")]_vars
  <2> SUFFICES ASSUME EInv, Next PROVE ExceptionPC("INS")
    OBVIOUS
  <2>1. CASE Clock
    <3> SUFFICES ASSUME status' = "INS" PROVE PC' = wOut.pc
      BY DEF ExceptionPC
    <3>1. wOut.status = "INS"
      BY <2>1 DEF Clock
    <3>2. mOut.status = "HLT" /\ F_PC = wOut.pc
      BY <3>1 DEF EInv, HaltsBehind, AddressFetched
    <3>3. wIn.status = "HLT"
      BY <2>1, <3>2 DEF EInv, AddressFetched, Clock, Stages, Stop
    <3>4. dOut.op \in Mute
      BY <3>2 DEF EInv, IInv, OnlyStopsBehindAStop, OutputsInert, InertD, Stop, Squashed
    <3>5. CorrectedPC = F_PC
      BY <3>4, MuteRaisesNoHazard DEF CorrectedPC
    <3> QED  BY <2>1, <3>2, <3>3, <3>5 DEF Clock
  <2>2. CASE ~Clock
    <3>1. Fetch \/ Decode \/ Execute \/ Memory \/ Wback
      BY <2>2 DEF Next
    <3>2. \E s \in Stages : s \notin done
      BY <3>1 DEF Fetch, Decode, Execute, Memory, MemoryMiss, MemoryExit, MemoryDone, Wback,
                  Turn, Stages
    <3> QED  BY <3>2 DEF ExceptionPC
  <2> QED  BY <2>1, <2>2
<1> QED  BY <1>1, UndefinedInvariant, PTL DEF Spec, UndefinedInstrPC

----------------------------------------------------------------------------
(* The refinement.  The inductive invariant says of each pipeline register *)
(* that it holds what the instruction at its address would have there if   *)
(* the instructions before it had completed, and of the successive         *)
(* registers that they hold successive instructions.  Nothing is said once *)
(* the instruction in W ends the run.                                      *)

Alive == ended = "" /\ wOut.status \notin Terminal

RegAt(g, r) == IF r = XZR_NUM THEN 0 ELSE g[r]

\* Control that reaches p stops the machine, and may do so as undefined.
StopAt(p)  == p = 0 \/ p \notin ImemAddr \/ Opcode(prog[p]) \in {"HLT", "ERROR"}
UndefAt(p) == p # 0 /\ (p \notin ImemAddr \/ Opcode(prog[p]) = "ERROR")

\* If register x holds a stop, it is one of the program.
RealStop(x) ==
    /\ x.status = "HLT" => StopAt(x.pc)
    /\ x.status = "INS" => UndefAt(x.pc)

InText(p) == p \in ImemAddr /\ Opcode(prog[p]) \notin {"HLT", "ERROR"}

\* multipurpose_val, of the instruction i at p.
Carried(p, i, op) == IF op = "ADRP" THEN AdrpValue(p, i) ELSE Wrap(p + 1)

DecodedD(d) ==
    /\ InText(d.pc)
    /\ d.i = prog[d.pc] /\ d.op = Opcode(d.i) /\ d.mp = Carried(d.pc, d.i, d.op)

\* The signals memory and writeback stage need, and those of execute.
DecodedM(x, i, op) ==
    /\ x.op = op /\ x.mp = Carried(x.pc, i, op)
    /\ x.dmem_read = (op \in DMEM_READ) /\ x.dmem_write = (op \in DMEM_WRITE)
    /\ x.wval_sel = (op \in WVAL_SEL) /\ x.w_enable = (op \in W_ENABLE)
    /\ x.dst = Dst(i, op)

DecodedX(x, i, op) ==
    /\ DecodedM(x, i, op)
    /\ x.vala_sel = (op \in VALA_SEL) /\ x.valb_sel = (op \in VALB_SEL)
    /\ x.set_flags = (op \in SET_FLAGS)
    /\ x.ALU_op = AluOp(op) /\ x.cond = i.cond
    /\ x.val_imm = Imm(i, op) /\ x.val_hw = i.hw

\* The registers before the instruction in M, and the value of r after it, when
\* it does not load r.
Retired    == Overlay(gpr, wOut)
BehindM(r) ==
    IF r = XZR_NUM THEN 0
    ELSE IF mOut.w_enable /\ mOut.dst = r THEN mOut.val_ex ELSE RegAt(Retired, r)
Loading(r) == mOut.w_enable /\ mOut.wval_sel /\ mOut.dst = r /\ r # XZR_NUM

\* The operands of the ALU, and the successor of an instruction, when a and b are
\* the values of its registers and f the flags.
OpA(p, i, op, a) ==
    IF op = "ADRP" THEN AdrpValue(p, i) ELSE IF op \in VALA_SEL THEN Wrap(p + 1) ELSE a
OpB(i, op, b) == IF op \in VALB_SEL THEN b ELSE Imm(i, op)

Taken(i, op, a, f) ==
    \/ op \in {"B", "BL"}
    \/ op = "B_COND" /\ CondHolds(i.cond, f)
    \/ op = "CBZ" /\ a = 0
    \/ op = "CBNZ" /\ a # 0
Successor(p, i, op, a, f) ==
    IF op \in FormatB3 \cup IndirectBranches THEN a
    ELSE IF Taken(i, op, a, f) THEN Wrap(p + i.imm)
    ELSE Wrap(p + 1)

\* What the pipeline will run after the instruction in X, and after that in M.
AfterX == IF dOut.status # "BUB" THEN dOut.pc ELSE SelectPC
AfterM == IF xOut.status # "BUB" THEN xOut.pc ELSE AfterX

DataFetching == CACHED /\ SelectPC \in CacheableAddr

(* The output registers, from one clock to the next.                       *)

DHolds ==
    /\ dOut.status = "AOK" =>
          DecodedD(dOut) /\ fOut.pred_PC = Predict(dOut.pc, dOut.i, dOut.op)
    /\ xOut.status \notin Stop => RealStop(dOut)

\* The instruction i in X has the operands it would have if M had completed.
XOperands(i, op) ==
    /\ DecodedX(xOut, i, op)
    /\ xOut.val_a = BehindM(Src1(i, op)) /\ xOut.val_b = BehindM(Src2(i, op))
    /\ Loading(Src1(i, op)) => op \in IndirectBranches
    /\ ~Loading(Src2(i, op))

\* Behind it is its successor, as far as it is known in X.
XSuccessor(i, op) ==
    /\ op \in CompareBranches =>
          \/ AfterX = Successor(xOut.pc, i, op, xOut.val_a, nzcv)
          \/ AfterX = Wrap(xOut.pc + i.imm) /\ StopAt(AfterX)
    /\ op \notin CompareBranches \cup IndirectBranches \cup FormatB3 =>
          AfterX = Predict(xOut.pc, i, op)

XHolds ==
    /\ xOut.status = "AOK" =>
          /\ InText(xOut.pc)
          /\ XOperands(prog[xOut.pc], Opcode(prog[xOut.pc]))
          /\ XSuccessor(prog[xOut.pc], Opcode(prog[xOut.pc]))
    /\ mOut.status \notin Stop => RealStop(xOut)

\* The instruction i in M has computed its result and its flags; a and b are the
\* values of its registers.
MResults(i, op, a, b) ==
    /\ DecodedM(mOut, i, op) /\ mOut.val_b = b
    /\ op # "BR" => mOut.val_ex = AluValue(AluOp(op), OpA(mOut.pc, i, op, a),
                                           OpB(i, op, b), i.hw, nzcvOld, i.cond)
    /\ nzcv = AluFlags(AluOp(op), OpA(mOut.pc, i, op, a), OpB(i, op, b), nzcvOld,
                       op \in SET_FLAGS)
    /\ op = "B_COND" => mOut.cond_holds = CondHolds(i.cond, nzcvOld)

\* Behind it is its successor, but for the known divergences.
MSuccessor(i, op, a) ==
    \/ AfterM = Successor(mOut.pc, i, op, a, nzcvOld)
    \/ op \in IndirectBranches /\ DataFetching
    \/ /\ op \in IndirectBranches
       /\ wOut.op = "LDUR" /\ wOut.dst = Src1(i, op) /\ AfterM = wOut.val_ex
    \/ /\ op \in CompareBranches /\ ~Taken(i, op, a, nzcvOld)
       /\ AfterM = Wrap(mOut.pc + i.imm) /\ StopAt(AfterM)

MHoldsFor(i, op) ==
    /\ MResults(i, op, RegAt(Retired, Src1(i, op)), RegAt(Retired, Src2(i, op)))
    /\ MSuccessor(i, op, RegAt(Retired, Src1(i, op)))

MHolds ==
    /\ mOut.status = "AOK" =>
          InText(mOut.pc) /\ MHoldsFor(prog[mOut.pc], Opcode(prog[mOut.pc]))
    /\ mOut.status \in Stop => nzcv = nzcvOld
    /\ wOut.status \notin Stop => RealStop(mOut)

WHolds == wOut.w_enable => wOut.status = "AOK" /\ wOut.dst \in 0 .. XZR_NUM

\* A stop that F has delivered is still the next instruction.
StopSticks ==
    fIn.status \in Stop /\ ~IndirectInX /\ ~MispredInM /\ dOut.status \notin Stop =>
        StopAt(SelectPC)

\* An access is in flight for one of the two stages that use the cache.
InFlight ==
    dmem_status = "IN_FLIGHT" =>
        DataFetching \/ (CACHED /\ Accesses /\ mOut.val_ex \in CacheableAddr)

(* The input registers and wires, once the stage that writes them has run. *)

FetchLeaves ==
    "F" \in done =>
        /\ dIn.pc = SelectPC /\ dIn.status # "BUB" /\ fOut.status = dIn.status
        /\ dOut.status \notin Stop => RealStop(dIn)
        /\ dIn.status = "AOK" =>
              /\ DecodedD(dIn) /\ fIn.status \notin Stop
              /\ \/ F_PC = Predict(dIn.pc, dIn.i, dIn.op)
                 \/ "M" \in done /\ wIn.status \in {"INS", "ADR"}

DecodeLeaves ==
    "D" \in done =>
        /\ D_src1 = Src1(dOut.i, dOut.op) /\ D_src2 = Src2(dOut.i, dOut.op)
        /\ xIn.pc = dOut.pc
        /\ dOut.status = "AOK" => DecodedX(xIn, dOut.i, dOut.op)
        /\ xIn.val_a = RegAt(gpr, D_src1) /\ xIn.val_b = RegAt(gpr, D_src2)

XValA == IF xOut.vala_sel THEN xOut.mp ELSE xOut.val_a
XValB == IF xOut.valb_sel THEN xOut.val_b ELSE xOut.val_imm

ExecuteLeaves ==
    "X" \in done =>
        /\ mIn.pc = xOut.pc /\ mIn.mp = xOut.mp
        /\ mIn.dmem_read = xOut.dmem_read /\ mIn.dmem_write = xOut.dmem_write
        /\ mIn.wval_sel = xOut.wval_sel /\ mIn.w_enable = xOut.w_enable
        /\ mIn.val_b = xOut.val_b /\ mIn.dst = xOut.dst
        /\ mIn.val_ex = AluValue(xOut.ALU_op, XValA, XValB, xOut.val_hw, nzcv, xOut.cond)
        /\ X_nzcvval = AluFlags(xOut.ALU_op, XValA, XValB, nzcv, xOut.set_flags)
        /\ X_set_flags = xOut.set_flags
        /\ mIn.cond_holds = AluCond(xOut.ALU_op, mIn.val_ex, xOut.cond, X_nzcvval)

MemoryLeaves ==
    "M" \in done =>
        /\ wIn.op = mOut.op /\ wIn.wval_sel = mOut.wval_sel
        /\ wIn.w_enable = mOut.w_enable /\ wIn.dst = mOut.dst
        /\ wIn.val_ex = mOut.val_ex
        /\ wIn.status = IF DmemErr THEN "ADR" ELSE mOut.status

WbackLeaves ==
    "W" \in done => W_wval = IF wOut.wval_sel THEN wOut.val_mem ELSE wOut.val_ex

\* The data the guest starts with, and the fields of the fetch register.
Shapes ==
    /\ prog \in [ImemAddr -> Instr]
    /\ gpr = [r \in Regs |-> gpr[r]]
    /\ fOut = [pred_PC |-> fOut.pred_PC, status |-> fOut.status]

Outputs == DHolds /\ XHolds /\ MHolds /\ WHolds
Inputs  == FetchLeaves /\ DecodeLeaves /\ ExecuteLeaves /\ MemoryLeaves /\ WbackLeaves

RInv == /\ IInv /\ Shapes
        /\ Alive => Outputs /\ Inputs /\ StopSticks /\ InFlight

----------------------------------------------------------------------------
(* Facts about instructions                                                *)

\* Operations that do nothing read no register, and jumps read one.
LEMMA JumpSources ==
    ASSUME NEW i, NEW op
    PROVE  /\ op \in Mute => Src1(i, op) = XZR_NUM
           /\ op \in Mute \cup {"RET"} \cup IndirectBranches => Src2(i, op) = XZR_NUM
BY DEF Src1, Src2, Mute, FormatM, FormatRR, FormatRI, FormatB3, CondSels, IndirectBranches,
       CompareBranches

\* The opcodes with each signal.
LEMMA Signals ==
    ASSUME NEW op
    PROVE  /\ op \in WVAL_SEL => op = "LDUR"
           /\ op \in DMEM_READ <=> op = "LDUR"
           /\ op \in DMEM_WRITE <=> op = "STUR"
           /\ op \in {"LDUR", "STUR"} \cup CompareBranches \cup IndirectBranches
                     \cup FormatB3 \cup {"B", "BL", "B_COND"} => op \notin SET_FLAGS
           /\ op \in W_ENABLE /\ op \in IndirectBranches => op = "BLR"
           /\ op \in SET_FLAGS => op \notin VALA_SEL /\ op # "ADRP"
BY DEF WVAL_SEL, DMEM_READ, DMEM_WRITE, SET_FLAGS, CompareBranches, IndirectBranches, W_ENABLE,
       FormatB3, FormatI1, FormatI2, FormatRI, FormatRR, CondSels, VALA_SEL

----------------------------------------------------------------------------
(* Registers with a result on its way to them                              *)

\* A register once the result in w, if any, is written over the registers g.
LEMMA OverlayAt ==
    ASSUME NEW g, g = [r \in Regs |-> g[r]], NEW w,
           w.w_enable => w.dst \in 0 .. XZR_NUM,
           NEW r \in 0 .. XZR_NUM
    PROVE  /\ Overlay(g, w) = [s \in Regs |-> Overlay(g, w)[s]]
           /\ RegAt(Overlay(g, w), r) =
                 IF r = XZR_NUM THEN 0
                 ELSE IF w.w_enable /\ w.status = "AOK" /\ w.dst = r
                      THEN IF w.wval_sel THEN w.val_mem ELSE w.val_ex
                 ELSE g[r]
<1>1. \A s \in 0 .. XZR_NUM : s # XZR_NUM => s \in Regs
  BY DEF Regs, XZR_NUM, SP_NUM
<1>2. CASE w.w_enable /\ w.status = "AOK" /\ w.dst # XZR_NUM
  <2> DEFINE v == IF w.wval_sel THEN w.val_mem ELSE w.val_ex
  <2>1. Overlay(g, w) = [g EXCEPT ![w.dst] = v]
    BY <1>2 DEF Overlay
  <2>2. w.dst \in Regs
    BY <1>1, <1>2
  <2>3. [g EXCEPT ![w.dst] = v] = [s \in Regs |-> IF s = w.dst THEN v ELSE g[s]]
    OBVIOUS
  <2>4. Overlay(g, w) = [s \in Regs |-> Overlay(g, w)[s]]
    <3> HIDE DEF v
    <3> QED  BY <2>1, <2>3
  <2>5. ASSUME r # XZR_NUM PROVE Overlay(g, w)[r] = IF r = w.dst THEN v ELSE g[r]
    <3>1. r \in Regs
      BY <1>1, <2>5
    <3> HIDE DEF v
    <3> QED  BY <2>1, <2>3, <3>1
  <2> QED  BY <1>2, <2>4, <2>5 DEF RegAt
<1>3. CASE ~(w.w_enable /\ w.status = "AOK" /\ w.dst # XZR_NUM)
  BY <1>3 DEF Overlay, RegAt
<1> QED  BY <1>2, <1>3

----------------------------------------------------------------------------
(* The initial states                                                      *)

\* The invariant holds in the initial states: the registers are bubbles.
LEMMA InitRInv == Init => RInv
<1> SUFFICES ASSUME Init PROVE RInv
  OBVIOUS
<1>0. /\ prog \in PROGRAMS /\ done = {} /\ fOut = [pred_PC |-> TEXT_SEG, status |-> "AOK"]
      /\ gpr = [r \in Regs |-> IF r = SP_NUM THEN STACK_SEG - 1 ELSE 0]
      /\ nzcv = nzcvOld /\ dmem_status = "READY"
      /\ fIn.status = "BUB" /\ dOut.status = "BUB" /\ xOut.status = "BUB"
      /\ mOut.status = "BUB" /\ wOut.w_enable = FALSE
  BY DEF Init, FBubble, DBubble, XBubble, MBubble, WBubble
<1>1. IInv
  BY InitIInv
<1>2. Shapes
  <2>1. gpr = [r \in Regs |-> gpr[r]]
    <3> DEFINE g(r) == IF r = SP_NUM THEN STACK_SEG - 1 ELSE 0
    <3>1. gpr = [r \in Regs |-> g(r)]
      BY <1>0
    <3> HIDE DEF g
    <3> QED  BY <3>1
  <2>2. prog \in [ImemAddr -> Instr]
    BY <1>0, PipelineAssumption
  <2>3. fOut = [pred_PC |-> fOut.pred_PC, status |-> fOut.status]
    BY <1>0
  <2> QED  BY <2>1, <2>2, <2>3 DEF Shapes
<1>3. DHolds /\ XHolds /\ MHolds /\ WHolds
  BY <1>0 DEF DHolds, XHolds, MHolds, WHolds, RealStop, Stop
<1>4. Inputs /\ StopSticks /\ InFlight
  BY <1>0 DEF Inputs, FetchLeaves, DecodeLeaves, ExecuteLeaves, MemoryLeaves, WbackLeaves,
              StopSticks, Stop, InFlight
<1> QED  BY <1>1, <1>2, <1>3, <1>4 DEF RInv, Outputs

----------------------------------------------------------------------------
(* The stages.  A stage leaves the output registers and the guest's        *)
(* registers alone; only the status in F_out changes.                      *)

Settled == <<prog, dOut, xOut, mOut, wOut, gpr, nzcv, nzcvOld, fOut.pred_PC>>

\* What is said of the output registers and of the next PC depends on them, on the
\* guest's registers and on nothing a stage writes.
LEMMA SettledOutputs ==
    ASSUME UNCHANGED Settled
    PROVE  /\ SelectPC' = SelectPC /\ IndirectInX' = IndirectInX /\ MispredInM' = MispredInM
           /\ DataFetching' = DataFetching /\ DmemErr' = DmemErr /\ Accesses' = Accesses
           /\ \A p : StopAt(p)' = StopAt(p) /\ UndefAt(p)' = UndefAt(p)
           /\ Outputs => Outputs'
<1> USE DEF Settled
<1>1. /\ IndirectInX' = IndirectInX /\ MispredInM' = MispredInM /\ SelectPC' = SelectPC
      /\ Accesses' = Accesses
  BY DEF SelectPC, IndirectInX, MispredInM, Accesses
<1>2. DataFetching' = DataFetching /\ DmemErr' = DmemErr
  BY <1>1 DEF DataFetching, DmemErr
<1>3. \A p : StopAt(p)' = StopAt(p) /\ UndefAt(p)' = UndefAt(p) /\ InText(p)' = InText(p)
  BY DEF StopAt, UndefAt, InText
<1>4. AfterX' = AfterX /\ AfterM' = AfterM
  BY <1>1 DEF AfterX, AfterM
<1>5. Retired' = Retired
  BY DEF Retired
<1>6. \A r : BehindM(r)' = BehindM(r) /\ Loading(r)' = Loading(r)
  BY <1>5 DEF BehindM, Loading
<1>7. DHolds => DHolds'
  BY <1>3 DEF DHolds, DecodedD, RealStop
<1>8. XHolds => XHolds'
  <2>1. \A i, op : XOperands(i, op) => XOperands(i, op)'
    BY <1>6 DEF XOperands
  <2>2. \A i, op : XSuccessor(i, op) => XSuccessor(i, op)'
    BY <1>3, <1>4 DEF XSuccessor
  <2> QED  BY <1>3, <2>1, <2>2 DEF XHolds, RealStop
<1>9. MHolds => MHolds'
  <2>1. \A i, op, a, b : MResults(i, op, a, b) => MResults(i, op, a, b)'
    BY DEF MResults
  <2>2. \A i, op, a : MSuccessor(i, op, a) => MSuccessor(i, op, a)'
    BY <1>2, <1>3, <1>4 DEF MSuccessor
  <2>3. \A i, op : MHoldsFor(i, op) => MHoldsFor(i, op)'
    BY <1>5, <2>1, <2>2 DEF MHoldsFor
  <2> QED  BY <1>3, <2>3 DEF MHolds, RealStop
<1>10. WHolds => WHolds'
  BY DEF WHolds
<1> QED  BY <1>1, <1>2, <1>3, <1>7, <1>8, <1>9, <1>10 DEF Outputs

\* Fetch.
LEMMA FetchRInv == RInv /\ Fetch => RInv'
<1> SUFFICES ASSUME RInv, Fetch PROVE RInv'
  OBVIOUS
<1> DEFINE pc == SelectPC
           halt == pc = 0 \/ FetchStatus \in {"HLT", "INS"}
           i == IF pc \in ImemAddr THEN prog[pc] ELSE NoInstr
           op == IF halt THEN "HLT" ELSE IF pc \in ImemAddr THEN Opcode(i) ELSE "ERROR"
           st == StatusOf(op)
<1>1. /\ done' = done \cup {"F"} /\ ended' = ended /\ ended = ""
      /\ fOut' = [fOut EXCEPT !.status = st]
      /\ fIn' = [fIn EXCEPT !.status = IF st = "AOK" THEN FetchStatus ELSE st]
      /\ dIn' = [i |-> i, op |-> op, status |-> st, pc |-> pc,
                 mp |-> IF halt THEN dIn.mp
                        ELSE IF op = "ADRP" THEN AdrpValue(pc, i)
                        ELSE Wrap(pc + 1)]
      /\ F_PC' = IF halt THEN F_PC ELSE Predict(pc, i, op)
      /\ dmem_status' \in IF CACHED /\ ~halt /\ pc \in CacheableAddr
                          THEN {"READY", "IN_FLIGHT"} ELSE {dmem_status}
  BY DEF Fetch, Turn
<1>2. UNCHANGED <<prog, dOut, xOut, mOut, wOut, xIn, mIn, wIn, D_src1, D_src2, X_nzcvval,
                  X_set_flags, W_wval, gpr, nzcv, nzcvOld>>
  BY DEF Fetch, guest
<1>3. IInv'
  BY FetchIInv DEF RInv
<1>4. dIn'.op = op /\ dIn'.status = st /\ dIn'.pc = pc /\ dIn'.i = i
  BY <1>1
<1>5. dIn'.mp = IF halt THEN dIn.mp ELSE Carried(pc, i, op)
  BY <1>1 DEF Carried
<1>6. fOut'.pred_PC = fOut.pred_PC /\ fOut'.status = st /\ Shapes'
  <2>1. fOut = [pred_PC |-> fOut.pred_PC, status |-> fOut.status]
    BY DEF RInv, Shapes
  <2> HIDE DEF st
  <2>2. fOut' = [pred_PC |-> fOut.pred_PC, status |-> st]
    BY <1>1, <2>1
  <2> QED  BY <1>2, <2>2 DEF RInv, Shapes
<1>7. fIn'.status = IF st = "AOK" THEN FetchStatus ELSE st
  <2> HIDE DEF st
  <2> QED  BY <1>1 DEF RInv, IInv, Records
<1>8. /\ halt => st = "HLT"
      /\ st \in {"AOK", "HLT", "INS"}
      /\ st = "AOK" => ~halt /\ pc \in ImemAddr /\ i = prog[pc] /\ op = Opcode(i)
                       /\ op \notin {"HLT", "ERROR"}
      /\ st = "HLT" => halt \/ (pc \in ImemAddr /\ Opcode(prog[pc]) = "HLT")
      /\ st = "INS" => ~halt /\ (pc \notin ImemAddr \/ Opcode(prog[pc]) = "ERROR")
  BY DEF StatusOf
<1>9. UNCHANGED Settled
  BY <1>2, <1>6 DEF Settled
<1> HIDE DEF pc, halt, i, op, st
<1> SUFFICES ASSUME Alive, Outputs, Inputs, StopSticks, InFlight
             PROVE  Outputs' /\ Inputs' /\ StopSticks' /\ InFlight'
  BY <1>1, <1>2, <1>3, <1>6 DEF RInv, Alive
<1>10. /\ Outputs' /\ SelectPC' = pc /\ IndirectInX' = IndirectInX
       /\ MispredInM' = MispredInM /\ DataFetching' = DataFetching
       /\ DmemErr' = DmemErr /\ Accesses' = Accesses
       /\ \A p : StopAt(p)' = StopAt(p) /\ UndefAt(p)' = UndefAt(p)
  BY <1>9, SettledOutputs DEF pc
<1>11. dOut.status \notin Stop /\ ~IndirectInX /\ ~MispredInM /\ halt => StopAt(pc)
  BY DEF halt, pc, FetchStatus, StopSticks, Stop, StopAt
<1>12. (IndirectInX \/ MispredInM) /\ halt => StopAt(pc)
  BY DEF halt, pc, FetchStatus, StopAt
<1>13. dOut.status \notin Stop => RealStop(dIn')
  BY <1>4, <1>8, <1>11, <1>12 DEF RealStop, StopAt, UndefAt, halt
<1>14. FetchLeaves'
  <2>1. dOut'.status \notin Stop => RealStop(dIn)'
    BY <1>2, <1>10, <1>13 DEF RealStop
  <2>2. st = "AOK" => DecodedD(dIn)' /\ fIn'.status \notin Stop
    BY <1>2, <1>4, <1>5, <1>7, <1>8 DEF DecodedD, InText, Stop, halt
  <2>3. st = "AOK" => F_PC' = Predict(dIn'.pc, dIn'.i, dIn'.op)
    BY <1>1, <1>4, <1>8
  <2>4. st # "BUB"
    BY <1>8
  <2> QED  BY <1>4, <1>6, <1>10, <2>1, <2>2, <2>3, <2>4 DEF FetchLeaves
<1>15. StopSticks'
  <2> SUFFICES ASSUME fIn'.status \in Stop, ~IndirectInX, ~MispredInM, dOut.status \notin Stop
               PROVE  StopAt(pc)
    BY <1>2, <1>10 DEF StopSticks
  <2>1. CASE st = "AOK"
    BY <1>7, <1>8, <2>1 DEF halt, Stop
  <2>2. CASE st # "AOK"
    BY <1>4, <1>8, <1>11, <2>2 DEF StopAt
  <2> QED  BY <2>1, <2>2
<1>16. InFlight'
  BY <1>1, <1>2, <1>10 DEF InFlight, DataFetching, pc
<1>17. DecodeLeaves' /\ ExecuteLeaves' /\ MemoryLeaves' /\ WbackLeaves'
  BY <1>1, <1>2, <1>10 DEF Inputs, DecodeLeaves, ExecuteLeaves, MemoryLeaves, WbackLeaves,
                          DecodedX, DecodedM, XValA, XValB
<1> QED  BY <1>10, <1>14, <1>15, <1>16, <1>17 DEF Inputs

\* D leaves the decoded instruction, with its registers as the file holds them.
LEMMA DecodeRInv == RInv /\ Decode => RInv'
<1> SUFFICES ASSUME RInv, Decode PROVE RInv'
  OBVIOUS
<1> DEFINE i == dOut.i
           op == dOut.op
<1>1. /\ done' = done \cup {"D"} /\ ended' = ended
      /\ D_src1' = Src1(i, op) /\ D_src2' = Src2(i, op)
  BY DEF Decode, Turn
<1>2. /\ xIn'.pc = dOut.pc
      /\ xIn'.val_a = RegAt(gpr, Src1(i, op)) /\ xIn'.val_b = RegAt(gpr, Src2(i, op))
  BY DEF Decode, RegRead, RegAt
<1>3. /\ xIn'.op = op /\ xIn'.mp = dOut.mp
      /\ xIn'.dmem_read = (op \in DMEM_READ) /\ xIn'.dmem_write = (op \in DMEM_WRITE)
      /\ xIn'.wval_sel = (op \in WVAL_SEL) /\ xIn'.w_enable = (op \in W_ENABLE)
      /\ xIn'.dst = Dst(i, op)
  BY DEF Decode
<1>4. /\ xIn'.vala_sel = (op \in VALA_SEL) /\ xIn'.valb_sel = (op \in VALB_SEL)
      /\ xIn'.set_flags = (op \in SET_FLAGS) /\ xIn'.ALU_op = AluOp(op)
      /\ xIn'.cond = i.cond /\ xIn'.val_imm = Imm(i, op) /\ xIn'.val_hw = i.hw
  BY DEF Decode
<1>5. UNCHANGED <<prog, fOut, dOut, xOut, mOut, wOut, fIn, dIn, mIn, wIn, F_PC, X_nzcvval,
                  X_set_flags, W_wval, dmem_status, gpr, nzcv, nzcvOld>>
  BY DEF Decode, guest, pipeRegs
<1>6. IInv' /\ Shapes'
  BY <1>5, DecodeIInv DEF RInv, Shapes
<1>7. UNCHANGED Settled
  BY <1>5 DEF Settled
<1> SUFFICES ASSUME Alive, Outputs, Inputs, StopSticks, InFlight
             PROVE  Outputs' /\ Inputs' /\ StopSticks' /\ InFlight'
  BY <1>1, <1>5, <1>6 DEF RInv, Alive
<1>8. /\ Outputs' /\ SelectPC' = SelectPC /\ IndirectInX' = IndirectInX
      /\ MispredInM' = MispredInM /\ DataFetching' = DataFetching
      /\ DmemErr' = DmemErr /\ Accesses' = Accesses
      /\ \A p : StopAt(p)' = StopAt(p) /\ UndefAt(p)' = UndefAt(p)
  BY <1>7, SettledOutputs
<1>9. DecodeLeaves'
  <2>1. dOut.status = "AOK" => dOut.mp = Carried(dOut.pc, i, op)
    BY DEF Outputs, DHolds, DecodedD
  <2>2. dOut.status = "AOK" => DecodedX(xIn', i, op)
    BY <1>2, <1>3, <1>4, <2>1 DEF DecodedX, DecodedM
  <2>3. DecodedX(xIn', i, op) => DecodedX(xIn, dOut.i, dOut.op)'
    BY <1>5 DEF DecodedX, DecodedM
  <2> QED  BY <1>1, <1>2, <1>5, <2>2, <2>3 DEF DecodeLeaves, RegAt
<1>10. FetchLeaves'
  BY <1>1, <1>5, <1>8 DEF Inputs, FetchLeaves, RealStop, DecodedD, InText
<1>11. ExecuteLeaves' /\ MemoryLeaves' /\ WbackLeaves'
  BY <1>1, <1>5, <1>8 DEF Inputs, ExecuteLeaves, MemoryLeaves, WbackLeaves, XValA, XValB
<1>12. StopSticks' /\ InFlight'
  BY <1>1, <1>5, <1>8 DEF StopSticks, InFlight
<1> QED  BY <1>8, <1>9, <1>10, <1>11, <1>12 DEF Inputs

\* X leaves the result and the flags of the instruction in X.
LEMMA ExecuteRInv == RInv /\ Execute => RInv'
<1> SUFFICES ASSUME RInv, Execute PROVE RInv'
  OBVIOUS
<1>1. done' = done \cup {"X"} /\ ended' = ended
  BY DEF Execute, Turn
<1>2. /\ mIn'.pc = xOut.pc /\ mIn'.mp = xOut.mp
      /\ mIn'.dmem_read = xOut.dmem_read /\ mIn'.dmem_write = xOut.dmem_write
      /\ mIn'.wval_sel = xOut.wval_sel /\ mIn'.w_enable = xOut.w_enable
      /\ mIn'.val_b = xOut.val_b /\ mIn'.dst = xOut.dst
      /\ X_set_flags' = xOut.set_flags
  BY DEF Execute
<1>3. /\ mIn'.val_ex = AluValue(xOut.ALU_op, XValA, XValB, xOut.val_hw, nzcv, xOut.cond)
      /\ X_nzcvval' = AluFlags(xOut.ALU_op, XValA, XValB, nzcv, xOut.set_flags)
      /\ mIn'.cond_holds = AluCond(xOut.ALU_op, mIn'.val_ex, xOut.cond, X_nzcvval')
  BY DEF Execute, XValA, XValB
<1>4. UNCHANGED <<prog, fOut, dOut, xOut, mOut, wOut, fIn, dIn, xIn, wIn, F_PC, D_src1, D_src2,
                  W_wval, dmem_status, gpr, nzcv, nzcvOld>>
  BY DEF Execute, guest, pipeRegs
<1>5. IInv' /\ Shapes'
  BY <1>4, ExecuteIInv DEF RInv, Shapes
<1>6. UNCHANGED Settled
  BY <1>4 DEF Settled
<1> SUFFICES ASSUME Alive, Outputs, Inputs, StopSticks, InFlight
             PROVE  Outputs' /\ Inputs' /\ StopSticks' /\ InFlight'
  BY <1>1, <1>4, <1>5 DEF RInv, Alive
<1>7. /\ Outputs' /\ SelectPC' = SelectPC /\ IndirectInX' = IndirectInX
      /\ MispredInM' = MispredInM /\ DataFetching' = DataFetching
      /\ DmemErr' = DmemErr /\ Accesses' = Accesses
      /\ \A p : StopAt(p)' = StopAt(p) /\ UndefAt(p)' = UndefAt(p)
  BY <1>6, SettledOutputs
<1>8. ExecuteLeaves'
  <2>1. XValA' = XValA /\ XValB' = XValB
    BY <1>4 DEF XValA, XValB
  <2> QED  BY <1>2, <1>3, <1>4, <2>1 DEF ExecuteLeaves
<1>9. FetchLeaves'
  BY <1>1, <1>4, <1>7 DEF Inputs, FetchLeaves, RealStop, DecodedD, InText
<1>10. DecodeLeaves' /\ MemoryLeaves' /\ WbackLeaves'
  BY <1>1, <1>4, <1>7 DEF Inputs, DecodeLeaves, MemoryLeaves, WbackLeaves, RegAt, DecodedX,
                          DecodedM
<1>11. StopSticks' /\ InFlight'
  BY <1>1, <1>4, <1>7 DEF StopSticks, InFlight
<1> QED  BY <1>7, <1>8, <1>9, <1>10, <1>11 DEF Inputs

\* W leaves the value to write.
LEMMA WbackRInv == RInv /\ Wback => RInv'
<1> SUFFICES ASSUME RInv, Wback PROVE RInv'
  OBVIOUS
<1>1. /\ done' = done \cup {"W"} /\ ended' = ended
      /\ W_wval' = IF wOut.wval_sel THEN wOut.val_mem ELSE wOut.val_ex
  BY DEF Wback, Turn
<1>2. UNCHANGED <<prog, fOut, dOut, xOut, mOut, wOut, fIn, dIn, xIn, mIn, wIn, F_PC, D_src1,
                  D_src2, X_nzcvval, X_set_flags, dmem_status, gpr, nzcv, nzcvOld>>
  BY DEF Wback, guest, pipeRegs
<1>3. IInv' /\ Shapes'
  BY <1>2, WbackIInv DEF RInv, Shapes
<1>4. UNCHANGED Settled
  BY <1>2 DEF Settled
<1> SUFFICES ASSUME Alive, Outputs, Inputs, StopSticks, InFlight
             PROVE  Outputs' /\ Inputs' /\ StopSticks' /\ InFlight'
  BY <1>1, <1>2, <1>3 DEF RInv, Alive
<1>5. /\ Outputs' /\ SelectPC' = SelectPC /\ IndirectInX' = IndirectInX
      /\ MispredInM' = MispredInM /\ DataFetching' = DataFetching
      /\ DmemErr' = DmemErr /\ Accesses' = Accesses
      /\ \A p : StopAt(p)' = StopAt(p) /\ UndefAt(p)' = UndefAt(p)
  BY <1>4, SettledOutputs
<1>6. FetchLeaves'
  BY <1>1, <1>2, <1>5 DEF Inputs, FetchLeaves, RealStop, DecodedD, InText
<1>7. DecodeLeaves' /\ ExecuteLeaves'
  BY <1>1, <1>2 DEF Inputs, DecodeLeaves, ExecuteLeaves, RegAt, DecodedX, DecodedM, XValA, XValB
<1>8. MemoryLeaves' /\ WbackLeaves'
  BY <1>1, <1>2, <1>5 DEF Inputs, MemoryLeaves, WbackLeaves
<1>9. StopSticks' /\ InFlight'
  BY <1>1, <1>2, <1>5 DEF StopSticks, InFlight
<1> QED  BY <1>5, <1>6, <1>7, <1>8, <1>9 DEF Inputs

\* M leaves the instruction in M, as a fault if its access is out of bounds; an
\* access in flight from here on is M's own.
LEMMA MemoryRInv == RInv /\ Memory => RInv'
<1> SUFFICES ASSUME RInv, Memory PROVE RInv'
  OBVIOUS
<1>1. /\ done' = done \cup {"M"} /\ ended' \in {ended, "exit"}
      /\ UNCHANGED <<prog, fOut, dOut, xOut, mOut, wOut, fIn, dIn, xIn, mIn, D_src1, D_src2,
                     X_nzcvval, X_set_flags, W_wval, gpr, nzcv, nzcvOld>>
  BY DEF Memory, MemoryMiss, MemoryExit, MemoryDone, MemoryResult, Turn, guest, pipeRegs
<1>2. IInv' /\ Shapes'
  BY <1>1, MemoryIInv DEF RInv, Shapes
<1>3. UNCHANGED Settled
  BY <1>1 DEF Settled
<1> SUFFICES ASSUME Alive, Outputs, Inputs, StopSticks, InFlight, ended' # "exit"
             PROVE  Outputs' /\ Inputs' /\ StopSticks' /\ InFlight'
  BY <1>1, <1>2 DEF RInv, Alive
<1>4. /\ Outputs' /\ SelectPC' = SelectPC /\ IndirectInX' = IndirectInX
      /\ MispredInM' = MispredInM /\ DataFetching' = DataFetching
      /\ DmemErr' = DmemErr /\ Accesses' = Accesses
      /\ \A p : StopAt(p)' = StopAt(p) /\ UndefAt(p)' = UndefAt(p)
  BY <1>3, SettledOutputs
<1>5. /\ wIn'.op = mOut.op /\ wIn'.wval_sel = mOut.wval_sel
      /\ wIn'.w_enable = mOut.w_enable /\ wIn'.dst = mOut.dst
      /\ wIn'.val_ex = mOut.val_ex
      /\ wIn'.status = IF DmemErr THEN "ADR" ELSE mOut.status
  BY DEF Memory, MemoryMiss, MemoryExit, MemoryDone, MemoryResult
<1>6. F_PC' = F_PC \/ wIn'.status \in {"INS", "ADR"}
  <2>1. \A r : MemoryResult(r) => F_PC' = F_PC \/ wIn'.status \in {"INS", "ADR"}
    BY DEF MemoryResult
  <2> QED  BY <2>1 DEF Memory, MemoryMiss, MemoryExit, MemoryDone
<1>7. MemoryLeaves'
  BY <1>1, <1>4, <1>5 DEF MemoryLeaves
<1>8. FetchLeaves'
  BY <1>1, <1>4, <1>5, <1>6 DEF Inputs, FetchLeaves, MemoryLeaves, RealStop, DecodedD, InText
<1>9. DecodeLeaves' /\ ExecuteLeaves' /\ WbackLeaves'
  BY <1>1 DEF Inputs, DecodeLeaves, ExecuteLeaves, WbackLeaves, RegAt, DecodedX, DecodedM,
              XValA, XValB
<1>10. StopSticks'
  BY <1>1, <1>4 DEF StopSticks
<1>11. InFlight'
  <2>1. \/ dmem_status' \in {"READY", dmem_status}
        \/ CACHED /\ Accesses /\ mOut.val_ex \in CacheableAddr
    BY DEF Memory, MemoryMiss, MemoryExit, MemoryDone
  <2> QED  BY <1>1, <1>4, <2>1 DEF InFlight
<1> QED  BY <1>4, <1>7, <1>8, <1>9, <1>10, <1>11 DEF Inputs

----------------------------------------------------------------------------
(* The clock                                                               *)

\* The clock keeps the shape of the register file and of F.
LEMMA ClockShapes == RInv /\ Clock => Shapes'
<1> SUFFICES ASSUME RInv, Clock PROVE Shapes'
  OBVIOUS
<1>1. prog' \in [ImemAddr -> Instr]
  BY DEF RInv, Shapes, Clock
<1>2. gpr' = [r \in Regs |-> gpr'[r]]
  <2>1. gpr = [r \in Regs |-> gpr[r]]
    BY DEF RInv, Shapes
  <2>2. gpr' = gpr \/ gpr' = [gpr EXCEPT ![wOut.dst] = W_wval]
    BY DEF Clock
  <2>3. gpr' = [r \in Regs |-> gpr[r]]
        \/ gpr' = [r \in Regs |-> IF r = wOut.dst THEN W_wval ELSE gpr[r]]
    BY <2>1, <2>2
  <2> QED  BY <2>3
<1>3. fOut' = [pred_PC |-> fOut'.pred_PC, status |-> fOut'.status]
  <2> DEFINE shape(f) == f = [pred_PC |-> f.pred_PC, status |-> f.status]
  <2>1. fOut' \in {fIn', fOut, FBubble}
    BY DEF Clock, Latch
  <2>2. shape(fIn')
    BY DEF Clock, RInv, IInv, Records
  <2>3. shape(fOut)
    BY DEF RInv, Shapes
  <2>4. shape(FBubble)
    BY DEF FBubble
  <2>5. shape(fOut')
    <3> HIDE DEF shape
    <3> QED  BY <2>1, <2>2, <2>3, <2>4
  <2> QED  BY <2>5
<1> QED  BY <1>1, <1>2, <1>3 DEF Shapes

\* While the run goes on the clock writes the result of the instruction in W.
LEMMA RegistersWritten ==
    ASSUME RInv, Clock, wOut.status \notin Terminal
    PROVE  gpr' = Retired
<1>1. W_wval = IF wOut.wval_sel THEN wOut.val_mem ELSE wOut.val_ex
  BY DEF RInv, Alive, Clock, Inputs, WbackLeaves, Stages
<1> QED  BY <1>1 DEF Retired, Overlay, Clock, WriteBack

\* The run goes on from a cycle that raised no exception and no P_ERROR.
LEMMA ClockGoesOn ==
    ASSUME RInv, Clock, Alive'
    PROVE  /\ Alive /\ Outputs /\ Inputs /\ StopSticks /\ InFlight
           /\ done = Stages /\ done' = {}
           /\ \A s \in Stages : ctl[s] # "P_ERROR"
           /\ gpr' = Retired
           /\ fIn'.status = fIn.status
           /\ UNCHANGED <<prog, dIn, mIn, wIn, dmem_status>>
<1>1. ended = "" /\ ended' = "" /\ done = Stages /\ done' = {}
  BY DEF Clock, Alive
<1>2. status' \in {"AOK", "BUB"}
  BY <1>1 DEF Clock
<1>3. wOut.status \in {"AOK", "BUB"} /\ \A s \in Stages : ctl[s] # "P_ERROR"
  BY <1>2 DEF Clock
<1>4. Alive
  BY <1>1, <1>3 DEF Alive, Terminal
<1>5. gpr' = Retired
  BY <1>4, RegistersWritten DEF Alive
<1>6. fIn'.status = fIn.status
  BY DEF Clock, RInv, IInv, Records
<1>7. UNCHANGED <<prog, dIn, mIn, wIn, dmem_status>>
  BY DEF Clock
<1> QED  BY <1>1, <1>3, <1>4, <1>5, <1>6, <1>7 DEF RInv

\* While an access is in flight only W moves.
LEMMA FlightRInv ==
    ASSUME RInv, Clock, Alive', dmem_status = "IN_FLIGHT"
    PROVE  Outputs' /\ StopSticks' /\ InFlight'
<1>1. /\ Alive /\ Outputs /\ StopSticks /\ InFlight
      /\ gpr' = Retired /\ fIn'.status = fIn.status
      /\ UNCHANGED <<prog, dmem_status>>
  BY ClockGoesOn
<1>2. UNCHANGED <<dOut, xOut, mOut>> /\ wOut' = WBubble
  BY ClockLatches
<1>3. UNCHANGED <<fOut, nzcv, nzcvOld>>
  BY DEF Clock, Latch, ctl, deassert_flags
<1>4. Retired' = Retired
  BY <1>1, <1>2 DEF Retired, Overlay, WBubble
<1>5. /\ IndirectInX' = IndirectInX /\ MispredInM' = MispredInM /\ SelectPC' = SelectPC
      /\ Accesses' = Accesses
  BY <1>2, <1>3 DEF SelectPC, IndirectInX, MispredInM, Accesses
<1>6. DataFetching' = DataFetching
  BY <1>5 DEF DataFetching
<1>7. \A p : StopAt(p)' = StopAt(p) /\ UndefAt(p)' = UndefAt(p) /\ InText(p)' = InText(p)
  BY <1>1 DEF StopAt, UndefAt, InText
<1>8. AfterX' = AfterX /\ AfterM' = AfterM
  BY <1>2, <1>5 DEF AfterX, AfterM
<1>9. \A r : BehindM(r)' = BehindM(r) /\ Loading(r)' = Loading(r)
  BY <1>2, <1>4 DEF BehindM, Loading
<1>10. DHolds'
  BY <1>1, <1>2, <1>3, <1>7 DEF Outputs, DHolds, DecodedD, RealStop
<1>11. XHolds'
  <2>1. \A i, op : XOperands(i, op) => XOperands(i, op)'
    BY <1>2, <1>9 DEF XOperands
  <2>2. \A i, op : XSuccessor(i, op) => XSuccessor(i, op)'
    BY <1>2, <1>3, <1>7, <1>8 DEF XSuccessor
  <2> QED  BY <1>1, <1>2, <1>7, <2>1, <2>2 DEF Outputs, XHolds, RealStop
<1>12. MHolds'
  <2>1. \A i, op, a, b : MResults(i, op, a, b) => MResults(i, op, a, b)'
    BY <1>2, <1>3 DEF MResults
  <2>2. ASSUME NEW i, NEW op, NEW a, MSuccessor(i, op, a), DecodedM(mOut, i, op)
        PROVE  MSuccessor(i, op, a)'
    \* A load-use divergence survives the bubble in W: with a jump in M, it is F
    \* that has the access in flight.
    <3>1. op \in IndirectBranches => DataFetching
      <4>1. op \in IndirectBranches => ~Accesses
        BY <2>2 DEF DecodedM, Accesses, DMEM_READ, DMEM_WRITE, IndirectBranches
      <4> QED  BY <1>1, <4>1 DEF InFlight
    <3> QED  BY <1>2, <1>3, <1>6, <1>7, <1>8, <2>2, <3>1 DEF MSuccessor
  <2>3. \A i, op : MHoldsFor(i, op) => MHoldsFor(i, op)'
    BY <1>4, <2>1, <2>2 DEF MHoldsFor, MResults
  <2>4. mOut.status = "AOK" => InText(mOut.pc) /\ MHoldsFor(prog[mOut.pc], Opcode(prog[mOut.pc]))
    BY <1>1 DEF Outputs, MHolds
  <2>5. mOut'.status = "AOK" =>
            InText(mOut.pc)' /\ MHoldsFor(prog[mOut.pc], Opcode(prog[mOut.pc]))'
    BY <1>1, <1>2, <1>7, <2>3, <2>4
  <2>6. mOut'.status \in Stop => nzcv' = nzcvOld'
    BY <1>1, <1>2, <1>3 DEF Outputs, MHolds
  <2>7. RealStop(mOut)'
    BY <1>1, <1>2, <1>7 DEF Outputs, MHolds, RealStop, Alive, Terminal, Stop
  <2> QED  BY <2>5, <2>6, <2>7 DEF MHolds
<1>13. WHolds'
  BY <1>2 DEF WHolds, WBubble
<1>14. StopSticks' /\ InFlight'
  BY <1>1, <1>2, <1>5, <1>6, <1>7 DEF StopSticks, InFlight
<1> QED  BY <1>10, <1>11, <1>12, <1>13, <1>14 DEF Outputs

\* A cycle in which every stage moves.
Advances == RInv /\ Clock /\ Alive' /\ dmem_status # "IN_FLIGHT"

\* When the run goes on, M raised no fault and the flags are those of X.
LEMMA AdvanceGuest ==
    ASSUME Advances
    PROVE  /\ Alive /\ Outputs /\ Inputs /\ StopSticks
           /\ mOut' = mIn /\ wOut' = wIn
           /\ UNCHANGED <<prog, dIn, mIn, wIn, dmem_status>>
           /\ fIn'.status = fIn.status
           /\ ~DmemErr /\ wIn.status = mOut.status /\ mOut.status \in {"AOK", "BUB"}
           /\ nzcvOld' = nzcv
           /\ nzcv' = AluFlags(xOut.ALU_op, XValA, XValB, nzcv, xOut.set_flags)
           /\ Retired' = Overlay(Retired, wIn)
<1> USE DEF Advances
<1>1. /\ Alive /\ Outputs /\ Inputs /\ StopSticks
      /\ done = Stages /\ gpr' = Retired /\ fIn'.status = fIn.status
      /\ UNCHANGED <<prog, dIn, mIn, wIn, dmem_status>>
  BY ClockGoesOn
<1>2. mOut' = mIn /\ wOut' = wIn
  BY ClockLatches
<1>3. wIn.status \notin Terminal
  BY <1>2 DEF Alive
<1>4. "X" \in done /\ "M" \in done
  BY <1>1 DEF Stages
<1>5. ~DmemErr /\ wIn.status = mOut.status
  BY <1>1, <1>3, <1>4 DEF Inputs, MemoryLeaves, Terminal
<1>6. mOut.status \in {"AOK", "BUB"}
  BY <1>3, <1>5 DEF RInv, IInv, TypeOK, Status, Terminal
<1>7. ~deassert_flags
  BY <1>5, <1>6 DEF deassert_flags
<1>8. nzcv' = IF X_set_flags THEN X_nzcvval ELSE nzcv
  BY <1>7 DEF Clock
<1>9. nzcv' = AluFlags(xOut.ALU_op, XValA, XValB, nzcv, xOut.set_flags)
  <2>1. /\ X_nzcvval = AluFlags(xOut.ALU_op, XValA, XValB, nzcv, xOut.set_flags)
        /\ X_set_flags = xOut.set_flags
    BY <1>1, <1>4 DEF Inputs, ExecuteLeaves
  <2>2. ~xOut.set_flags => AluFlags(xOut.ALU_op, XValA, XValB, nzcv, xOut.set_flags) = nzcv
    BY DEF AluFlags
  <2> QED  BY <1>8, <2>1, <2>2
<1>10. nzcvOld' = nzcv
  BY DEF Clock, ctl
<1>11. Retired' = Overlay(Retired, wIn)
  BY <1>1, <1>2 DEF Retired
<1> QED  BY <1>1, <1>2, <1>5, <1>6, <1>9, <1>10, <1>11

\* What the clock makes of F, D and X, hazard by hazard.
LEMMA AdvanceLatches ==
    ASSUME Advances
    PROVE  /\ load_use =>
                  /\ fOut' = fOut /\ dOut' = dOut /\ xOut' = XBubble
                  /\ xOut.op = "LDUR" /\ ~mispred /\ ~br /\ ~cb /\ ~ret_from_main
           /\ ~load_use => dOut' = IF ret \/ mispred \/ ret_from_main \/ br \/ cb
                                   THEN DBubble ELSE dIn
           /\ mispred => xOut' = XBubble
           /\ ~load_use /\ ~mispred => xOut' = xIn'
           /\ f_stall => fOut' = fOut
           /\ ~f_stall /\ ~load_use /\ ~ret /\ ~br /\ ~ret_from_main =>
                  fOut'.pred_PC = IF cb THEN dOut.mp ELSE F_PC
<1> USE DEF Advances
<1>1. \A s \in Stages : ctl[s] # "P_ERROR"
  BY ClockGoesOn
<1>2. ctl.F = fCtl /\ ctl.D = dCtl /\ dCtl # "P_ERROR" /\ fCtl # "P_ERROR"
  BY <1>1 DEF ctl, Stages
<1>3. load_use => xOut.op = "LDUR" /\ ~mispred /\ ~br /\ ~cb
  BY DEF load_use, mispred, br, cb
<1>4. load_use => ~ret_from_main
  BY <1>2 DEF dCtl, Ctl
<1>5. load_use => fCtl = "P_STALL" /\ dCtl = "P_STALL"
  BY <1>3, <1>4 DEF fCtl, dCtl, Ctl
<1>6. fOut' = Latch(fCtl, fIn', fOut, FBubble) /\ dOut' = Latch(dCtl, dIn, dOut, DBubble)
  BY <1>2 DEF Clock
<1>7. load_use => fOut' = fOut /\ dOut' = dOut
  BY <1>5, <1>6 DEF Latch
<1>8. f_stall => fOut' = fOut
  BY <1>6 DEF fCtl, Ctl, Latch
<1>9. wIn.status \notin {"ADR", "INS"}
  BY AdvanceGuest
<1>10. fIn'.pred_PC = CorrectedPC
  BY <1>9 DEF Clock, RInv, IInv, Records
<1>11. ~f_stall /\ ~load_use /\ ~ret /\ ~br /\ ~ret_from_main =>
           fOut'.pred_PC = IF cb THEN dOut.mp ELSE F_PC
  BY <1>6, <1>10 DEF fCtl, Ctl, Latch, CorrectedPC
<1>12. /\ ~load_use => dOut' = IF ret \/ mispred \/ ret_from_main \/ br \/ cb
                               THEN DBubble ELSE dIn
       /\ load_use \/ mispred => xOut' = XBubble
       /\ ~load_use /\ ~mispred => xOut' = xIn'
  BY ClockLatches
<1> QED  BY <1>3, <1>4, <1>7, <1>8, <1>11, <1>12

\* The registers before and after the instruction in M, which raised no fault.
LEMMA OverlayAdvances ==
    ASSUME RInv, Alive, "M" \in done, wIn.status = mOut.status, NEW r \in 0 .. XZR_NUM
    PROVE  /\ RegAt(Retired, r) =
                 IF r = XZR_NUM THEN 0
                 ELSE IF wOut.w_enable /\ wOut.dst = r
                      THEN IF wOut.wval_sel THEN wOut.val_mem ELSE wOut.val_ex
                 ELSE gpr[r]
           /\ RegAt(Overlay(Retired, wIn), r) =
                 IF r = XZR_NUM THEN 0
                 ELSE IF mOut.w_enable /\ mOut.dst = r
                      THEN IF mOut.wval_sel THEN wIn.val_mem ELSE mOut.val_ex
                 ELSE RegAt(Retired, r)
<1>1. Outputs /\ Inputs
  BY DEF RInv
<1>2. /\ wIn.wval_sel = mOut.wval_sel /\ wIn.w_enable = mOut.w_enable
      /\ wIn.dst = mOut.dst /\ wIn.val_ex = mOut.val_ex
  BY <1>1 DEF Inputs, MemoryLeaves
<1>3. /\ wOut.w_enable => wOut.status = "AOK" /\ wOut.dst \in 0 .. XZR_NUM
      /\ gpr = [s \in Regs |-> gpr[s]]
  BY <1>1 DEF Outputs, WHolds, RInv, Shapes
<1>4. mOut.w_enable => mOut.status = "AOK" /\ mOut.dst \in 0 .. XZR_NUM
  <2>1. mOut.w_enable => mOut.status = "AOK"
    BY DEF RInv, IInv, OutputsInert, InertM, Squashed, TypeOK, Status
  <2>2. mOut.status = "AOK" => InText(mOut.pc)
                               /\ mOut.dst = Dst(prog[mOut.pc], Opcode(prog[mOut.pc]))
    BY <1>1 DEF Outputs, MHolds, MHoldsFor, MResults, DecodedM
  <2>3. mOut.status = "AOK" => prog[mOut.pc] \in Instr
    BY <2>2 DEF RInv, Shapes, InText
  <2> QED  BY <2>1, <2>2, <2>3, RegisterNumbers
<1>5. /\ Retired = [s \in Regs |-> Retired[s]]
      /\ RegAt(Retired, r) =
            IF r = XZR_NUM THEN 0
            ELSE IF wOut.w_enable /\ wOut.dst = r
                 THEN IF wOut.wval_sel THEN wOut.val_mem ELSE wOut.val_ex
            ELSE gpr[r]
  BY <1>3, OverlayAt DEF Retired
<1>6. RegAt(Overlay(Retired, wIn), r) =
          IF r = XZR_NUM THEN 0
          ELSE IF mOut.w_enable /\ mOut.dst = r
               THEN IF mOut.wval_sel THEN wIn.val_mem ELSE mOut.val_ex
          ELSE Retired[r]
  BY <1>2, <1>4, <1>5, OverlayAt
<1> QED  BY <1>5, <1>6 DEF RegAt

\* The same, for the register file that the clock leaves.
LEMMA RetiredAdvances ==
    ASSUME Advances, NEW r \in 0 .. XZR_NUM
    PROVE  /\ RegAt(Retired, r) =
                 IF r = XZR_NUM THEN 0
                 ELSE IF wOut.w_enable /\ wOut.dst = r
                      THEN IF wOut.wval_sel THEN wOut.val_mem ELSE wOut.val_ex
                 ELSE gpr[r]
           /\ RegAt(Retired', r) =
                 IF r = XZR_NUM THEN 0
                 ELSE IF mOut.w_enable /\ mOut.dst = r
                      THEN IF mOut.wval_sel THEN wIn.val_mem ELSE mOut.val_ex
                 ELSE RegAt(Retired, r)
<1>1. /\ RInv /\ Alive /\ wIn.status = mOut.status /\ Retired' = Overlay(Retired, wIn)
      /\ "M" \in done
  BY AdvanceGuest DEF Advances, Clock, Stages
<1> QED  BY <1>1, OverlayAdvances

\* Forwarding delivers the registers as they are once the instructions in X, M and
\* W have completed, a load in X excepted.
LEMMA ForwardDelivers ==
    ASSUME Advances, NEW r \in 0 .. XZR_NUM
    PROVE  Forward(r, RegAt(gpr, r)) =
               IF r = XZR_NUM THEN 0
               ELSE IF xOut.w_enable /\ xOut.dst = r THEN mIn.val_ex
               ELSE RegAt(Retired', r)
BY RetiredAdvances DEF Forward, RegAt

\* A stop at an address, or an instruction, is the program's.
LEMMA ProgramKept ==
    ASSUME prog' = prog, NEW p
    PROVE  StopAt(p)' = StopAt(p) /\ UndefAt(p)' = UndefAt(p) /\ InText(p)' = InText(p)
BY DEF StopAt, UndefAt, InText

\* The instruction that enters X is the one of D.
LEMMA XInAddress ==
    ASSUME Advances
    PROVE  /\ xIn'.pc = dOut.pc /\ xIn'.status = dOut.status
           /\ D_src1 = Src1(dOut.i, dOut.op) /\ D_src2 = Src2(dOut.i, dOut.op)
<1>1. RInv /\ Clock /\ Inputs /\ "D" \in done
  BY AdvanceGuest DEF Advances, Clock, Stages
<1>2. /\ xIn.pc = dOut.pc /\ xIn.status = dOut.status
      /\ D_src1 = Src1(dOut.i, dOut.op) /\ D_src2 = Src2(dOut.i, dOut.op)
  BY <1>1 DEF Inputs, DecodeLeaves, RInv, IInv, DecodeDone
<1>3. xIn'.pc = xIn.pc /\ xIn'.status = xIn.status
  BY <1>1 DEF Clock, RInv, IInv, Records, XBubble
<1> QED  BY <1>2, <1>3

\* The instruction that enters X, with its operands forwarded.
LEMMA XInForwarded ==
    ASSUME Advances, dOut.status = "AOK"
    PROVE  /\ dOut.i \in Instr /\ dOut.i = prog[dOut.pc] /\ dOut.op = Opcode(dOut.i)
           /\ InText(dOut.pc)
           /\ D_src1 = Src1(dOut.i, dOut.op) /\ D_src2 = Src2(dOut.i, dOut.op)
           /\ xIn'.pc = dOut.pc /\ xIn'.status = dOut.status
           /\ DecodedX(xIn', dOut.i, dOut.op)
           /\ xIn.val_a = RegAt(gpr, D_src1)
           /\ xIn'.val_a = Forward(D_src1, RegAt(gpr, D_src1))
           /\ xIn'.val_b = Forward(D_src2, RegAt(gpr, D_src2))
<1>1. RInv /\ Clock /\ Outputs /\ Inputs /\ "D" \in done
  BY AdvanceGuest DEF Advances, Clock, Stages
<1>2. /\ dOut.i = prog[dOut.pc] /\ dOut.op = Opcode(dOut.i) /\ InText(dOut.pc)
  BY <1>1 DEF Outputs, DHolds, DecodedD
<1>3. dOut.i \in Instr
  BY <1>1, <1>2 DEF RInv, Shapes, InText
<1>4. /\ D_src1 = Src1(dOut.i, dOut.op) /\ D_src2 = Src2(dOut.i, dOut.op)
      /\ xIn.pc = dOut.pc /\ DecodedX(xIn, dOut.i, dOut.op)
      /\ xIn.val_a = RegAt(gpr, D_src1) /\ xIn.val_b = RegAt(gpr, D_src2)
  BY <1>1 DEF Inputs, DecodeLeaves
<1>5. /\ xIn' = [xIn EXCEPT !.val_a = Forward(D_src1, xIn.val_a),
                            !.val_b = Forward(D_src2, xIn.val_b)]
      /\ xIn = [x \in DOMAIN XBubble |-> xIn[x]]
  BY <1>1 DEF Clock, RInv, IInv, Records
<1>6. /\ xIn'.val_a = Forward(D_src1, xIn.val_a) /\ xIn'.val_b = Forward(D_src2, xIn.val_b)
      /\ xIn'.pc = xIn.pc /\ xIn'.status = xIn.status
  BY <1>5 DEF XBubble
<1>7. /\ xIn'.op = xIn.op /\ xIn'.mp = xIn.mp /\ xIn'.dmem_read = xIn.dmem_read
      /\ xIn'.dmem_write = xIn.dmem_write /\ xIn'.wval_sel = xIn.wval_sel
      /\ xIn'.w_enable = xIn.w_enable /\ xIn'.dst = xIn.dst
      /\ xIn'.vala_sel = xIn.vala_sel /\ xIn'.valb_sel = xIn.valb_sel
      /\ xIn'.set_flags = xIn.set_flags /\ xIn'.ALU_op = xIn.ALU_op
      /\ xIn'.cond = xIn.cond /\ xIn'.val_imm = xIn.val_imm /\ xIn'.val_hw = xIn.val_hw
  BY <1>5 DEF XBubble
<1>8. DecodedX(xIn', dOut.i, dOut.op)
  BY <1>4, <1>6, <1>7 DEF DecodedX, DecodedM
<1>9. xIn.status = dOut.status
  BY <1>1 DEF RInv, IInv, DecodeDone
<1> QED  BY <1>2, <1>3, <1>4, <1>6, <1>8, <1>9

\* The instruction that enters M, as X leaves it.
LEMMA MInExecuted ==
    ASSUME Advances
    PROVE  /\ mIn.pc = xOut.pc /\ mIn.op = xOut.op /\ mIn.mp = xOut.mp
           /\ mIn.status = xOut.status
           /\ mIn.dmem_read = xOut.dmem_read /\ mIn.dmem_write = xOut.dmem_write
           /\ mIn.wval_sel = xOut.wval_sel /\ mIn.w_enable = xOut.w_enable
           /\ mIn.val_b = xOut.val_b /\ mIn.dst = xOut.dst
           /\ mIn.val_ex = AluValue(xOut.ALU_op, XValA, XValB, xOut.val_hw, nzcv, xOut.cond)
           /\ ~xOut.set_flags => mIn.cond_holds = AluCond(xOut.ALU_op, mIn.val_ex, xOut.cond, nzcv)
<1>1. RInv /\ Inputs /\ "X" \in done
  BY AdvanceGuest DEF Advances, Clock, Stages
<1>2. ~xOut.set_flags => AluFlags(xOut.ALU_op, XValA, XValB, nzcv, xOut.set_flags) = nzcv
  BY DEF AluFlags
<1> QED  BY <1>1, <1>2 DEF RInv, IInv, ExecuteDone, Inputs, ExecuteLeaves

\* The instruction in X, when it is live.
LEMMA XLive ==
    ASSUME Advances, xOut.status = "AOK", NEW i, i = prog[xOut.pc]
    PROVE  /\ i \in Instr /\ InText(xOut.pc)
           /\ XOperands(i, Opcode(i)) /\ XSuccessor(i, Opcode(i))
<1>1. RInv /\ Outputs
  BY AdvanceGuest DEF Advances
<1> QED  BY <1>1 DEF Outputs, XHolds, InText, RInv, Shapes

\* A result in X belongs to a live instruction.
LEMMA XEnabledIsLive ==
    ASSUME Advances, xOut.w_enable \/ xOut.op \notin Mute
    PROVE  xOut.status = "AOK"
<1>1. RInv
  BY DEF Advances
<1> QED  BY <1>1 DEF RInv, IInv, OutputsInert, InertX, TypeOK, Status, Squashed

\* Forwarding anticipates what the next instruction in M leaves.
LEMMA BehindMAdvances ==
    ASSUME Advances, NEW r \in 0 .. XZR_NUM
    PROVE  BehindM(r)' = Forward(r, RegAt(gpr, r))
<1>1. mOut' = mIn
  BY AdvanceGuest
<1>2. mIn.w_enable = xOut.w_enable /\ mIn.dst = xOut.dst
  BY MInExecuted
<1> QED  BY <1>1, <1>2, ForwardDelivers DEF BehindM, RegAt

\* What the instruction in M leaves, when it does not load it, is there for the
\* next one in M.
LEMMA BehindMRetires ==
    ASSUME Advances, NEW r \in 0 .. XZR_NUM, ~Loading(r)
    PROVE  BehindM(r) = RegAt(Retired', r)
BY RetiredAdvances DEF BehindM, Loading, RegAt

\* The instruction that enters X has the operands it needs.
LEMMA AdvanceXOperands ==
    ASSUME Advances, ~load_use, xOut' = xIn', dOut.status = "AOK",
           NEW i, i = dOut.i, NEW op, op = dOut.op
    PROVE  XOperands(i, op)'
<1>1. /\ i \in Instr /\ D_src1 = Src1(i, op) /\ D_src2 = Src2(i, op)
      /\ DecodedX(xIn', i, op)
      /\ xIn'.val_a = Forward(Src1(i, op), RegAt(gpr, Src1(i, op)))
      /\ xIn'.val_b = Forward(Src2(i, op), RegAt(gpr, Src2(i, op)))
  BY XInForwarded
<1>2. Src1(i, op) \in 0 .. XZR_NUM /\ Src2(i, op) \in 0 .. XZR_NUM
  BY <1>1, RegisterNumbers
<1>3. /\ xIn'.val_a = BehindM(Src1(i, op))' /\ xIn'.val_b = BehindM(Src2(i, op))'
  BY <1>1, <1>2, BehindMAdvances
<1>4. ASSUME NEW r, Loading(r)' PROVE xOut.op = "LDUR" /\ xOut.dst = r /\ xOut.dst # XZR_NUM
  <2>1. mOut' = mIn
    BY AdvanceGuest
  <2>2. xOut.w_enable /\ xOut.wval_sel /\ xOut.dst = r /\ r # XZR_NUM
    BY <1>4, <2>1, MInExecuted DEF Loading
  <2>3. xOut.status = "AOK"
    BY <2>2, XEnabledIsLive
  <2>4. XOperands(prog[xOut.pc], Opcode(prog[xOut.pc]))
    BY <2>3, XLive
  <2>5. xOut.op \in WVAL_SEL
    BY <2>2, <2>4 DEF XOperands, DecodedX, DecodedM
  <2> QED  BY <2>2, <2>5, Signals
<1>5. Loading(Src1(i, op))' => op \in IndirectBranches
  BY <1>1, <1>4 DEF load_use
<1>6. ~Loading(Src2(i, op))'
  <2>1. op \in IndirectBranches => Src2(i, op) = XZR_NUM
    BY JumpSources
  <2> QED  BY <1>1, <1>4, <2>1 DEF load_use
<1>7. DecodedX(xIn', i, op) /\ xOut' = xIn' => DecodedX(xOut, i, op)'
  BY DEF DecodedX, DecodedM
<1> QED  BY <1>1, <1>3, <1>5, <1>6, <1>7 DEF XOperands

\* With an instruction in D, F fetches behind it.
LEMMA FetchedBehindD ==
    ASSUME Advances
    PROVE  /\ dIn.pc = SelectPC /\ dIn.status \in {"AOK", "HLT", "INS"}
           /\ fOut.status = dIn.status
           /\ dOut.status \notin Stop => RealStop(dIn)
           /\ dIn.status = "AOK" => /\ DecodedD(dIn) /\ fIn.status \notin Stop
                                    /\ F_PC = Predict(dIn.pc, dIn.i, dIn.op)
           /\ dOut.status = "AOK" =>
                  /\ ~IndirectInX /\ ~MispredInM
                  /\ fOut.pred_PC = Predict(dOut.pc, dOut.i, dOut.op)
                  /\ dOut.op # "RET" => SelectPC = fOut.pred_PC
<1>1. /\ RInv /\ Outputs /\ Inputs /\ "F" \in done /\ wIn.status \in {"AOK", "BUB"}
  BY AdvanceGuest DEF Advances, Clock, Stages
<1>2. dIn.status \in {"AOK", "HLT", "INS"}
  BY <1>1 DEF RInv, IInv, FetchDone, Live, Status, Inputs, FetchLeaves
<1>3. dOut.status = "AOK" => ~IndirectInX /\ ~MispredInM
  BY <1>1 DEF RInv, IInv, RedirectSquashes
<1>4. dOut.status = "AOK" /\ dOut.op # "RET" => SelectPC = fOut.pred_PC
  BY <1>3 DEF SelectPC
<1> QED  BY <1>1, <1>2, <1>3, <1>4 DEF Inputs, FetchLeaves, Outputs, DHolds

\* The instruction that enters X has its successor behind it, in F or in D.
LEMMA AdvanceXSuccessor ==
    ASSUME Advances, ~load_use, ~mispred, dOut.status = "AOK",
           NEW i, i = dOut.i, NEW op, op = dOut.op
    PROVE  XSuccessor(i, op)'
<1>1. xOut' = xIn' /\ mOut' = mIn /\ prog' = prog
  BY AdvanceLatches, AdvanceGuest
<1>2. /\ xOut'.pc = dOut.pc /\ xOut'.op = op
      /\ dOut.mp = Carried(dOut.pc, i, op)
      /\ D_src1 = Src1(i, op) /\ xOut'.val_a = Forward(D_src1, xIn.val_a)
  BY <1>1, XInForwarded, AdvanceGuest DEF DecodedX, DecodedM, Outputs, DHolds, DecodedD
<1>3. /\ dIn.pc = SelectPC /\ dIn.status \in {"AOK", "HLT", "INS"}
      /\ fOut.status = dIn.status /\ RealStop(dIn)
      /\ fOut.pred_PC = Predict(dOut.pc, i, op)
      /\ op # "RET" => SelectPC = fOut.pred_PC
  BY FetchedBehindD DEF Stop
<1>4. op \notin IndirectBranches \cup FormatB3 => ~br /\ ~ret /\ ~ret_from_main
  BY DEF br, ret, ret_from_main, FormatB3
<1>5. op \notin IndirectBranches \cup FormatB3 /\ ~cb =>
          AfterX' = Predict(dOut.pc, i, op)
  BY <1>1, <1>3, <1>4, AdvanceLatches DEF AfterX, FormatB3
<1>6. ASSUME op \in CompareBranches
      PROVE  \/ AfterX' = Successor(dOut.pc, i, op, xOut'.val_a, nzcv')
             \/ AfterX' = Wrap(dOut.pc + i.imm) /\ StopAt(AfterX')
  <2>1. op \notin IndirectBranches \cup FormatB3 /\ op \notin VALA_SEL /\ op # "ADRP" /\ op # "RET"
    BY <1>6 DEF CompareBranches, IndirectBranches, FormatB3, VALA_SEL
  <2>2. Predict(dOut.pc, i, op) = Wrap(dOut.pc + i.imm)
    BY <1>6 DEF Predict
  <2>3. CASE ~cb
    <3>1. Taken(i, op, xOut'.val_a, nzcv')
      BY <1>2, <1>6, <2>3 DEF cb, Taken, CompareBranches
    <3> QED  BY <1>5, <2>1, <2>2, <2>3, <3>1 DEF Successor
  <2>4. CASE cb
    <3>1. ~Taken(i, op, xOut'.val_a, nzcv')
      BY <1>2, <1>6, <2>4 DEF cb, Taken, CompareBranches
    <3>2. dOut' = DBubble
      BY <2>4, AdvanceLatches
    <3>3. ~IndirectInX' /\ ~MispredInM'
      BY <1>1, <1>2, <2>1, MInExecuted DEF IndirectInX, MispredInM, mispred
    <3>4. AfterX' = fOut'.pred_PC
      BY <3>2, <3>3 DEF AfterX, SelectPC, DBubble
    <3>5. CASE f_stall
      <4>1. fOut' = fOut
        BY <3>5, AdvanceLatches
      <4>2. StopAt(SelectPC)
        BY <1>3, <3>5 DEF f_stall, RealStop, UndefAt, StopAt
      <4> QED  BY <1>3, <2>1, <2>2, <3>4, <4>1, <4>2
    <3>6. CASE ~f_stall
      <4>1. AfterX' = Wrap(dOut.pc + 1)
        BY <1>2, <1>4, <2>1, <2>4, <3>4, <3>6, AdvanceLatches DEF Carried
      <4> QED  BY <2>1, <3>1, <4>1 DEF Successor
    <3> QED  BY <3>5, <3>6
  <2> QED  BY <2>3, <2>4
<1>7. op \notin CompareBranches => ~cb
  BY DEF cb, CompareBranches
<1>8. \A p : StopAt(p)' = StopAt(p)
  BY <1>1, ProgramKept
<1> QED  BY <1>2, <1>5, <1>6, <1>7, <1>8 DEF XSuccessor

\* What is said of X holds of the instruction that enters it.
LEMMA AdvanceX == Advances => XHolds'
<1> SUFFICES ASSUME Advances PROVE XHolds'
  OBVIOUS
<1>1. /\ xOut' = XBubble \/ (xOut' = xIn' /\ ~load_use /\ ~mispred)
      /\ prog' = prog /\ mOut' = mIn /\ Outputs
  BY AdvanceLatches, AdvanceGuest
<1>2. CASE xOut' = XBubble
  BY <1>2 DEF XHolds, XBubble, RealStop
<1>3. CASE xOut' = xIn' /\ ~load_use /\ ~mispred
  <2>1. xOut'.pc = dOut.pc /\ xOut'.status = dOut.status
    BY <1>3, XInAddress
  <2>2. ASSUME dOut.status = "AOK"
        PROVE  /\ InText(xOut.pc)'
               /\ XOperands(prog[xOut.pc], Opcode(prog[xOut.pc]))'
               /\ XSuccessor(prog[xOut.pc], Opcode(prog[xOut.pc]))'
    <3> PICK i, op : i = dOut.i /\ op = dOut.op
      OBVIOUS
    <3>1. XOperands(i, op)' /\ XSuccessor(i, op)'
      BY <1>3, <2>2, AdvanceXOperands, AdvanceXSuccessor
    <3>2. i = prog[dOut.pc] /\ op = Opcode(prog[dOut.pc]) /\ InText(dOut.pc)
      BY <2>2, XInForwarded
    <3>3. (prog[xOut.pc])' = i /\ Opcode(prog[xOut.pc])' = op
      BY <1>1, <2>1, <3>2
    <3> QED  BY <1>1, <2>1, <3>1, <3>2, <3>3, ProgramKept
  <2>3. mOut'.status \notin Stop => RealStop(xOut)'
    BY <1>1, <2>1, MInExecuted, ProgramKept DEF Outputs, DHolds, RealStop
  <2> QED  BY <2>1, <2>2, <2>3 DEF XHolds
<1> QED  BY <1>1, <1>2, <1>3

\* What is said of D holds of the instruction that enters it.
LEMMA AdvanceD == Advances => DHolds'
<1> SUFFICES ASSUME Advances PROVE DHolds'
  OBVIOUS
<1>1. /\ prog' = prog /\ dIn' = dIn /\ Outputs
  BY AdvanceGuest
<1>2. \A p : InText(p)' = InText(p)
  BY <1>1, ProgramKept
<1>3. CASE load_use
  <2>1. /\ fOut' = fOut /\ dOut' = dOut /\ xOut.op = "LDUR"
    BY <1>3, AdvanceLatches
  <2>2. xOut.status \notin Stop
    BY <2>1, XEnabledIsLive DEF Mute, Stop
  <2> QED  BY <1>1, <1>2, <2>1, <2>2, ProgramKept DEF Outputs, DHolds, DecodedD, RealStop
<1>4. CASE ~load_use /\ dOut' = DBubble
  BY <1>4 DEF DHolds, DBubble, RealStop
<1>5. CASE ~load_use /\ dOut' # DBubble
  <2>1. /\ dOut' = dIn /\ ~(ret \/ mispred \/ ret_from_main \/ br \/ cb) /\ xOut' = xIn'
    BY <1>5, AdvanceLatches
  <2>2. /\ fOut.status = dIn.status
        /\ dOut.status \notin Stop => RealStop(dIn)
        /\ dIn.status = "AOK" => DecodedD(dIn) /\ F_PC = Predict(dIn.pc, dIn.i, dIn.op)
    BY FetchedBehindD
  <2>3. dIn.status = "AOK" => fOut'.pred_PC = F_PC
    BY <1>5, <2>1, <2>2, AdvanceLatches DEF f_stall
  <2>4. DecodedD(dIn) => DecodedD(dOut)'
    BY <1>1, <1>2, <2>1 DEF DecodedD
  <2>5. xOut'.status = dOut.status
    BY <2>1, XInAddress
  <2> QED  BY <1>1, <2>1, <2>2, <2>3, <2>4, <2>5, ProgramKept DEF DHolds, RealStop
<1> QED  BY <1>3, <1>4, <1>5

\* A result that enters W is a live instruction's.
LEMMA AdvanceW == Advances => WHolds'
<1> SUFFICES ASSUME Advances, wIn.w_enable
             PROVE  wIn.status = "AOK" /\ wIn.dst \in 0 .. XZR_NUM
  BY AdvanceGuest DEF WHolds
<1>1. RInv /\ Outputs /\ Inputs /\ "M" \in done /\ wIn.status = mOut.status
  BY AdvanceGuest DEF Advances, Clock, Stages
<1>2. mOut.w_enable /\ wIn.dst = mOut.dst
  BY <1>1 DEF Inputs, MemoryLeaves
<1>3. mOut.status = "AOK"
  BY <1>1, <1>2, AdvanceGuest DEF RInv, IInv, OutputsInert, InertM, Squashed
<1>4. InText(mOut.pc) /\ mOut.dst = Dst(prog[mOut.pc], Opcode(prog[mOut.pc]))
  BY <1>1, <1>3 DEF Outputs, MHolds, MHoldsFor, MResults, DecodedM
<1>5. prog[mOut.pc] \in Instr
  BY <1>1, <1>4 DEF RInv, Shapes, InText
<1> QED  BY <1>1, <1>2, <1>3, <1>4, <1>5, RegisterNumbers

\* The operands X computes with are those of the instruction, once it is in M; a
\* jump behind a load is the exception.
LEMMA AdvanceMResults ==
    ASSUME Advances, xOut.status = "AOK",
           NEW i, i = prog[xOut.pc], NEW op, op = Opcode(i),
           NEW a, a = RegAt(Retired', Src1(i, op)), NEW b, b = RegAt(Retired', Src2(i, op))
    PROVE  MResults(i, op, a, b)'
<1>1. i \in Instr /\ XOperands(i, op)
  BY XLive
<1>2. DecodedX(xOut, i, op)
  BY <1>1 DEF XOperands
<1>3. xOut.val_b = b /\ (op \notin IndirectBranches => xOut.val_a = a)
  BY <1>1, RegisterNumbers, BehindMRetires DEF XOperands
<1>4. /\ mOut' = mIn /\ nzcvOld' = nzcv
      /\ nzcv' = AluFlags(xOut.ALU_op, XValA, XValB, nzcv, xOut.set_flags)
  BY AdvanceGuest
<1>5. XValB = OpB(i, op, b)
  BY <1>2, <1>3 DEF XValB, OpB, DecodedX
<1>6. op # "BR" => XValA = OpA(xOut.pc, i, op, a)
  BY <1>2, <1>3 DEF XValA, OpA, DecodedX, DecodedM, Carried, VALA_SEL, IndirectBranches
<1>7. DecodedM(mOut, i, op)' /\ mOut'.val_b = b
  BY <1>2, <1>3, <1>4, MInExecuted DEF DecodedX, DecodedM
<1>8. op # "BR" => mOut'.val_ex = AluValue(AluOp(op), OpA(xOut.pc, i, op, a), OpB(i, op, b),
                                           i.hw, nzcv, i.cond)
  BY <1>2, <1>4, <1>5, <1>6, MInExecuted DEF DecodedX
<1>9. nzcv' = AluFlags(AluOp(op), OpA(xOut.pc, i, op, a), OpB(i, op, b), nzcv, op \in SET_FLAGS)
  <2>1. CASE op = "BR"
    <3>1. op \notin SET_FLAGS
      BY <2>1 DEF SET_FLAGS
    <3> QED  BY <1>2, <1>4, <3>1 DEF DecodedX, AluFlags
  <2>2. CASE op # "BR"
    BY <1>2, <1>4, <1>5, <1>6, <2>2 DEF DecodedX
  <2> QED  BY <2>1, <2>2
<1>10. op = "B_COND" => mOut'.cond_holds = CondHolds(i.cond, nzcv)
  <2>1. op = "B_COND" => AluOp(op) = "PASS_A_OP" /\ op \notin SET_FLAGS
    BY DEF AluOp, SET_FLAGS
  <2> QED  BY <1>2, <1>4, <2>1, MInExecuted DEF DecodedX, AluCond
<1>11. mOut'.pc = xOut.pc
  BY <1>4, MInExecuted
<1> QED  BY <1>4, <1>7, <1>8, <1>9, <1>10, <1>11 DEF MResults

\* Unless a branch is found mispredicted, the instruction behind X stays there.
LEMMA AfterXStays ==
    ASSUME Advances, ~mispred
    PROVE  AfterM' = AfterX
<1>1. CASE load_use
  <2>1. dOut' = dOut /\ xOut' = XBubble
    BY <1>1, AdvanceLatches
  <2>2. dOut.status # "BUB"
    <3>1. dOut.op \notin Mute
      BY <1>1, XInAddress, JumpSources DEF load_use
    <3> QED  BY <3>1 DEF Advances, RInv, IInv, OutputsInert, InertD, Squashed
  <2> QED  BY <2>1, <2>2 DEF AfterM, AfterX, XBubble
<1>2. CASE ~load_use
  <2>1. xOut' = xIn' /\ xIn'.pc = dOut.pc /\ xIn'.status = dOut.status
    BY <1>2, AdvanceLatches, XInAddress
  <2>2. CASE dOut.status = "BUB"
    <3>1. dOut.op \in Mute
      BY <2>2 DEF Advances, RInv, IInv, OutputsInert, InertD, Squashed
    <3>2. dOut' = dIn
      BY <1>2, <3>1, AdvanceLatches, MuteRaisesNoHazard
    <3>3. dIn.pc = SelectPC /\ dIn.status # "BUB"
      BY FetchedBehindD
    <3> QED  BY <2>1, <2>2, <3>2, <3>3 DEF AfterM, AfterX
  <2>3. CASE dOut.status # "BUB"
    BY <2>1, <2>3 DEF AfterM, AfterX
  <2> QED  BY <2>2, <2>3
<1> QED  BY <1>1, <1>2

\* The instruction that enters M has its successor behind it, once mispredictions
\* are corrected, but for the known divergences.
LEMMA AdvanceMSuccessor ==
    ASSUME Advances, xOut.status = "AOK",
           NEW i, i = prog[xOut.pc], NEW op, op = Opcode(i),
           NEW a, a = RegAt(Retired', Src1(i, op))
    PROVE  MSuccessor(i, op, a)'
<1>1. i \in Instr /\ XOperands(i, op) /\ XSuccessor(i, op)
  BY XLive
<1>2. xOut.op = op /\ xOut.mp = Carried(xOut.pc, i, op) /\ xOut.ALU_op = AluOp(op)
      /\ xOut.set_flags = (op \in SET_FLAGS) /\ xOut.cond = i.cond
  BY <1>1 DEF XOperands, DecodedX, DecodedM
<1>3. /\ mOut' = mIn /\ wOut' = wIn /\ nzcvOld' = nzcv /\ prog' = prog
      /\ mOut'.pc = xOut.pc
  BY AdvanceGuest, MInExecuted
<1>4. xOut.val_a = BehindM(Src1(i, op)) /\ Src1(i, op) \in 0 .. XZR_NUM
  BY <1>1, RegisterNumbers DEF XOperands
<1>5. ~Loading(Src1(i, op)) => xOut.val_a = a
  BY <1>4, BehindMRetires
<1>6. op \notin IndirectBranches => xOut.val_a = a
  BY <1>1, <1>5 DEF XOperands
<1>7. \A p : StopAt(p)' = StopAt(p)
  BY <1>3, ProgramKept
<1>8. op = "B_COND" => mIn.cond_holds = CondHolds(i.cond, nzcv)
  <2>1. op = "B_COND" => AluOp(op) = "PASS_A_OP" /\ op \notin SET_FLAGS
    BY DEF AluOp, SET_FLAGS
  <2> QED  BY <1>2, <2>1, MInExecuted DEF AluCond
<1>9. CASE mispred
  <2>1. op = "B_COND" /\ ~mIn.cond_holds
    BY <1>2, <1>9 DEF mispred
  <2>2. ~load_use /\ dOut' = DBubble /\ xOut' = XBubble
    BY <1>9, AdvanceLatches DEF load_use, mispred
  <2>3. AfterM' = mIn.mp
    BY <1>2, <1>3, <2>1, <2>2, MInExecuted DEF AfterM, AfterX, SelectPC, IndirectInX, MispredInM, DBubble,
       XBubble, IndirectBranches
  <2>4. mIn.mp = Wrap(xOut.pc + 1)
    BY <1>2, <2>1, MInExecuted DEF Carried
  <2>5. Successor(xOut.pc, i, op, a, nzcv) = Wrap(xOut.pc + 1)
    BY <1>8, <2>1 DEF Successor, Taken, FormatB3, IndirectBranches
  <2> QED  BY <1>3, <2>3, <2>4, <2>5 DEF MSuccessor
<1>10. CASE ~mispred
  <2>1. AfterM' = AfterX
    BY <1>10, AfterXStays
  <2>2. CASE op \in IndirectBranches \cup FormatB3
    <3>1. IndirectInX
      BY <1>2, <2>2 DEF IndirectInX, FormatB3
    <3>2. dOut.status = "BUB" /\ dOut.op # "RET"
      BY <3>1 DEF Advances, RInv, IInv, RedirectSquashes, OutputsInert, InertD, Squashed, Mute
    <3>3. AfterM' = xOut.val_a
      BY <2>1, <3>1, <3>2 DEF AfterX, SelectPC
    <3>4. CASE ~Loading(Src1(i, op))
      BY <1>3, <1>5, <2>2, <3>3, <3>4 DEF MSuccessor, Successor
    <3>5. CASE Loading(Src1(i, op))
      <4>1. op \in IndirectBranches
        BY <1>1, <3>5 DEF XOperands
      <4>2. /\ RInv /\ Outputs /\ Inputs /\ mOut.status = "AOK" /\ "M" \in done
        BY <3>5, AdvanceGuest DEF Advances, RInv, IInv, OutputsInert, InertM, Squashed, Loading,
           Clock, Stages
      <4>3. mOut.op = "LDUR"
        BY <3>5, <4>2, Signals DEF Outputs, MHolds, MHoldsFor, MResults, DecodedM, Loading
      <4>4. wIn.op = "LDUR" /\ wIn.dst = Src1(i, op) /\ wIn.val_ex = mOut.val_ex
        BY <3>5, <4>2, <4>3 DEF Inputs, MemoryLeaves, Loading
      <4>5. xOut.val_a = mOut.val_ex
        BY <1>4, <3>5 DEF BehindM, Loading
      <4> QED  BY <1>3, <3>3, <4>1, <4>4, <4>5 DEF MSuccessor
    <3> QED  BY <3>4, <3>5
  <2>3. CASE op \in CompareBranches
    <3>1. op \notin IndirectBranches \cup FormatB3
      BY <2>3 DEF CompareBranches, IndirectBranches, FormatB3
    <3>2. \/ AfterX = Successor(xOut.pc, i, op, a, nzcv)
          \/ AfterX = Wrap(xOut.pc + i.imm) /\ StopAt(AfterX)
      BY <1>1, <1>6, <2>3, <3>1 DEF XSuccessor
    <3>3. Taken(i, op, a, nzcv) => Successor(xOut.pc, i, op, a, nzcv) = Wrap(xOut.pc + i.imm)
      BY <3>1 DEF Successor
    <3> QED  BY <1>3, <1>7, <2>1, <2>3, <3>2, <3>3 DEF MSuccessor
  <2>4. CASE op \notin IndirectBranches \cup FormatB3 \cup CompareBranches
    <3>1. AfterX = Predict(xOut.pc, i, op)
      BY <1>1, <2>4 DEF XSuccessor
    <3>2. op = "B_COND" => CondHolds(i.cond, nzcv)
      BY <1>2, <1>8, <1>10 DEF mispred
    <3>3. Predict(xOut.pc, i, op) = Successor(xOut.pc, i, op, a, nzcv)
      BY <2>4, <3>2 DEF Predict, Successor, Taken, CompareBranches
    <3> QED  BY <1>3, <2>1, <3>1, <3>3 DEF MSuccessor
  <2> QED  BY <2>2, <2>3, <2>4
<1> QED  BY <1>9, <1>10

\* What is said of M holds of the instruction that enters it.
LEMMA AdvanceM == Advances => MHolds'
<1> SUFFICES ASSUME Advances PROVE MHolds'
  OBVIOUS
<1>1. /\ prog' = prog /\ mOut' = mIn /\ wOut' = wIn /\ Outputs /\ RInv
      /\ wIn.status = mOut.status /\ mOut.status \notin Stop /\ nzcvOld' = nzcv
      /\ nzcv' = AluFlags(xOut.ALU_op, XValA, XValB, nzcv, xOut.set_flags)
  BY AdvanceGuest DEF Advances, Stop
<1>2. mIn.pc = xOut.pc /\ mIn.status = xOut.status
  BY MInExecuted
<1>3. ASSUME xOut.status = "AOK"
      PROVE  InText(mOut.pc)' /\ MHoldsFor(prog[mOut.pc], Opcode(prog[mOut.pc]))'
  <2> PICK i, op, a, b : /\ i = prog[xOut.pc] /\ op = Opcode(i)
                         /\ a = RegAt(Retired', Src1(i, op)) /\ b = RegAt(Retired', Src2(i, op))
    OBVIOUS
  <2>1. MResults(i, op, a, b)' /\ MSuccessor(i, op, a)'
    BY <1>3, AdvanceMResults, AdvanceMSuccessor
  <2>2. MHoldsFor(i, op)'
    BY <2>1 DEF MHoldsFor, RegAt
  <2>3. (prog[mOut.pc])' = i /\ Opcode(prog[mOut.pc])' = op
    BY <1>1, <1>2
  <2>4. InText(xOut.pc)
    BY <1>3, XLive
  <2> QED  BY <1>1, <1>2, <2>2, <2>3, <2>4, ProgramKept
<1>4. xOut.status \in Stop => nzcv' = nzcv
  BY <1>1 DEF RInv, IInv, OutputsInert, InertX, Stop, Squashed, AluFlags
<1>5. RealStop(mOut)'
  BY <1>1, <1>2, ProgramKept DEF Outputs, XHolds, RealStop
<1> QED  BY <1>1, <1>2, <1>3, <1>4, <1>5 DEF MHolds

\* A stop that F has delivered stays the next instruction until a jump or a
\* misprediction clears it.
LEMMA AdvanceStops == Advances => StopSticks'
<1> SUFFICES ASSUME Advances, fIn.status \in Stop, ~IndirectInX', ~MispredInM', dOut'.status \notin Stop
             PROVE  StopAt(SelectPC)'
  BY AdvanceGuest DEF StopSticks
<1>1. prog' = prog /\ mOut' = mIn /\ RInv
  BY AdvanceGuest DEF Advances
<1>2. /\ dIn.pc = SelectPC /\ dIn.status \in Stop /\ fOut.status = dIn.status
      /\ dOut.status \notin Stop => RealStop(dIn)
      /\ dOut.status = "AOK" => ~IndirectInX /\ ~MispredInM
  BY FetchedBehindD DEF Stop
<1>3. dOut.status \notin Stop => StopAt(SelectPC)
  BY <1>2 DEF RealStop, UndefAt, StopAt, Stop
<1>4. f_stall
  BY <1>2 DEF f_stall, Stop
<1>5. dOut.op \notin Mute => dOut.status = "AOK"
  BY <1>1 DEF RInv, IInv, OutputsInert, InertD, TypeOK, Status, Squashed
<1>6. ~mispred
  BY <1>1, MInExecuted DEF mispred, MispredInM
<1>7. CASE load_use
  <2>1. fOut' = fOut /\ dOut' = dOut
    BY <1>7, AdvanceLatches
  <2>2. dOut.op \notin Mute
    BY <1>7, XInAddress, JumpSources DEF load_use
  <2>3. ~IndirectInX /\ ~MispredInM /\ StopAt(SelectPC)
    BY <1>2, <1>3, <1>5, <2>2 DEF Stop
  <2>4. SelectPC' = SelectPC
    BY <2>1, <2>3 DEF SelectPC
  <2> QED  BY <1>1, <2>3, <2>4, ProgramKept
<1>8. CASE ~load_use
  <2>1. xOut' = xIn'
    BY <1>6, <1>8, AdvanceLatches
  <2>2. dOut' = DBubble
    BY <1>2, <1>8, AdvanceLatches
  <2>3. ret \/ ret_from_main \/ br \/ cb
    BY <1>2, <1>6, <1>8, <2>2, AdvanceLatches DEF DBubble, Stop
  <2>4. dOut.status = "AOK"
    BY <1>5, <2>3, MuteRaisesNoHazard
  <2>5. xOut'.op = dOut.op
    BY <2>1, <2>4, XInForwarded DEF DecodedX, DecodedM
  <2>6. dOut.op # "RET" /\ dOut.op \notin IndirectBranches
    BY <2>5 DEF IndirectInX
  <2>7. SelectPC = fOut.pred_PC
    BY <1>2, <2>4, <2>6 DEF SelectPC
  <2>8. SelectPC' = fOut'.pred_PC
    BY <2>2 DEF SelectPC, DBubble
  <2>9. fOut' = fOut
    BY <1>4, AdvanceLatches
  <2> QED  BY <1>1, <1>3, <2>4, <2>7, <2>8, <2>9, ProgramKept DEF Stop
<1> QED  BY <1>7, <1>8

----------------------------------------------------------------------------
\* The clock preserves the invariant, whether the stages advance or wait.
LEMMA ClockRInv == RInv /\ Clock => RInv'
<1> SUFFICES ASSUME RInv, Clock PROVE RInv'
  OBVIOUS
<1>1. IInv' /\ Shapes'
  BY ClockIInv, ClockShapes DEF RInv
<1>2. ASSUME Alive' PROVE Outputs' /\ Inputs' /\ StopSticks' /\ InFlight'
  <2>1. Inputs'
    BY <1>2, ClockGoesOn DEF Inputs, FetchLeaves, DecodeLeaves, ExecuteLeaves, MemoryLeaves,
       WbackLeaves
  <2>2. CASE dmem_status = "IN_FLIGHT"
    BY <1>2, <2>1, <2>2, FlightRInv
  <2>3. CASE dmem_status # "IN_FLIGHT"
    <3>1. Advances
      BY <1>2, <2>3 DEF Advances
    <3>2. InFlight'
      BY <2>3, <3>1, AdvanceGuest DEF InFlight
    <3> QED  BY <2>1, <3>1, <3>2, AdvanceD, AdvanceX, AdvanceM, AdvanceW, AdvanceStops DEF Outputs
  <2> QED  BY <2>2, <2>3
<1> QED  BY <1>1, <1>2 DEF RInv

\* Every step preserves the invariant.
LEMMA StepRInv == RInv /\ [Next]_vars => RInv'
<1> SUFFICES ASSUME RInv, UNCHANGED vars PROVE RInv'
  BY FetchRInv, DecodeRInv, ExecuteRInv, MemoryRInv, WbackRInv, ClockRInv DEF Next
<1>1. IInv' /\ Shapes'
  BY StepIInv DEF RInv, Shapes, vars
<1>2. UNCHANGED Settled
  BY DEF vars, Settled
<1>3. Outputs => Outputs'
  BY <1>2, SettledOutputs
<1>4. SelectPC' = SelectPC /\ IndirectInX' = IndirectInX /\ MispredInM' = MispredInM
      /\ DataFetching' = DataFetching /\ DmemErr' = DmemErr /\ Accesses' = Accesses
      /\ \A p : StopAt(p)' = StopAt(p) /\ UndefAt(p)' = UndefAt(p)
  BY <1>2, SettledOutputs
<1>5. Alive' = Alive
  BY DEF vars, Alive
<1>6. FetchLeaves /\ DecodeLeaves => FetchLeaves' /\ DecodeLeaves'
  BY <1>4 DEF vars, FetchLeaves, DecodeLeaves, RealStop, DecodedD, InText, RegAt, DecodedX, DecodedM
<1>7. ExecuteLeaves => ExecuteLeaves'
  BY DEF vars, ExecuteLeaves, XValA, XValB
<1>8. MemoryLeaves /\ WbackLeaves => MemoryLeaves' /\ WbackLeaves'
  BY <1>4 DEF vars, MemoryLeaves, WbackLeaves
<1>9. StopSticks /\ InFlight => StopSticks' /\ InFlight'
  BY <1>4 DEF vars, StopSticks, InFlight
<1> QED  BY <1>1, <1>3, <1>5, <1>6, <1>7, <1>8, <1>9 DEF RInv, Inputs

\* In every state each pipeline register holds what its instruction would have if
\* the instructions before it had completed.
THEOREM RefinementInvariant == Spec => []RInv
  BY InitRInv, StepRInv, PTL DEF Spec

----------------------------------------------------------------------------
(* The operators of SeqMachine are those of Pipeline: both modules extend  *)
(* Isa, and the instance keeps its constants.                              *)

\* The formats of instructions,
LEMMA SameOpcodeSets ==
    /\ Sequential!FormatM = FormatM /\ Sequential!FormatI1 = FormatI1
    /\ Sequential!FormatI2 = FormatI2 /\ Sequential!FormatRR = FormatRR
    /\ Sequential!FormatRI = FormatRI /\ Sequential!FormatB3 = FormatB3
    /\ Sequential!CondSels = CondSels /\ Sequential!CompareBranches = CompareBranches
    /\ Sequential!IndirectBranches = IndirectBranches /\ Sequential!ECOps = ECOps
BY DEF Sequential!FormatM, FormatM, Sequential!FormatI1, FormatI1, Sequential!FormatI2, FormatI2,
       Sequential!FormatRR, FormatRR, Sequential!FormatRI, FormatRI, Sequential!FormatB3, FormatB3,
       Sequential!CondSels, CondSels, Sequential!CompareBranches, CompareBranches,
       Sequential!IndirectBranches, IndirectBranches, Sequential!ECOps, ECOps

\* the signals,
LEMMA SameSignals ==
    /\ Sequential!VALA_SEL = VALA_SEL /\ Sequential!VALB_SEL = VALB_SEL
    /\ Sequential!SET_FLAGS = SET_FLAGS /\ Sequential!W_ENABLE = W_ENABLE
BY SameOpcodeSets
   DEF Sequential!VALA_SEL, VALA_SEL, Sequential!VALB_SEL, VALB_SEL, Sequential!SET_FLAGS, SET_FLAGS,
       Sequential!W_ENABLE, W_ENABLE

\* the decoded operation,
LEMMA SameDecoding ==
    /\ \A i : Sequential!Opcode(i) = Opcode(i)
    /\ \A op : Sequential!AluOp(op) = AluOp(op)
<1>1. \A i : Sequential!Opcode(i) = Opcode(i)
  BY SameOpcodeSets DEF Sequential!Opcode, Opcode
<1>2. \A op : Sequential!AluOp(op) = AluOp(op)
  BY DEF Sequential!AluOp, AluOp
<1> QED  BY <1>1, <1>2

\* the registers of an instruction,
LEMMA SameRegisters ==
    ASSUME NEW i, NEW op
    PROVE  /\ Sequential!Dst(i, op) = Dst(i, op) /\ Sequential!Src1(i, op) = Src1(i, op)
           /\ Sequential!Src2(i, op) = Src2(i, op)
<1>1. \A n, z : Sequential!FixReg(n, z) = FixReg(n, z)
  BY DEF Sequential!FixReg, FixReg, Sequential!SP_NUM, SP_NUM, Sequential!XZR_NUM, XZR_NUM
<1>2. Sequential!ZeroRegOps = ZeroRegOps
  BY SameOpcodeSets DEF Sequential!ZeroRegOps, ZeroRegOps
<1>3. Sequential!XZR_NUM = XZR_NUM /\ Sequential!LINK = LINK
  BY DEF Sequential!XZR_NUM, XZR_NUM, Sequential!LINK, LINK
<1>4. Sequential!Dst(i, op) = Dst(i, op)
  BY <1>1, <1>2, <1>3, SameOpcodeSets DEF Sequential!Dst, Dst
<1>5. Sequential!Src1(i, op) = Src1(i, op)
  BY <1>1, <1>2, <1>3, SameOpcodeSets DEF Sequential!Src1, Src1
<1>6. Sequential!Src2(i, op) = Src2(i, op)
  BY <1>1, <1>3, <1>4, SameOpcodeSets DEF Sequential!Src2, Src2
<1> QED  BY <1>4, <1>5, <1>6

\* the arithmetic on bits and
LEMMA SameBits ==
    /\ Sequential!Pow2 = Pow2 /\ Sequential!BitAnd = BitAnd
    /\ \A x, n : Sequential!Bit(x, n) = Bit(x, n)
    /\ \A a, b, c : Sequential!Rca(a, b, c) = Rca(a, b, c)
<1>1. Sequential!Pow2 = Pow2
  BY DEF Sequential!Pow2, Pow2
<1>2. Sequential!BitAnd = BitAnd
  BY DEF Sequential!BitAnd, BitAnd
<1>3. \A x, n : Sequential!Bit(x, n) = Bit(x, n)
  BY <1>1 DEF Sequential!Bit, Bit
<1>4. \A a, b, c : Sequential!Rca(a, b, c) = Rca(a, b, c)
  BY DEF Sequential!Rca, Rca, Sequential!Bit, Bit, Sequential!Pow2, Pow2
<1> QED  BY <1>1, <1>2, <1>3, <1>4

\* on words,
LEMMA SameWords ==
    /\ \A n : Sequential!Wrap(n) = Wrap(n)
    /\ \A x : Sequential!Not(x) = Not(x) /\ Sequential!Negative(x) = Negative(x)
    /\ \A a, b : /\ Sequential!And(a, b) = And(a, b) /\ Sequential!Or(a, b) = Or(a, b)
                 /\ Sequential!Xor(a, b) = Xor(a, b)
    /\ \A a, b, c : /\ Sequential!AddSum(a, b, c) = AddSum(a, b, c)
                    /\ Sequential!AddCarry(a, b, c) = AddCarry(a, b, c)
    /\ \A x, n : /\ Sequential!ShiftLeft(x, n) = ShiftLeft(x, n)
                 /\ Sequential!ShiftRight(x, n) = ShiftRight(x, n)
                 /\ Sequential!ShiftRightSigned(x, n) = ShiftRightSigned(x, n)
<1>1. \A n : Sequential!Wrap(n) = Wrap(n)
  BY SameBits DEF Sequential!Wrap, Wrap, Sequential!Modulus, Modulus
<1>2. \A x : Sequential!Not(x) = Not(x) /\ Sequential!Negative(x) = Negative(x)
  BY SameBits DEF Sequential!Not, Not, Sequential!Negative, Negative, Sequential!Modulus, Modulus
<1>3. \A a, b : Sequential!And(a, b) = And(a, b)
  BY SameBits DEF Sequential!And, And
<1>4. \A a, b : Sequential!Or(a, b) = Or(a, b) /\ Sequential!Xor(a, b) = Xor(a, b)
  BY SameBits DEF Sequential!Or, Or, Sequential!Xor, Xor
<1>5. \A a, b, c : /\ Sequential!AddSum(a, b, c) = AddSum(a, b, c)
                   /\ Sequential!AddCarry(a, b, c) = AddCarry(a, b, c)
  BY SameBits DEF Sequential!AddSum, AddSum, Sequential!AddCarry, AddCarry
<1>6. \A x, n : /\ Sequential!ShiftLeft(x, n) = ShiftLeft(x, n)
                /\ Sequential!ShiftRight(x, n) = ShiftRight(x, n)
  BY <1>1, SameBits DEF Sequential!ShiftLeft, ShiftLeft, Sequential!ShiftRight, ShiftRight
<1>7. \A x, n : Sequential!ShiftRightSigned(x, n) = ShiftRightSigned(x, n)
  BY <1>2, <1>6 DEF Sequential!ShiftRightSigned, ShiftRightSigned
<1> QED  BY <1>1, <1>2, <1>3, <1>4, <1>5, <1>6, <1>7

\* the conditions,
LEMMA SameConditions ==
    ASSUME NEW c, NEW f
    PROVE  Sequential!CondHolds(c, f) = CondHolds(c, f)
BY DEF Sequential!CondHolds, CondHolds

\* the immediates,
LEMMA SameImmediates ==
    ASSUME NEW i, NEW op, NEW p
    PROVE  Sequential!Imm(i, op) = Imm(i, op) /\ Sequential!AdrpValue(p, i) = AdrpValue(p, i)
BY SameOpcodeSets, SameWords, SameBits
   DEF Sequential!Imm, Imm, Sequential!AdrpValue, AdrpValue, Sequential!FIELD, FIELD

\* the ALU and
LEMMA SameAlu ==
    ASSUME NEW op, NEW a, NEW b, NEW hw, NEW f, NEW c, NEW s
    PROVE  /\ Sequential!AluValue(op, a, b, hw, f, c) = AluValue(op, a, b, hw, f, c)
           /\ Sequential!AluFlags(op, a, b, f, s) = AluFlags(op, a, b, f, s)
<1>1. \A h, g, d : Sequential!AluValue(op, a, b, h, g, d) = AluValue(op, a, b, h, g, d)
  BY SameWords, SameBits, SameConditions DEF Sequential!AluValue, AluValue, Sequential!FIELD, FIELD
<1>2. Sequential!AluFlags(op, a, b, f, s) = AluFlags(op, a, b, f, s)
  BY <1>1, SameWords DEF Sequential!AluFlags, AluFlags
<1> QED  BY <1>1, <1>2

\* the address map are the same in both modules.
LEMMA SameAddresses ==
    /\ Sequential!ImemAddr = ImemAddr /\ Sequential!DmemAddr = DmemAddr
    /\ Sequential!SpecialAddr = SpecialAddr /\ Sequential!NULL_ADDR = NULL_ADDR
    /\ Sequential!IO_CHAR_ADDR = IO_CHAR_ADDR
    /\ Sequential!CHECKPOINT_ADDR = CHECKPOINT_ADDR
    /\ Sequential!RET_FROM_MAIN_ADDR = 0 /\ RET_FROM_MAIN_ADDR = 0
    /\ Sequential!Regs = Regs /\ Sequential!SP_NUM = SP_NUM /\ Sequential!XZR_NUM = XZR_NUM
BY SameBits
DEF Sequential!ImemAddr, ImemAddr, Sequential!DmemAddr, DmemAddr, Sequential!SpecialAddr, SpecialAddr,
       Sequential!NULL_ADDR, NULL_ADDR, Sequential!IO_CHAR_ADDR, IO_CHAR_ADDR,
       Sequential!CHECKPOINT_ADDR, CHECKPOINT_ADDR, Sequential!RET_FROM_MAIN_ADDR, RET_FROM_MAIN_ADDR,
       Sequential!Modulus, Modulus, Sequential!Regs, Regs, Sequential!SP_NUM, SP_NUM,
       Sequential!XZR_NUM, XZR_NUM

----------------------------------------------------------------------------
(* The steps of the sequential machine                                     *)

\* The return from the start function is no address of the text.
LEMMA TextIsNotNull == 0 \notin ImemAddr
BY SegmentAssumption DEF ImemAddr

\* Control that reaches a stop stops the sequential machine.
LEMMA SequentialStop ==
    ASSUME absStatus = "AOK", absPC' = 0, absStatus' \in Stop,
           absStatus' = "HLT" => StopAt(absPC), absStatus' = "INS" => UndefAt(absPC),
           UNCHANGED <<prog, absGpr, absNzcv, mem, io>>
    PROVE  Sequential!Step
<1>1. \A how : absStatus' = how => Sequential!Stop(how)
  BY DEF Sequential!Stop
<1>2. CASE absPC = 0
  BY <1>1, <1>2, SameAddresses DEF Sequential!Step, UndefAt, Stop
<1>3. CASE absPC # 0 /\ absPC \notin ImemAddr
  BY <1>1, <1>3, SameAddresses DEF Sequential!Step, Stop
<1>4. CASE absPC # 0 /\ absPC \in ImemAddr
  <2>1. Opcode(prog[absPC]) = "ERROR" \/ (Opcode(prog[absPC]) = "HLT" /\ absStatus' = "HLT")
    BY <1>4 DEF StopAt, UndefAt, Stop
  <2> QED  BY <1>1, <1>4, <2>1, SameAddresses, SameDecoding DEF Sequential!Step, Stop
<1> QED  BY <1>2, <1>3, <1>4

\* The value of a register, for the sequential machine.
LEMMA SameValues ==
    ASSUME NEW r
    PROVE  Sequential!RegVal(r) = RegAt(absGpr, r)
BY SameAddresses DEF Sequential!RegVal, RegAt

\* The sequential machine executes an instruction that accesses no memory.
LEMMA SequentialExecute ==
    ASSUME absStatus = "AOK", InText(absPC),
           NEW i, i = prog[absPC], NEW op, op = Opcode(i), op \notin {"LDUR", "STUR"},
           NEW a, a = RegAt(absGpr, Src1(i, op)), NEW b, b = RegAt(absGpr, Src2(i, op)),
           absPC' = Successor(absPC, i, op, a, absNzcv),
           absNzcv' = AluFlags(AluOp(op), OpA(absPC, i, op, a), OpB(i, op, b), absNzcv,
                               op \in SET_FLAGS),
           absGpr' = IF op \in W_ENABLE /\ Dst(i, op) # XZR_NUM
                     THEN [absGpr EXCEPT ![Dst(i, op)] =
                             AluValue(AluOp(op), OpA(absPC, i, op, a), OpB(i, op, b), i.hw,
                                      absNzcv, i.cond)]
                     ELSE absGpr,
           UNCHANGED <<prog, mem, io, absStatus>>
    PROVE  Sequential!Step
<1>1. absPC # 0 /\ absPC \in ImemAddr /\ op \notin {"HLT", "ERROR"}
  BY TextIsNotNull DEF InText
<1>2. Sequential!Src1(i, op) = Src1(i, op) /\ Sequential!Src2(i, op) = Src2(i, op)
      /\ Sequential!Dst(i, op) = Dst(i, op)
  BY SameRegisters
<1>3. Sequential!RegVal(Src1(i, op)) = a /\ Sequential!RegVal(Src2(i, op)) = b
  BY SameValues
<1>4. PICK opA, opB : opA = OpA(absPC, i, op, a) /\ opB = OpB(i, op, b)
  OBVIOUS
<1>5. opA = IF op = "ADRP" THEN Sequential!AdrpValue(absPC, i)
            ELSE IF op \in Sequential!VALA_SEL THEN Sequential!Wrap(absPC + 1) ELSE a
  BY <1>4, SameSignals, SameWords, SameImmediates DEF OpA
<1>6. opB = IF op \in Sequential!VALB_SEL THEN b ELSE Sequential!Imm(i, op)
  BY <1>4, SameSignals, SameImmediates DEF OpB
<1>7. absNzcv' = Sequential!AluFlags(Sequential!AluOp(op), opA, opB, absNzcv,
                                     op \in Sequential!SET_FLAGS)
  BY <1>4, SameSignals, SameDecoding, SameAlu
<1>8. Sequential!SetReg(Dst(i, op), op \in Sequential!W_ENABLE,
                        Sequential!AluValue(Sequential!AluOp(op), opA, opB, i.hw, absNzcv, i.cond))
  <2> PICK e : e = AluValue(AluOp(op), opA, opB, i.hw, absNzcv, i.cond)
    OBVIOUS
  <2>1. absGpr' = IF op \in W_ENABLE /\ Dst(i, op) # XZR_NUM
                  THEN [absGpr EXCEPT ![Dst(i, op)] = e] ELSE absGpr
    BY <1>4
  <2>2. Sequential!SetReg(Dst(i, op), op \in Sequential!W_ENABLE, e)
    BY <2>1, SameSignals, SameAddresses DEF Sequential!SetReg
  <2> QED  BY <2>2, SameDecoding, SameAlu
<1>9. absPC' = IF op \in Sequential!FormatB3 \cup Sequential!IndirectBranches THEN a
               ELSE IF \/ op \in {"B", "BL"}
                       \/ op = "B_COND" /\ Sequential!CondHolds(i.cond, absNzcv)
                       \/ op = "CBZ" /\ a = 0
                       \/ op = "CBNZ" /\ a # 0
                    THEN Sequential!Wrap(absPC + i.imm)
               ELSE Sequential!Wrap(absPC + 1)
  BY SameOpcodeSets, SameWords, SameConditions DEF Successor, Taken
<1>10. Sequential!Execute(i, op)
  BY <1>2, <1>3, <1>5, <1>6, <1>7, <1>8, <1>9 DEF Sequential!Execute
<1>11. Sequential!Opcode(prog[absPC]) = op
  BY SameDecoding
<1> QED  BY <1>1, <1>10, <1>11, SameAddresses DEF Sequential!Step

\* The address and the data of an access.
LEMMA SequentialAccess ==
    ASSUME absStatus = "AOK", InText(absPC),
           NEW i, i = prog[absPC], NEW op, op = Opcode(i), op \in {"LDUR", "STUR"},
           Sequential!Access(i, op)
    PROVE  Sequential!Step
<1>1. absPC # 0 /\ absPC \in ImemAddr
  BY TextIsNotNull DEF InText
<1>2. Sequential!Opcode(prog[absPC]) = op
  BY SameDecoding
<1> QED  BY <1>1, <1>2, SameAddresses DEF Sequential!Step

\* The address and the value of its access, in terms of the pipeline's operators.
LEMMA AccessOperands ==
    ASSUME NEW i, NEW op
    PROVE  /\ Sequential!AddSum(Sequential!RegVal(Sequential!Src1(i, op)), Sequential!Imm(i, op), 0)
                  = AddSum(RegAt(absGpr, Src1(i, op)), Imm(i, op), 0)
           /\ Sequential!RegVal(Sequential!Src2(i, op)) = RegAt(absGpr, Src2(i, op))
BY SameRegisters, SameValues, SameWords, SameImmediates

\* The access at which the emulator's process ends,
LEMMA SequentialExit ==
    ASSUME absStatus = "AOK", InText(absPC),
           NEW i, i = prog[absPC], NEW op, op = Opcode(i),
           NEW x, x = AddSum(RegAt(absGpr, Src1(i, op)), Imm(i, op), 0),
           \/ op = "LDUR" /\ x = NULL_ADDR
           \/ op = "STUR" /\ x = CHECKPOINT_ADDR,
           absStatus' = "EXIT", absPC' = 0, UNCHANGED <<prog, absGpr, absNzcv, mem, io>>
    PROVE  Sequential!Step
<1>1. Sequential!Stop("EXIT")
  BY DEF Sequential!Stop
<1>2. x = Sequential!AddSum(Sequential!RegVal(Sequential!Src1(i, op)), Sequential!Imm(i, op), 0)
  BY AccessOperands
<1>3. \/ op = "LDUR" /\ x = Sequential!NULL_ADDR
      \/ op = "STUR" /\ x = Sequential!CHECKPOINT_ADDR
  BY SameAddresses
<1>4. Sequential!Access(i, op)
  BY <1>1, <1>2, <1>3 DEF Sequential!Access
<1> QED  BY <1>4, SequentialAccess

\* a load
LEMMA SequentialLoad ==
    ASSUME absStatus = "AOK", InText(absPC),
           NEW i, i = prog[absPC], NEW op, op = Opcode(i), op = "LDUR",
           NEW x, x = AddSum(RegAt(absGpr, Src1(i, op)), Imm(i, op), 0),
           NEW r, r \in CASE x \in DmemAddr       -> {mem[x]}
                          [] x = IO_CHAR_ADDR     -> INPUT
                          [] x = CHECKPOINT_ADDR  -> {0}
                          [] OTHER                -> {},
           absGpr' = IF Dst(i, op) # XZR_NUM THEN [absGpr EXCEPT ![Dst(i, op)] = r] ELSE absGpr,
           absPC' = Wrap(absPC + 1),
           UNCHANGED <<prog, absNzcv, mem, io, absStatus>>
    PROVE  Sequential!Step
<1>1. Sequential!SetReg(Sequential!Dst(i, op), TRUE, r)
  BY SameRegisters, SameAddresses DEF Sequential!SetReg
<1>2. absPC' = Sequential!Wrap(absPC + 1)
  BY SameWords
<1>3. x = Sequential!AddSum(Sequential!RegVal(Sequential!Src1(i, op)), Sequential!Imm(i, op), 0)
  BY AccessOperands
<1>4. r \in CASE x \in Sequential!DmemAddr       -> {mem[x]}
             [] x = Sequential!IO_CHAR_ADDR     -> INPUT
             [] x = Sequential!CHECKPOINT_ADDR  -> {0}
             [] OTHER                           -> {}
  BY SameAddresses
<1>5. Sequential!Access(i, op)
  BY <1>1, <1>2, <1>3, <1>4 DEF Sequential!Access
<1> QED  BY <1>5, SequentialAccess

\* and a store of the sequential machine.
LEMMA SequentialStore ==
    ASSUME absStatus = "AOK", InText(absPC),
           NEW i, i = prog[absPC], NEW op, op = Opcode(i), op = "STUR",
           NEW x, x = AddSum(RegAt(absGpr, Src1(i, op)), Imm(i, op), 0),
           NEW v, v = RegAt(absGpr, Src2(i, op)),
           x \in DmemAddr \cup {NULL_ADDR, IO_CHAR_ADDR},
           mem' = IF x \in DmemAddr THEN [mem EXCEPT ![x] = v] ELSE mem,
           io' = IF x = IO_CHAR_ADDR THEN Append(io, v) ELSE io,
           absPC' = Wrap(absPC + 1),
           UNCHANGED <<prog, absGpr, absNzcv, absStatus>>
    PROVE  Sequential!Step
<1>1. absPC' = Sequential!Wrap(absPC + 1)
  BY SameWords
<1>2. /\ x = Sequential!AddSum(Sequential!RegVal(Sequential!Src1(i, op)), Sequential!Imm(i, op), 0)
      /\ v = Sequential!RegVal(Sequential!Src2(i, op))
  BY AccessOperands
<1>3. /\ x \in Sequential!DmemAddr \cup {Sequential!NULL_ADDR, Sequential!IO_CHAR_ADDR}
      /\ mem' = IF x \in Sequential!DmemAddr THEN [mem EXCEPT ![x] = v] ELSE mem
      /\ io' = IF x = Sequential!IO_CHAR_ADDR THEN Append(io, v) ELSE io
  BY SameAddresses
<1>4. Sequential!Access(i, op)
  BY <1>1, <1>2, <1>3 DEF Sequential!Access
<1> QED  BY <1>4, SequentialAccess

\* The pipeline starts as the sequential machine does.
LEMMA InitRefines == Init => Sequential!Init
<1> SUFFICES ASSUME Init PROVE Sequential!Init
  OBVIOUS
<1>1. /\ prog \in PROGRAMS /\ mem = INIT_MEM /\ io = << >> /\ status = "AOK" /\ ended = ""
      /\ nzcv = InitFlags /\ done = {} /\ dmem_status = "READY"
      /\ gpr = [r \in Regs |-> IF r = SP_NUM THEN STACK_SEG - 1 ELSE 0]
      /\ fOut.pred_PC = TEXT_SEG
  BY DEF Init
<1>2. /\ dOut.status = "BUB" /\ xOut.status = "BUB" /\ mOut.status = "BUB" /\ wOut.status = "BUB"
      /\ dOut.op = "NOP" /\ xOut.op = "NOP" /\ mOut.op = "NOP" /\ wOut.w_enable = FALSE
  BY DEF Init, DBubble, XBubble, MBubble, WBubble
<1>3. ~Committed
  BY <1>1 DEF Committed
<1>4. absStatus = "AOK"
  BY <1>1, <1>2, <1>3 DEF absStatus, Terminal
<1>5. absGpr = gpr
  BY <1>1, <1>2, <1>3 DEF absGpr, Overlay, Terminal
<1>6. absNzcv = nzcv
  BY <1>2 DEF absNzcv
<1>7. absPC = TEXT_SEG
  BY <1>1, <1>2, <1>3, <1>4 DEF absPC, SelectPC, IndirectInX, MispredInM, IndirectBranches
<1>8. DOMAIN prog = ImemAddr
  BY <1>1, PipelineAssumption
<1> QED  BY <1>1, <1>4, <1>5, <1>6, <1>7, <1>8, SameAddresses DEF Sequential!Init, InitFlags

----------------------------------------------------------------------------
(* Each step of the pipeline is a step of the sequential machine, a known  *)
(* divergence, or none.                                                    *)

Explained == Sequential!Step \/ KnownDivergence

\* The special addresses are distinct and no data.
LEMMA AddressesApart ==
    /\ DmemAddr \cap SpecialAddr = {}
    /\ IO_CHAR_ADDR # CHECKPOINT_ADDR /\ NULL_ADDR \notin {IO_CHAR_ADDR, CHECKPOINT_ADDR}
<1>1. Modulus \in Int
  BY ModulusIsPositive
<1>2. DmemAddr \cap SpecialAddr = {}
  BY <1>1, SegmentAssumption DEF DmemAddr, SpecialAddr, NULL_ADDR, IO_CHAR_ADDR, CHECKPOINT_ADDR
<1>3. IO_CHAR_ADDR # CHECKPOINT_ADDR /\ NULL_ADDR \notin {IO_CHAR_ADDR, CHECKPOINT_ADDR}
  BY <1>1, SegmentAssumption DEF NULL_ADDR, IO_CHAR_ADDR, CHECKPOINT_ADDR
<1> QED  BY <1>2, <1>3

\* What only the stages before M, and W, see, is not seen by the sequential machine.
LEMMA AbsUnchanged ==
    ASSUME UNCHANGED <<Settled, ended, status, wIn, mem, io>>,
           dmem_status' = dmem_status \/ "M" \notin done,
           ("M" \in done' <=> "M" \in done)
    PROVE  UNCHANGED absVars
<1>1. SelectPC' = SelectPC /\ UNCHANGED <<prog, dOut, xOut, mOut, wOut, gpr, nzcv, nzcvOld>>
  BY SettledOutputs DEF Settled
<1>2. Committed' = Committed
  BY <1>1 DEF Committed
<1>3. absStatus' = absStatus
  BY <1>1, <1>2 DEF absStatus
<1>4. absGpr' = absGpr
  BY <1>1, <1>2 DEF absGpr, Overlay
<1>5. absNzcv' = absNzcv
  BY <1>1, <1>2, <1>3 DEF absNzcv
<1>6. absPC' = absPC
  BY <1>1, <1>2, <1>3 DEF absPC
<1> QED  BY <1>1, <1>3, <1>4, <1>5, <1>6 DEF absVars

\* A result on its way changes one register.
LEMMA OverlayOne ==
    ASSUME NEW g, g = [s \in Regs |-> g[s]], NEW w
    PROVE  \E x \in Regs : \A s \in Regs \ {x} : Overlay(g, w)[s] = g[s]
<1>1. \A s \in Regs \ {w.dst} : Overlay(g, w)[s] = g[s]
  BY DEF Overlay
<1>2. 0 \in Regs
  BY DEF Regs, SP_NUM
<1>3. CASE w.dst \in Regs
  BY <1>1, <1>3
<1>4. CASE w.dst \notin Regs
  BY <1>1, <1>2, <1>4
<1> QED  BY <1>3, <1>4

\* The registers with the result that leaves W are registers.
LEMMA RetiredShape ==
    ASSUME Shapes
    PROVE  Retired = [s \in Regs |-> Retired[s]]
BY DEF Shapes, Retired, Overlay

\* The stages but M are not seen, except F when it reads data through the cache.
LEMMA FetchRefines == RInv /\ Fetch => Explained \/ UNCHANGED absVars
<1> SUFFICES ASSUME RInv, Fetch PROVE Explained \/ UNCHANGED absVars
  OBVIOUS
<1>0. "M" \in done' <=> "M" \in done
  <2>1. done' = done \cup {"F"}
    BY DEF Fetch, Turn
  <2> QED  BY <2>1
<1>1. UNCHANGED <<prog, dOut, xOut, mOut, wOut, wIn, gpr, nzcv, nzcvOld, mem, io, status, ended>>
  BY DEF Fetch, guest
<1>2. fOut'.pred_PC = fOut.pred_PC
  <2>1. fOut = [pred_PC |-> fOut.pred_PC, status |-> fOut.status]
    BY DEF RInv, Shapes
  <2>2. PICK st : fOut' = [fOut EXCEPT !.status = st]
    BY DEF Fetch
  <2> QED  BY <2>1, <2>2
<1>3. CASE DataFetching /\ "M" \in done
  <2>1. ended = ""
    BY DEF Fetch, Turn
  <2>2. /\ absGpr = IF Committed THEN Overlay(Retired, wIn) ELSE Retired
        /\ absGpr' = IF Committed' THEN Overlay(Retired, wIn) ELSE Retired
    BY <1>1, <2>1 DEF absGpr, Retired
  <2>3. PICK x \in Regs : \A s \in Regs \ {x} : Overlay(Retired, wIn)[s] = Retired[s]
    BY RetiredShape, OverlayOne DEF RInv
  <2>4. \A s \in Regs \ {x} : absGpr'[s] = absGpr[s]
    BY <2>2, <2>3
  <2> QED  BY <1>1, <1>3, <2>4 DEF Explained, KnownDivergence, DataFetchDisturbance, DataFetching
<1>4. CASE ~DataFetching \/ "M" \notin done
  <2>1. dmem_status' = dmem_status \/ "M" \notin done
    BY <1>4 DEF Fetch, DataFetching
  <2> QED  BY <1>0, <1>1, <1>2, <2>1, AbsUnchanged DEF Settled
<1> QED  BY <1>3, <1>4

\* D is not seen,
LEMMA DecodeRefines == Decode => UNCHANGED absVars
<1> SUFFICES ASSUME Decode PROVE UNCHANGED absVars
  OBVIOUS
<1>1. "M" \in done' <=> "M" \in done
  <2>1. done' = done \cup {"D"}
    BY DEF Decode, Turn
  <2> QED  BY <2>1
<1>2. UNCHANGED <<Settled, ended, status, dmem_status, wIn, mem, io>>
  BY DEF Decode, pipeRegs, guest, Settled
<1> QED  BY <1>1, <1>2, AbsUnchanged

\* nor is X,
LEMMA ExecuteRefines == Execute => UNCHANGED absVars
<1> SUFFICES ASSUME Execute PROVE UNCHANGED absVars
  OBVIOUS
<1>1. "M" \in done' <=> "M" \in done
  <2>1. done' = done \cup {"X"}
    BY DEF Execute, Turn
  <2> QED  BY <2>1
<1>2. UNCHANGED <<Settled, ended, status, dmem_status, wIn, mem, io>>
  BY DEF Execute, pipeRegs, guest, Settled
<1> QED  BY <1>1, <1>2, AbsUnchanged

\* nor W.
LEMMA WbackRefines == Wback => UNCHANGED absVars
<1> SUFFICES ASSUME Wback PROVE UNCHANGED absVars
  OBVIOUS
<1>1. "M" \in done' <=> "M" \in done
  <2>1. done' = done \cup {"W"}
    BY DEF Wback, Turn
  <2> QED  BY <2>1
<1>2. UNCHANGED <<Settled, ended, status, dmem_status, wIn, mem, io>>
  BY DEF Wback, pipeRegs, guest, Settled
<1> QED  BY <1>1, <1>2, AbsUnchanged

\* Before M has completed, the sequential machine is in front of the oldest
\* instruction: the one in M.
LEMMA BeforeMemory ==
    ASSUME ended = "", "M" \notin done
    PROVE  /\ absStatus = IF wOut.status \in Terminal THEN wOut.status ELSE "AOK"
           /\ absGpr = Retired
           /\ wOut.status \in Terminal => absPC = 0 /\ absNzcv = nzcv
           /\ wOut.status \notin Terminal =>
                 /\ absPC = IF mOut.status # "BUB" THEN mOut.pc ELSE AfterM
                 /\ absNzcv = IF mOut.status = "BUB" THEN nzcv ELSE nzcvOld
<1>1. ~Committed
  BY DEF Committed
<1>2. absStatus = IF wOut.status \in Terminal THEN wOut.status ELSE "AOK"
  BY <1>1 DEF absStatus
<1>3. absStatus # "AOK" <=> wOut.status \in Terminal
  BY <1>2 DEF Terminal
<1> QED  BY <1>1, <1>2, <1>3 DEF absGpr, Retired, absPC, AfterM, AfterX, absNzcv

\* What M does to what the sequential machine sees, when the run is still going on.
LEMMA AfterMemory ==
    ASSUME Memory, wOut.status \notin Terminal
    PROVE  /\ ended' = "exit" =>
                 absStatus' = "EXIT" /\ absPC' = 0 /\ absGpr' = Retired /\ absNzcv' = nzcv
           /\ ended' # "exit" /\ dmem_status' # "READY" =>
                 UNCHANGED <<absStatus, absPC, absGpr, absNzcv>>
           /\ ended' # "exit" /\ dmem_status' = "READY" =>
                 /\ absStatus' = IF wIn'.status \in Terminal THEN wIn'.status ELSE "AOK"
                 /\ absGpr' = Overlay(Retired, wIn') /\ absNzcv' = nzcv
                 /\ absPC' = IF wIn'.status \in Terminal THEN 0 ELSE AfterM
<1>1. /\ done' = done \cup {"M"} /\ "M" \notin done /\ ended = "" /\ ended' \in {"", "exit"}
      /\ UNCHANGED <<prog, fOut, dOut, xOut, mOut, wOut, gpr, nzcv, nzcvOld, status>>
  BY DEF Memory, MemoryMiss, MemoryExit, MemoryDone, MemoryResult, Turn, guest, pipeRegs
<1>2. UNCHANGED Settled
  BY <1>1 DEF Settled
<1>3. SelectPC' = SelectPC
  BY <1>2, SettledOutputs
<1>4. /\ absStatus = "AOK" /\ absGpr = Retired
      /\ absPC = IF mOut.status # "BUB" THEN mOut.pc ELSE AfterM
      /\ absNzcv = IF mOut.status = "BUB" THEN nzcv ELSE nzcvOld
  BY <1>1, BeforeMemory
<1>5. Retired' = Retired /\ AfterM' = AfterM
  BY <1>1, <1>3 DEF Retired, AfterM, AfterX
<1>6. CASE ended' = "exit"
  <2>1. absStatus' = "EXIT" /\ ~Committed'
    BY <1>6 DEF absStatus, Committed
  <2>2. absGpr' = Retired'
    BY <1>6, <2>1 DEF absGpr, Retired
  <2> QED  BY <1>1, <1>5, <1>6, <2>1, <2>2 DEF absPC, absNzcv
<1>7. CASE ended' # "exit" /\ dmem_status' # "READY"
  <2>1. ~Committed' /\ ended' = ""
    BY <1>1, <1>7 DEF Committed
  <2>2. absStatus' = "AOK"
    BY <1>1, <2>1 DEF absStatus
  <2>3. absGpr' = Retired'
    BY <2>1 DEF absGpr, Retired
  <2>4. absPC' = IF mOut'.status # "BUB" THEN mOut'.pc ELSE AfterM'
    BY <2>1, <2>2 DEF absPC, AfterM, AfterX
  <2>5. absNzcv' = IF mOut'.status = "BUB" THEN nzcv' ELSE nzcvOld'
    BY <2>1, <2>2 DEF absNzcv
  <2> QED  BY <1>1, <1>4, <1>5, <1>7, <2>2, <2>3, <2>4, <2>5
<1>8. CASE ended' # "exit" /\ dmem_status' = "READY"
  <2>1. Committed' /\ ended' = ""
    BY <1>1, <1>8 DEF Committed
  <2>2. absStatus' = IF wIn'.status \in Terminal THEN wIn'.status ELSE "AOK"
    BY <1>1, <2>1 DEF absStatus
  <2>3. absStatus' # "AOK" <=> wIn'.status \in Terminal
    BY <2>2 DEF Terminal
  <2>4. absGpr' = Overlay(Retired', wIn')
    BY <2>1 DEF absGpr, Retired
  <2>5. absPC' = IF wIn'.status \in Terminal THEN 0 ELSE AfterM'
    BY <2>1, <2>3 DEF absPC, AfterM, AfterX
  <2>6. absNzcv' = nzcv'
    BY <2>1 DEF absNzcv
  <2> QED  BY <1>1, <1>5, <1>8, <2>2, <2>4, <2>5, <2>6
<1> QED  BY <1>6, <1>7, <1>8

\* The instruction in M, when it is live and the run goes on.
LEMMA MLive ==
    ASSUME RInv, Alive, mOut.status = "AOK", NEW i, i = prog[mOut.pc], NEW op, op = Opcode(i)
    PROVE  /\ InText(mOut.pc) /\ i \in Instr
           /\ MResults(i, op, RegAt(Retired, Src1(i, op)), RegAt(Retired, Src2(i, op)))
           /\ MSuccessor(i, op, RegAt(Retired, Src1(i, op)))
           /\ mOut.dmem_read <=> op = "LDUR"
           /\ mOut.dmem_write <=> op = "STUR"
           /\ Accesses <=> op \in {"LDUR", "STUR"}
<1>1. InText(mOut.pc) /\ MHoldsFor(i, op)
  BY DEF RInv, Outputs, MHolds
<1>2. (mOut.dmem_read <=> op = "LDUR") /\ (mOut.dmem_write <=> op = "STUR")
  BY <1>1 DEF MHoldsFor, MResults, DecodedM, DMEM_READ, DMEM_WRITE
<1> QED  BY <1>1, <1>2 DEF MHoldsFor, InText, RInv, Shapes, Accesses

\* The address of an access, the flags it leaves, and its successor.
LEMMA MAccess ==
    ASSUME RInv, Alive, mOut.status = "AOK", NEW i, i = prog[mOut.pc], NEW op, op = Opcode(i),
           op \in {"LDUR", "STUR"}
    PROVE  /\ mOut.val_ex = AddSum(RegAt(Retired, Src1(i, op)), Imm(i, op), 0)
           /\ mOut.val_b = RegAt(Retired, Src2(i, op))
           /\ nzcv = nzcvOld
           /\ AfterM = Wrap(mOut.pc + 1)
<1>1. /\ MResults(i, op, RegAt(Retired, Src1(i, op)), RegAt(Retired, Src2(i, op)))
      /\ MSuccessor(i, op, RegAt(Retired, Src1(i, op)))
  BY MLive
<1>2. /\ AluOp(op) = "PLUS_OP" /\ op # "BR" /\ op \notin SET_FLAGS
      /\ op \notin VALA_SEL /\ op \notin VALB_SEL /\ op # "ADRP"
      /\ op \notin IndirectBranches /\ op \notin CompareBranches /\ op \notin FormatB3
  BY DEF AluOp, SET_FLAGS, VALA_SEL, VALB_SEL, IndirectBranches, CompareBranches, FormatB3, FormatRR, CondSels
<1>3. \A p, a : OpA(p, i, op, a) = a
  BY <1>2 DEF OpA
<1>4. \A b : OpB(i, op, b) = Imm(i, op)
  BY <1>2 DEF OpB
<1>5. \A a, b, hw, f, c : AluValue(AluOp(op), a, b, hw, f, c) = AddSum(a, b, 0)
  BY <1>2 DEF AluValue
<1>6. mOut.val_ex = AddSum(RegAt(Retired, Src1(i, op)), Imm(i, op), 0)
      /\ mOut.val_b = RegAt(Retired, Src2(i, op))
  BY <1>1, <1>2, <1>3, <1>4, <1>5 DEF MResults
<1>7. nzcv = nzcvOld
  BY <1>1, <1>2 DEF MResults, AluFlags
<1>8. AfterM = Wrap(mOut.pc + 1)
  BY <1>1, <1>2 DEF MSuccessor, Successor, Taken
<1> QED  BY <1>6, <1>7, <1>8

\* The emulator's process ends in an access.
LEMMA ExitRefines ==
    ASSUME RInv, Alive, MemoryExit
    PROVE  Explained
<1>1. mOut.status = "AOK"
  BY DEF MemoryExit, RInv, IInv, OutputsInert, InertM, TypeOK, Status, Squashed
<1>2. PICK i, op : i = prog[mOut.pc] /\ op = Opcode(i)
  OBVIOUS
<1>3. /\ Memory /\ ended' = "exit" /\ ended = "" /\ "M" \notin done
      /\ UNCHANGED <<prog, mem, io>>
  BY DEF Memory, MemoryExit, Turn, guest
<1>4. /\ absStatus' = "EXIT" /\ absPC' = 0 /\ absGpr' = Retired /\ absNzcv' = nzcv
  BY <1>3, AfterMemory DEF Alive
<1>5. /\ absStatus = "AOK" /\ absPC = mOut.pc /\ absGpr = Retired /\ absNzcv = nzcvOld
  BY <1>1, <1>3, BeforeMemory DEF Alive
<1>6. \/ op = "LDUR" /\ mOut.val_ex = NULL_ADDR
      \/ op = "STUR" /\ mOut.val_ex = CHECKPOINT_ADDR
  BY <1>1, <1>2, MLive DEF MemoryExit
<1>7. /\ mOut.val_ex = AddSum(RegAt(absGpr, Src1(i, op)), Imm(i, op), 0)
      /\ nzcv = nzcvOld /\ InText(absPC)
  BY <1>1, <1>2, <1>5, <1>6, MAccess, MLive
<1>8. Sequential!Step
  BY <1>2, <1>3, <1>4, <1>5, <1>6, <1>7, SequentialExit
<1> QED  BY <1>8 DEF Explained

\* The results M passes on, and its effect.
LEMMA MemoryEffect ==
    ASSUME MemoryDone
    PROVE  /\ wIn'.status = IF DmemErr THEN "ADR" ELSE mOut.status
           /\ wIn'.wval_sel = mOut.wval_sel /\ wIn'.w_enable = mOut.w_enable
           /\ wIn'.dst = mOut.dst /\ wIn'.val_ex = mOut.val_ex
           /\ wIn'.val_mem \in CASE ~mOut.dmem_read \/ mOut.val_ex = CHECKPOINT_ADDR -> {0}
                                 [] mOut.dmem_read /\ mOut.val_ex = IO_CHAR_ADDR     -> INPUT
                                 [] OTHER                                -> {mem[mOut.val_ex]}
           /\ ~mOut.dmem_write => UNCHANGED <<mem, io>>
           /\ UNCHANGED prog /\ ended' = ended
           /\ dmem_status' = IF CACHED /\ Accesses /\ mOut.val_ex \in CacheableAddr
                             THEN "READY" ELSE dmem_status
<1>1. PICK r \in CASE ~mOut.dmem_read \/ mOut.val_ex = CHECKPOINT_ADDR -> {0}
                   [] mOut.dmem_read /\ mOut.val_ex = IO_CHAR_ADDR     -> INPUT
                   [] OTHER                                -> {mem[mOut.val_ex]} :
             MemoryResult(r)
  BY DEF MemoryDone
<1>2. /\ wIn'.status = IF DmemErr THEN "ADR" ELSE mOut.status
      /\ wIn'.wval_sel = mOut.wval_sel /\ wIn'.w_enable = mOut.w_enable
      /\ wIn'.dst = mOut.dst /\ wIn'.val_ex = mOut.val_ex /\ wIn'.val_mem = r
      /\ prog' = prog
  BY <1>1 DEF MemoryResult
<1>3. /\ ~mOut.dmem_write => UNCHANGED <<mem, io>>
      /\ ended' = ended
      /\ dmem_status' = IF CACHED /\ Accesses /\ mOut.val_ex \in CacheableAddr
                        THEN "READY" ELSE dmem_status
  BY DEF MemoryDone
<1> QED  BY <1>1, <1>2, <1>3

\* M completes the live instruction op and the run goes on.
Completes(i, op) ==
    /\ RInv /\ Alive /\ MemoryDone /\ mOut.status = "AOK" /\ ~DmemErr
    /\ dmem_status' = "READY"
    /\ i = prog[mOut.pc] /\ op = Opcode(i)

\* What the sequential machine sees of that.
LEMMA CompletesGuest ==
    ASSUME NEW i, NEW op, Completes(i, op)
    PROVE  /\ absStatus = "AOK" /\ absPC = mOut.pc /\ absGpr = Retired /\ absNzcv = nzcvOld
           /\ absStatus' = "AOK" /\ absPC' = AfterM /\ absGpr' = Overlay(Retired, wIn')
           /\ absNzcv' = nzcv /\ prog' = prog
           /\ wIn'.status = "AOK" /\ InText(absPC) /\ absPC \in ImemAddr
<1> USE DEF Completes
<1>1. /\ Memory /\ ended' = "" /\ ended = "" /\ "M" \notin done
      /\ wIn'.status = "AOK" /\ prog' = prog
  BY MemoryEffect DEF Memory, MemoryDone, Turn
<1>2. /\ absStatus = "AOK" /\ absPC = mOut.pc /\ absGpr = Retired /\ absNzcv = nzcvOld
  BY <1>1, BeforeMemory DEF Alive
<1>3. /\ absStatus' = "AOK" /\ absPC' = AfterM /\ absGpr' = Overlay(Retired, wIn')
      /\ absNzcv' = nzcv
  BY <1>1, AfterMemory DEF Alive, Terminal
<1> QED  BY <1>1, <1>2, <1>3, MLive DEF InText

\* A load that completes is one of the sequential machine,
LEMMA LoadRefines ==
    ASSUME NEW i, NEW op, Completes(i, op), op = "LDUR"
    PROVE  Sequential!Step
<1> DEFINE x == mOut.val_ex
<1>1. /\ absStatus = "AOK" /\ absPC = mOut.pc /\ absGpr = Retired /\ absNzcv = nzcvOld
      /\ absStatus' = "AOK" /\ absPC' = AfterM /\ absGpr' = Overlay(Retired, wIn')
      /\ absNzcv' = nzcv /\ prog' = prog /\ wIn'.status = "AOK" /\ InText(absPC)
  BY CompletesGuest
<1>2. /\ x = AddSum(RegAt(absGpr, Src1(i, op)), Imm(i, op), 0)
      /\ nzcv = nzcvOld /\ AfterM = Wrap(absPC + 1)
  BY <1>1, MAccess DEF Completes
<1>3. DecodedM(mOut, i, op) /\ mOut.dmem_read /\ ~mOut.dmem_write
  BY MLive DEF Completes, MResults
<1>4. /\ wIn'.wval_sel /\ wIn'.w_enable /\ wIn'.dst = Dst(i, op) /\ UNCHANGED <<mem, io>>
      /\ wIn'.val_mem \in CASE x = CHECKPOINT_ADDR -> {0}
                            [] x = IO_CHAR_ADDR    -> INPUT
                            [] OTHER               -> {mem[x]}
  <2>1. op \in WVAL_SEL /\ op \in W_ENABLE
    BY DEF WVAL_SEL, W_ENABLE
  <2>2. MemoryDone
    BY DEF Completes
  <2> QED  BY <1>3, <2>1, <2>2, MemoryEffect DEF DecodedM
<1>5. x \in DmemAddr \cup SpecialAddr /\ x # NULL_ADDR
  BY <1>3 DEF Completes, MemoryDone, DmemErr, Accesses
<1> DEFINE r == wIn'.val_mem
<1>6. r \in CASE x \in DmemAddr       -> {mem[x]}
             [] x = IO_CHAR_ADDR     -> INPUT
             [] x = CHECKPOINT_ADDR  -> {0}
             [] OTHER                -> {}
  BY <1>4, <1>5, AddressesApart DEF SpecialAddr
<1>7. absGpr' = IF Dst(i, op) # XZR_NUM THEN [absGpr EXCEPT ![Dst(i, op)] = r] ELSE absGpr
  BY <1>1, <1>4 DEF Overlay
<1> HIDE DEF x, r
<1>8. i = prog[absPC] /\ op = Opcode(i)
  BY <1>1 DEF Completes
<1>9. absPC' = Wrap(absPC + 1) /\ UNCHANGED <<prog, absNzcv, mem, io, absStatus>>
  BY <1>1, <1>2, <1>4
<1> QED  BY <1>1, <1>2, <1>6, <1>7, <1>8, <1>9, SequentialLoad

\* and so is a store.
LEMMA StoreRefines ==
    ASSUME NEW i, NEW op, Completes(i, op), op = "STUR"
    PROVE  Sequential!Step
<1> DEFINE x == mOut.val_ex
           v == mOut.val_b
<1>1. /\ absStatus = "AOK" /\ absPC = mOut.pc /\ absGpr = Retired /\ absNzcv = nzcvOld
      /\ absStatus' = "AOK" /\ absPC' = AfterM /\ absGpr' = Overlay(Retired, wIn')
      /\ absNzcv' = nzcv /\ prog' = prog /\ wIn'.status = "AOK" /\ InText(absPC)
  BY CompletesGuest
<1>2. /\ x = AddSum(RegAt(absGpr, Src1(i, op)), Imm(i, op), 0)
      /\ v = RegAt(absGpr, Src2(i, op))
      /\ nzcv = nzcvOld /\ AfterM = Wrap(absPC + 1)
  BY <1>1, MAccess DEF Completes
<1>3. DecodedM(mOut, i, op) /\ mOut.dmem_write /\ ~mOut.dmem_read
  BY MLive DEF Completes, MResults
<1>4. absGpr' = absGpr
  <2>1. op \notin W_ENABLE
    BY DEF W_ENABLE, FormatI1, FormatI2, FormatRI, FormatRR, CondSels
  <2>2. wIn'.w_enable = mOut.w_enable
    BY MemoryEffect DEF Completes
  <2> QED  BY <1>1, <1>3, <2>1, <2>2 DEF DecodedM, Overlay
<1>5. x \in DmemAddr \cup SpecialAddr /\ x # CHECKPOINT_ADDR
  BY <1>3 DEF Completes, MemoryDone, DmemErr, Accesses
<1>6. x \in DmemAddr \cup {NULL_ADDR, IO_CHAR_ADDR}
  BY <1>5 DEF SpecialAddr
<1>7. x \in DmemAddr <=> x \notin SpecialAddr
  BY <1>5, AddressesApart
<1>8. /\ mem' = IF x \in DmemAddr THEN [mem EXCEPT ![x] = v] ELSE mem
      /\ io' = IF x = IO_CHAR_ADDR THEN Append(io, v) ELSE io
  BY <1>3, <1>7 DEF Completes, MemoryDone
<1> HIDE DEF x, v
<1>9. i = prog[absPC] /\ op = Opcode(i)
  BY <1>1 DEF Completes
<1>10. absPC' = Wrap(absPC + 1) /\ UNCHANGED <<prog, absGpr, absNzcv, absStatus>>
  BY <1>1, <1>2, <1>4
<1> QED  BY <1>1, <1>2, <1>6, <1>8, <1>9, <1>10, SequentialStore

\* The opcode a program names is the one decoded, where no alias is involved; the
\* extra-credit build alone decodes its own.
LEMMA OpcodeNames ==
    ASSUME NEW i, Opcode(i) \notin {"CMP_RR", "CMN_RR", "TST_RR", "ERROR"}
    PROVE  i.op = Opcode(i) /\ (i.op \in ECOps => EC)
BY DEF Opcode, ECOps

\* Any other instruction that completes is executed by the sequential machine, or
\* one of the known jumps astray.
LEMMA ExecuteCompletes ==
    ASSUME NEW i, NEW op, Completes(i, op), op \notin {"LDUR", "STUR"}
    PROVE  Explained
<1> PICK a, b : a = RegAt(Retired, Src1(i, op)) /\ b = RegAt(Retired, Src2(i, op))
  OBVIOUS
<1>1. /\ absStatus = "AOK" /\ absPC = mOut.pc /\ absGpr = Retired /\ absNzcv = nzcvOld
      /\ absStatus' = "AOK" /\ absPC' = AfterM /\ absGpr' = Overlay(Retired, wIn')
      /\ absNzcv' = nzcv /\ prog' = prog /\ wIn'.status = "AOK"
      /\ InText(absPC) /\ absPC \in ImemAddr
  BY CompletesGuest
<1>2. MResults(i, op, a, b) /\ MSuccessor(i, op, a) /\ ~mOut.dmem_write
  BY MLive DEF Completes
<1>3. i = prog[absPC] /\ op = Opcode(i)
  BY <1>1 DEF Completes
<1>4. UNCHANGED <<mem, io>>
  BY <1>2, MemoryEffect DEF Completes
<1>5. wIn'.w_enable = (op \in W_ENABLE) /\ wIn'.dst = Dst(i, op)
      /\ wIn'.wval_sel = (op \in WVAL_SEL) /\ wIn'.val_ex = mOut.val_ex
  BY <1>2, MemoryEffect DEF Completes, MResults, DecodedM
<1>6. absGpr' = IF op \in W_ENABLE /\ Dst(i, op) # XZR_NUM
                THEN [absGpr EXCEPT ![Dst(i, op)] = mOut.val_ex] ELSE absGpr
  BY <1>1, <1>5 DEF Overlay, WVAL_SEL
<1>7. op \in W_ENABLE => op # "BR"
  BY DEF W_ENABLE, FormatI1, FormatI2, FormatRI, FormatRR, CondSels
<1>8. CASE AfterM = Successor(absPC, i, op, a, absNzcv)
  <2>1. absNzcv' = AluFlags(AluOp(op), OpA(absPC, i, op, a), OpB(i, op, b), absNzcv, op \in SET_FLAGS)
    BY <1>1, <1>2 DEF MResults
  <2>2. op \in W_ENABLE => mOut.val_ex = AluValue(AluOp(op), OpA(absPC, i, op, a), OpB(i, op, b),
                                                  i.hw, absNzcv, i.cond)
    BY <1>1, <1>2, <1>7 DEF MResults
  <2>3. absGpr' = IF op \in W_ENABLE /\ Dst(i, op) # XZR_NUM
                  THEN [absGpr EXCEPT ![Dst(i, op)] =
                          AluValue(AluOp(op), OpA(absPC, i, op, a), OpB(i, op, b), i.hw, absNzcv,
                                   i.cond)]
                  ELSE absGpr
    BY <1>6, <2>2
  <2>4. Sequential!Step
    BY <1>1, <1>3, <1>4, <1>8, <2>1, <2>3, SequentialExecute
  <2> QED  BY <2>4 DEF Explained
<1>9. op \in IndirectBranches \cup CompareBranches =>
           EC /\ absInstr.op = op /\ nzcv = nzcvOld
  <2>1. op \in IndirectBranches \cup CompareBranches =>
            /\ op \in ECOps /\ op \notin SET_FLAGS
            /\ op \notin {"CMP_RR", "CMN_RR", "TST_RR", "ERROR"}
    BY DEF IndirectBranches, CompareBranches, SET_FLAGS, ECOps
  <2> QED  BY <1>2, <1>3, <2>1, OpcodeNames DEF absInstr, MResults, AluFlags
<1>10. CASE op \in IndirectBranches /\ DataFetching
  <2>1. \E x \in Regs : \A s \in Regs \ {x} : absGpr'[s] = absGpr[s]
    BY <1>1, RetiredShape, OverlayOne DEF Completes, RInv
  <2> QED  BY <1>1, <1>4, <1>9, <1>10, <2>1 DEF Explained, KnownDivergence, DataFetchDisturbance, DataFetching
<1>11. CASE /\ op \in IndirectBranches
            /\ wOut.op = "LDUR" /\ wOut.dst = Src1(i, op) /\ AfterM = wOut.val_ex
  <2>1. absInstr = i /\ absInstr.op = op
    BY <1>3, <1>9, <1>11 DEF absInstr
  <2>2. op = "BLR" => mOut.val_ex = Wrap(absPC + 1) /\ Dst(i, op) = LINK
    BY <1>1, <1>2 DEF MResults, AluValue, AluOp, OpA, VALA_SEL, Dst
  <2>3. (op \in W_ENABLE <=> op = "BLR") /\ LINK # XZR_NUM
    BY <1>11 DEF W_ENABLE, FormatI1, FormatI2, FormatRI, FormatRR, CondSels, IndirectBranches, LINK, XZR_NUM
  <2>4. absGpr' = IF op = "BLR" THEN [absGpr EXCEPT ![LINK] = Wrap(absPC + 1)] ELSE absGpr
    BY <1>6, <2>2, <2>3
  <2> QED  BY <1>1, <1>4, <1>9, <1>11, <2>1, <2>4 DEF Explained, KnownDivergence, LoadedBranch
<1>12. CASE /\ op \in CompareBranches /\ ~Taken(i, op, a, absNzcv)
            /\ AfterM = Wrap(absPC + i.imm) /\ StopAt(AfterM)
  <2>1. absInstr = i /\ absInstr.op = op
    BY <1>3, <1>9, <1>12 DEF absInstr
  <2>2. (absInstr.op = "CBZ") # (Sequential!RegVal(Src1(absInstr, absInstr.op)) = 0)
    <3>1. Sequential!RegVal(Src1(absInstr, absInstr.op)) = a
      BY <1>1, <2>1, SameValues
    <3> QED  BY <1>12, <2>1, <3>1 DEF Taken, CompareBranches
  <2>3. absPC' \in ImemAddr => Opcode(prog[absPC']) \in {"HLT", "ERROR"}
    BY <1>1, <1>12, TextIsNotNull DEF StopAt
  <2>4. absGpr' = absGpr
    BY <1>6, <1>12 DEF W_ENABLE, FormatI1, FormatI2, FormatRI, FormatRR, CondSels, CompareBranches
  <2> QED  BY <1>1, <1>4, <1>9, <1>12, <2>1, <2>2, <2>3, <2>4
           DEF Explained, KnownDivergence, LostCorrection
<1> QED  BY <1>1, <1>2, <1>8, <1>10, <1>11, <1>12 DEF MSuccessor

\* The step in which M completes an instruction is the one of the sequential machine.
LEMMA MemoryRefines == RInv /\ Memory => Explained \/ UNCHANGED absVars
<1> SUFFICES ASSUME RInv, Memory PROVE Explained \/ UNCHANGED absVars
  OBVIOUS
<1>1. /\ done' = done \cup {"M"} /\ "M" \notin done /\ ended = "" /\ ended' \in {"", "exit"}
      /\ UNCHANGED <<prog, fOut, dOut, xOut, mOut, wOut, gpr, nzcv, nzcvOld, status>>
  BY DEF Memory, MemoryMiss, MemoryExit, MemoryDone, MemoryResult, Turn, guest, pipeRegs
<1>2. mOut.status \in {"BUB", "HLT", "INS"} =>
          /\ ~mOut.dmem_read /\ ~mOut.dmem_write /\ ~Accesses /\ ~DmemErr /\ ~mOut.w_enable
  BY DEF RInv, IInv, OutputsInert, InertM, Squashed, Accesses, DmemErr
<1>3. mOut.status \in {"BUB", "HLT", "INS", "AOK"}
  BY DEF RInv, IInv, TypeOK, Status
<1>4. CASE wOut.status \in Terminal
  <2>1. /\ absStatus = wOut.status /\ absPC = 0 /\ absGpr = Retired /\ absNzcv = nzcv
    BY <1>1, <1>4, BeforeMemory
  <2>2. absStatus' = IF ended' = "exit" THEN "EXIT" ELSE wOut.status
    BY <1>1, <1>4 DEF absStatus
  <2>3. absStatus' # "AOK" /\ ~Committed'
    BY <1>1, <1>4, <2>2 DEF Terminal, Committed
  <2>4. absPC' = 0 /\ absGpr' = Retired /\ absNzcv' = nzcv
    <3>1. absPC' = 0 /\ absNzcv' = nzcv
      BY <1>1, <2>3 DEF absPC, absNzcv
    <3>2. absGpr' = Overlay(gpr', wOut')
      BY <1>1, <2>3 DEF absGpr
    <3> QED  BY <1>1, <3>1, <3>2 DEF Retired
  <2>5. CASE wOut.status \in Stop
    <3>1. mOut.status \in Stop
      BY <2>5 DEF RInv, IInv, OnlyStopsBehindAStop
    <3>2. ended' = "" /\ UNCHANGED <<mem, io>>
      BY <1>1, <1>2, <3>1 DEF Stop, Memory, MemoryMiss, MemoryExit, MemoryDone
    <3> QED  BY <1>1, <2>1, <2>2, <2>4, <3>2 DEF absVars
  <2>6. CASE wOut.status = "ADR"
    <3>1. FaultDisturbance
      BY <1>1, <2>1, <2>2, <2>4, <2>6 DEF FaultDisturbance
    <3> QED  BY <3>1 DEF Explained, KnownDivergence
  <2> QED  BY <1>4, <2>5, <2>6 DEF Terminal, Stop
<1>5. CASE wOut.status \notin Terminal
  <2>1. Alive
    BY <1>1, <1>5 DEF Alive
  <2>2. CASE MemoryExit
    BY <2>1, <2>2, ExitRefines
  <2>3. CASE MemoryMiss
    <3>1. ended' # "exit" /\ dmem_status' # "READY" /\ UNCHANGED <<mem, io>>
      BY <1>1, <2>3 DEF MemoryMiss
    <3> QED  BY <1>1, <1>5, <3>1, AfterMemory DEF absVars
  <2>4. CASE MemoryDone
    <3>1. ended' # "exit"
      BY <1>1, <2>4 DEF MemoryDone
    <3>2. CASE dmem_status' # "READY"
      <4>1. dmem_status = "IN_FLIGHT" /\ ~(CACHED /\ Accesses /\ mOut.val_ex \in CacheableAddr)
        BY <2>4, <3>2 DEF MemoryDone, RInv, IInv, TypeOK
      <4>2. DataFetching
        BY <2>1, <4>1 DEF RInv, InFlight
      <4>3. UNCHANGED <<absStatus, absPC, absGpr, absNzcv>>
        BY <1>5, <3>1, <3>2, AfterMemory
      <4>4. /\ mem' \in {mem, [mem EXCEPT ![mOut.val_ex] = mOut.val_b]}
            /\ io' \in {io, Append(io, mOut.val_b)}
            /\ ~mOut.dmem_write => UNCHANGED <<mem, io>>
        BY <2>4 DEF MemoryDone
      <4> QED  BY <1>1, <4>2, <4>3, <4>4
               DEF Explained, KnownDivergence, DataFetchDisturbance, DataFetching, absVars
    <3>3. CASE dmem_status' = "READY"
      <4>1. /\ absStatus' = IF wIn'.status \in Terminal THEN wIn'.status ELSE "AOK"
            /\ absGpr' = Overlay(Retired, wIn') /\ absNzcv' = nzcv
            /\ absPC' = IF wIn'.status \in Terminal THEN 0 ELSE AfterM
        BY <1>5, <3>1, <3>3, AfterMemory
      <4>2. /\ absStatus = "AOK" /\ absGpr = Retired
            /\ absPC = IF mOut.status # "BUB" THEN mOut.pc ELSE AfterM
            /\ absNzcv = IF mOut.status = "BUB" THEN nzcv ELSE nzcvOld
        BY <1>1, <1>5, BeforeMemory
      <4>3. /\ wIn'.status = IF DmemErr THEN "ADR" ELSE mOut.status
            /\ wIn'.w_enable = mOut.w_enable
            /\ ~mOut.dmem_write => UNCHANGED <<mem, io>>
        BY <2>4, MemoryEffect
      <4>4. CASE mOut.status = "BUB"
        BY <1>1, <1>2, <4>1, <4>2, <4>3, <4>4 DEF absVars, Overlay, Terminal
      <4>5. CASE mOut.status \in Stop
        <5>1. absStatus' = mOut.status /\ absPC' = 0 /\ absGpr' = Retired /\ UNCHANGED <<mem, io>>
          BY <1>2, <4>1, <4>3, <4>5 DEF Overlay, Terminal, Stop
        <5>2. nzcv = nzcvOld /\ RealStop(mOut)
          BY <1>5, <2>1, <4>5 DEF RInv, Outputs, MHolds, Terminal, Stop
        <5>3. absPC = mOut.pc /\ absNzcv = nzcvOld
          BY <4>2, <4>5 DEF Stop
        <5>4. Sequential!Step
          BY <1>1, <4>1, <4>2, <4>5, <5>1, <5>2, <5>3, SequentialStop DEF RealStop, Stop
        <5> QED  BY <5>4 DEF Explained
      <4>6. CASE mOut.status = "AOK" /\ DmemErr
        <5>1. absStatus' = "ADR" /\ absGpr' = absGpr
          BY <4>1, <4>2, <4>3, <4>6 DEF Terminal, Overlay
        <5> QED  BY <1>1, <4>2, <4>6, <5>1 DEF Explained, KnownDivergence, FaultDisturbance
      <4>7. CASE mOut.status = "AOK" /\ ~DmemErr
        <5> PICK i, op : i = prog[mOut.pc] /\ op = Opcode(i)
          OBVIOUS
        <5>1. Completes(i, op)
          BY <2>1, <2>4, <3>3, <4>7 DEF Completes
        <5> QED  BY <5>1, LoadRefines, StoreRefines, ExecuteCompletes DEF Explained
      <4> QED  BY <1>3, <4>4, <4>5, <4>6, <4>7 DEF Stop
    <3> QED  BY <3>2, <3>3
  <2> QED  BY <2>2, <2>3, <2>4 DEF Memory
<1> QED  BY <1>4, <1>5

\* What the sequential machine sees when all stages have run,
LEMMA BeforeClock ==
    ASSUME RInv, Clock
    PROVE  /\ wOut.status \in Terminal =>
                 absStatus = wOut.status /\ absGpr = Retired /\ absNzcv = nzcv /\ absPC = 0
           /\ wOut.status \notin Terminal /\ dmem_status = "IN_FLIGHT" =>
                 /\ absStatus = "AOK" /\ absGpr = Retired
                 /\ absNzcv = IF mOut.status = "BUB" THEN nzcv ELSE nzcvOld
                 /\ absPC = IF mOut.status # "BUB" THEN mOut.pc ELSE AfterM
           /\ wOut.status \notin Terminal /\ dmem_status = "READY" =>
                 /\ absStatus = IF wIn.status \in Terminal THEN wIn.status ELSE "AOK"
                 /\ absGpr = Overlay(Retired, wIn) /\ absNzcv = nzcv
                 /\ absPC = IF wIn.status \in Terminal THEN 0 ELSE AfterM
<1>1. ended = "" /\ "M" \in done
  BY DEF Clock, Stages
<1>2. CASE wOut.status \in Terminal
  <2>1. ~Committed /\ absStatus = wOut.status
    BY <1>1, <1>2 DEF Committed, absStatus
  <2>2. absStatus # "AOK"
    BY <1>2, <2>1 DEF Terminal
  <2> QED  BY <1>1, <1>2, <2>1, <2>2 DEF absGpr, Retired, absNzcv, absPC
<1>3. CASE wOut.status \notin Terminal /\ dmem_status = "IN_FLIGHT"
  <2>1. ~Committed
    BY <1>3 DEF Committed
  <2>2. absStatus = "AOK"
    BY <1>1, <1>3, <2>1 DEF absStatus
  <2> QED  BY <1>1, <1>3, <2>1, <2>2 DEF absGpr, Retired, absNzcv, absPC, AfterM, AfterX
<1>4. CASE wOut.status \notin Terminal /\ dmem_status = "READY"
  <2>1. Committed
    BY <1>1, <1>4 DEF Committed
  <2>2. absStatus = IF wIn.status \in Terminal THEN wIn.status ELSE "AOK"
    BY <1>1, <1>4, <2>1 DEF absStatus
  <2>3. absStatus # "AOK" <=> wIn.status \in Terminal
    BY <2>2 DEF Terminal
  <2> QED  BY <1>1, <1>4, <2>1, <2>2, <2>3 DEF absGpr, Retired, absNzcv, absPC, AfterM, AfterX
<1> QED  BY <1>2, <1>3, <1>4

\* and after the clock, when the status ends the loop or not.
LEMMA AfterClock ==
    ASSUME Clock
    PROVE  /\ status' \in Terminal =>
                 absStatus' = status' /\ absGpr' = gpr' /\ absNzcv' = nzcv' /\ absPC' = 0
           /\ status' \notin Terminal =>
                 /\ absStatus' = IF wOut'.status \in Terminal THEN wOut'.status ELSE "AOK"
                 /\ absGpr' = Overlay(gpr', wOut')
                 /\ absNzcv' = IF wOut'.status \in Terminal \/ mOut'.status = "BUB"
                               THEN nzcv' ELSE nzcvOld'
                 /\ absPC' = IF wOut'.status \in Terminal THEN 0
                             ELSE IF mOut'.status # "BUB" THEN mOut'.pc ELSE AfterM'
<1>1. done' = {} /\ ended' \in {"", "loop"} /\ (status' \in Terminal => ended' = "loop")
  BY DEF Clock, Terminal
<1>2. ~Committed'
  BY <1>1 DEF Committed
<1>3. CASE status' \in Terminal
  <2>1. absStatus' = status'
    BY <1>1, <1>3 DEF absStatus
  <2>2. absStatus' # "AOK"
    BY <1>3, <2>1 DEF Terminal
  <2> QED  BY <1>1, <1>3, <2>1, <2>2 DEF absGpr, absNzcv, absPC
<1>4. CASE status' \notin Terminal
  <2>1. absStatus' = IF wOut'.status \in Terminal THEN wOut'.status ELSE "AOK"
    BY <1>1, <1>2, <1>4 DEF absStatus
  <2>2. absStatus' # "AOK" <=> wOut'.status \in Terminal
    BY <2>1 DEF Terminal
  <2> QED  BY <1>1, <1>2, <1>4, <2>1, <2>2 DEF absGpr, absNzcv, absPC, AfterM, AfterX
<1> QED  BY <1>3, <1>4

\* The clock keeps the flags when X holds no instruction that sets them, or when
\* an instruction before it raised an exception.
LEMMA ClockKeepsFlags ==
    ASSUME RInv, Clock,
           \/ xOut.status \in Squashed \/ wIn.status \in {"INS", "ADR"}
           \/ dmem_status = "IN_FLIGHT"
    PROVE  nzcv' = nzcv
<1>1. xOut.status \in Squashed => ~X_set_flags
  BY DEF RInv, IInv, ExecuteDone, Clock, Stages
<1> QED  BY <1>1 DEF Clock, deassert_flags

\* A register asked to bubble and to stall holds a return behind a load.
LEMMA ErrorIsLoadedReturn ==
    ASSUME RInv, Clock, NEW s \in Stages, ctl[s] = "P_ERROR"
    PROVE  /\ LoadedReturn /\ dmem_status = "READY" /\ xOut.status = "AOK"
           /\ mOut.status \notin Stop /\ wOut.status \notin Stop
<1>1. LoadedReturn
  BY ConflictOnlyAtLoadedReturnAlways DEF ConflictOnlyAtLoadedReturn, LoadedReturn, Clock
<1>2. dmem_status = "READY"
  <2>1. dmem_status # "IN_FLIGHT"
    BY DEF ctl, Stages
  <2> QED  BY <2>1 DEF RInv, IInv, TypeOK
<1>3. xOut.status = "AOK"
  BY <1>1 DEF LoadedReturn, load_use, RInv, IInv, OutputsInert, InertX, TypeOK, Status, Squashed, Mute
<1>4. mOut.status \notin Stop /\ wOut.status \notin Stop
  BY <1>3 DEF RInv, IInv, OnlyStopsBehindAStop, Stop
<1> QED  BY <1>1, <1>2, <1>3, <1>4

\* The end of the run: W holds the instruction that ends it.
LEMMA TerminalClockRefines ==
    ASSUME RInv, Clock, wOut.status \in Terminal
    PROVE  Explained \/ UNCHANGED absVars
<1>1. /\ absStatus = wOut.status /\ absGpr = Retired /\ absNzcv = nzcv /\ absPC = 0
  BY BeforeClock
<1>2. wOut.status # "AOK" /\ gpr' = gpr /\ Retired = gpr /\ UNCHANGED <<prog, mem, io>>
  BY DEF Terminal, Clock, WriteBack, Retired, Overlay
<1>3. CASE \A s \in Stages : ctl[s] # "P_ERROR"
  <2>1. status' = wOut.status
    BY <1>3 DEF Clock
  <2>2. absStatus' = wOut.status /\ absGpr' = gpr' /\ absNzcv' = nzcv' /\ absPC' = 0
    BY <2>1, AfterClock
  <2>3. CASE wOut.status \in Stop
    <3>1. xOut.status \in Squashed
      BY <2>3 DEF RInv, IInv, OnlyStopsBehindAStop, Stop, Squashed
    <3>2. nzcv' = nzcv
      BY <3>1, ClockKeepsFlags
    <3> QED  BY <1>1, <1>2, <2>2, <3>2 DEF absVars
  <2>4. CASE wOut.status = "ADR"
    BY <1>1, <1>2, <2>2, <2>4 DEF Explained, KnownDivergence, FaultDisturbance
  <2> QED  BY <2>3, <2>4 DEF Terminal, Stop
<1>4. ASSUME NEW s \in Stages, ctl[s] = "P_ERROR" PROVE Explained
  <2>1. LoadedReturn /\ wOut.status = "ADR"
    BY <1>4, ErrorIsLoadedReturn DEF Terminal, Stop
  <2>2. status' = "HLT"
    BY <1>4 DEF Clock
  <2>3. absStatus' = "HLT" /\ absGpr' = gpr'
    BY <2>2, AfterClock DEF Terminal
  <2> QED  BY <1>1, <1>2, <2>1, <2>3 DEF Explained, KnownDivergence, FaultDisturbance
<1> QED  BY <1>3, <1>4

\* A return behind a load halts the machine: the load was from address 0, or an
\* access before it out of bounds.
LEMMA ErrorRefines ==
    ASSUME RInv, Clock, wOut.status \notin Terminal, NEW s \in Stages, ctl[s] = "P_ERROR"
    PROVE  Explained
<1>1. /\ LoadedReturn /\ dmem_status = "READY" /\ xOut.status = "AOK"
      /\ mOut.status \notin Stop
  BY ErrorIsLoadedReturn
<1>2. /\ absStatus = IF wIn.status \in Terminal THEN wIn.status ELSE "AOK"
      /\ absGpr = Overlay(Retired, wIn) /\ absNzcv = nzcv
      /\ absPC = IF wIn.status \in Terminal THEN 0 ELSE AfterM
  BY <1>1, BeforeClock
<1>3. status' = "HLT"
  BY DEF Clock
<1>4. absStatus' = "HLT" /\ absGpr' = gpr' /\ absNzcv' = nzcv' /\ absPC' = 0
  BY <1>3, AfterClock DEF Terminal
<1>5. gpr' = Retired
  BY RegistersWritten
<1>6. /\ Alive /\ Outputs /\ Inputs /\ done = Stages /\ UNCHANGED <<prog, mem, io>>
  BY DEF RInv, Clock, Alive
<1>7. "D" \in done /\ "X" \in done /\ "M" \in done
  BY <1>6 DEF Stages
<1>8. wIn.status \in {"ADR", mOut.status} /\ mOut.status \in {"AOK", "BUB"}
  BY <1>1, <1>6, <1>7 DEF Inputs, MemoryLeaves, RInv, IInv, TypeOK, Status, Stop
<1>9. CASE wIn.status = "ADR"
  <2>1. absGpr' = absGpr
    BY <1>2, <1>4, <1>5, <1>9 DEF Overlay
  <2> QED  BY <1>1, <1>2, <1>4, <1>6, <1>9, <2>1
           DEF Explained, KnownDivergence, FaultDisturbance, Terminal
<1>10. CASE wIn.status # "ADR"
  <2>1. wIn.status = mOut.status /\ wIn.status \notin Terminal
    BY <1>8, <1>10 DEF Terminal
  <2>2. absStatus = "AOK" /\ absPC = xOut.pc
    BY <1>1, <1>2, <2>1 DEF AfterM
  <2> PICK i : i = prog[xOut.pc]
    OBVIOUS
  <2>3. InText(xOut.pc) /\ XOperands(i, Opcode(i))
    BY <1>1, <1>6 DEF Outputs, XHolds
  <2>4. i \in Instr
    BY <2>3 DEF InText, RInv, Shapes
  <2>5. Opcode(i) = "LDUR" /\ dOut.op = "RET" /\ xOut.dst # XZR_NUM
        /\ xOut.dst \in {D_src1, D_src2} /\ Forward(D_src1, xIn.val_a) = NULL_ADDR
    BY <1>1, <2>3 DEF LoadedReturn, load_use, ret_from_main, XOperands, DecodedX, DecodedM,
                      RET_FROM_MAIN_ADDR, NULL_ADDR
  <2>6. i.op = "LDUR" /\ absInstr = i
    BY <2>2, <2>5, OpcodeNames DEF absInstr
  <2>7. D_src2 = XZR_NUM
    BY <1>6, <1>7, <2>5, JumpSources DEF Inputs, DecodeLeaves
  <2>8. /\ xOut.w_enable /\ ~xOut.set_flags /\ ~xOut.vala_sel /\ ~xOut.valb_sel
        /\ xOut.ALU_op = "PLUS_OP" /\ xOut.val_imm = Imm(i, "LDUR")
        /\ xOut.val_a = BehindM(Src1(i, "LDUR")) /\ ~Loading(Src1(i, "LDUR"))
    <3>1. /\ "LDUR" \in W_ENABLE /\ "LDUR" \notin SET_FLAGS /\ "LDUR" \notin VALA_SEL
          /\ "LDUR" \notin VALB_SEL /\ AluOp("LDUR") = "PLUS_OP"
          /\ "LDUR" \notin IndirectBranches
      BY DEF W_ENABLE, SET_FLAGS, VALA_SEL, VALB_SEL, AluOp, IndirectBranches, FormatRR, CondSels
    <3> QED  BY <2>3, <2>5, <3>1 DEF XOperands, DecodedX, DecodedM
  <2>9. mIn.val_ex = NULL_ADDR
    BY <2>5, <2>7, <2>8 DEF Forward
  <2>10. mIn.val_ex = AddSum(xOut.val_a, Imm(i, "LDUR"), 0)
    BY <1>6, <1>7, <2>8 DEF Inputs, ExecuteLeaves, XValA, XValB, AluValue
  <2>11. xOut.val_a = RegAt(absGpr, Src1(i, "LDUR"))
    <3>1. Src1(i, "LDUR") \in 0 .. XZR_NUM
      BY <2>4, RegisterNumbers
    <3> QED  BY <1>2, <1>6, <1>7, <2>1, <2>8, <3>1, OverlayAdvances DEF BehindM, Loading, RegAt
  <2>12. Sequential!RegVal(Src1(i, "LDUR")) = xOut.val_a
    BY <2>11, SameValues
  <2>13. nzcv' = nzcv
    BY <1>6, <1>7, <2>8 DEF Clock, Inputs, ExecuteLeaves
  <2>14. absPC \in ImemAddr
    BY <2>2, <2>3 DEF InText
  <2>15. ReturnOverNullLoad
    BY <1>1, <1>2, <1>4, <1>5, <1>6, <2>2, <2>6, <2>9, <2>10, <2>12, <2>13, <2>14
    DEF ReturnOverNullLoad, Retired
  <2> QED  BY <2>15 DEF Explained, KnownDivergence
<1> QED  BY <1>9, <1>10

\* The sequential machine is in front of the same instruction after the clock.
LEMMA ClockKeepsPC ==
    ASSUME RInv, Clock, wOut.status \notin Terminal, dmem_status = "READY",
           wIn.status \notin Terminal
    PROVE  AfterM = IF mOut'.status # "BUB" THEN mOut'.pc ELSE AfterM'
<1>1. /\ Alive /\ Outputs /\ Inputs /\ "F" \in done /\ "D" \in done /\ "X" \in done
  BY DEF RInv, Clock, Alive, Stages
<1>2. mOut' = mIn /\ mIn.status = xOut.status /\ mIn.pc = xOut.pc
  BY <1>1, ClockLatches DEF RInv, IInv, ExecuteDone, Inputs, ExecuteLeaves
<1>3. CASE xOut.status # "BUB"
  BY <1>2, <1>3 DEF AfterM
<1>4. CASE xOut.status = "BUB"
  <2>1. ~(load_use \/ mispred)
    BY <1>4, MuteRaisesNoHazard DEF RInv, IInv, OutputsInert, InertX, Squashed
  <2>2. xOut' = xIn'
    BY <2>1, ClockLatches
  <2>3. xIn'.pc = dOut.pc /\ xIn'.status = dOut.status
    <3>1. xIn.pc = dOut.pc /\ xIn.status = dOut.status
      BY <1>1 DEF Inputs, DecodeLeaves, RInv, IInv, DecodeDone
    <3>2. xIn'.pc = xIn.pc /\ xIn'.status = xIn.status
      BY DEF Clock, RInv, IInv, Records, XBubble
    <3> QED  BY <3>1, <3>2
  <2>4. CASE dOut.status # "BUB"
    BY <1>2, <1>4, <2>2, <2>3, <2>4 DEF AfterM, AfterX
  <2>5. CASE dOut.status = "BUB"
    <3>1. ~(ret \/ mispred \/ ret_from_main \/ br \/ cb)
      BY <2>1, <2>5, MuteRaisesNoHazard DEF RInv, IInv, OutputsInert, InertD, Squashed
    <3>2. dOut' = dIn
      BY <2>1, <3>1, ClockLatches
    <3>3. dIn.pc = SelectPC /\ dIn.status # "BUB"
      BY <1>1 DEF Inputs, FetchLeaves
    <3> QED  BY <1>2, <1>4, <2>2, <2>3, <2>5, <3>2, <3>3 DEF AfterM, AfterX
  <2> QED  BY <2>4, <2>5
<1> QED  BY <1>3, <1>4

\* A clock that halts nothing is not seen by the sequential machine.
LEMMA QuietClockRefines ==
    ASSUME RInv, Clock, wOut.status \notin Terminal, \A s \in Stages : ctl[s] # "P_ERROR"
    PROVE  UNCHANGED absVars
<1>1. /\ status' = wOut.status /\ gpr' = Retired /\ UNCHANGED <<prog, mem, io>>
  BY RegistersWritten DEF Clock
<1>2. /\ absStatus' = IF wOut'.status \in Terminal THEN wOut'.status ELSE "AOK"
      /\ absGpr' = Overlay(gpr', wOut')
      /\ absNzcv' = IF wOut'.status \in Terminal \/ mOut'.status = "BUB"
                    THEN nzcv' ELSE nzcvOld'
      /\ absPC' = IF wOut'.status \in Terminal THEN 0
                  ELSE IF mOut'.status # "BUB" THEN mOut'.pc ELSE AfterM'
  BY <1>1, AfterClock
<1>3. CASE dmem_status = "IN_FLIGHT"
  <2>1. UNCHANGED <<dOut, xOut, mOut>> /\ wOut' = WBubble
    BY <1>3, ClockLatches
  <2>2. UNCHANGED <<fOut, nzcv, nzcvOld>>
    BY <1>3 DEF Clock, Latch, ctl, deassert_flags
  <2>3. wOut'.status \notin Terminal /\ Overlay(gpr', wOut') = gpr'
    BY <2>1 DEF WBubble, Terminal, Overlay
  <2>4. AfterM' = AfterM
    BY <2>1, <2>2 DEF AfterM, AfterX, SelectPC, IndirectInX, MispredInM
  <2>5. /\ absStatus = "AOK" /\ absGpr = Retired
        /\ absNzcv = IF mOut.status = "BUB" THEN nzcv ELSE nzcvOld
        /\ absPC = IF mOut.status # "BUB" THEN mOut.pc ELSE AfterM
    BY <1>3, BeforeClock
  <2> QED  BY <1>1, <1>2, <2>1, <2>2, <2>3, <2>4, <2>5 DEF absVars
<1>4. CASE dmem_status = "READY"
  <2>1. /\ absStatus = IF wIn.status \in Terminal THEN wIn.status ELSE "AOK"
        /\ absGpr = Overlay(Retired, wIn) /\ absNzcv = nzcv
        /\ absPC = IF wIn.status \in Terminal THEN 0 ELSE AfterM
    BY <1>4, BeforeClock
  <2>2. mOut' = mIn /\ wOut' = wIn /\ mIn.status = xOut.status
    BY <1>4, ClockLatches DEF RInv, IInv, ExecuteDone, Clock, Stages
  <2>3. nzcvOld' = nzcv
    BY <1>4 DEF Clock, ctl
  <2>4. wIn.status \in Terminal \/ mIn.status = "BUB" => nzcv' = nzcv
    <3>1. wIn.status \in Stop => mOut.status \in Stop
      BY DEF RInv, IInv, MemoryDoneInv, Clock, Stages
    <3>2. mOut.status \in Stop => xOut.status \in Squashed
      BY DEF RInv, IInv, OnlyStopsBehindAStop, Stop, Squashed
    <3> QED  BY <2>2, <3>1, <3>2, ClockKeepsFlags DEF Terminal, Stop, Squashed
  <2>5. wIn.status \notin Terminal => absPC' = absPC
    BY <1>2, <1>4, <2>1, <2>2, ClockKeepsPC
  <2> QED  BY <1>1, <1>2, <2>1, <2>2, <2>3, <2>4, <2>5 DEF absVars
<1> QED  BY <1>3, <1>4 DEF RInv, IInv, TypeOK

\* No clock is seen, but for faults and returns behind a null load.
LEMMA ClockRefines == RInv /\ Clock => Explained \/ UNCHANGED absVars
BY TerminalClockRefines, ErrorRefines, QuietClockRefines

\* Every step of the pipeline is explained.
LEMMA StepRefines == RInv /\ [Next]_vars => [Explained]_absVars
<1>1. RInv /\ Next => Explained \/ UNCHANGED absVars
  BY FetchRefines, DecodeRefines, ExecuteRefines, MemoryRefines, WbackRefines, ClockRefines
  DEF Next
<1>2. UNCHANGED vars => UNCHANGED absVars
  <2> SUFFICES ASSUME UNCHANGED vars PROVE UNCHANGED absVars
    OBVIOUS
  <2>1. UNCHANGED <<Settled, ended, status, dmem_status, wIn, mem, io>> /\ done' = done
    BY DEF vars, Settled
  <2> QED  BY <2>1, AbsUnchanged
<1> QED  BY <1>1, <1>2

\* Whatever the program, the cache and the order of the stages, the pipeline runs
\* the program as the sequential machine does, but for the divergences that
\* KnownDivergence names.
THEOREM DivergesOnlyAsKnownAlways == Spec => DivergesOnlyAsKnown
<1>1. Init => Sequential!Init
  BY InitRefines
<1>2. RInv /\ [Next]_vars => [Sequential!Step \/ KnownDivergence]_absVars
  BY StepRefines DEF Explained
<1>3. Spec => []RInv
  BY RefinementInvariant
<1> QED  BY <1>1, <1>2, <1>3, PTL DEF Spec, DivergesOnlyAsKnown

\* Without the extra-credit instructions, a run in which no access is out of bounds,
\* F reads no data through the cache, and no return waits for a load from address 0
\* is a run of the sequential machine, step by step.
THEOREM BaseBuildImplements ==
    Spec /\ [](/\ ~EC /\ ~DataFetching /\ absStatus # "ADR"
               /\ ~(done = Stages /\ LoadedReturn)) => ImplementsSeqMachine
<1> DEFINE Undisturbed == /\ ~EC /\ ~DataFetching /\ absStatus # "ADR"
                          /\ ~(done = Stages /\ LoadedReturn)
<1>1. Undisturbed /\ Undisturbed' => ~KnownDivergence
  BY DEF KnownDivergence, FaultDisturbance, ReturnOverNullLoad, DataFetchDisturbance,
         LoadedBranch, LostCorrection, DataFetching
<1>2. [Sequential!Step \/ KnownDivergence]_absVars /\ Undisturbed /\ Undisturbed'
          => [Sequential!Step]_absVars
  BY <1>1
<1>3. [Sequential!Step]_absVars => [Sequential!Step]_(Sequential!vars)
  BY DEF absVars, Sequential!vars
<1>4. Spec => DivergesOnlyAsKnown
  BY DivergesOnlyAsKnownAlways
<1> HIDE DEF Undisturbed
<1> SUFFICES Spec /\ []Undisturbed => ImplementsSeqMachine
  BY DEF Undisturbed
<1> QED  BY <1>2, <1>3, <1>4, PTL DEF DivergesOnlyAsKnown, ImplementsSeqMachine, Sequential!Spec
=============================================================================
