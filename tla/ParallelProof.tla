--------------------------- MODULE ParallelProof ---------------------------
(***************************************************************************)
(* Proofs about the threads of the PARALLEL build, for any number of       *)
(* stages and any cycle_max: the two barriers keep the threads together,   *)
(* so that the threads run the cycles of module Cycles.  And, for every    *)
(* page size, set of pages and hash function, the page table stays a       *)
(* memory although two of the threads use it.                              *)
(***************************************************************************)
EXTENDS ParallelMemory, PageTableProof, FiniteSetTheorems

----------------------------------------------------------------------------
(* The inductive invariant.  A thread a barrier has released counts as     *)
(* past it, although it has not left it: the threads are then together,    *)
(* between two cycles, in a cycle, or after the last one.                  *)

WaitsAt(b) == IF b = "cycle_start" THEN {"start", "next", "loop", "last"} ELSE {"end", "cycle"}

Types ==
    /\ pc \in [Threads -> {"unborn", "start", "work", "end", "next", "check", "gone", "create",
                           "loop", "cycle", "clock", "stop", "last", "join"}]
    /\ arrived \in [Barriers -> SUBSET Threads]
    /\ leaving \in [Barriers -> SUBSET Threads]
    /\ running_sim \in BOOLEAN /\ exited \in BOOLEAN
    /\ num_instr \in Nat
    /\ runs \in [Stages -> Nat]

AtBarriers ==
    \A b \in Barriers :
        /\ \A t \in arrived[b] : pc[t] \in WaitsAt(b) /\ t \notin leaving[b]
        /\ \A t \in leaving[b] : pc[t] \in WaitsAt(b)

MainBetween ==
    \/ pc["main"] \in {"create", "clock", "stop"}
    \/ pc["main"] \in {"loop", "last"} /\ "main" \notin leaving["cycle_start"]
    \/ pc["main"] = "cycle" /\ "main" \in leaving["cycle_end"]

StageBetween(s) ==
    \/ pc[s] \in {"unborn", "start"} /\ s \notin leaving["cycle_start"]
       /\ pc["main"] \in {"create", "loop"}
    \/ pc[s] = "next" /\ s \notin leaving["cycle_start"]
    \/ pc[s] = "end" /\ s \in leaving["cycle_end"]

\* The stages have run as often as the clocked logic, or once more.
Between ==
    /\ MainBetween
    /\ \A s \in Stages :
          /\ StageBetween(s)
          /\ runs[s] = num_instr + (IF pc["main"] \in {"cycle", "clock"} THEN 1 ELSE 0)

MainInCycle ==
    \/ pc["main"] = "loop" /\ "main" \in leaving["cycle_start"]
    \/ pc["main"] = "cycle" /\ "main" \notin leaving["cycle_end"]

StageInCycle(s) ==
    \/ pc[s] \in {"start", "next"} /\ s \in leaving["cycle_start"]
    \/ pc[s] \in {"work", "check"}
    \/ pc[s] = "end" /\ s \notin leaving["cycle_end"]

InCycle ==
    /\ MainInCycle
    /\ \A s \in Stages :
          /\ StageInCycle(s)
          /\ runs[s] = num_instr + (IF pc[s] = "end" THEN 1 ELSE 0)

MainOver ==
    \/ pc["main"] = "last" /\ "main" \in leaving["cycle_start"]
    \/ pc["main"] \in {"join", "gone"}

StageOver(s) ==
    \/ pc[s] = "next" /\ s \in leaving["cycle_start"]
    \/ pc[s] \in {"check", "gone"}

AfterLast ==
    /\ MainOver
    /\ \A s \in Stages : StageOver(s) /\ runs[s] = num_instr

IInv ==
    /\ Types
    /\ AtBarriers
    /\ Between \/ InCycle \/ AfterLast
    /\ running_sim <=> pc["main"] \notin {"last", "join", "gone"}

----------------------------------------------------------------------------
(* Barriers                                                                *)

\* The main thread is none of the stages.
LEMMA MainIsNoStage == /\ "main" \in Threads /\ "main" \notin Stages
                       /\ Stages \subseteq Threads
  BY CycleAssumption DEF Threads

\* The party that fills a barrier is the last of all the threads.
LEMMA LastToArrive ==
    ASSUME IInv, NEW t \in Threads, NEW b \in Barriers, Arrive(t, b)
    PROVE  /\ pc' = pc /\ t \notin leaving[b]
           /\ \/ /\ arrived' = [arrived EXCEPT ![b] = arrived[b] \cup {t}]
                 /\ leaving' = leaving
              \/ /\ arrived[b] \cup {t} = Threads
                 /\ arrived' = [arrived EXCEPT ![b] = {}]
                 /\ leaving' = [leaving EXCEPT ![b] = Threads]
<1> DEFINE here == arrived[b] \cup {t}
<1>1. arrived[b] \in SUBSET Threads /\ leaving[b] \in SUBSET Threads
  BY DEF IInv, Types
<1>2. IsFiniteSet(Threads) /\ Cardinality(Threads) = Parties
  BY FS_AddElement, CycleAssumption DEF Threads, Parties
<1>3. CASE Cardinality(here) = Parties
  <2>1. here \in SUBSET Threads
    BY <1>1
  <2>2. here = Threads
    <3> HIDE DEF here
    <3> QED  BY <2>1, <1>2, <1>3, FS_Subset
  <2>3. leaving[b] \cup here = Threads
    BY <2>2, <1>1
  <2> QED  BY <1>3, <2>2, <2>3, <1>1 DEF Arrive, IInv, Types
<1>4. CASE Cardinality(here) # Parties
  BY <1>4, <1>1 DEF Arrive, IInv, Types
<1> QED  BY <1>3, <1>4

\* Whoever arrives, the threads stay together; the last takes all of them past
\* the barrier.
LEMMA ArriveKeepsIInv ==
    ASSUME IInv, NEW t \in Threads, NEW b \in Barriers, pc[t] \in WaitsAt(b), Arrive(t, b),
           UNCHANGED <<running_sim, num_instr, runs, exited>>
    PROVE  IInv'
<1> USE MainIsNoStage
<1>1. CASE arrived' = [arrived EXCEPT ![b] = arrived[b] \cup {t}] /\ leaving' = leaving
  <2>1. pc' = pc /\ t \notin leaving[b]
    BY LastToArrive
  <2>2. Types'
    BY <1>1, <2>1 DEF IInv, Types
  <2>3. AtBarriers'
    BY <1>1, <2>1 DEF IInv, Types, AtBarriers
  <2>4. (Between => Between') /\ (InCycle => InCycle') /\ (AfterLast => AfterLast')
    BY <1>1, <2>1 DEF Between, InCycle, AfterLast, MainBetween, MainInCycle, MainOver,
                      StageBetween, StageInCycle, StageOver
  <2> QED  BY <2>1, <2>2, <2>3, <2>4 DEF IInv
<1>2. CASE /\ arrived[b] \cup {t} = Threads
           /\ arrived' = [arrived EXCEPT ![b] = {}]
           /\ leaving' = [leaving EXCEPT ![b] = Threads]
  <2>1. pc' = pc /\ t \notin leaving[b]
    BY LastToArrive
  <2>2. \A u \in Threads : pc[u] \in WaitsAt(b) /\ u \notin leaving[b]
    BY <1>2, <2>1 DEF IInv, AtBarriers
  <2>3. Types'
    BY <1>2, <2>1 DEF IInv, Types
  <2>4. AtBarriers'
    BY <1>2, <2>1, <2>2 DEF IInv, Types, AtBarriers
  <2>5. CASE b = "cycle_start"
    <3>1. leaving'["cycle_start"] = Threads /\ leaving'["cycle_end"] = leaving["cycle_end"]
      BY <1>2, <2>5 DEF IInv, Types, Barriers
    <3>2. /\ pc["main"] \in {"start", "next", "loop", "last"} /\ "main" \notin leaving["cycle_start"]
          /\ \A s \in Stages : /\ pc[s] \in {"start", "next", "loop", "last"}
                               /\ s \notin leaving["cycle_start"]
      BY <2>2, <2>5 DEF WaitsAt
    <3>3. Between
      BY <3>2 DEF IInv, InCycle, AfterLast, MainInCycle, MainOver
    <3>4. CASE pc["main"] = "loop"
      <4>1. InCycle'
        BY <2>1, <3>1, <3>2, <3>3, <3>4
        DEF Between, InCycle, MainInCycle, StageBetween, StageInCycle
      <4> QED  BY <4>1, <2>1, <2>3, <2>4 DEF IInv
    <3>5. CASE pc["main"] = "last"
      <4>1. AfterLast'
        BY <2>1, <3>1, <3>2, <3>3, <3>5, <2>3
        DEF Between, AfterLast, MainOver, StageBetween, StageOver, IInv, Types
      <4> QED  BY <4>1, <2>1, <2>3, <2>4 DEF IInv
    <3> QED  BY <3>2, <3>3, <3>4, <3>5 DEF Between, MainBetween
  <2>6. CASE b = "cycle_end"
    <3>1. leaving'["cycle_end"] = Threads /\ leaving'["cycle_start"] = leaving["cycle_start"]
      BY <1>2, <2>6 DEF IInv, Types, Barriers
    <3>2. /\ pc["main"] \in {"end", "cycle"} /\ "main" \notin leaving["cycle_end"]
          /\ \A s \in Stages : pc[s] \in {"end", "cycle"} /\ s \notin leaving["cycle_end"]
      BY <2>2, <2>6 DEF WaitsAt
    <3>3. InCycle /\ pc["main"] = "cycle"
      BY <3>2 DEF IInv, Between, AfterLast, MainBetween, MainOver, InCycle, MainInCycle
    <3>4. \A s \in Stages : pc[s] = "end"
      BY <3>2, <3>3 DEF InCycle, StageInCycle
    <3>5. Between'
      BY <2>1, <3>1, <3>3, <3>4 DEF InCycle, Between, MainBetween, StageBetween
    <3> QED  BY <3>5, <2>1, <2>3, <2>4 DEF IInv
  <2> QED  BY <2>5, <2>6 DEF Barriers
<1> QED  BY <1>1, <1>2, LastToArrive

\* Where a thread is when its call of pthread_barrier_wait has returned.
Past(from) == CASE from = "start" -> "work"
                [] from = "next"  -> "check"
                [] from = "loop"  -> "cycle"
                [] from = "last"  -> "join"
                [] from = "end"   -> "next"
                [] from = "cycle" -> "clock"

\* A thread that leaves a barrier only catches up with the others.
LEMMA LeaveKeepsIInv ==
    ASSUME IInv, NEW t \in Threads, NEW b \in Barriers, Leave(t, b, Past(pc[t])),
           UNCHANGED <<running_sim, num_instr, runs, exited>>
    PROVE  IInv'
<1> USE MainIsNoStage
<1>1. /\ t \in leaving[b] /\ pc[t] \in WaitsAt(b)
      /\ leaving' = [leaving EXCEPT ![b] = leaving[b] \ {t}]
      /\ pc' = [pc EXCEPT ![t] = Past(pc[t])]
      /\ arrived' = arrived
  BY DEF Leave, IInv, AtBarriers
<1>2. \A u \in Threads : u # t => pc'[u] = pc[u] /\ \A c \in Barriers : u \in leaving'[c] <=> u \in leaving[c]
  BY <1>1 DEF IInv, Types
<1>3. t \notin leaving'[b] /\ pc'[t] = Past(pc[t])
      /\ \A c \in Barriers : c # b => leaving'[c] = leaving[c]
  BY <1>1 DEF IInv, Types
<1>4. pc[t] \in {"start", "next", "loop", "last", "end", "cycle"}
  BY <1>1 DEF WaitsAt
<1>5. Types'
  <2>1. Past(pc[t]) \in {"work", "check", "cycle", "join", "next", "clock"}
    BY <1>4 DEF Past
  <2> QED  BY <1>1, <2>1 DEF IInv, Types
<1>6. AtBarriers'
  <2>1. \A c \in Barriers : c # b => t \notin leaving[c] /\ t \notin arrived[c]
    BY <1>1 DEF IInv, AtBarriers, WaitsAt, Barriers
  <2>2. \A c \in Barriers : t \notin arrived[c]
    BY <2>1, <1>1 DEF IInv, AtBarriers
  <2> QED  BY <1>1, <1>2, <1>3, <2>1, <2>2 DEF IInv, Types, AtBarriers
<1>7. CASE b = "cycle_start"
  <2>1. pc[t] \in {"start", "next", "loop", "last"} /\ t \in leaving["cycle_start"]
    BY <1>1, <1>7 DEF WaitsAt
  <2>2. ~Between
    BY <2>1 DEF Between, MainBetween, StageBetween, Threads
  <2>3. InCycle => InCycle'
    <3>1. \A u \in Threads : u \in leaving["cycle_end"] => pc[u] \in {"end", "cycle"}
      BY DEF IInv, AtBarriers, WaitsAt, Barriers
    <3> QED  BY <3>1, <1>2, <1>3, <1>7, <2>1
             DEF InCycle, MainInCycle, StageInCycle, Past, Threads, Barriers
  <2>4. AfterLast => AfterLast'
    BY <1>2, <1>3, <1>7, <2>1 DEF AfterLast, MainOver, StageOver, Past, Threads, Barriers
  <2>5. pc'["main"] \in {"last", "join", "gone"} <=> pc["main"] \in {"last", "join", "gone"}
    BY <1>2, <1>3, <2>1 DEF Past, InCycle, MainInCycle, AfterLast, MainOver, IInv
  <2> QED  BY <1>5, <1>6, <2>2, <2>3, <2>4, <2>5 DEF IInv
<1>8. CASE b = "cycle_end"
  <2>1. pc[t] \in {"end", "cycle"} /\ t \in leaving["cycle_end"]
    BY <1>1, <1>8 DEF WaitsAt
  <2>2. Between
    BY <2>1 DEF IInv, InCycle, AfterLast, MainInCycle, MainOver, StageInCycle, StageOver, Threads
  <2>3. \A u \in Threads : u \in leaving["cycle_start"] => pc[u] \in {"start", "next", "loop", "last"}
    BY DEF IInv, AtBarriers, WaitsAt, Barriers
  <2>4. Between'
    BY <1>2, <1>3, <1>8, <2>1, <2>2, <2>3 DEF Between, MainBetween, StageBetween, Past, Threads, Barriers
  <2>5. pc'["main"] \in {"last", "join", "gone"} <=> pc["main"] \in {"last", "join", "gone"}
    BY <1>2, <1>3, <2>1 DEF Past
  <2> QED  BY <1>5, <1>6, <2>4, <2>5 DEF IInv
<1> QED  BY <1>7, <1>8 DEF Barriers

\* Any call of pthread_barrier_wait in the code.
LEMMA WaitStep ==
    ASSUME IInv, NEW t \in Threads, NEW b \in Barriers, NEW from \in WaitsAt(b),
           Wait(t, b, from, Past(from))
    PROVE  IInv' /\ UNCHANGED Abstract!vars
<1>1. /\ pc[t] = from
      /\ Arrive(t, b) \/ Leave(t, b, Past(from))
      /\ UNCHANGED <<running_sim, num_instr, runs, exited>>
  BY DEF Wait
<1>2. IInv'
  BY <1>1, ArriveKeepsIInv, LeaveKeepsIInv
<1>3. pc'["main"] \in {"stop", "last", "join", "gone"} <=> pc["main"] \in {"stop", "last", "join", "gone"}
  BY <1>1, MainIsNoStage DEF Arrive, Leave, WaitsAt, Past, IInv, Types
<1> QED  BY <1>1, <1>2, <1>3 DEF Abstract!vars

----------------------------------------------------------------------------
(* The stages                                                              *)

\* A thread that waits at no barrier has left every barrier.
LEMMA NotAtBarrier ==
    ASSUME IInv, NEW t \in Threads, pc[t] \notin WaitsAt("cycle_start") \cup WaitsAt("cycle_end")
    PROVE  \A b \in Barriers : t \notin arrived[b] /\ t \notin leaving[b]
  BY DEF IInv, AtBarriers, Barriers

\* A step of one thread away from the barriers keeps what is said of them.
LEMMA GotoKeepsBarriers ==
    ASSUME IInv, NEW t \in Threads, NEW from, NEW to, Goto(t, from, to),
           from \notin WaitsAt("cycle_start") \cup WaitsAt("cycle_end")
    PROVE  /\ AtBarriers' /\ leaving' = leaving /\ arrived' = arrived /\ pc[t] = from
           /\ pc'[t] = to /\ \A u \in Threads : u # t => pc'[u] = pc[u]
           /\ \A b \in Barriers : t \notin leaving[b]
<1>1. leaving' = leaving /\ arrived' = arrived /\ pc[t] = from /\ pc' = [pc EXCEPT ![t] = to]
  BY DEF Goto
<1>2. \A b \in Barriers : t \notin arrived[b] /\ t \notin leaving[b]
  BY <1>1, NotAtBarrier
<1>3. pc'[t] = to /\ \A u \in Threads : u # t => pc'[u] = pc[u]
  BY <1>1 DEF IInv, Types
<1> QED  BY <1>1, <1>2, <1>3 DEF IInv, Types, AtBarriers

\* A stage function runs in a cycle, and once.
LEMMA RunStep ==
    ASSUME IInv, NEW s \in Stages, Run(s)
    PROVE  IInv' /\ Abstract!Run(s)
<1> USE MainIsNoStage
<1>1. /\ Goto(s, "work", "end") /\ ~exited
      /\ runs' = [runs EXCEPT ![s] = runs[s] + 1]
      /\ UNCHANGED <<running_sim, num_instr, exited>>
  BY DEF Run, Goto
<1>2. /\ AtBarriers' /\ leaving' = leaving /\ arrived' = arrived /\ pc[s] = "work"
      /\ pc'[s] = "end" /\ \A u \in Threads : u # s => pc'[u] = pc[u]
      /\ \A b \in Barriers : s \notin leaving[b]
  BY <1>1, GotoKeepsBarriers DEF WaitsAt
<1>3. runs'[s] = runs[s] + 1 /\ \A u \in Stages : u # s => runs'[u] = runs[u]
  BY <1>1 DEF IInv, Types
<1>4. InCycle /\ ~Between /\ ~AfterLast /\ pc["main"] \in {"loop", "cycle"}
  BY <1>2 DEF IInv, Between, AfterLast, StageBetween, StageOver, InCycle, MainInCycle
<1>5. num_instr \in Nat /\ runs[s] = num_instr
  BY <1>2, <1>4 DEF IInv, Types, InCycle
<1>6. InCycle'
  <2>1. MainInCycle'
    BY <1>1, <1>2, <1>4 DEF InCycle, MainInCycle
  <2>2. ASSUME NEW u \in Stages
        PROVE  StageInCycle(u)' /\ runs'[u] = num_instr' + (IF pc'[u] = "end" THEN 1 ELSE 0)
    <3>1. CASE u = s
      BY <3>1, <1>1, <1>2, <1>3, <1>5 DEF StageInCycle, Barriers
    <3>2. CASE u # s
      BY <3>2, <1>1, <1>2, <1>3, <1>4 DEF InCycle, StageInCycle
    <3> QED  BY <3>1, <3>2
  <2> QED  BY <2>1, <2>2 DEF InCycle
<1>7. Types'
  BY <1>1, <1>2 DEF IInv, Types, Goto
<1>8. IInv'
  BY <1>1, <1>2, <1>6, <1>7 DEF IInv
<1>9. {u \in Stages : runs'[u] = num_instr' + 1} = {u \in Stages : runs[u] = num_instr + 1} \cup {s}
  BY <1>1, <1>3, <1>5
<1> QED  BY <1>1, <1>2, <1>4, <1>5, <1>8, <1>9 DEF Abstract!Run

\* The stage after a cycle_start: a new cycle, or the end of the thread.
LEMMA CheckStep ==
    ASSUME IInv, NEW s \in Stages, Check(s)
    PROVE  IInv' /\ UNCHANGED Abstract!vars
<1> USE MainIsNoStage
<1> DEFINE to == IF running_sim THEN "work" ELSE "gone"
<1>1. /\ Goto(s, "check", to)
      /\ UNCHANGED <<running_sim, num_instr, runs, exited>>
  BY DEF Check
<1>2. /\ AtBarriers' /\ leaving' = leaving /\ arrived' = arrived /\ pc[s] = "check"
      /\ pc'[s] = to /\ \A u \in Threads : u # s => pc'[u] = pc[u]
      /\ \A b \in Barriers : s \notin leaving[b]
  BY <1>1, GotoKeepsBarriers DEF WaitsAt
<1>3. Types'
  BY <1>1, <1>2 DEF IInv, Types, Goto
<1>4. ~Between
  BY <1>2 DEF Between, StageBetween
<1>5. ASSUME InCycle PROVE InCycle' /\ to = "work"
  <2>1. to = "work"
    BY <1>5 DEF IInv, InCycle, MainInCycle
  <2> QED  BY <2>1, <1>5, <1>1, <1>2 DEF InCycle, MainInCycle, StageInCycle
<1>6. ASSUME AfterLast PROVE AfterLast'
  <2>1. to = "gone"
    BY <1>6 DEF IInv, AfterLast, MainOver
  <2> QED  BY <2>1, <1>6, <1>1, <1>2 DEF AfterLast, MainOver, StageOver
<1>7. IInv'
  BY <1>1, <1>2, <1>3, <1>4, <1>5, <1>6 DEF IInv
<1> QED  BY <1>1, <1>2, <1>7 DEF Abstract!vars

\* The end of the process changes nothing else.
LEMMA ExitStep ==
    ASSUME IInv, NEW s \in Stages, Exit(s)
    PROVE  IInv' /\ Abstract!Exit
<1>1. exited' = TRUE /\ UNCHANGED <<pc, arrived, leaving, running_sim, num_instr, runs>>
  BY DEF Exit
<1>2. IInv'
  BY <1>1 DEF IInv, Types, AtBarriers, Between, InCycle, AfterLast, MainBetween, MainInCycle,
              MainOver, StageBetween, StageInCycle, StageOver
<1> QED  BY <1>1, <1>2 DEF Abstract!Exit

----------------------------------------------------------------------------
(* The main thread                                                         *)

\* The threads are created before the first cycle.
LEMMA CreateStep ==
    ASSUME IInv, NEW s \in Stages, Create(s)
    PROVE  IInv' /\ UNCHANGED Abstract!vars
<1> USE MainIsNoStage
<1> DEFINE to == IF \A t \in Stages \ {s} : pc[t] # "unborn" THEN "loop" ELSE "create"
<1>1. /\ pc["main"] = "create" /\ pc[s] = "unborn"
      /\ pc' = [pc EXCEPT ![s] = "start", !["main"] = to]
      /\ UNCHANGED <<arrived, leaving, running_sim, num_instr, runs, exited>>
  BY DEF Create
<1>2. /\ pc'[s] = "start" /\ pc'["main"] = to /\ to \in {"loop", "create"}
      /\ \A u \in Stages : u # s => pc'[u] = pc[u]
  BY <1>1 DEF IInv, Types, Threads
<1>3. \A b \in Barriers : /\ "main" \notin arrived[b] /\ "main" \notin leaving[b]
                          /\ s \notin arrived[b] /\ s \notin leaving[b]
  BY <1>1, NotAtBarrier DEF WaitsAt
<1>4. Types'
  BY <1>1, <1>2 DEF IInv, Types
<1>5. AtBarriers'
  BY <1>1, <1>2, <1>3 DEF IInv, Types, AtBarriers, Threads
<1>6. Between
  BY <1>1 DEF IInv, InCycle, AfterLast, MainInCycle, MainOver
<1>7. Between'
  BY <1>1, <1>2, <1>3, <1>6 DEF Between, MainBetween, StageBetween, Barriers
<1>8. IInv'
  BY <1>1, <1>2, <1>4, <1>5, <1>7 DEF IInv
<1> QED  BY <1>1, <1>2, <1>8 DEF Abstract!vars

\* The clocked logic runs when every stage has, and none is in the next cycle.
LEMMA ClockStep ==
    ASSUME IInv, Clock
    PROVE  IInv' /\ Abstract!Clock
<1> USE MainIsNoStage
<1>1. PICK to : /\ Goto("main", "clock", to)
                /\ to = "stop" \/ (to = "loop" /\ num_instr + 1 < CYCLE_MAX)
  BY DEF Clock
<1>2. num_instr' = num_instr + 1 /\ UNCHANGED <<running_sim, runs, exited>> /\ ~exited
  BY DEF Clock, Goto
<1>3. /\ AtBarriers' /\ leaving' = leaving /\ arrived' = arrived /\ pc["main"] = "clock"
      /\ pc'["main"] = to /\ \A u \in Threads : u # "main" => pc'[u] = pc[u]
      /\ \A b \in Barriers : "main" \notin leaving[b]
  BY <1>1, GotoKeepsBarriers DEF WaitsAt
<1>4. Types'
  <2>1. pc' \in [Threads -> {"unborn", "start", "work", "end", "next", "check", "gone", "create",
                           "loop", "cycle", "clock", "stop", "last", "join"}]
    BY <1>1 DEF IInv, Types, Goto
  <2> QED  BY <2>1, <1>2, <1>3 DEF IInv, Types
<1>5. Between
  BY <1>3 DEF IInv, InCycle, AfterLast, MainInCycle, MainOver
<1>6. num_instr \in Nat /\ \A s \in Stages : runs[s] = num_instr + 1
  BY <1>3, <1>5 DEF IInv, Types, Between
<1>7. Between'
  BY <1>1, <1>2, <1>3, <1>5, <1>6 DEF Between, MainBetween, StageBetween, Barriers
<1>8. IInv'
  BY <1>1, <1>2, <1>3, <1>4, <1>7 DEF IInv
<1>9. /\ {u \in Stages : runs[u] = num_instr + 1} = Stages
      /\ {u \in Stages : runs'[u] = num_instr' + 1} = {}
  BY <1>2, <1>6
<1>10. CYCLE_MAX \in Nat
  BY CycleAssumption
<1>11. CASE to = "loop"
  BY <1>1, <1>2, <1>3, <1>8, <1>9, <1>10, <1>11 DEF Abstract!Clock
<1>12. CASE to = "stop"
  BY <1>1, <1>2, <1>3, <1>8, <1>9, <1>10, <1>12 DEF Abstract!Clock
<1> QED  BY <1>1, <1>11, <1>12

\* main clears running_sim between two cycles, when no stage reads it.
LEMMA StopStep ==
    ASSUME IInv, Stop
    PROVE  IInv' /\ UNCHANGED Abstract!vars
<1> USE MainIsNoStage
<1>1. /\ Goto("main", "stop", "last") /\ running_sim' = FALSE
      /\ UNCHANGED <<num_instr, runs, exited>>
  BY DEF Stop
<1>2. /\ AtBarriers' /\ leaving' = leaving /\ arrived' = arrived /\ pc["main"] = "stop"
      /\ pc'["main"] = "last" /\ \A u \in Threads : u # "main" => pc'[u] = pc[u]
      /\ \A b \in Barriers : "main" \notin leaving[b]
  BY <1>1, GotoKeepsBarriers DEF WaitsAt
<1>3. Types'
  BY <1>1, <1>2 DEF IInv, Types, Goto
<1>4. Between
  BY <1>2 DEF IInv, InCycle, AfterLast, MainInCycle, MainOver
<1>5. Between'
  BY <1>1, <1>2, <1>4 DEF Between, MainBetween, StageBetween, Barriers
<1> QED  BY <1>1, <1>2, <1>3, <1>5 DEF IInv, Abstract!vars

\* The stages have ended.
LEMMA JoinStep ==
    ASSUME IInv, Join
    PROVE  IInv' /\ UNCHANGED Abstract!vars
<1> USE MainIsNoStage
<1>1. Goto("main", "join", "gone") /\ UNCHANGED <<running_sim, num_instr, runs, exited>>
  BY DEF Join
<1>2. /\ AtBarriers' /\ leaving' = leaving /\ arrived' = arrived /\ pc["main"] = "join"
      /\ pc'["main"] = "gone" /\ \A u \in Threads : u # "main" => pc'[u] = pc[u]
  BY <1>1, GotoKeepsBarriers DEF WaitsAt
<1>3. Types'
  BY <1>1, <1>2 DEF IInv, Types, Goto
<1>4. AfterLast
  BY <1>2 DEF IInv, Between, InCycle, MainBetween, MainInCycle
<1>5. AfterLast'
  BY <1>1, <1>2, <1>4 DEF AfterLast, MainOver, StageOver
<1> QED  BY <1>1, <1>2, <1>3, <1>5 DEF IInv, Abstract!vars

----------------------------------------------------------------------------
(* The theorems                                                            *)

\* No thread exists but main, which is at no barrier.
LEMMA InitStep == Init => IInv /\ Abstract!Init
<1> SUFFICES ASSUME Init PROVE IInv /\ Abstract!Init
  OBVIOUS
<1> USE MainIsNoStage
<1>1. /\ pc["main"] = "create" /\ \A s \in Stages : pc[s] = "unborn"
      /\ \A b \in Barriers : arrived[b] = {} /\ leaving[b] = {}
      /\ running_sim = TRUE /\ num_instr = 0 /\ exited = FALSE /\ \A s \in Stages : runs[s] = 0
  BY DEF Init
<1>2. Types
  BY DEF Init, Types
<1>3. AtBarriers
  BY <1>1 DEF AtBarriers
<1>4. Between
  BY <1>1 DEF Between, MainBetween, StageBetween, Barriers
<1>5. {s \in Stages : runs[s] = num_instr + 1} = {}
  BY <1>1
<1> QED  BY <1>1, <1>2, <1>3, <1>4, <1>5 DEF IInv, Abstract!Init

\* Every step keeps the invariant, and is a step of Cycles or none.
LEMMA StepIInv ==
    ASSUME IInv, [Next]_vars
    PROVE  IInv' /\ [Abstract!Next]_(Abstract!vars)
<1> USE MainIsNoStage
<1>1. ASSUME NEW s \in Stages, Stage(s) PROVE IInv' /\ [Abstract!Next]_(Abstract!vars)
  <2>1. CASE FirstStart(s)
    BY <2>1, WaitStep DEF FirstStart, WaitsAt, Past, Barriers
  <2>2. CASE Run(s)
    BY <2>2, RunStep DEF Abstract!Next
  <2>3. CASE Exit(s)
    BY <2>3, ExitStep DEF Abstract!Next
  <2>4. CASE End(s)
    BY <2>4, WaitStep DEF End, WaitsAt, Past, Barriers
  <2>5. CASE Start(s)
    BY <2>5, WaitStep DEF Start, WaitsAt, Past, Barriers
  <2>6. CASE Check(s)
    BY <2>6, CheckStep
  <2> QED  BY <1>1, <2>1, <2>2, <2>3, <2>4, <2>5, <2>6 DEF Stage
<1>2. ASSUME Main PROVE IInv' /\ [Abstract!Next]_(Abstract!vars)
  <2>1. CASE MainStart
    BY <2>1, WaitStep DEF MainStart, WaitsAt, Past, Barriers
  <2>2. CASE MainEnd
    BY <2>2, WaitStep DEF MainEnd, WaitsAt, Past, Barriers
  <2>3. CASE Clock
    BY <2>3, ClockStep DEF Abstract!Next
  <2>4. CASE Stop
    BY <2>4, StopStep
  <2>5. CASE LastStart
    BY <2>5, WaitStep DEF LastStart, WaitsAt, Past, Barriers
  <2>6. CASE Join
    BY <2>6, JoinStep
  <2>7. ASSUME NEW s \in Stages, Create(s) PROVE IInv' /\ UNCHANGED Abstract!vars
    BY <2>7, CreateStep
  <2> QED  BY <1>2, <2>1, <2>2, <2>3, <2>4, <2>5, <2>6, <2>7 DEF Main
<1>3. CASE UNCHANGED vars
  <2>1. UNCHANGED <<pc, arrived, leaving, running_sim, num_instr, runs, exited>>
    BY <1>3 DEF vars
  <2>2. IInv'
    BY <2>1 DEF IInv, Types, AtBarriers, Between, InCycle, AfterLast, MainBetween, MainInCycle,
                MainOver, StageBetween, StageInCycle, StageOver
  <2> QED  BY <2>1, <2>2 DEF Abstract!vars
<1> QED  BY <1>1, <1>2, <1>3 DEF Next

\* Two barriers and a flag are enough: however many stages there are, and
\* whatever order the scheduler runs the threads in, each stage function runs
\* once in a cycle, the clocked logic when all have run and none runs, and no
\* stage runs after the last cycle.
THEOREM CyclesImplemented == Spec => ImplementsCycles
<1>1. Spec => []IInv
  BY InitStep, StepIInv, PTL DEF Spec
<1> QED  BY <1>1, InitStep, StepIInv, PTL DEF Spec, ImplementsCycles, Abstract!Spec

----------------------------------------------------------------------------
(* The inductive invariant of ParallelMemory.                              *)

Steps == {"none", "missing", "linked", "ready"}

Accesses == [step : Steps, page : Nat, write : BOOLEAN, found : Nat, next : Seq(Nat)]

MemTypes ==
    /\ table \in Tables
    /\ access \in [Readers -> Accesses]
    /\ flat \in [PAGES -> Nat]
    /\ raced \in BOOLEAN

\* What holds of an access in any case: it goes to a page that exists.
Sound(s) ==
    /\ access[s].step = "none" => ~access[s].write
    /\ access[s].step # "none" => access[s].page \in PAGES
    /\ IF access[s].step = "ready"
       THEN /\ access[s].found \in DOMAIN table.page
            /\ table.page[access[s].found].num = access[s].page
       ELSE access[s].found = 0
    /\ access[s].step = "linked" =>
          \A i \in DOMAIN access[s].next : access[s].next[i] \in DOMAIN table.page

\* And what it knows of the table as long as no overlap has happened.
Current(s) ==
    /\ access[s].step \in {"missing", "linked"} => get_page(table, access[s].page) = 0
    /\ access[s].step = "linked" => access[s].next = Link(access[s].page)
    /\ access[s].step = "ready" => get_page(table, access[s].page) = access[s].found

MemInv ==
    /\ MemTypes
    /\ \A s \in Readers : Sound(s)
    /\ ~raced => /\ \A s \in Readers : Current(s)
                 /\ \A n \in PAGES : WordOf(table, n) = flat[n]

----------------------------------------------------------------------------
(* The steps of an access                                                  *)

\* The word of a page is its first cell, and zero as long as there is no page.
LEMMA WordIsFirstCell ==
    ASSUME NEW t \in Tables, NEW n \in PAGES
    PROVE  /\ WordOf(t, n) = IF get_page(t, n) = 0 THEN 0 ELSE t.page[get_page(t, n)].cell[0]
           /\ WordOf(t, n) \in Nat
           /\ 0 \in 0 .. PAGESIZE - 1
<1> DEFINE a == n * PAGESIZE
           q == a \div PAGESIZE
           r == a % PAGESIZE
<1>1. PAGESIZE \in Nat \ {0} /\ n \in Nat /\ a \in Nat
  BY PageAssumption
<1>2. a = PAGESIZE * q + r /\ r \in 0 .. PAGESIZE - 1 /\ q \in Nat
  BY <1>1
<1>3. PAGESIZE * q + r = PAGESIZE * n
  BY <1>1, <1>2
<1> HIDE DEF q, r, a
<1>4. q = n
  <2>1. CASE q >= n + 1
    <3>1. PAGESIZE * q >= PAGESIZE * n + PAGESIZE
      BY <2>1, <1>1, <1>2
    <3> QED  BY <3>1, <1>1, <1>2, <1>3
  <2>2. CASE q + 1 <= n
    <3>1. PAGESIZE * n >= PAGESIZE * q + PAGESIZE
      BY <2>2, <1>1, <1>2
    <3> QED  BY <3>1, <1>1, <1>2, <1>3
  <2> QED  BY <2>1, <2>2, <1>1, <1>2
<1>5. r = 0
  BY <1>1, <1>2, <1>3, <1>4
<1>6. PageOf(n * PAGESIZE) = n /\ OffsetOf(n * PAGESIZE) = 0
  BY <1>4, <1>5 DEF PageOf, OffsetOf, q, r, a
<1>7. WordOf(t, n) = IF get_page(t, n) = 0 THEN 0 ELSE t.page[get_page(t, n)].cell[0]
  BY <1>6 DEF WordOf, CellAt
<1>8. 0 \in 0 .. PAGESIZE - 1
  BY <1>1
<1>9. \A p \in DOMAIN t.page : t.page[p].cell[0] \in Nat
  <2>1. \A p \in DOMAIN t.page : t.page[p] \in Ptes
    BY DEF Tables
  <2> QED  BY <2>1, <1>8 DEF Ptes
<1> QED  BY <1>7, <1>8, <1>9, GetPageFound

\* Both stages that go to memory are stages.
LEMMA ReadersAreStages == Readers \subseteq Stages
  BY CycleAssumption, ParallelAssumption DEF Readers

\* The page of the address, found or missing.
LEMMA LookUpStep ==
    ASSUME MemInv, NEW s \in Readers, LookUp(s)
    PROVE  MemInv'
<1>1. PICK n \in PAGES, w \in BOOLEAN :
        LET p == get_page(table, n)
        IN  Step(s, "none", [step |-> IF p = 0 THEN "missing" ELSE "ready",
                             page |-> n, write |-> w, found |-> p, next |-> << >>])
  <2>1. /\ (IF s = FetchStage THEN FETCHED ELSE ACCESSED) \subseteq PAGES
        /\ (IF s = FetchStage THEN {FALSE} ELSE BOOLEAN) \subseteq BOOLEAN
    BY ParallelAssumption
  <2> QED  BY <2>1 DEF LookUp
<1> DEFINE p == get_page(table, n)
           st == IF p = 0 THEN "missing" ELSE "ready"
           new == [step |-> st, page |-> n, write |-> w, found |-> p, next |-> << >>]
<1>2. access[s].step = "none" /\ access' = [access EXCEPT ![s] = new]
  BY <1>1 DEF Step
<1>3. table' = table /\ flat' = flat /\ raced' = raced
  BY DEF LookUp
<1>4. table \in Tables /\ (p # 0 => p \in DOMAIN table.page /\ table.page[p].num = n)
  BY GetPageFound DEF MemInv, MemTypes
<1>5. n \in Nat /\ p \in Nat /\ st \in Steps
  <2>1. n \in Nat /\ st \in Steps
    BY PageAssumption DEF Steps
  <2>2. DOMAIN table.page \subseteq Nat
    BY <1>4 DEF Tables
  <2> QED  BY <2>1, <2>2, <1>4
<1>6. p = get_page(table, n) /\ st = IF p = 0 THEN "missing" ELSE "ready"
  OBVIOUS
<1> HIDE DEF p, st
<1>6a. new.step = st /\ new.page = n /\ new.write = w /\ new.found = p /\ new \in Accesses
  BY <1>5 DEF Accesses
<1> HIDE DEF new
<1>7. access'[s] = new /\ \A u \in Readers : u # s => access'[u] = access[u]
  BY <1>2 DEF MemInv, MemTypes
<1>8. MemTypes'
  BY <1>2, <1>3, <1>6a DEF MemInv, MemTypes
<1>9. ASSUME NEW u \in Readers PROVE Sound(u)'
  <2>1. CASE u = s
    BY <2>1, <1>2, <1>3, <1>4, <1>6, <1>7, <1>6a DEF Sound
  <2>2. CASE u # s
    BY <2>2, <1>3, <1>7 DEF MemInv, Sound
  <2> QED  BY <2>1, <2>2
<1>10. ASSUME ~raced', NEW u \in Readers PROVE Current(u)'
  <2>1. CASE u = s
    BY <2>1, <1>3, <1>6, <1>7, <1>6a DEF Current
  <2>2. CASE u # s
    BY <2>2, <1>3, <1>7, <1>10 DEF MemInv, Current, Link
  <2> QED  BY <2>1, <2>2
<1>11. ~raced' => \A n_1 \in PAGES : WordOf(table', n_1) = flat'[n_1]
  BY <1>3 DEF MemInv
<1> QED  BY <1>8, <1>9, <1>10, <1>11 DEF MemInv

\* The new page is linked to the chain as it is.
LEMMA PrepareStep ==
    ASSUME MemInv, NEW s \in Readers, Prepare(s)
    PROVE  MemInv'
<1> DEFINE new == [access[s] EXCEPT !.step = "linked", !.next = Link(access[s].page)]
<1>1. /\ access[s].step = "missing" /\ access' = [access EXCEPT ![s] = new]
      /\ table' = table /\ flat' = flat /\ raced' = raced
  BY DEF Prepare, Step
<1>2. /\ access[s] \in Accesses /\ access[s].page \in PAGES /\ access[s].found = 0
      /\ table \in Tables
  BY <1>1 DEF MemInv, MemTypes, Sound
<1>3. /\ Link(access[s].page) \in Seq(Nat)
      /\ \A i \in DOMAIN Link(access[s].page) : Link(access[s].page)[i] \in DOMAIN table.page
  BY <1>2, TableParts DEF Link
<1>4. /\ new \in Accesses /\ new.step = "linked" /\ new.next = Link(access[s].page)
      /\ new.page = access[s].page /\ new.found = 0
  BY <1>2, <1>3 DEF Accesses, Steps
<1> HIDE DEF new
<1>5. access'[s] = new /\ \A u \in Readers : u # s => access'[u] = access[u]
  BY <1>1 DEF MemInv, MemTypes
<1>6. MemTypes'
  BY <1>1, <1>4 DEF MemInv, MemTypes
<1>7. ASSUME NEW u \in Readers PROVE Sound(u)'
  <2>1. CASE u = s
    BY <2>1, <1>1, <1>2, <1>3, <1>4, <1>5 DEF Sound
  <2>2. CASE u # s
    BY <2>2, <1>1, <1>5 DEF MemInv, Sound
  <2> QED  BY <2>1, <2>2
<1>8. ASSUME ~raced', NEW u \in Readers PROVE Current(u)'
  <2>1. CASE u = s
    <3>1. get_page(table, access[s].page) = 0
      BY <1>1, <1>8 DEF MemInv, Current
    <3> QED  BY <3>1, <2>1, <1>1, <1>4, <1>5 DEF Current, Link
  <2>2. CASE u # s
    BY <2>2, <1>1, <1>5, <1>8 DEF MemInv, Current, Link
  <2> QED  BY <2>1, <2>2
<1>9. ~raced' => \A n \in PAGES : WordOf(table', n) = flat'[n]
  BY <1>1 DEF MemInv
<1> QED  BY <1>6, <1>7, <1>8, <1>9 DEF MemInv

\* The store into the table: when the other thread has not prepared a page for
\* the same chain, nor is about to add the same page, it is add_page as if
\* nothing else had touched the table.
LEMMA PublishStep ==
    ASSUME MemInv, NEW s \in Readers, Publish(s)
    PROVE  MemInv'
<1> DEFINE m == access[s].page
           p == Len(table.page) + 1
           new == [access[s] EXCEPT !.step = "ready", !.found = p, !.next = << >>]
<1>1. /\ access[s].step = "linked" /\ access' = [access EXCEPT ![s] = new]
      /\ table' = LinkPage(table, m, access[s].next)
      /\ raced' = (raced \/ Overlap(s)) /\ flat' = flat
  BY DEF Publish, Step, LinkPage
<1>2. /\ access[s] \in Accesses /\ m \in PAGES /\ table \in Tables
      /\ access[s].next \in Seq(Nat)
      /\ \A i \in DOMAIN access[s].next : access[s].next[i] \in DOMAIN table.page
  BY <1>1 DEF MemInv, MemTypes, Sound, Accesses
<1>3. /\ table' \in Tables
      /\ DOMAIN table'.page = DOMAIN table.page \cup {p} /\ p \notin DOMAIN table.page
      /\ table'.page[p] = NewPage(m)
      /\ \A q \in DOMAIN table.page : table'.page[q] = table.page[q]
  BY <1>1, <1>2, LinkPageIsTable
<1>4. p \in Nat /\ p # 0
  BY <1>2, TableParts
<1>5. new \in Accesses /\ new.step = "ready" /\ new.found = p /\ new.page = m
  <2>1. p \in Nat /\ << >> \in Seq(Nat) /\ "ready" \in Steps
    BY <1>4 DEF Steps
  <2> HIDE DEF p
  <2> QED  BY <1>2, <2>1 DEF Accesses
<1> HIDE DEF new
<1>6. access'[s] = new /\ \A u \in Readers : u # s => access'[u] = access[u]
  BY <1>1 DEF MemInv, MemTypes
<1>7. MemTypes'
  BY <1>1, <1>3, <1>5 DEF MemInv, MemTypes
<1>8. ASSUME NEW u \in Readers PROVE Sound(u)'
  <2>1. CASE u = s
    BY <2>1, <1>2, <1>3, <1>5, <1>6 DEF Sound, NewPage
  <2>2. CASE u # s
    BY <2>2, <1>3, <1>6 DEF MemInv, Sound
  <2> QED  BY <2>1, <2>2
<1>9. ASSUME ~raced'
      PROVE  (\A u \in Readers : Current(u)') /\ \A n \in PAGES : WordOf(table', n) = flat'[n]
  <2>1. ~raced /\ ~Overlap(s)
    BY <1>1, <1>9
  <2>2. get_page(table, m) = 0 /\ access[s].next = table.chain[HASH[m]]
    BY <1>1, <2>1 DEF MemInv, Current, Link
  <2>3. table' = add_page(table, m)
    BY <1>1, <2>2 DEF add_page, LinkPage
  <2>4. \A n \in PAGES : get_page(table', n) = IF n = m THEN p ELSE get_page(table, n)
    BY <1>2, <2>3, AddPageGetPage
  <2>5. \A b \in Buckets : b # HASH[m] => table'.chain[b] = table.chain[b]
    BY <1>1, <1>2, TableParts DEF LinkPage, Tables
  <2> HIDE DEF p, m
  <2>6. ASSUME NEW u \in Readers PROVE Current(u)'
    <3>1. CASE u = s
      BY <3>1, <1>2, <1>5, <1>6, <2>4 DEF Current
    <3>2. CASE u # s /\ access[u].step \in {"missing", "linked"}
      <4>1. access[u].page \in PAGES /\ access[u].page # m
        BY <3>2, <2>1 DEF Overlap, MemInv, Sound, m
      <4>2. access[u].step = "linked" => HASH[access[u].page] # HASH[m]
        BY <3>2, <2>1 DEF Overlap, m
      <4>3. get_page(table, access[u].page) = 0
        BY <3>2, <2>1 DEF MemInv, Current
      <4>4. access[u].step = "linked" => access[u].next = table.chain[HASH[access[u].page]]
        BY <2>1 DEF MemInv, Current, Link
      <4>5. HASH[access[u].page] \in Buckets
        BY <4>1 DEF Buckets
      <4> QED  BY <3>2, <4>1, <4>2, <4>3, <4>4, <4>5, <1>6, <2>4, <2>5 DEF Current, Link
    <3>3. CASE u # s /\ access[u].step \notin {"missing", "linked"}
      <4>1. CASE access[u].step = "ready"
        <5>1. /\ access[u].page \in PAGES /\ access[u].found \in DOMAIN table.page
              /\ get_page(table, access[u].page) = access[u].found
          BY <4>1, <2>1 DEF MemInv, Sound, Current
        <5>2. access[u].found # 0
          BY <5>1, <1>2 DEF Tables
        <5>3. access[u].page # m
          BY <5>1, <5>2, <2>2
        <5> QED  BY <3>3, <4>1, <5>1, <5>3, <1>6, <2>4 DEF Current
      <4>2. CASE access[u].step # "ready"
        BY <3>3, <4>2, <1>6 DEF Current
      <4> QED  BY <4>1, <4>2
    <3> QED  BY <3>1, <3>2, <3>3
  <2>7. ASSUME NEW n \in PAGES PROVE WordOf(table', n) = flat'[n]
    <3>1. WordOf(table, n) = flat'[n]
      BY <1>1, <2>1 DEF MemInv
    <3>2. WordOf(table', n) = IF get_page(table', n) = 0 THEN 0 ELSE table'.page[get_page(table', n)].cell[0]
      BY <1>3, WordIsFirstCell
    <3>3. WordOf(table, n) = IF get_page(table, n) = 0 THEN 0 ELSE table.page[get_page(table, n)].cell[0]
      BY <1>2, WordIsFirstCell
    <3>4. CASE n = m
      <4>1. NewPage(m).cell[0] = 0
        BY WordIsFirstCell, <1>2 DEF NewPage
      <4> QED  BY <4>1, <3>1, <3>2, <3>3, <3>4, <1>3, <1>4, <2>2, <2>4
    <3>5. CASE n # m
      <4>1. get_page(table', n) = get_page(table, n)
        BY <3>5, <2>4
      <4>2. get_page(table, n) # 0 => get_page(table, n) \in DOMAIN table.page
        BY <1>2, GetPageFound
      <4> QED  BY <4>1, <4>2, <3>1, <3>2, <3>3, <1>3
    <3> QED  BY <3>4, <3>5
  <2> QED  BY <2>6, <2>7
<1> QED  BY <1>7, <1>8, <1>9 DEF MemInv

\* The access itself.
LEMMA FinishStep ==
    ASSUME MemInv, num_instr \in Nat, NEW s \in Readers, Finish(s)
    PROVE  MemInv'
<1>1. /\ access' = [access EXCEPT ![s] = NoAccess] /\ raced' = raced
      /\ access[s].step \in {"none", "ready"}
  BY DEF Finish
<1>2. /\ NoAccess \in Accesses /\ NoAccess.step = "none" /\ ~NoAccess.write /\ NoAccess.found = 0
  BY DEF NoAccess, Accesses, Steps
<1>3. access'[s] = NoAccess /\ \A u \in Readers : u # s => access'[u] = access[u]
  BY <1>1 DEF MemInv, MemTypes
<1>4. CASE ~access[s].write
  <2>1. table' = table /\ flat' = flat
    BY <1>4 DEF Finish
  <2>2. MemTypes'
    BY <2>1, <1>1, <1>2 DEF MemInv, MemTypes
  <2>3. ASSUME NEW u \in Readers PROVE Sound(u)' /\ (~raced => Current(u)')
    <3>1. CASE u = s
      BY <3>1, <1>2, <1>3 DEF Sound, Current
    <3>2. CASE u # s
      BY <3>2, <2>1, <1>3 DEF MemInv, Sound, Current, Link
    <3> QED  BY <3>1, <3>2
  <2> QED  BY <2>1, <2>2, <2>3, <1>1 DEF MemInv
<1>5. CASE access[s].write
  <2> DEFINE p == access[s].found
             m == access[s].page
             v == num_instr + 2
  <2>1. /\ table' = [table EXCEPT !.page[p].cell[0] = v]
        /\ flat' = [flat EXCEPT ![m] = v]
    BY <1>5 DEF Finish
  <2>2. /\ access[s].step = "ready" /\ table \in Tables
        /\ p \in DOMAIN table.page /\ m \in PAGES /\ table.page[p].num = m
    BY <1>1, <1>5 DEF MemInv, MemTypes, Sound
  <2>3. v \in Nat /\ 0 \in 0 .. PAGESIZE - 1
    BY <2>2, WordIsFirstCell
  <2>4. ~raced => get_page(table, m) = p
    BY <2>2 DEF MemInv, Current
  <2> HIDE DEF v, p, m
  <2>5. Stored(table, table', p, 0, v)
    BY <2>1, <2>2, <2>3, StoreKeepsPages
  <2>6. MemTypes'
    <3>1. flat' \in [PAGES -> Nat]
      BY <2>1, <2>3 DEF MemInv, MemTypes
    <3>2. table' \in Tables
      BY <2>5 DEF Stored
    <3> QED  BY <3>1, <3>2, <1>1, <1>2 DEF MemInv, MemTypes
  <2>7. ASSUME NEW u \in Readers PROVE Sound(u)'
    <3>1. CASE u = s
      BY <3>1, <1>2, <1>3 DEF Sound
    <3>2. CASE u # s
      BY <3>2, <2>5, <1>3 DEF MemInv, Sound, Stored
    <3> QED  BY <3>1, <3>2
  <2>8. ASSUME ~raced, NEW u \in Readers PROVE Current(u)'
    <3>1. CASE u = s
      BY <3>1, <1>2, <1>3 DEF Current
    <3>2. CASE u # s
      <4>1. access[u].step # "none" => get_page(table', access[u].page) = get_page(table, access[u].page)
        BY <2>5 DEF MemInv, Sound, Stored
      <4>2. Current(u) /\ table'.chain = table.chain
        BY <2>5, <2>8 DEF MemInv, Stored
      <4> QED  BY <3>2, <4>1, <4>2, <1>3 DEF Current, Link
    <3> QED  BY <3>1, <3>2
  <2>9. ASSUME ~raced, NEW n \in PAGES PROVE WordOf(table', n) = flat'[n]
    <3> DEFINE q == get_page(table, n)
    <3>1. WordOf(table, n) = flat[n] /\ flat'[n] = IF n = m THEN v ELSE flat[n]
      BY <2>1, <2>9 DEF MemInv, MemTypes
    <3>2. WordOf(table, n) = IF q = 0 THEN 0 ELSE table.page[q].cell[0]
      BY <2>2, WordIsFirstCell
    <3>3. get_page(table', n) = q
      BY <2>5 DEF Stored
    <3>4. WordOf(table', n) = IF q = 0 THEN 0 ELSE table'.page[q].cell[0]
      <4>1. table' \in Tables
        BY <2>5 DEF Stored
      <4> QED  BY <4>1, <3>3, WordIsFirstCell
    <3>5. q # 0 => q \in DOMAIN table.page /\ table.page[q].num = n
      BY <2>2, GetPageFound
    <3>6. q = p <=> n = m
      <4>1. n = m => q = p
        BY <2>4, <2>9
      <4>2. p # 0
        BY <2>2 DEF Tables
      <4> QED  BY <4>1, <4>2, <3>5, <2>2
    <3>7. q # 0 => table'.page[q].cell[0] = IF q = p THEN v ELSE table.page[q].cell[0]
      BY <3>5, <2>3, <2>5 DEF Stored
    <3>8. n = m => q # 0
      <4>1. p # 0
        BY <2>2 DEF Tables
      <4> QED  BY <4>1, <3>6
    <3> HIDE DEF q
    <3> QED  BY <3>1, <3>2, <3>4, <3>6, <3>7, <3>8
  <2> QED  BY <2>6, <2>7, <2>8, <2>9, <1>1 DEF MemInv
<1>6. access[s].write \in BOOLEAN
  BY DEF MemInv, MemTypes, Accesses
<1> QED  BY <1>4, <1>5, <1>6

----------------------------------------------------------------------------
(* The theorems                                                            *)

\* A step that leaves the memory alone keeps what is said of it.
LEMMA MemUnchanged == ASSUME MemInv, UNCHANGED memVars PROVE MemInv'
  BY DEF MemInv, MemTypes, Sound, Current, Link, memVars

\* Initially no access is under way.
LEMMA MemInit == ParInit => MemInv
<1> SUFFICES ASSUME ParInit PROVE MemInv
  OBVIOUS
<1>1. LoadedTable \in Tables
  BY ParallelAssumption
<1>2. NoAccess \in Accesses /\ NoAccess.step = "none" /\ ~NoAccess.write /\ NoAccess.found = 0
  BY DEF NoAccess, Accesses, Steps
<1>3. flat \in [PAGES -> Nat]
  BY <1>1, WordIsFirstCell DEF ParInit
<1>4. \A s \in Readers : access[s] = NoAccess
  BY DEF ParInit
<1> QED  BY <1>1, <1>2, <1>3, <1>4 DEF ParInit, MemInv, MemTypes, Sound, Current

\* A step of the build with its memory is one of the build without, and keeps
\* the invariant.
LEMMA ParStep ==
    ASSUME IInv, MemInv, [ParNext]_parVars
    PROVE  [Next]_vars /\ MemInv'
<1>1. num_instr \in Nat
  BY DEF IInv, Types
<1>2. CASE UNCHANGED parVars
  BY <1>2, MemUnchanged DEF parVars
<1>3. CASE ParMain
  BY <1>3, MemUnchanged DEF ParMain, Next
<1>4. ASSUME NEW s \in Stages, ParStage(s) PROVE [Next]_vars /\ MemInv'
  <2>1. CASE s \notin Readers
    BY <1>4, <2>1, MemUnchanged DEF ParStage, Next
  <2>2. CASE s \in Readers
    <3>1. Reader(s)
      BY <1>4, <2>2 DEF ParStage
    <3>2. CASE LookUp(s)
      BY <3>2, <2>2, LookUpStep DEF LookUp, Step
    <3>3. CASE Prepare(s)
      BY <3>3, <2>2, PrepareStep DEF Prepare, Step
    <3>4. CASE Publish(s)
      BY <3>4, <2>2, PublishStep DEF Publish, Step
    <3>5. CASE Finish(s)
      BY <3>5, <2>2, <1>1, FinishStep DEF Finish, Stage, Next
    <3>6. CASE Exit(s) /\ UNCHANGED memVars
      BY <3>6, MemUnchanged DEF Stage, Next
    <3>7. CASE (FirstStart(s) \/ End(s) \/ Start(s) \/ Check(s)) /\ UNCHANGED memVars
      BY <3>7, MemUnchanged DEF Stage, Next
    <3> QED  BY <3>1, <3>2, <3>3, <3>4, <3>5, <3>6, <3>7 DEF Reader
  <2> QED  BY <2>1, <2>2
<1> QED  BY <1>2, <1>3, <1>4 DEF ParNext

\* What the invariant is for.
LEMMA MemInvMeansMemory == MemInv => TableIsMemory
<1> SUFFICES ASSUME MemInv, ~raced
             PROVE  /\ \A n \in PAGES : WordOf(table, n) = flat[n]
                    /\ \A s \in Readers : access[s].found # 0 =>
                          access[s].found = get_page(table, access[s].page)
  BY DEF TableIsMemory
<1>1. ASSUME NEW s \in Readers, access[s].found # 0
      PROVE  access[s].found = get_page(table, access[s].page)
  BY <1>1 DEF MemInv, Sound, Current
<1> QED  BY <1>1 DEF MemInv

\* The threads of the PARALLEL build keep the page table the guest's memory,
\* whatever pages they touch first and however their look-ups, additions, reads
\* and writes fall together, unless both are inside add_page for one chain or
\* one page.
THEOREM TableIsMemoryAlways == ParSpec => []TableIsMemory
<1>1. ParInit => IInv /\ MemInv
  BY InitStep, MemInit DEF ParInit
<1>2. IInv /\ MemInv /\ [ParNext]_parVars => IInv' /\ MemInv'
  BY ParStep, StepIInv
<1>3. ParSpec => [](IInv /\ MemInv)
  BY <1>1, <1>2, PTL DEF ParSpec
<1> QED  BY <1>3, MemInvMeansMemory, PTL

\* Going to memory adds no order to the threads and takes none away: the build
\* with its memory still runs the cycles of module Cycles.
THEOREM ParCyclesImplemented == ParSpec => ImplementsCycles
<1>1. ParInit => IInv /\ MemInv /\ Abstract!Init
  BY InitStep, MemInit DEF ParInit
<1>2. IInv /\ MemInv /\ [ParNext]_parVars => IInv' /\ MemInv' /\ [Abstract!Next]_(Abstract!vars)
  BY ParStep, StepIInv
<1> QED  BY <1>1, <1>2, PTL DEF ParSpec, ImplementsCycles, Abstract!Spec
=============================================================================
