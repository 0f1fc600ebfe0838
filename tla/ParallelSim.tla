---------------------------- MODULE ParallelSim ----------------------------
(***************************************************************************)
(* The PARALLEL build of runElf: a thread for each pipeline stage, and the *)
(* main thread, which meet at the barriers cycle_start and cycle_end of    *)
(* each cycle.  The main thread runs the clocked logic between cycle_end   *)
(* and the next cycle_start, clears running_sim when the guest has stopped *)
(* and then meets the stages once more, so that they see it.               *)
(*                                                                         *)
(* What a stage or the clocked logic computes is in module Pipeline; here  *)
(* each is a step, and what matters is when it may be taken.               *)
(***************************************************************************)
EXTENDS Integers, FiniteSets

CONSTANTS Stages,       \* the pipeline stages
          MemoryStage,  \* the one that may end the process
          CYCLE_MAX     \* cycle_max

ASSUME CycleAssumption ==
    /\ IsFiniteSet(Stages) /\ MemoryStage \in Stages
    /\ "main" \notin Stages
    /\ CYCLE_MAX \in Nat \ {0}

Threads  == Stages \cup {"main"}
Barriers == {"cycle_start", "cycle_end"}

VARIABLES
    pc,             \* where each thread is
    arrived,        \* threads blocked in pthread_barrier_wait
    leaving,        \* threads the barrier has released and that have not left
    running_sim,
    num_instr,      \* cycles completed
    runs,           \* auxiliary: how often each stage function has run
    exited          \* has the memory stage called exit?

vars == <<pc, arrived, leaving, running_sim, num_instr, runs, exited>>

Init ==
    /\ pc = [t \in Threads |-> IF t = "main" THEN "create" ELSE "unborn"]
    /\ arrived = [b \in Barriers |-> {}]
    /\ leaving = [b \in Barriers |-> {}]
    /\ running_sim = TRUE
    /\ num_instr = 0
    /\ runs = [s \in Stages |-> 0]
    /\ exited = FALSE

----------------------------------------------------------------------------
(* pthread_barrier_wait: the last of the parties to arrive releases the    *)
(* others, which leave one by one; the barrier is ready for its next use   *)
(* at once.                                                                *)

\* The count given to pthread_barrier_init.
Parties == Cardinality(Stages) + 1

Arrive(t, b) ==
    LET here == arrived[b] \cup {t}
        full == Cardinality(here) = Parties
    IN  /\ t \notin arrived[b] \cup leaving[b]
        /\ arrived' = [arrived EXCEPT ![b] = IF full THEN {} ELSE here]
        /\ leaving' = [leaving EXCEPT ![b] = IF full THEN @ \cup here ELSE @]
        /\ UNCHANGED pc

Leave(t, b, to) ==
    /\ t \in leaving[b]
    /\ leaving' = [leaving EXCEPT ![b] = @ \ {t}]
    /\ pc' = [pc EXCEPT ![t] = to]
    /\ UNCHANGED arrived

\* Thread t, at "from", calls wait on b and is at "to" when the call returns.
Wait(t, b, from, to) ==
    /\ ~exited
    /\ pc[t] = from
    /\ Arrive(t, b) \/ Leave(t, b, to)
    /\ UNCHANGED <<running_sim, num_instr, runs, exited>>

Goto(t, from, to) ==
    /\ ~exited
    /\ pc[t] = from
    /\ pc' = [pc EXCEPT ![t] = to]
    /\ UNCHANGED <<arrived, leaving>>

----------------------------------------------------------------------------
(* start_fetch, start_decode, start_execute, start_memory, start_writeback *)

FirstStart(s) == Wait(s, "cycle_start", "start", "work")

Run(s) ==
    /\ Goto(s, "work", "end")
    /\ runs' = [runs EXCEPT ![s] = @ + 1]
    /\ UNCHANGED <<running_sim, num_instr, exited>>

\* A null read, or a write to the checkpoint address, ends the process.
Exit(s) ==
    /\ ~exited
    /\ s = MemoryStage
    /\ pc[s] = "work"
    /\ exited' = TRUE
    /\ UNCHANGED <<pc, arrived, leaving, running_sim, num_instr, runs>>

End(s)   == Wait(s, "cycle_end", "end", "next")
Start(s) == Wait(s, "cycle_start", "next", "check")

Check(s) ==
    /\ Goto(s, "check", IF running_sim THEN "work" ELSE "gone")
    /\ UNCHANGED <<running_sim, num_instr, runs, exited>>

Stage(s) == FirstStart(s) \/ Run(s) \/ Exit(s) \/ End(s) \/ Start(s) \/ Check(s)

----------------------------------------------------------------------------
(* runElf                                                                  *)

\* pthread_create: the threads that exist start to run at once.
Create(s) ==
    /\ ~exited
    /\ pc["main"] = "create"
    /\ pc[s] = "unborn"
    /\ pc' = [pc EXCEPT ![s] = "start",
                        !["main"] = IF \A t \in Stages \ {s} : pc[t] # "unborn"
                                    THEN "loop" ELSE "create"]
    /\ UNCHANGED <<arrived, leaving, running_sim, num_instr, runs, exited>>

MainStart == Wait("main", "cycle_start", "loop", "cycle")
MainEnd   == Wait("main", "cycle_end", "cycle", "clock")

\* The clocked logic, and the condition of the loop.
Clock ==
    /\ \/ num_instr + 1 < CYCLE_MAX /\ Goto("main", "clock", "loop")
       \/ Goto("main", "clock", "stop")
    /\ num_instr' = num_instr + 1
    /\ UNCHANGED <<running_sim, runs, exited>>

\* A mutant: running_sim is not cleared before the stages are let go.
StopKeeps ==
    /\ Goto("main", "stop", "last")
    /\ UNCHANGED <<running_sim, num_instr, runs, exited>>

\* A mutant: the main thread does not meet the stages a last time.
StopNoWait ==
    /\ Goto("main", "stop", "join")
    /\ running_sim' = FALSE
    /\ UNCHANGED <<num_instr, runs, exited>>

Stop ==
    /\ Goto("main", "stop", "last")
    /\ running_sim' = FALSE
    /\ UNCHANGED <<num_instr, runs, exited>>

LastStart == Wait("main", "cycle_start", "last", "join")

Join ==
    /\ \A s \in Stages : pc[s] = "gone"
    /\ Goto("main", "join", "gone")
    /\ UNCHANGED <<running_sim, num_instr, runs, exited>>

Main ==
    \/ MainStart \/ MainEnd \/ Clock \/ Stop \/ LastStart \/ Join
    \/ \E s \in Stages : Create(s)

Next == Main \/ \E s \in Stages : Stage(s)

\* Every thread that can run does so in the end: the system's scheduler.
Spec == Init /\ [][Next]_vars /\ WF_vars(Main) /\ \A s \in Stages : WF_vars(Stage(s))

----------------------------------------------------------------------------
\* The loop goes on until main clears running_sim, or the process is over.
Abstract == INSTANCE Cycles
       WITH done <- {s \in Stages : runs[s] = num_instr + 1},
            running <- ~exited /\ pc["main"] \notin {"stop", "last", "join", "gone"}

\* In every cycle each stage runs once, and the clocked logic runs while none
\* does; the threads and barriers of proc.c add no other order, and after the
\* last cycle no stage runs again.
ImplementsCycles == Abstract!Spec

\* Nobody waits at a barrier for ever: a run that completes its cycles joins all
\* five threads.
Terminates == <>(exited \/ \A t \in Threads : pc[t] = "gone")
=============================================================================
