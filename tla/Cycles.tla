------------------------------- MODULE Cycles -------------------------------
(***************************************************************************)
(* What the loop of runElf promises the stages and the clocked logic: in a *)
(* cycle every stage runs exactly once, in any order; then, with no stage  *)
(* running, the clocked logic runs; after the last cycle no stage runs.    *)
(* It is the skeleton of Turn and Clock in module Pipeline, with PRECEDES  *)
(* empty.  ParallelSim implements this specification.                      *)
(***************************************************************************)
EXTENDS Naturals

CONSTANTS Stages,       \* the pipeline stages
          CYCLE_MAX     \* cycle_max

VARIABLES done,         \* the stages that have run in this cycle
          num_instr,    \* cycles completed
          running       \* does the loop go on?

vars == <<done, num_instr, running>>

Init == done = {} /\ num_instr = 0 /\ running = TRUE

Run(s) ==
    /\ running
    /\ s \notin done
    /\ done' = done \cup {s}
    /\ UNCHANGED <<num_instr, running>>

Clock ==
    /\ running
    /\ done = Stages
    /\ done' = {}
    /\ num_instr' = num_instr + 1
    /\ running' \in IF num_instr' < CYCLE_MAX THEN BOOLEAN ELSE {FALSE}

\* A stage may end the process in the middle of a cycle.
Exit ==
    /\ running' = FALSE
    /\ UNCHANGED <<done, num_instr>>

Next == Clock \/ Exit \/ \E s \in Stages : Run(s)

Spec == Init /\ [][Next]_vars
=============================================================================
