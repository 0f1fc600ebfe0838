---------------------------- MODULE MCParallel ----------------------------
(***************************************************************************)
(* An instance of ParallelMemory for TLC: three pages in one chain, one of *)
(* them loaded.                                                            *)
(***************************************************************************)
EXTENDS ParallelMemory

mcHash   == [n \in PAGES |-> 0]
mcLoaded == Put(EmptyTable, 0, 1)
=============================================================================
