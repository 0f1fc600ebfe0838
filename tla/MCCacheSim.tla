----------------------------- MODULE MCCacheSim -----------------------------
(***************************************************************************)
(* An instance of CacheSim for TLC.  The tags of a trace are               *)
(* interchangeable: only whether two are equal matters.                    *)
(***************************************************************************)
EXTENDS CacheSim, TLC

mcTagSymmetry == Permutations(Tags)
=============================================================================
