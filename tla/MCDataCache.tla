---------------------------- MODULE MCDataCache ----------------------------
(***************************************************************************)
(* Instances of DataCache for TLC.                                         *)
(***************************************************************************)
EXTENDS DataCache

\* Three blocks that compete for the two ways of set 1: two of the guest's data,
\* from one of which instructions are fetched too, and one that is only fetched.
\* The other words of the blocks and set 0 are there to be disturbed by a wrong
\* address.
mcGuestAddrs == {2, 6}
mcDataFetch  == {7, 11}
=============================================================================
