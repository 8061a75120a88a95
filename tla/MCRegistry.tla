----------------------------- MODULE MCRegistry ------------------------------
(***************************************************************************)
(* An instance of Registry for TLC: two users and two buckets; three       *)
(* connections, so that one user connects again and two connections share  *)
(* a bucket; one goroutine that pushes to a user or to a group.            *)
(***************************************************************************)
EXTENDS Registry, TLC

CONSTANTS u1, u2, finder1

MCUids     == {u1, u2}
MCFinders  == {finder1}
MCSymmetry == Permutations(MCUids)
==============================================================================
