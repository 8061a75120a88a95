---------------------------- MODULE MCBufReader ------------------------------
(***************************************************************************)
(* Small instances of BufReader.                                           *)
(***************************************************************************)
EXTENDS BufReader, TLC

MCPowers == {2^i : i \in 0..5}

\* AllocFits depends on the sizes that are asked for.
ASSUME InstanceFits == Fitting

Symmetry == Permutations(Bufs) \union Permutations(Readers)
==============================================================================
