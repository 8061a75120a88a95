------------------------------ MODULE MCWorker -------------------------------
(* Instances of Worker for TLC: for safety two main tunnels, three pushing   *)
(* goroutines and a reply channel of two packs, so that packs queue behind   *)
(* each other and a sender can block; for the liveness properties one room   *)
(* tunnel, two pushing goroutines and a channel of one.                      *)
EXTENDS Worker, TLC
CONSTANTS p1, p2, p3, main1, main2, room
MCPushers == {p1, p2, p3}
MCTwoPushers == {p1, p2}
MCPlayerKeys == {main1, main2}
MCOneKey == {main1}
MCRoom == {room}
MCNoKeys == {}
MCSymmetry == Permutations(MCPushers) \union Permutations(MCPlayerKeys)

\* The pool that the buffers of the workers' readers come from.
GatePool == INSTANCE SyncPool WITH MinSize <- 1024, MaxSize <- 65536, Factor <- 4

\* A worker's reader starts with 8192 bytes and a client's with 4096; packs of
\* at most 16384 bytes let them grow to 65536.  These sizes fit each other.  A
\* first size of 12288 would not fit a reader that grows to 16384.
ASSUME GateSizesFit ==
  /\ GatePool!ClassCount <= 256
  /\ GatePool!SizesFit({4096, 8192, 16384, 32768, 65536})
  /\ ~GatePool!SizesFit({12288, 16384})
==============================================================================
