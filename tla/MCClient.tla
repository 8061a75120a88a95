------------------------------ MODULE MCClient -------------------------------
(* An instance of Client for TLC: packs of a length and two body units, a    *)
(* first buffer of two units that must grow to four, and four packs: the     *)
(* buffer is compacted and filled again while windows wait in the channel.   *)
EXTENDS Client

MCExtras == {1}
==============================================================================
