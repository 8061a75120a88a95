---------------------------- MODULE MCRouteTable -----------------------------
(***************************************************************************)
(* Instances of RouteTable for TLC: three connections over two gates, so   *)
(* that a user moves between gates and back while another stays.           *)
(***************************************************************************)
EXTENDS RouteTable, TLC

CONSTANTS g1, g2, c1, c2, c3, u1, u2

MCGates    == {g1, g2}
MCConns    == {c1, c2, c3}
MCUids     == {u1, u2}
MCSymmetry == Permutations(MCGates) \union Permutations(MCConns)
                \union Permutations(MCUids)
==============================================================================
