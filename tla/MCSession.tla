------------------------------ MODULE MCSession ------------------------------
(* Session with indexes of four bits, so that the wrap-around is reached.    *)
EXTENDS Session
==============================================================================
