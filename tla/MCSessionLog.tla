---------------------------- MODULE MCSessionLog ----------------------------
(* Two incarnations, the lifecycle kinds that move the compute projection, *)
(* one other kind that moves it and one that does not, and the one kind    *)
(* that Append reserves.                                                   *)
EXTENDS SessionLog

CONSTANTS w1, w2

MCWriters == {w1, w2}

MCKinds == {"OUTPUT", "SUSPEND", "RESUME", "FORK", "APPROVAL_REQUEST", "DELETE"}
=============================================================================
