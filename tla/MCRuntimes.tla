----------------------------- MODULE MCRuntimes -----------------------------
(* A fork with three children: one provisioned, one failing, one not begun *)
(* at the earliest failure of interest.                                    *)
EXTENDS Runtimes

CONSTANTS c1, c2, c3

MCChildren == <<c1, c2, c3>>
=============================================================================
