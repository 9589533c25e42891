---------------------------- MODULE MCPlacement -----------------------------
(* Calls of one session, each any of a menu of operations, made to one     *)
(* host or to two.  Calls to the same host with the same menu are alike.   *)
EXTENDS Placement, TLC

CONSTANTS o1, o2, o3, o4, h1, h2

ThreeOps == {o1, o2, o3}

OneHost == [o \in ThreeOps |-> h1]

(* A fork on one host, and what may disturb it on the other.               *)
FourOps == {o1, o2, o3, o4}

TwoHosts == [o \in FourOps |-> IF o = o1 THEN h1 ELSE h2]

HostsMenu ==
    [o \in FourOps |-> CASE o = o1 -> {"Fork"}
                         [] o = o4 -> {"Suspend"}
                         [] OTHER -> {"Exec", "Resume", "Suspend", "Fork", "Delete"}]

TwoAlike == Permutations({o2, o3})

(* The larger cases are cut.  The fourth call, which suspends the parent   *)
(* that the two others create and wake, is made after the fork's           *)
(* checkpoint and without a crash; and with a crash, a fork of the second  *)
(* host comes beside no other call of that host.                           *)
Cases ==
    LET others == {op[o2].kind, op[o3].kind}
    IN  /\ op[o4].kind # "none" =>
               crashes = 0 /\ image # <<>> /\ others = {"Exec", "Resume"}
        /\ crashes > 0 /\ "Fork" \in others => "none" \in others

(* A gated turn, and two calls that may decide, resume, repair, supersede  *)
(* or fork it, one of them to the other host.                              *)
GateHosts == [o \in ThreeOps |-> IF o = o2 THEN h2 ELSE h1]

GateMenu ==
    [o \in ThreeOps |-> CASE o = o1 -> {"Exec"}
                          [] o = o2 -> {"Exec", "Resume", "Approve"}
                          [] o = o3 -> {"Resume", "CheckedResume", "Approve", "Fork"}]

(* What a fork may have to wait for, or exclude.                           *)
OneHostMenu ==
    [o \in ThreeOps |-> CASE o = o1 -> {"Exec", "CheckedResume"}
                          [] o = o2 -> {"Fork", "Suspend"}
                          [] o = o3 -> {"Fork", "Resume", "Delete"}]
=============================================================================
