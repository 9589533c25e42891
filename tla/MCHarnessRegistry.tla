------------------------- MODULE MCHarnessRegistry --------------------------
(* Two hosts on one journal.  Name 1 is the default of both; name 2 is     *)
(* static on the second host, which may start without reserving it; name 3 *)
(* is static nowhere.                                                      *)
EXTENDS HarnessRegistry, TLC

CONSTANTS h1, h2, s1, s2, a, b, c1, c2, c3, c4

MCStatic == (h1 :> {1}) @@ (h2 :> {1, 2})

MCBuilds == (h1 :> {a, b}) @@ (h2 :> {a})

Register(h, n, spec) == [op |-> "Register", h |-> h, name |-> n, spec |-> spec]
Retirement(h, n) == [op |-> "Retire", h |-> h, name |-> n]
NewSession(h, s, n, exec) == [op |-> "Create", h |-> h, s |-> s, name |-> n, exec |-> exec]
Exec(h, s, over) == [op |-> "Exec", h |-> h, s |-> s, over |-> over]
OnSession(op, h, s) == [op |-> op, h |-> h, s |-> s]
ForkOf(h) == [op |-> "Fork", h |-> h, s |-> s1, child |-> s2]
Listing(h, all) == [op |-> "List", h |-> h, all |-> all]

(* Registrations, one of them of a name the other host serves; a second    *)
(* registration, a fork, or an override whose turn may be cut off; a       *)
(* session on a registered, a static or the default name, or a retirement; *)
(* and a listing, a retirement, or an operation that routes the session.   *)
MCMenu ==
    [c \in {c1, c2, c3, c4} |->
       CASE c = c1 -> {Register(h1, 2, a), Register(h1, 3, b)}
         [] c = c2 -> {Register(h2, 3, a), Register(h1, 3, b), Exec(h2, s1, 2), ForkOf(h1)}
         [] c = c3 -> {NewSession(h1, s1, 3, TRUE), NewSession(h2, s1, 2, FALSE), NewSession(h1, s1, 0, FALSE),
                       Retirement(h2, 3)}
         [] c = c4 -> {Exec(h2, s1, 1), Exec(h1, s1, 3), Exec(h1, s2, 0), Retirement(h2, 3),
                       OnSession("Resume", h2, s1), OnSession("Suspend", h1, s1)}
                      \cup {Listing(h1, all) : all \in BOOLEAN}]

(* A session on the second host's own name 2, a turn of it on the default  *)
(* that may be cut off, a registration of 2 by the first host, a resume.   *)
MCResumeMenu ==
    [c \in {c1, c2, c3, c4} |->
       CASE c = c1 -> {NewSession(h2, s1, 2, FALSE)}
         [] c = c2 -> {Exec(h2, s1, 1)}
         [] c = c3 -> {Register(h1, 2, a)}
         [] c = c4 -> {OnSession("Resume", h2, s1)}]
=============================================================================
