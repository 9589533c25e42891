---------------------------- MODULE OwnedJournal ----------------------------
(***************************************************************************)
(* What the session log promises its users, without fences, heads or       *)
(* transactions: a journal that only grows, that one owner at a time       *)
(* writes, and that nobody writes once it is closed.  Until a first owner  *)
(* takes it over, the journal is open to every writer.                     *)
(***************************************************************************)
EXTENDS Sequences

CONSTANTS Writers, Kinds, Nobody

VARIABLES journal,  \* the committed events, each with the writer it is from
          owner,    \* the writer that took the journal over last
          closed    \* whether the journal has ended

journalVars == <<journal, owner, closed>>

JournalInit ==
    /\ journal = <<>>
    /\ owner = Nobody
    /\ closed = FALSE

(* A writer supersedes whoever owned the journal.                          *)
TakeOver(w) ==
    /\ ~closed
    /\ owner' = w
    /\ UNCHANGED <<journal, closed>>

(* The owner adds one event at the end.                                    *)
Write(w, k) ==
    /\ ~closed
    /\ owner \in {w, Nobody}
    /\ journal' = Append(journal, [by |-> w, kind |-> k])
    /\ UNCHANGED <<owner, closed>>

(* The host ends the journal; no writer owns it any more.                  *)
Close ==
    /\ ~closed
    /\ closed' = TRUE
    /\ owner' = Nobody
    /\ journal' = Append(journal, [by |-> Nobody, kind |-> "DELETE"])

JournalNext ==
    \/ \E w \in Writers : TakeOver(w) \/ \E k \in Kinds : Write(w, k)
    \/ Close

JournalSpec == JournalInit /\ [][JournalNext]_journalVars
=============================================================================
