------------------------------- MODULE LogOps -------------------------------
(***************************************************************************)
(* The durable log of one session, as sqlitelog keeps it: the session's    *)
(* rows of the events table (recs) and the columns of its row of the       *)
(* sessions table that an append, a fence mint or a deletion reads or      *)
(* writes.  Every operator stands for one SQL transaction, so a module     *)
(* that uses it takes each as a single step.                               *)
(*                                                                         *)
(* A record keeps its kind and its fence.  Its payload, its hash and its   *)
(* timestamp are abstracted away: no operator here looks at them.          *)
(***************************************************************************)
EXTENDS Naturals, Sequences

LifecycleKinds == {"SUSPEND", "RESUME", "FORK", "BASELINE", "CANCEL", "DELETE"}

ApprovalKinds == {"APPROVAL_REQUEST", "APPROVAL_RESULT"}

TurnKinds ==
    {"EXECUTION_START", "INPUT", "MODEL_CALL", "OUTPUT", "TOOL_CALL",
     "TOOL_RESULT", "USAGE", "END", "ERROR"}

EventKind == LifecycleKinds \union ApprovalKinds \union TurnKinds

ComputeState == {"NONE", "LIVE", "COLD"}

Record == [kind : EventKind, fence : Nat]

(* deletion is the deletion_state column; NOROW stands for a session that  *)
(* has no row of the sessions table yet.                                   *)
Store ==
    [recs : Seq(Record), fence : Nat, deletion : {"NOROW", "ACTIVE", "PENDING"},
     deletionSeq : Nat, compute : ComputeState]

(* A session nobody has touched: no record and no row.                     *)
EmptyStore ==
    [recs |-> <<>>, fence |-> 0, deletion |-> "NOROW", deletionSeq |-> 0,
     compute |-> "NONE"]

HeadSeq(s) == Len(s.recs)

(* Mutant: nothing refuses a deleted session.                              *)
CheckWritableAlways(s) == TRUE

(* A session without a row is writable.                                    *)
CheckWritable(s) == s.deletion \in {"NOROW", "ACTIVE"}

(* Mutant: the upsert keeps the fence of a row that has one.               *)
NewFenceReused(s) == [s EXCEPT !.deletion = "ACTIVE", !.fence = IF @ = 0 THEN 1 ELSE @]

(* The upsert inserts the row with fence 1 or adds 1 to the stored fence.  *)
(* The caller has checked that the session is writable.                    *)
NewFence(s) == [s EXCEPT !.deletion = "ACTIVE", !.fence = @ + 1]

(* Events that say nothing about the incarnation leave compute_state alone.*)
MovesCompute(kind) == kind \notin ApprovalKinds \union {"BASELINE", "CANCEL", "DELETE"}

(* Mutant: only the suspend of a session makes it cold.                    *)
EventComputeStateOfFork(kind) == IF kind = "SUSPEND" THEN "COLD" ELSE "LIVE"

(* The state a moving event implies.                                       *)
EventComputeState(kind) == IF kind \in {"SUSPEND", "FORK"} THEN "COLD" ELSE "LIVE"

AppendRecord(s, fence, kind) ==
    [s EXCEPT !.recs = Append(@, [kind |-> kind, fence |-> fence])]

TouchSession(s, kind) ==
    [s EXCEPT !.deletion = "ACTIVE",
              !.compute = IF MovesCompute(kind) THEN EventComputeState(kind) ELSE @]

(* Mutant: the append compares heads and forgets fences.                   *)
AppendOutcomeNoFence(s, expectedLastSeq, fence, kind) ==
    IF ~CheckWritable(s) THEN "ErrDeleted"
    ELSE IF kind = "DELETE" THEN "errReservedDelete"
    ELSE IF expectedLastSeq # HeadSeq(s) THEN "ErrConflict"
    ELSE "ok"

(* Why Append refuses a record, in the order the transaction checks.       *)
AppendOutcome(s, expectedLastSeq, fence, kind) ==
    IF ~CheckWritable(s) THEN "ErrDeleted"
    ELSE IF kind = "DELETE" THEN "errReservedDelete"
    ELSE IF expectedLastSeq # HeadSeq(s) THEN "ErrConflict"
    ELSE IF fence < s.fence THEN "ErrFenced"
    ELSE "ok"

(* What an accepted Append commits: the record and the projections.        *)
AppendTo(s, fence, kind) == TouchSession(AppendRecord(s, fence, kind), kind)

(* putSession creates the row or rewrites columns that no operator here    *)
(* reads; fence and compute_state keep their values.  The caller has       *)
(* checked that the session is writable.                                   *)
PutSession(s) == [s EXCEPT !.deletion = "ACTIVE"]

(* Mutants: the DELETE record reuses the fence of the last incarnation;    *)
(* the tombstone names the record before it.                               *)
DeleteSessionKeepsFence(s) ==
    [AppendRecord(s, s.fence, "DELETE")
        EXCEPT !.deletion = "PENDING",
               !.deletionSeq = HeadSeq(s) + 1]

DeleteSessionOffByOne(s) ==
    [AppendRecord(s, s.fence + 1, "DELETE")
        EXCEPT !.deletion = "PENDING",
               !.deletionSeq = HeadSeq(s) - 1,
               !.fence = s.fence + 1]

(* DeleteSession on an ACTIVE row: the DELETE record under a fence nobody  *)
(* was given, and the tombstone, in one transaction.                       *)
DeleteSession(s) ==
    [AppendRecord(s, s.fence + 1, "DELETE")
        EXCEPT !.deletion = "PENDING",
               !.deletionSeq = HeadSeq(s) + 1,
               !.fence = s.fence + 1]
=============================================================================
