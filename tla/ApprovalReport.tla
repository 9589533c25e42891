---------------------------- MODULE ApprovalReport --------------------------
(* The pending approval of a session, read from its row and from its log.  *)
(*                                                                         *)
(* A listing may not decode a log, so sqlitelog keeps with each session a  *)
(* projection of its approval evidence, reduced append by append           *)
(* (projectApproval) and read by one query (sessionSelect).  Decisions,    *)
(* admission and recovery go by the log itself (InspectApproval).  The     *)
(* projection came with version 3 of the database: Open migrates an older  *)
(* one, in one transaction, by reducing the log it finds, while a process  *)
(* of an older build may still have the database open and appends without  *)
(* projecting anything.                                                    *)
(*                                                                         *)
(* One session; the tables are keyed by it.  An event carries what either  *)
(* reader looks at.  Append stores an event in its wire form, which holds  *)
(* one body only, and both readers see what decoding that form gives.      *)
(* What a controller would never append is appended here too, as Append    *)
(* admits it.                                                              *)
EXTENDS Integers, Sequences, FiniteSets, SequencesExt

CONSTANTS
    Procs,
    Build,      \* Build[p]: the schema version p's program understands
    Execs,      \* execution IDs; NoID is the empty string
    NoID,
    CallIDs,
    Histories,  \* events of the database's past, appended by older builds
    Events,     \* the events processes append, as Given or GivenWith
    MaxEvents,  \* bound: events appended
    MaxOpens,   \* bound: times a database is opened
    None

SchemaVersion == 4

VARIABLES
    version,    \* PRAGMA user_version
    log,        \* the session's events
    row,        \* the reporting columns and tables of the session, there from version 3 on
    deleted,    \* deletion_seq, 0 while deletion_state is 'ACTIVE'
    proc,       \* proc[p]: "closed", "opening" or "open"
    opens,
    appended,
    skipped     \* auxiliary: an older build appended to a database with a projection

vars == <<version, log, row, deleted, proc, opens, appended, skipped>>

-----------------------------------------------------------------------------
(* Events.                                                                 *)

Lifecycles == {"Fork", "Suspend", "Delete"}

Of(x, what) == [x |-> x, what |-> what, body |-> TRUE]
Started(x, count) == [x |-> x, what |-> "Start", body |-> TRUE, count |-> count]
Input(x) == [x |-> x, what |-> "Input", body |-> TRUE]
ToolCall(x, id, gated, keyed) ==
    [x |-> x, what |-> "Call", body |-> TRUE, call |-> id, gated |-> gated, keyed |-> keyed]
Request(x, id) == [x |-> x, what |-> "Request", body |-> TRUE, call |-> id]
Decision(x, id, request, approved) ==
    [x |-> x, what |-> "Decision", body |-> TRUE, call |-> id, request |-> request, approved |-> approved]
Result(x, id, request, decision, denied) ==
    [x |-> x, what |-> "Result", body |-> TRUE, call |-> id, request |-> request,
     decision |-> decision, denied |-> denied]

(* An event whose kind is not that of the body it came with.               *)
Bare(e) == [x |-> e.x, what |-> e.what, body |-> FALSE]

(* The body that belongs to a kind of event.                               *)
BodyOf(what) ==
    CASE what \in {"Input", "Output"} -> "Message"
      [] what = "Call" -> "ToolCall"
      [] what = "Result" -> "Result"
      [] what = "Request" -> "Approval"
      [] what = "Decision" -> "ApprovalResult"
      [] what \in Lifecycles -> "Lifecycle"
      [] what = "End" -> "End"
      [] what = "Error" -> "Err"
      [] what = "Start" -> "ExecutionStart"

(* The wire form has one body: the first, in this order, that is set.      *)
BodyOrder ==
    <<"Message", "ModelCall", "ToolCall", "Result", "Approval", "ApprovalResult", "Usage",
      "Lifecycle", "End", "Err", "ExecutionStart", "Parked">>

EventToProto(bodies) == SelectInSeq(BodyOrder, LAMBDA b : b \in bodies)

(* What a record reads as, for an event given to Append with some bodies.  *)
EventFromProto(given) ==
    LET i == EventToProto(given.bodies)
    IN IF i # 0 /\ BodyOrder[i] = BodyOf(given.e.what) THEN given.e ELSE Bare(given.e)

(* An event as a writer gives it: with its own body, or with another too.  *)
Given(e) == [e |-> e, bodies |-> IF e.body THEN {BodyOf(e.what)} ELSE {}]
GivenWith(e, body) == [e |-> e, bodies |-> {BodyOf(e.what), body}]

(* What a record can be that was not damaged.                              *)
IsEvent(e) ==
    /\ e.x \in Execs
    /\ e.what \in Lifecycles \union
         {"Start", "Input", "Output", "Call", "Request", "Decision", "Result", "End", "Error"}
    /\ e.body /\ e.what \in {"Call", "Request", "Decision", "Result"} => e.call \in CallIDs
    /\ e.body /\ e.what = "Call" => e.gated \in BOOLEAN

Undecodable == Of(NoID, "Undecodable")

ASSUME ReportAssumption ==
    /\ Build \in [Procs -> 1..SchemaVersion]
    /\ IsFiniteSet(Execs) /\ NoID \in Execs /\ None \notin CallIDs
    /\ \A given \in Events : IsEvent(given.e)
    /\ \A h \in Histories :
        /\ h \in Seq({h[i] : i \in DOMAIN h})
        /\ \A i \in DOMAIN h : IsEvent(h[i]) \/ h[i] = Undecodable
    /\ MaxEvents \in Nat /\ MaxOpens \in Nat

(* Evidence that makes an execution approval-bearing.                      *)
Gates(e) ==
    \/ e.what \in {"Request", "Decision"}
    \/ e.body /\ e.what = "Call" /\ e.gated
    \/ e.body /\ e.what = "Result" /\ (e.request # 0 \/ e.decision # 0)

(* A denied call's receipt says so, an approved call's never does.         *)
ReceiptAgrees(e, approved) == e.denied = ~approved

-----------------------------------------------------------------------------
(* The projection: columns of sessions, and a row of approval_executions   *)
(* (with its approval_calls) per execution.                                *)

NewExecution(seq) ==
    [first |-> seq, gated |-> FALSE, invalid |-> FALSE, start |-> FALSE, expected |-> None,
     inputs |-> 0, messages |-> 0, completed |-> FALSE, call |-> None, callSeq |-> 0,
     request |-> 0, decision |-> 0, approved |-> FALSE, receipt |-> FALSE,
     calls |-> [id \in CallIDs |-> None]]

(* An execution has a row once it has a first record.                      *)
NewProjection ==
    [last |-> 0, latest |-> NoID, fork |-> 0, corrupt |-> FALSE, invalid |-> 0,
     exec |-> [x \in Execs |-> NewExecution(0)]]

Found(r, x) == r.exec[x].first # 0

Unresolved(s) == s.call # None /\ ~s.receipt

InputsComplete(s) ==
    s.start => s.expected # None /\ s.inputs = s.messages /\ s.inputs = s.expected

InvalidApproval(s, x) == s.gated /\ (s.invalid \/ x = NoID \/ ~InputsComplete(s))

(* Events that mean nothing without their body.                            *)
NeedsBody(what, open) == what \in {"Start", "Call", "Request", "Decision"} \/ (what = "Result" /\ open)

(* What event e, the log's seq-th, makes invalid.                          *)
Invalidates(s, seq, e) ==
    CASE ~e.body /\ NeedsBody(e.what, Unresolved(s)) -> TRUE
      [] ~e.body /\ ~NeedsBody(e.what, Unresolved(s)) -> Unresolved(s) /\ e.what # "Error"
      [] e.body /\ e.what = "Start" -> seq # s.first
      [] e.body /\ e.what = "Call" ->
            \/ Unresolved(s)
            \/ s.calls[e.call] = TRUE \/ (s.calls[e.call] = FALSE /\ e.gated)
            \/ e.gated /\ (s.completed \/ ~e.keyed)
      [] e.body /\ e.what = "Request" -> ~Unresolved(s) \/ s.request # 0 \/ e.call # s.call
      [] e.body /\ e.what = "Decision" ->
            \/ ~Unresolved(s) \/ s.request = 0 \/ s.decision # 0
            \/ e.call # s.call \/ e.request # s.request
      [] e.body /\ e.what = "Result" ->
            IF Unresolved(s)
            THEN \/ s.request = 0 \/ s.decision = 0
                 \/ e.call # s.call \/ e.request # s.request \/ e.decision # s.decision
                 \/ ~ReceiptAgrees(e, s.approved)
            ELSE s.calls[e.call] = TRUE \/ e.request # 0 \/ e.decision # 0
      [] e.body /\ e.what = "Error" -> FALSE
      [] OTHER -> Unresolved(s)

(* What a valid event adds.                                                *)
Advances(s, seq, e) ==
    CASE e.what = "Start" -> [s EXCEPT !.start = TRUE, !.expected = e.count]
      [] e.what = "Input" -> [s EXCEPT !.inputs = @ + 1, !.messages = IF e.body THEN @ + 1 ELSE @]
      [] e.what = "Call" /\ ~e.gated -> [s EXCEPT !.calls[e.call] = FALSE]
      [] e.what = "Call" /\ e.gated ->
            [s EXCEPT !.calls[e.call] = TRUE, !.call = e.call, !.callSeq = seq, !.request = 0,
                      !.decision = 0, !.receipt = FALSE, !.approved = FALSE]
      [] e.what = "Request" -> [s EXCEPT !.request = seq]
      [] e.what = "Decision" -> [s EXCEPT !.decision = seq, !.approved = e.approved]
      [] e.what = "Result" /\ Unresolved(s) -> [s EXCEPT !.receipt = TRUE]
      [] e.what = "End" -> [s EXCEPT !.completed = TRUE]
      [] OTHER -> s

(* reduce: invalidity is sticky.                                           *)
Reduce(s, seq, e) ==
    IF s.invalid THEN s
    ELSE IF Invalidates(s, seq, e)
         THEN [s EXCEPT !.invalid = TRUE, !.completed = @ \/ e.what = "End"]
         ELSE Advances(s, seq, e)

(* Mutant: the projection catches up with an older writer by moving on.    *)
MoveCursorBlindly(r, seq) == [r EXCEPT !.last = seq]

(* A gap in the cursor is an older writer's, and is never reported over.   *)
MoveCursor(r, seq) == [r EXCEPT !.corrupt = @ \/ r.last # seq - 1, !.last = seq]

ProjectApproval(r, seq, e) ==
    LET moved == MoveCursor(r, seq)
        old == IF Found(r, e.x) THEN r.exec[e.x] ELSE NewExecution(seq)
        new == Reduce([old EXCEPT !.gated = @ \/ Gates(e)], seq, e)
        count(s) == IF InvalidApproval(s, e.x) THEN 1 ELSE 0
    IN IF e.what \in Lifecycles
       THEN IF e.what = "Fork" /\ e.body THEN [moved EXCEPT !.fork = seq] ELSE moved
       ELSE [moved EXCEPT !.latest = IF Found(r, e.x) THEN @ ELSE e.x,
                          !.invalid = @ + count(new) - count(old),
                          !.exec[e.x] = new]

(* sessionSelect: the request a listing reports as pending, 0 for none.    *)
PendingApproval ==
    LET a == row.exec[row.latest] IN
    IF /\ Found(row, row.latest)
       /\ row.last = Len(log) /\ ~row.corrupt /\ row.invalid = 0 /\ row.latest # NoID
       /\ a.callSeq > row.fork /\ ~a.invalid
       /\ ~a.completed /\ ~a.receipt /\ a.request > 0 /\ a.decision = 0
       /\ InputsComplete(a)
    THEN a.request ELSE 0

(* execStateOf: PENDING before the first event, not counting the deletion. *)
ExecState ==
    IF PendingApproval # 0 THEN "AWAITING"
    ELSE IF (IF deleted # 0 THEN deleted - 1 ELSE Len(log)) = 0 THEN "PENDING" ELSE "COMPLETED"

(* What GetSession returns; a deleted session's approval is withheld.      *)
SessionProto == [state |-> ExecState, approval |-> IF deleted = 0 THEN PendingApproval ELSE 0]

(* Tombstones are filtered from a listing.                                 *)
Active == deleted = 0

ListSessions == IF Active THEN {SessionProto} ELSE {}

-----------------------------------------------------------------------------
(* The log, read by scanApprovalRecords.                                   *)

(* The records of an execution; a lifecycle event is of none.              *)
RecordsOf(recs, x) == {i \in DOMAIN recs : recs[i].x = x /\ recs[i].what \notin Lifecycles}

FirstAt(recs, x) == CHOOSE i \in RecordsOf(recs, x) : \A j \in RecordsOf(recs, x) : i <= j

NewState(call, seq) ==
    [call |-> call, seq |-> seq, request |-> 0, decision |-> 0, approved |-> FALSE, receipt |-> 0]

(* What the scan of an execution starts with: no gated call.               *)
NewScan(x) ==
    [ok |-> x # NoID, calls |-> [id \in CallIDs |-> None], start |-> FALSE, expected |-> None,
     inputs |-> 0, messages |-> 0, completed |-> FALSE, last |-> NewState(None, 0)]

(* What the scan makes of event e, the log's i-th: the calls, the last of  *)
(* those that are gated, and whether the records are those of an execution *)
(* at all.                                                                 *)
InspectRecord(acc, first, i, e) ==
    LET last == acc.last
        open == last.seq # 0 /\ last.receipt = 0
        fail == [acc EXCEPT !.ok = FALSE]
        accept(valid, then) == IF valid THEN then ELSE fail
    IN CASE ~acc.ok -> acc
         [] acc.ok /\ ~e.body ->
               accept(~NeedsBody(e.what, open) /\ (open => e.what = "Error"),
                      [acc EXCEPT !.inputs = IF e.what = "Input" THEN @ + 1 ELSE @,
                                  !.completed = @ \/ e.what = "End"])
         [] acc.ok /\ e.body /\ e.what = "Start" ->
               accept(i = first, [acc EXCEPT !.start = TRUE, !.expected = e.count])
         [] acc.ok /\ e.body /\ e.what = "Input" ->
               accept(~open, [acc EXCEPT !.inputs = @ + 1, !.messages = @ + 1])
         [] acc.ok /\ e.body /\ e.what = "Call" ->
               accept(/\ ~open /\ acc.calls[e.call] # TRUE /\ (acc.calls[e.call] = FALSE => ~e.gated)
                      /\ e.gated => ~acc.completed /\ e.keyed,
                      [acc EXCEPT !.calls[e.call] = e.gated,
                                  !.last = IF e.gated THEN NewState(e.call, i) ELSE @])
         [] acc.ok /\ e.body /\ e.what = "Request" ->
               accept(open /\ last.request = 0 /\ e.call = last.call, [acc EXCEPT !.last.request = i])
         [] acc.ok /\ e.body /\ e.what = "Decision" ->
               accept(/\ open /\ last.request # 0 /\ last.decision = 0
                      /\ e.call = last.call /\ e.request = last.request,
                      [acc EXCEPT !.last.decision = i, !.last.approved = e.approved])
         [] acc.ok /\ e.body /\ e.what = "Result" /\ open ->
               accept(/\ last.request # 0 /\ last.decision # 0 /\ e.call = last.call
                      /\ e.request = last.request /\ e.decision = last.decision
                      /\ ReceiptAgrees(e, last.approved),
                      [acc EXCEPT !.last.receipt = i])
         [] acc.ok /\ e.body /\ e.what = "Result" /\ ~open ->
               accept(acc.calls[e.call] # TRUE /\ e.request = 0 /\ e.decision = 0, acc)
         [] acc.ok /\ e.body /\ e.what = "End" -> accept(~open, [acc EXCEPT !.completed = TRUE])
         [] acc.ok /\ e.body /\ e.what = "Error" -> acc
         [] OTHER -> accept(~open, acc)

(* What the scan of an execution has found after n of the log's records.   *)
Scan(recs, x) ==
    LET scan[n \in 0..Len(recs)] ==
            IF n = 0 THEN NewScan(x)
            ELSE IF n \in RecordsOf(recs, x)
            THEN InspectRecord(scan[n - 1], FirstAt(recs, x), n, recs[n])
            ELSE scan[n - 1]
    IN scan

InspectExecution(recs, x) == Scan(recs, x)[Len(recs)]

Bearing(recs, x) == \E i \in RecordsOf(recs, x) : Gates(recs[i])

ValidEvidence(recs, x) == LET s == InspectExecution(recs, x) IN s.ok /\ InputsComplete(s)

(* The execution whose first record is the latest.                         *)
Recorded(recs) == {x \in Execs : RecordsOf(recs, x) # {}}
Latest(recs) ==
    CHOOSE x \in Recorded(recs) : \A y \in Recorded(recs) : FirstAt(recs, y) <= FirstAt(recs, x)

ForkAt(recs) ==
    LET forks == {i \in DOMAIN recs : recs[i].what = "Fork" /\ recs[i].body}
    IN IF forks = {} THEN 0 ELSE CHOOSE i \in forks : \A j \in forks : j <= i

Damaged(recs) == \E i \in DOMAIN recs : recs[i] = Undecodable

(* The request that InspectApproval shows owned and unresolved: 0 when the *)
(* latest execution has none, or when the log does not decode or any       *)
(* approval-bearing execution in it is invalid.                            *)
InspectApproval(recs) ==
    LET s == InspectExecution(recs, Latest(recs))
    IN IF \/ Damaged(recs)
          \/ \E x \in Recorded(recs) : Bearing(recs, x) /\ ~ValidEvidence(recs, x)
          \/ Recorded(recs) = {}
       THEN 0
       ELSE IF /\ Bearing(recs, Latest(recs)) /\ s.last.seq # 0
               /\ ~(s.last.seq < ForkAt(recs)) /\ ~s.completed
               /\ s.last.receipt = 0 /\ s.last.decision = 0
            THEN s.last.request ELSE 0

-----------------------------------------------------------------------------
(* The database and the processes.                                         *)

(* An empty file, or a database of version 1 or 2 that older builds wrote, *)
(* one of which may still have it open; a record of it may be damaged.     *)
Init ==
    /\ \/ version = 0 /\ log = <<>>
       \/ /\ version \in 1..2
          /\ \E h \in Histories : \E n \in 0..Len(h) : log = SubSeq(h, 1, n)
    /\ row = NewProjection /\ deleted = 0
    /\ proc \in {f \in [Procs -> {"closed", "open"}] :
                    \A p \in Procs : f[p] = "open" => Build[p] = version}
    /\ opens = 0 /\ appended = 0 /\ skipped = FALSE

(* migrate, before its transaction: refuses a newer database.              *)
CheckVersion(p) ==
    /\ proc[p] = "closed" /\ opens < MaxOpens
    /\ version <= Build[p]
    /\ proc' = [proc EXCEPT ![p] = IF version = Build[p] THEN "open" ELSE "opening"]
    /\ opens' = opens + 1
    /\ UNCHANGED <<version, log, row, deleted, appended, skipped>>

(* migrateV2ToV3: the reducer over the log, up to a record that does not   *)
(* decode, which leaves the session unreported.                            *)
Backfill(events) ==
    LET reduced[n \in 0..Len(events)] ==
            IF n = 0 THEN NewProjection
            ELSE LET r == reduced[n - 1] IN
                 IF r.corrupt THEN r
                 ELSE IF events[n] = Undecodable
                 THEN [r EXCEPT !.corrupt = TRUE, !.last = Len(events)]
                 ELSE ProjectApproval(r, n, events[n])
    IN reduced[Len(events)]

(* migrateV1ToV2 decodes every record, for the harness names to reserve.   *)
FirstRungFails(p) == version <= 1 /\ Build[p] >= 2 /\ Damaged(log)

(* The transaction of migrate: the version once more, then every rung and  *)
(* the stamp together; a rung that fails, or a crash, leaves everything as *)
(* it was.                                                                 *)
Migrate(p) ==
    /\ proc[p] = "opening"
    /\ \/ version > Build[p] /\ proc' = [proc EXCEPT ![p] = "closed"] /\ UNCHANGED <<version, row>>
       \/ version = Build[p] /\ proc' = [proc EXCEPT ![p] = "open"] /\ UNCHANGED <<version, row>>
       \/ /\ version < Build[p]
          /\ FirstRungFails(p)
          /\ proc' = [proc EXCEPT ![p] = "closed"] /\ UNCHANGED <<version, row>>
       \/ /\ version < Build[p]
          /\ ~FirstRungFails(p)
          /\ version' = Build[p]
          /\ row' = IF version < 3 /\ Build[p] >= 3 THEN Backfill(log) ELSE row
          /\ proc' = [proc EXCEPT ![p] = "open"]
    /\ UNCHANGED <<log, deleted, opens, appended, skipped>>

(* The process closes the database, or dies.                               *)
Close(p) ==
    /\ proc[p] # "closed"
    /\ proc' = [proc EXCEPT ![p] = "closed"]
    /\ UNCHANGED <<version, log, row, deleted, opens, appended, skipped>>

Projecting == version >= 3

(* What an append of event e by p makes of the row.                        *)
Projected(p, e) ==
    IF Projecting /\ Build[p] >= 3 THEN ProjectApproval(row, Len(log) + 1, e) ELSE row

(* Log.Append: the record and the projection in one transaction.  An older *)
(* build's appends only the record, even to a deleted session.             *)
AppendEvent(p) ==
    /\ proc[p] = "open" /\ appended < MaxEvents
    /\ deleted # 0 => Build[p] < 4
    /\ \E given \in Events :
       LET e == EventFromProto(given) IN
       /\ log' = Append(log, e)
       /\ row' = Projected(p, e)
    /\ skipped' = (skipped \/ (Projecting /\ Build[p] < 3))
    /\ appended' = appended + 1
    /\ UNCHANGED <<version, deleted, proc, opens>>

(* Store.DeleteSession.                                                    *)
DeleteSession(p) ==
    /\ proc[p] = "open" /\ Build[p] >= 4 /\ deleted = 0 /\ appended < MaxEvents
    /\ log' = Append(log, Of(NoID, "Delete"))
    /\ row' = MoveCursor(row, Len(log) + 1)
    /\ deleted' = Len(log) + 1
    /\ appended' = appended + 1
    /\ UNCHANGED <<version, proc, opens, skipped>>

Next == \E p \in Procs : CheckVersion(p) \/ Migrate(p) \/ Close(p) \/ AppendEvent(p) \/ DeleteSession(p)

Spec == Init /\ [][Next]_vars

-----------------------------------------------------------------------------
(* A session is reported as awaiting an approval only while its log shows  *)
(* one pending, and a listing offers only that request, never one of a     *)
(* deleted session: not while an older build appends behind the            *)
(* projection, not over a record the migration could not decode, not for   *)
(* an inherited gate, not for a body the wire form dropped.  As long as no *)
(* older build appended to a database with a projection, a report agrees   *)
(* exactly with what InspectApproval finds, whatever was appended and      *)
(* whichever of racing processes migrated it (projectApproval,             *)
(* sessionSelect, sessionProto).                                           *)
ReportAgreesWithTheLog ==
    /\ PendingApproval # 0 => PendingApproval = InspectApproval(log)
    /\ \A r \in ListSessions : r.approval # 0 => r.state = "AWAITING" /\ r.approval = InspectApproval(log)
    /\ Projecting /\ ~skipped => (SessionProto.state = "AWAITING") = (InspectApproval(log) # 0)
=============================================================================
