----------------------------- MODULE Placement ------------------------------
(***************************************************************************)
(* The operations of one session as the Registry and its Placers run them: *)
(* Exec, Resume, Suspend, Approve, Fork and Delete, several at a time, on  *)
(* one host or on several that share the log and the runtime.  Each step   *)
(* is one access to shared state: the in-memory session set of the host    *)
(* (guard, checkpoint mark, live connections), the log, or the runtime.    *)
(*                                                                         *)
(* Tier is the resumability of the session's harness.  Only a stateless    *)
(* harness may gate a tool call; only a memory harness is checkpointed by  *)
(* Fork.  Service.checkMemoryOverride keeps a session on one tier.         *)
(***************************************************************************)
EXTENDS LogOps, FiniteSets

CONSTANTS Ops,          \* calls of the API, each made once
          Hosts,        \* processes, each with one Registry
          HostOf,       \* the host a call is made to
          Menu,         \* the operations a call may be
          Tier,         \* "STATELESS" or "MEMORY"
          Fanout,       \* children of a Fork
          Deadlines,    \* whether callers set deadlines
          MaxRecords,   \* bound: a turn adds no effect to a log this long
          MaxCrashes,   \* bound: host crashes
          None          \* no operation

OpKinds == {"Exec", "Resume", "CheckedResume", "Suspend", "Approve", "Fork", "Delete"}

ASSUME PlacementAssumption ==
    /\ IsFiniteSet(Ops)
    /\ HostOf \in [Ops -> Hosts]
    /\ Menu \in [Ops -> SUBSET OpKinds]
    /\ Tier \in {"STATELESS", "MEMORY"}
    /\ Fanout \in Nat \ {0}
    /\ Deadlines \in BOOLEAN
    /\ MaxRecords \in Nat
    /\ MaxCrashes \in Nat
    /\ None \notin Ops

VARIABLES store,    \* the durable state of the session
          actor,    \* its compute: state, and the snapshot it holds
          image,    \* history: the log heads at which a suspend answered with each snapshot
          guard,    \* host -> the session's entry in the sessionGuard
          mark,     \* host -> the operation holding the checkpoint mark
          op,       \* call -> where it is and what it remembers
          crashes   \* number of host crashes so far

vars == <<store, actor, image, guard, mark, op, crashes>>

FreeGuard == [operation |-> FALSE, readers |-> 0, deleting |-> FALSE]

(* at: the head the caller named.  head: the head captured by inspection.  *)
(* then: where resumeFence returns to.  live, superseded, ended, minted:   *)
(* the call's liveHarness; late: it was superseded when it minted.  open:  *)
(* the connections a checkpoint collected.  kids: the children cloned, by  *)
(* the snapshot each was made from.                                        *)
IdleOp ==
    [kind |-> "none", pc |-> "idle", at |-> 0, head |-> 0, fence |-> 0,
     then |-> "none", live |-> FALSE, superseded |-> FALSE, ended |-> FALSE,
     minted |-> FALSE, late |-> FALSE, open |-> {}, snap |-> 0, tag |-> 0,
     kids |-> <<>>, result |-> "none"]

Init ==
    /\ store = PutSession(EmptyStore)
    /\ actor = [state |-> "NONE", snap |-> 0]
    /\ image = <<>>
    /\ guard = [h \in Hosts |-> FreeGuard]
    /\ mark = [h \in Hosts |-> None]
    /\ op = [o \in Ops |-> IdleOp]
    /\ crashes = 0

-----------------------------------------------------------------------------
(* Reading the log *)

(* The last record of one of the kinds among is of this kind.              *)
LastOf(recs, among, kind) ==
    \E i \in DOMAIN recs :
        /\ recs[i].kind = kind
        /\ \A j \in DOMAIN recs : j > i => recs[j].kind \notin among

GateKinds ==
    {"EXECUTION_START", "TOOL_CALL", "APPROVAL_REQUEST", "APPROVAL_RESULT", "TOOL_RESULT"}

(* InspectApproval: how far the last gate of the latest execution has got. *)
InspectApproval(recs) ==
    CASE LastOf(recs, GateKinds, "TOOL_CALL") -> "called"
      [] LastOf(recs, GateKinds, "APPROVAL_REQUEST") -> "requested"
      [] LastOf(recs, GateKinds, "APPROVAL_RESULT") -> "decided"
      [] OTHER -> "none"

(* pendingResumeExecution: the latest execution has no END.                *)
PendingExecution(recs) ==
    LastOf(recs, {"EXECUTION_START", "END"}, "EXECUTION_START")

-----------------------------------------------------------------------------
(* The session guard *)

GuardKind(kind) ==
    IF kind = "Fork" THEN "read" ELSE IF kind = "Delete" THEN "delete" ELSE "operation"

(* Mutant: a deletion is admitted beside forks.                            *)
CanAcquireBesideReaders(entry, k) ==
    /\ ~entry.deleting
    /\ k \in {"operation", "delete"} => ~entry.operation

CanAcquire(entry, k) ==
    /\ ~entry.deleting
    /\ k = "operation" => ~entry.operation
    /\ k = "delete" => ~entry.operation /\ entry.readers = 0

(* Mutant: a reader is admitted without being counted.                     *)
AcquireUncounted(entry, k) ==
    CASE k = "operation" -> [entry EXCEPT !.operation = TRUE]
      [] k = "read"      -> entry
      [] k = "delete"    -> [entry EXCEPT !.deleting = TRUE]

Acquire(entry, k) ==
    CASE k = "operation" -> [entry EXCEPT !.operation = TRUE]
      [] k = "read"      -> [entry EXCEPT !.readers = @ + 1]
      [] k = "delete"    -> [entry EXCEPT !.deleting = TRUE]

Release(entry, k) ==
    CASE k = "operation" -> [entry EXCEPT !.operation = FALSE]
      [] k = "read"      -> [entry EXCEPT !.readers = @ - 1]
      [] k = "delete"    -> [entry EXCEPT !.deleting = FALSE]

-----------------------------------------------------------------------------
(* Steps *)

At(o, pc) == op[o].pc = pc

Is(o, kinds) == op[o].kind \in kinds

Resumes == {"Resume", "CheckedResume"}

Host(o) == HostOf[o]

Become(o, r) == op' = [op EXCEPT ![o] = r]

Goto(o, pc) == Become(o, [op[o] EXCEPT !.pc = pc])

(* Every error path runs the deferred releases.                            *)
Fail(o) == Goto(o, "unwind")

Succeed(o, result) == Become(o, [op[o] EXCEPT !.pc = "unwind", !.result = result])

MarkFree(o) == mark[Host(o)] = None

LogOnly == UNCHANGED <<actor, image, guard, mark, crashes>>

OpOnly == UNCHANGED <<store, actor, image, guard, mark, crashes>>

(* A call arrives naming the head it last saw, and is refused at once when *)
(* the guard is taken (trySessionLock, tryReadLock, WithSessionGuard).     *)
Begin(o, kind) ==
    /\ At(o, "idle")
    /\ kind \in Menu[o]
    /\ IF CanAcquire(guard[Host(o)], GuardKind(kind))
       THEN /\ guard' = [guard EXCEPT ![Host(o)] = Acquire(@, GuardKind(kind))]
            /\ Become(o, [op[o] EXCEPT !.kind = kind, !.at = HeadSeq(store),
                            !.pc = CASE kind = "Approve" -> "mark"
                                     [] kind = "Delete" -> "delete"
                                     [] OTHER -> "inspect"])
       ELSE /\ Become(o, [op[o] EXCEPT !.kind = kind, !.pc = "done", !.result = "busy"])
            /\ UNCHANGED guard
    /\ UNCHANGED <<store, actor, image, mark, crashes>>

(* Mutants: the mark outlives its call; a connection that is released      *)
(* before its fence leaves minted open.                                    *)
UnwindKeepsMark(o) ==
    /\ At(o, "unwind")
    /\ Become(o, [op[o] EXCEPT !.pc = "done", !.live = FALSE, !.minted = TRUE])
    /\ guard' = [guard EXCEPT ![Host(o)] = Release(@, GuardKind(op[o].kind))]
    /\ UNCHANGED <<store, actor, image, mark, crashes>>

UnwindLeavesMinted(o) ==
    /\ At(o, "unwind")
    /\ Become(o, [op[o] EXCEPT !.pc = "done", !.live = FALSE])
    /\ mark' = [mark EXCEPT ![Host(o)] = IF @ = o THEN None ELSE @]
    /\ guard' = [guard EXCEPT ![Host(o)] = Release(@, GuardKind(op[o].kind))]
    /\ UNCHANGED <<store, actor, image, crashes>>

(* Deferred on every return: the mark, the connection, then the guard.     *)
Unwind(o) ==
    /\ At(o, "unwind")
    /\ Become(o, [op[o] EXCEPT !.pc = "done", !.live = FALSE, !.minted = TRUE,
                               !.then = "none", !.open = {}, !.tag = 0, !.head = 0,
                               !.superseded = FALSE, !.ended = FALSE])
    /\ mark' = [mark EXCEPT ![Host(o)] = IF @ = o THEN None ELSE @]
    /\ guard' = [guard EXCEPT ![Host(o)] = Release(@, GuardKind(op[o].kind))]
    /\ UNCHANGED <<store, actor, image, crashes>>

(* Append under the call's own fence: r is the call after an accepted      *)
(* append; a refused one (deleted, moved head, newer fence) ends the call. *)
AppendAt(o, expectedLastSeq, kind, r) ==
    /\ IF AppendOutcome(store, expectedLastSeq, op[o].fence, kind) = "ok"
       THEN store' = AppendTo(store, op[o].fence, kind) /\ Become(o, r)
       ELSE Fail(o) /\ UNCHANGED store
    /\ LogOnly

(* markCheckpoint: Suspend, Approve, a park's handoff, a checked fence.    *)
Mark(o) ==
    /\ op[o].pc \in {"mark", "fenceMark"}
    /\ IF MarkFree(o)
       THEN /\ mark' = [mark EXCEPT ![Host(o)] = o]
            /\ Goto(o, CASE At(o, "fenceMark") -> "fenceMint"
                         [] Is(o, {"Suspend"}) -> "snapshot"
                         [] Is(o, {"Approve"}) -> "scan"
                         [] OTHER -> "handoff")
       ELSE /\ Become(o, [op[o] EXCEPT !.pc = "unwind", !.minted = op[o].live])
            /\ UNCHANGED mark
    /\ UNCHANGED <<store, actor, image, guard, crashes>>

(* NewFence, and live.fenceMinted() when the call has a connection.  Only  *)
(* a checked Resume has more of resumeFence to run.                        *)
FenceMint(o) ==
    /\ At(o, "fenceMint")
    /\ IF CheckWritable(store)
       THEN /\ store' = NewFence(store)
            /\ Become(o, [op[o] EXCEPT !.fence = store'.fence, !.late = op[o].superseded,
                 !.minted = op[o].live /\ ~Is(o, {"CheckedResume"}),
                 !.pc = IF Is(o, {"CheckedResume"}) THEN "fenceHead" ELSE op[o].then])
       ELSE /\ Become(o, [op[o] EXCEPT !.pc = "unwind", !.minted = op[o].live])
            /\ UNCHANGED store
    /\ LogOnly

(* checkResumeHead under the mark; the mark goes with resumeFence.         *)
FenceHead(o) ==
    /\ At(o, "fenceHead")
    /\ Become(o, [op[o] EXCEPT !.minted = op[o].live,
                 !.pc = IF HeadSeq(store) = op[o].at THEN op[o].then ELSE "unwind"])
    /\ mark' = [mark EXCEPT ![Host(o)] = None]
    /\ UNCHANGED <<store, actor, image, guard, crashes>>

-----------------------------------------------------------------------------
(* Exec and Resume: admission, connection, fence *)

ExecInspect(o) ==
    /\ At(o, "inspect") /\ Is(o, {"Exec"})
    /\ IF CheckWritable(store) /\ InspectApproval(store.recs) = "none"
       THEN Goto(o, "gate")
       ELSE Fail(o)
    /\ OpOnly

(* Registry.Resume up to resumeApproval: a pending request answers the     *)
(* call, a call without its request is repaired under a new fence.         *)
ResumeInspect(o) ==
    /\ At(o, "inspect") /\ Is(o, Resumes)
    /\ LET moved == Is(o, {"CheckedResume"}) /\ HeadSeq(store) # op[o].at
           gate == InspectApproval(store.recs)
       IN  IF ~CheckWritable(store) \/ moved
           THEN Fail(o)
           ELSE CASE gate = "requested" -> Succeed(o, "pending")
                  [] gate = "called" ->
                        Become(o, [op[o] EXCEPT !.head = HeadSeq(store), !.then = "repair",
                            !.pc = IF Is(o, {"CheckedResume"}) THEN "fenceMark" ELSE "fenceMint"])
                  [] OTHER -> Goto(o, "gate")
    /\ OpOnly

Repair(o) ==
    /\ At(o, "repair")
    /\ AppendAt(o, op[o].head, "APPROVAL_REQUEST",
                [op[o] EXCEPT !.pc = "unwind", !.result = "pending"])

(* admit, then refuseDuringCheckpoint; a checked Resume fences early.      *)
Gate(o) ==
    /\ At(o, "gate")
    /\ \/ /\ MarkFree(o)
          /\ IF Is(o, {"CheckedResume"})
             THEN Become(o, [op[o] EXCEPT !.pc = "fenceMark", !.then = "create"])
             ELSE Goto(o, "create")
       \/ Fail(o)
    /\ OpOnly

(* backend.Create or backend.Restore: the actor runs afterwards, whatever  *)
(* it did before.                                                          *)
Create(o) ==
    /\ At(o, "create")
    /\ \/ actor' = [actor EXCEPT !.state = "LIVE"] /\ Goto(o, "open")
       \/ Fail(o) /\ UNCHANGED actor
    /\ UNCHANGED <<store, image, guard, mark, crashes>>

(* openHarness and recheck: the mark refuses the connection, otherwise it  *)
(* is registered, also when the check of the harness then fails.           *)
OpenHarness(o) ==
    /\ At(o, "open")
    /\ \/ /\ MarkFree(o)
          /\ \E next \in {IF Is(o, {"CheckedResume"}) THEN "fenceMark" ELSE "fenceMint", "unwind"} :
                Become(o, [op[o] EXCEPT !.live = TRUE, !.then = "check", !.pc = next])
       \/ Fail(o)
    /\ OpOnly

(* Mutant: the turn goes on without looking.                               *)
CheckNothing(o) ==
    /\ At(o, "check")
    /\ Goto(o, IF Is(o, {"Exec"}) THEN "start" ELSE "redrive")
    /\ OpOnly

CheckSuperseded(o) ==
    /\ At(o, "check")
    /\ IF op[o].superseded \/ op[o].ended
       THEN Fail(o)
       ELSE Goto(o, IF Is(o, {"Exec"}) THEN "start" ELSE "redrive")
    /\ OpOnly

-----------------------------------------------------------------------------
(* The turn, as the controller journals it *)

(* controller.Exec up to EXECUTION_START, at the head the caller named.    *)
StartTurn(o) ==
    /\ At(o, "start")
    /\ IF CheckWritable(store) /\ InspectApproval(store.recs) = "none"
       THEN AppendAt(o, op[o].at, "EXECUTION_START", [op[o] EXCEPT !.pc = "run"])
       ELSE Fail(o) /\ OpOnly

(* controller.Resume up to har.Run: nothing pending is a plain restore.    *)
Redrive(o) ==
    /\ At(o, "redrive")
    /\ LET gate == InspectApproval(store.recs)
       IN  IF ~CheckWritable(store) THEN Fail(o) /\ OpOnly
           ELSE IF ~PendingExecution(store.recs) THEN Goto(o, "marker") /\ OpOnly
           ELSE CASE gate = "called" -> AppendAt(o, HeadSeq(store), "APPROVAL_REQUEST",
                                                 [op[o] EXCEPT !.pc = "mark"])
                  [] gate = "requested" -> Goto(o, "mark") /\ OpOnly
                  [] OTHER -> Goto(o, "run") /\ OpOnly

(* An ordinary effect of the harness.                                      *)
Effect(o) ==
    /\ At(o, "run")
    /\ HeadSeq(store) < MaxRecords
    /\ InspectApproval(store.recs) = "none"
    /\ AppendAt(o, HeadSeq(store), "OUTPUT", op[o])

(* completeApproval: a decided gate gets its receipt before anything else. *)
CompleteApproval(o) ==
    /\ At(o, "run")
    /\ InspectApproval(store.recs) = "decided"
    /\ AppendAt(o, HeadSeq(store), "TOOL_RESULT", op[o])

(* parkTool: the gated intent, and in a step of its own the request.       *)
ParkCall(o) ==
    /\ At(o, "run")
    /\ Tier = "STATELESS"
    /\ HeadSeq(store) < MaxRecords
    /\ InspectApproval(store.recs) = "none"
    /\ AppendAt(o, HeadSeq(store), "TOOL_CALL", [op[o] EXCEPT !.pc = "request"])

ParkRequest(o) ==
    /\ At(o, "request")
    /\ AppendAt(o, HeadSeq(store), "APPROVAL_REQUEST", [op[o] EXCEPT !.pc = "mark"])

(* Run returned: END, or best effort ERROR.  A Resume records RESUME too.  *)
EndTurn(o) ==
    /\ At(o, "run")
    /\ InspectApproval(store.recs) = "none"
    /\ AppendAt(o, HeadSeq(store), "END",
                IF Is(o, {"Exec"}) THEN [op[o] EXCEPT !.pc = "unwind", !.result = "ok"]
                                   ELSE [op[o] EXCEPT !.pc = "marker"])

FailTurn(o) ==
    /\ At(o, "run")
    /\ AppendAt(o, HeadSeq(store), "ERROR", [op[o] EXCEPT !.pc = "unwind"])

ResumeMarker(o) ==
    /\ At(o, "marker")
    /\ AppendAt(o, HeadSeq(store), "RESUME", [op[o] EXCEPT !.pc = "unwind", !.result = "ok"])

(* completeApproval stopped before its receipt: nothing may follow the     *)
(* open gate, so no ERROR is recorded.                                     *)
StopTurn(o) ==
    /\ At(o, "run")
    /\ InspectApproval(store.recs) = "decided"
    /\ Fail(o)
    /\ OpOnly

-----------------------------------------------------------------------------
(* A park's handoff, Suspend, Approve and Delete *)

(* Under the mark: the recorded request is still the open one, and its     *)
(* head is the one SUSPEND must follow.                                    *)
HandoffInspect(o) ==
    /\ At(o, "handoff")
    /\ IF InspectApproval(store.recs) = "requested"
       THEN Become(o, [op[o] EXCEPT !.pc = "close", !.head = HeadSeq(store)])
       ELSE Fail(o)
    /\ OpOnly

CloseInvocation(o) ==
    /\ At(o, "close")
    /\ IF op[o].superseded \/ op[o].ended
       THEN Fail(o)
       ELSE Become(o, [op[o] EXCEPT !.pc = "snapshot", !.live = FALSE, !.minted = TRUE])
    /\ OpOnly

SuspendInspect(o) ==
    /\ At(o, "inspect") /\ Is(o, {"Suspend"})
    /\ IF CheckWritable(store) THEN Goto(o, "mark") ELSE Fail(o)
    /\ OpOnly

(* SuspendActor writes a new snapshot and frees the worker; an actor that  *)
(* sleeps on a snapshot keeps it, and the call answers with that one.      *)
TakeSnapshot(o, next) ==
    /\ actor.state # "NONE"
    /\ image' = IF actor.state = "COLD" /\ actor.snap # 0
                THEN [image EXCEPT ![actor.snap] = @ \union {HeadSeq(store)}]
                ELSE Append(image, {HeadSeq(store)})
    /\ actor' = [state |-> "COLD", snap |-> Len(image')]
    /\ Become(o, [op[o] EXCEPT !.pc = next, !.then = "record", !.snap = Len(image')])

(* Placer.suspend: public Suspend mints its fence only after the snapshot, *)
(* a park keeps the fence and the head of its turn.                        *)
Snapshot(o) ==
    /\ At(o, "snapshot")
    /\ \/ /\ CheckWritable(store)
          /\ TakeSnapshot(o, IF Is(o, {"Suspend"}) THEN "fenceMint" ELSE "record")
       \/ Fail(o) /\ UNCHANGED <<actor, image>>
    /\ UNCHANGED <<store, guard, mark, crashes>>

(* Mutant: the park is reported whatever became of its SUSPEND.            *)
RecordSuspendUnchecked(o) ==
    /\ At(o, "record")
    /\ Succeed(o, IF Is(o, {"Suspend"}) THEN "ok" ELSE "parked")
    /\ store' = IF AppendOutcome(store, op[o].head, op[o].fence, "SUSPEND") = "ok"
                THEN AppendTo(store, op[o].fence, "SUSPEND") ELSE store
    /\ LogOnly

RecordSuspend(o) ==
    /\ At(o, "record")
    /\ IF Is(o, {"Suspend"})
       THEN AppendAt(o, HeadSeq(store), "SUSPEND", [op[o] EXCEPT !.pc = "unwind", !.result = "ok"])
       ELSE AppendAt(o, op[o].head, "SUSPEND", [op[o] EXCEPT !.pc = "unwind", !.result = "parked"])

(* controller.Approve: the scan, then the fence, then the decision at the  *)
(* scanned head.  A retry of a recorded decision changes nothing.          *)
ApproveScan(o) ==
    /\ At(o, "scan")
    /\ IF CheckWritable(store) /\ InspectApproval(store.recs) = "requested"
       THEN Become(o, [op[o] EXCEPT !.pc = "fenceMint", !.then = "decide",
                                    !.head = HeadSeq(store)])
       ELSE Fail(o)
    /\ OpOnly

(* Mutant: the decision goes to whatever the head is by then.              *)
DecideAtHead(o) ==
    /\ At(o, "decide")
    /\ AppendAt(o, HeadSeq(store), "APPROVAL_RESULT",
                [op[o] EXCEPT !.pc = "unwind", !.result = "ok"])

Decide(o) ==
    /\ At(o, "decide")
    /\ AppendAt(o, op[o].head, "APPROVAL_RESULT",
                [op[o] EXCEPT !.pc = "unwind", !.result = "ok"])

DeleteRow(o) ==
    /\ At(o, "delete")
    /\ Succeed(o, "ok")
    /\ store' = IF store.deletion = "ACTIVE" THEN DeleteSession(store) ELSE store
    /\ LogOnly

-----------------------------------------------------------------------------
(* Fork *)

(* A memory snapshot can only realise a fork at the head.                  *)
ForkInspect(o) ==
    /\ At(o, "inspect") /\ Is(o, {"Fork"})
    /\ \/ /\ CheckWritable(store)
          /\ \/ Tier = "STATELESS" /\ Goto(o, "child")
             \/ Tier = "MEMORY" /\ HeadSeq(store) = op[o].at /\ Goto(o, "begin")
       \/ Fail(o)
    /\ OpOnly

(* The mark and the open connections are taken under one lock, and every   *)
(* one of those connections is superseded.                                 *)
BeginCheckpoint(o) ==
    /\ At(o, "begin")
    /\ IF MarkFree(o)
       THEN LET open == {t \in Ops : Host(t) = Host(o) /\ op[t].live}
            IN  /\ mark' = [mark EXCEPT ![Host(o)] = o]
                /\ op' = [t \in Ops |->
                            IF t = o THEN [op[o] EXCEPT !.pc = "forkFence",
                                            !.then = "end", !.open = open]
                            ELSE IF t \in open THEN [op[t] EXCEPT !.superseded = TRUE]
                            ELSE op[t]]
       ELSE Fail(o) /\ UNCHANGED mark
    /\ UNCHANGED <<store, actor, image, guard, crashes>>

ForkFence(o) ==
    /\ At(o, "forkFence")
    /\ IF CheckWritable(store)
       THEN /\ store' = NewFence(store)
            /\ Become(o, [op[o] EXCEPT !.pc = "forkHead", !.fence = store'.fence])
       ELSE Fail(o) /\ UNCHANGED store
    /\ LogOnly

ForkHead(o) ==
    /\ At(o, "forkHead")
    /\ IF HeadSeq(store) = op[o].at THEN Goto(o, op[o].then) ELSE Fail(o)
    /\ OpOnly

(* Mutant: the turns are only waited for.                                  *)
EndNoHarness(o) == At(o, "end") /\ Goto(o, "wait") /\ OpOnly

(* endHarnesses cancels the superseded turns ...                           *)
EndHarnesses(o) ==
    /\ At(o, "end")
    /\ op' = [t \in Ops |->
                IF t = o THEN [op[o] EXCEPT !.pc = "wait"]
                ELSE IF t \in op[o].open THEN [op[t] EXCEPT !.ended = TRUE]
                ELSE op[t]]
    /\ OpOnly

(* Mutant: the fork does not wait.                                         *)
AwaitNothing(o) ==
    /\ At(o, "wait")
    /\ Become(o, [op[o] EXCEPT !.pc = "forkFence", !.then = "checkpoint"])
    /\ OpOnly

(* ... and waits until each has made its one NewFence call or returned.    *)
AwaitMinted(o) ==
    /\ At(o, "wait")
    /\ \/ /\ \A t \in op[o].open : op[t].minted
          /\ Become(o, [op[o] EXCEPT !.pc = "forkFence", !.then = "checkpoint"])
       \/ Deadlines /\ op[o].open # {} /\ Fail(o)
    /\ OpOnly

Checkpoint(o) ==
    /\ At(o, "checkpoint")
    /\ \/ TakeSnapshot(o, "forkRecord")
       \/ Fail(o) /\ UNCHANGED <<actor, image>>
    /\ UNCHANGED <<store, guard, mark, crashes>>

(* CAS on the head the fork validated, never on one read afterwards.       *)
ForkRecord(o) ==
    /\ At(o, "forkRecord")
    /\ AppendAt(o, op[o].at, "SUSPEND", [op[o] EXCEPT !.pc = "require"])

(* Mutant: being suspended is enough.                                      *)
HoldsAnySnapshot(snap) == actor.state = "COLD"

(* requireSnapshot.                                                        *)
HoldsSnapshot(snap) == actor.state = "COLD" /\ actor.snap = snap

(* backend.Fork of one child: the tag of the parent is bracketed by two    *)
(* checks that the parent still holds this fork's snapshot.                *)
RequireSnapshot(o) ==
    /\ op[o].pc \in {"require", "require2"}
    /\ Goto(o, IF ~HoldsSnapshot(op[o].snap) THEN "abort"
               ELSE IF At(o, "require") THEN "tag" ELSE "child")
    /\ OpOnly

(* The tag copies whatever snapshot the suspended parent holds now.        *)
TagActor(o) ==
    /\ At(o, "tag")
    /\ \/ /\ actor.state = "COLD"
          /\ Become(o, [op[o] EXCEPT !.pc = "require2", !.tag = actor.snap])
       \/ Goto(o, "abort")
    /\ OpOnly

CreateChild(o) ==
    /\ At(o, "child")
    /\ \/ Become(o, [op[o] EXCEPT !.pc = "copy", !.kids = Append(@, op[o].tag)])
       \/ Goto(o, "abort")
    /\ OpOnly

(* controller.Fork copies the log up to atSeq into the child's own log.    *)
CopyLog(o) ==
    /\ At(o, "copy")
    /\ \/ /\ CheckWritable(store)
          /\ IF Len(op[o].kids) = Fanout
             THEN Succeed(o, "ok")
             ELSE Goto(o, IF Tier = "MEMORY" THEN "require" ELSE "child")
       \/ Goto(o, "abort")
    /\ OpOnly

(* abort frees the parent before it stops the children.                    *)
AbortFork(o) ==
    /\ At(o, "abort")
    /\ Goto(o, "rollback")
    /\ mark' = [mark EXCEPT ![Host(o)] = IF @ = o THEN None ELSE @]
    /\ UNCHANGED <<store, actor, image, guard, crashes>>

RollbackFork(o) ==
    /\ At(o, "rollback")
    /\ Become(o, [op[o] EXCEPT !.pc = "unwind", !.kids = <<>>])
    /\ OpOnly

-----------------------------------------------------------------------------
(* A host crash forgets the session set and the calls in progress; the log *)
(* and the runtime survive.                                                *)
Crash(h) ==
    /\ crashes < MaxCrashes
    /\ crashes' = crashes + 1
    /\ guard' = [guard EXCEPT ![h] = FreeGuard]
    /\ mark' = [mark EXCEPT ![h] = None]
    /\ op' = [o \in Ops |->
                IF Host(o) = h /\ op[o].pc \notin {"idle", "done"}
                THEN [IdleOp EXCEPT !.kind = op[o].kind, !.pc = "done", !.result = "crashed"]
                ELSE op[o]]
    /\ UNCHANGED <<store, actor, image>>

TurnStep(o) ==
    \/ StartTurn(o) \/ Redrive(o) \/ Effect(o) \/ CompleteApproval(o)
    \/ ParkCall(o) \/ ParkRequest(o) \/ EndTurn(o) \/ FailTurn(o) \/ StopTurn(o) \/ ResumeMarker(o)

ForkStep(o) ==
    \/ ForkInspect(o) \/ BeginCheckpoint(o) \/ ForkFence(o) \/ ForkHead(o)
    \/ EndHarnesses(o) \/ AwaitMinted(o) \/ Checkpoint(o) \/ ForkRecord(o)
    \/ RequireSnapshot(o) \/ TagActor(o) \/ CreateChild(o) \/ CopyLog(o)
    \/ AbortFork(o) \/ RollbackFork(o)

OpStep(o) ==
    \/ Unwind(o) \/ Mark(o) \/ FenceMint(o) \/ FenceHead(o)
    \/ ExecInspect(o) \/ ResumeInspect(o) \/ Repair(o) \/ Gate(o) \/ Create(o)
    \/ OpenHarness(o) \/ CheckSuperseded(o)
    \/ TurnStep(o)
    \/ HandoffInspect(o) \/ CloseInvocation(o) \/ SuspendInspect(o)
    \/ Snapshot(o) \/ RecordSuspend(o) \/ ApproveScan(o) \/ Decide(o) \/ DeleteRow(o)
    \/ ForkStep(o)

(* Every call has been made and has returned.                              *)
Quiescent == (\A o \in Ops : At(o, "done")) /\ UNCHANGED vars

Next ==
    \/ \E o \in Ops : OpStep(o) \/ \E kind \in OpKinds : Begin(o, kind)
    \/ \E h \in Hosts : Crash(h)
    \/ Quiescent

Spec == Init /\ [][Next]_vars

(* The calls an operation makes to the runtime, the harness and the model  *)
(* return, so each operation in progress keeps taking steps.               *)
FairSpec == Spec /\ \A o \in Ops : WF_vars(OpStep(o))

-----------------------------------------------------------------------------
(* Every variable keeps its type.                                          *)
TypeOK ==
    /\ store \in Store
    /\ actor \in [state : ComputeState, snap : 0 .. Len(image)]
    /\ image \in Seq(SUBSET Nat)
    /\ \A h \in Hosts :
        /\ mark[h] \in Ops \union {None}
        /\ guard[h] \in [operation : BOOLEAN, readers : 0 .. Cardinality(Ops),
                         deleting : BOOLEAN]
    /\ \A o \in Ops :
        /\ DOMAIN op[o] = DOMAIN IdleOp
        /\ op[o].kind \in OpKinds \union {"none"}
        /\ op[o].at \in 0 .. HeadSeq(store)
        /\ op[o].fence \in 0 .. store.fence
        /\ op[o].open \subseteq Ops
        /\ Len(op[o].kids) <= Fanout
    /\ crashes \in 0 .. MaxCrashes

(* The steps between taking the checkpoint mark and lifting it.            *)
MarkedSteps ==
    {"handoff", "close", "snapshot", "scan", "decide", "fenceHead", "forkFence",
     "forkHead", "end", "wait", "checkpoint", "forkRecord", "require", "tag",
     "require2", "child", "copy"}

Active(h, k) ==
    {o \in Ops : /\ Host(o) = h
                 /\ op[o].pc \notin {"idle", "done"}
                 /\ GuardKind(op[o].kind) = k}

(* The guard admits what acquire promises and no hold outlives its call,   *)
(* on whatever path the call returns: one turn or lifecycle operation at a *)
(* time, forks beside it, nothing beside a deletion; and the checkpoint    *)
(* mark is held by a call that is inside its marked section.               *)
HoldsMatchCalls ==
    \A h \in Hosts :
        /\ Cardinality(Active(h, "operation")) = IF guard[h].operation THEN 1 ELSE 0
        /\ Cardinality(Active(h, "read")) = guard[h].readers
        /\ Cardinality(Active(h, "delete")) = IF guard[h].deleting THEN 1 ELSE 0
        /\ guard[h].deleting => ~guard[h].operation /\ guard[h].readers = 0
        /\ \A o \in Ops :
            Host(o) = h /\ op[o].pc \in MarkedSteps => mark[h] = o \/ Tier = "STATELESS"
        /\ mark[h] # None => op[mark[h]].pc \notin {"idle", "done", "rollback"}

(* Compute is only made cold when the SUSPEND record of it is certain to   *)
(* be accepted: from the check that precedes the snapshot to the record,   *)
(* no call of the same Registry can move the head, mint a newer fence or   *)
(* delete the session (endHarnesses and forkSource for a fork,             *)
(* markCheckpoint for Suspend and for a park).                             *)
CheckpointIsRecorded ==
    \A o \in Ops :
        op[o].pc \in {"checkpoint", "forkRecord", "record"} =>
            /\ CheckWritable(store)
            /\ op[o].fence = store.fence
            /\ Is(o, {"Fork"}) => HeadSeq(store) = op[o].at
            /\ ~Is(o, {"Fork", "Suspend"}) => HeadSeq(store) = op[o].head

(* A turn that a checkpoint superseded before the turn minted its fence    *)
(* writes nothing under it, although the fence is newer than the one the   *)
(* checkpoint minted first (checkSuperseded after NewFence).               *)
LateTurnWritesNothing ==
    \A o \in Ops : op[o].late =>
        \A i \in DOMAIN store.recs : store.recs[i].fence # op[o].fence

(* No snapshot is taken under an open harness stream of a turn that the    *)
(* same Registry drives: a fork has ended them, Suspend is refused beside  *)
(* them, a park has closed its own.                                        *)
NoStreamUnderSnapshot ==
    \A o, t \in Ops :
        op[o].pc \in {"snapshot", "checkpoint"} /\ Host(t) = Host(o) =>
            ~op[t].live \/ op[t].ended

(* Every child of a stateful fork holds the one checkpoint of its fork,    *)
(* and the parent slept on that checkpoint at the head up to which the     *)
(* child's log is copied, whatever other hosts do to the parent meanwhile. *)
ClonesMatchTheirLog ==
    Tier = "MEMORY" =>
        \A o \in Ops : \A i \in DOMAIN op[o].kids :
            op[o].kids[i] = op[o].snap /\ op[o].at \in image[op[o].kids[i]]

(* A call that reports a park has left the session cold and undecided: its *)
(* own incarnation committed SUSPEND while the request was the open gate.  *)
ParkMeansSuspended ==
    \A o \in Ops : op[o].result = "parked" =>
        \E i \in DOMAIN store.recs :
            /\ store.recs[i] = [kind |-> "SUSPEND", fence |-> op[o].fence]
            /\ InspectApproval(SubSeq(store.recs, 1, i - 1)) = "requested"

(* What the latest execution's gate must be for a record of each kind.     *)
GateFor(kind) ==
    CASE kind = "APPROVAL_REQUEST" -> "called"
      [] kind = "APPROVAL_RESULT" -> "requested"
      [] kind = "TOOL_RESULT" -> "decided"
      [] OTHER -> "none"

(* No turn continues past an open approval, no new turn starts beside it,  *)
(* and each gated call gets one request, one decision and one receipt, in  *)
(* this order, whatever hosts repair, decide, resume or crash meanwhile.   *)
GatesAreNotSkipped ==
    \A i \in DOMAIN store.recs :
        store.recs[i].kind \notin LifecycleKinds \union {"ERROR"} =>
            InspectApproval(SubSeq(store.recs, 1, i - 1)) = GateFor(store.recs[i].kind)

(* A deletion excludes every call of its Registry: once the session is     *)
(* deleted neither its log nor its compute changes.                        *)
DeletedIsLeftAlone ==
    [][store.deletion = "PENDING" => UNCHANGED <<store, actor>>]_vars

(* Every operation returns: a fork waiting for the turns it superseded, a  *)
(* turn waiting for nothing, whatever order they run in.                   *)
OperationsReturn ==
    \A o \in Ops : (op[o].kind # "none") ~> At(o, "done")

(* From its checkpoint to its last clone a fork keeps the parent asleep on *)
(* the snapshot the clones are made from.                                  *)
ParentSleepsDuringFanOut ==
    \A o \in Ops :
        /\ op[o].pc \in {"forkRecord", "require", "tag", "require2", "child", "copy"}
        /\ Tier = "MEMORY"
        => HoldsSnapshot(op[o].snap)
=============================================================================
