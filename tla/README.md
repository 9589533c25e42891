# A TLA+ model of agentsessions

agentsessions hosts agent *sessions*. A session is an append-only event log plus
compute that can be thrown away: a turn drives a harness (the agent program) and
journals each of its effects; the compute can be suspended, restored, cloned or
lost, and the log says what happened. This directory models the part of the
program that has to be right when several hosts, callers and crashes meet: the
log, the journalled turn and its recovery, the placement of turns on compute, the
names that route sessions to harnesses, the stream a harness runs behind, what a
session is reported as, and what a fork leaves in its runtime.

## The system and what makes it hard

| component | source | state | operations |
|---|---|---|---|
| session log | `sqlitelog/`, `eventlog/` | per session: records (hash chained), a fence, a deletion mark, projections | `Head`, `NewFence`, `Append`, `Read`, `Verify`, `CheckWritable` |
| session rows | `sqlitelog/sessions.go`, `deletion.go`, `approval_projection.go` | metadata, compute state, pending approval | `PutSession`, `ListSessions`, `DeleteSession` |
| controller | `controller/` | one call's sink: position in the recorded stream, sticky failure | `Exec`, `Resume`, `Replay`, `Fork`, `Approve` |
| placer | `placement/placement.go` | shared session set: guard, checkpoint marks, live connections | `Exec`, `Resume`, `Suspend`, `Fork`, park handoff |
| registry | `placement/registry.go`, `session_guard.go` | placers by name | `Resume`, `Approve`, `Suspend`, `WithSessionGuard`, `Add` |
| service | `session/service.go` and others | none of its own | the gRPC API: validation, routing, the order of the calls below |
| harness registry | `session/harness_registry.go`, `sqlitelog/harnesses.go` | durable rows and placers | register, retire, list, load |
| runtimes | `runtime/{substrate,local,remote}` | actors, snapshots, tags | `Create`, `Snapshot`, `Restore`, `Fork`, `Stop` |
| harness stream | `harnesswire/` | the two ends of one Connect stream | `Connect`, `Run`, sink calls, parks |
| wire form | `wire/convert.go` | none | an event to and from the form that is stored and sent |
| daemon | `internal/agentsessionsd/` | one host: its journal, registry and servers | start (reserve, load, serve), shutdown (drain, close) |
| the rest | `cmd/`, `client/`, `model/`, `canon/`, `observability/` | | entry points, encoding, HTTP |

Calls go service -> registry -> placer -> controller -> log. The placer also calls
the runtime and dials the harness; the harness calls back into the controller's
sink. Inside one process the session guard keeps turns of a session apart but lets
forks run beside them; the checkpoint mark keeps a fork, a suspend, a decision and
a checked resume apart. Between processes there is nothing but the log: a head that
`Append` compares and a fence that only grows.

What is hard, and what each part has to guarantee:

- *log*: head and fence are read in transactions of their own, so they are always
  stale. One owner at a time; nothing after `DELETE`; projections that agree with
  the log they are kept beside.
- *placement*: a fork checkpoints a parent that has turns in flight, on this host
  and on others. The snapshot and the log prefix must be of the same moment; no
  snapshot under an open stream; a checkpoint whose SUSPEND record is then refused
  leaves compute cold and the log unaware; no hold may outlive its call; nobody may
  wait for ever.
- *approvals*: four records of several callers form one gate, with a crash possible
  between any two; no gate may be skipped or answered twice.
- *turn*: a crash between any two records. Recovery must give the harness what it
  was given, repeat at most the last uncertain call, never mix the histories of two
  incarnations, and leave a completed turn that replays.
- *harness names*: static on one host, a row in the shared journal for another. Hosts
  start, register, retire and crash in any order, and a routing decision reads the two
  tables several times. A name must mean one harness, a session must stay on its own.
- *harness stream*: a harness calls its sink from goroutines with contexts of their own
  and may ignore what they return. A reply must reach the call it answers, nothing may
  follow the terminal record, an effect that failed may not be passed over, a park
  needs both sides, and both must end.
- *reports*: a listing goes by a projection, decisions by the log. They have to agree on
  malformed histories, after a migration, and beside a program that predates the
  projection.
- *runtimes*: a fork that fails between two of its calls must not leave compute whose
  name nobody knows; a closed backend must not be opened again.

`PROJECT.json` lists the hazards line by line, each with the properties that watch it.

## Modules

| module | models | read with |
|---|---|---|
| `LogOps` | the log's transactions as operators on one session's durable state (`Store`) | sqlitelog |
| `OwnedJournal` | abstract: a journal with one owner at a time that can be closed | |
| `SessionLog` | writers that mint, read heads and append in any order, beside metadata writes and a deletion | sqlitelog |
| `LogOpsProofs` | lemmas: what each transaction of `LogOps` changes, for the proofs of the three below | |
| `SessionLogProofs` | the theorems about `SessionLog` | |
| `Placement` | the operations of one session on one or two hosts, step by step | placement, controller/approval, runtime/substrate |
| `PlacementProofs` | the theorems about `Placement` | |
| `Turn` | Exec, Resume and Replay as the controller journals them | controller |
| `TurnProofs` | the theorems about `Turn` | |
| `HarnessRegistry` | hosts on one journal, their harness names, and the calls that route sessions by them | session, sqlitelog/harnesses, placement/registry, the daemon's `Run` |
| `HarnessRegistryProofs` | the theorems about `HarnessRegistry` | |
| `HarnessStream` | one execution: the harness's goroutines, the stream, the controller's sink | harnesswire, controller/sink_guard, internal/ctxlock |
| `HarnessStreamProofs` | the theorems about `HarnessStream` | |
| `ApprovalReport` | the projection of approval evidence against the log, over appends and migrations | sqlitelog, controller/approval, wire, session |
| `ApprovalReportProofs` | the theorems about `ApprovalReport` | |
| `Runtimes` | what a fork and a closed backend leave in the substrate, local and remote runtimes | runtime, integrations/substrate, `Placer.Fork` |
| `RuntimesProofs` | the theorems about `Runtimes` | |
| `MC*` | the constants of the TLC runs | |

`SessionLog`, `Placement` and `Turn` all extend `LogOps`, so the fences and heads
that are proved about in the first are the ones the other two rely on.

**LogOps / SessionLog.** `Store` is the session's row and its records; a record is
its kind and its fence. `AppendOutcome` keeps the order of the refusals in
`Log.Append`. A writer is an incarnation: it remembers the fence it minted and the
head it read, and a refused append makes it read again. `by` is a history variable.
A lifecycle record (`EventLifecycle` with a kind inside) is represented by its
lifecycle kind.

**Placement.** A call (`Ops`) is a record with a program counter; each step is one
access to shared state: the guard, the mark, the live connections, the log or the
runtime. `actor` is the session's compute with the snapshot it holds, as the
substrate backend sees it. `SuspendActor` writes a new snapshot of a running actor and
answers with the one it holds for a suspended one (`spec.md`, the substrate runtime;
`Runtimes` assumes the same). `image` therefore keeps, for each snapshot, every log head
at which a suspend was answered with it. A crash is external: what it clears is the
`sessionSet` of the host. Steps that are merged: the read of the head and the append of `appendSeq` (with
the fence compared in the same transaction an append that loses the race is
refused either way), `NewFence` and `fenceMinted`, `CheckWritable` and the
inspection that follows it, `GetActor` and `ResumeActor` in `Create`. An execution
is one EXECUTION_START here; its inputs are `Turn`'s subject. `late`, `image` and
`kids` are observations. Panics are left out. A park's reference is approximated
by "the open gate is a request". `Tier` is constant per session: approvals need a
stateless harness (`approvalDescriptor`), stateful forks a memory one, and
`checkMemoryOverride` keeps a session on one tier.

**Turn.** A harness is a function from the answers it got to its next sink
operation (constant `Operation`); `MCTurn` defines an agent that retries, reports
usage and calls a tool, a changed version of it, a brief one, and one that answers
itself when the model fails. `body` runs beside the log's records with the
execution, the argument (a hash, a text, a call ID) and the usage. A stream is the set
of places of an execution's effects in the log, and the cursor `i` of a sink is the
place of the last effect it consumed. `Serve` is the
recorded half of both `replaySink` and `resumeSink`; they differ in an open last
intent, which `Resume` carries out again and `Replay` refuses. `calls` and `given`
are history: the invocations made for each intent, and what its owner's harness was
told. The last section of the module says what `docs/harness-authoring.md` asks of a
harness; `MCTurn` evaluates it for its harnesses (`AgentsAreClear`). `Hosts` bounds the
calls in progress, one per host, as the session guard does.
Left out: approval gates (in `Placement`), v0.1.2 journals, forks of an unfinished
turn, mediation kinds other than a call without a key, and the harness identity
check. Calls that overlap are `HarnessStream`'s subject. `Settings` pairs each set of
hosts with the harnesses that run there.

**HarnessRegistry.** `rows`, `reserved` and `sess` are the shared tables; everything
in `host` is one process's memory and is gone after a crash. Each step of a call is
one transaction or one read. A routing decision is a list of checks
(`ExecRoute`, `ResumedRoute`) taken one at a time, so another host's commit can
come between any two. Names are numbers, ordered as the strings are. A Placer is
what it runs: `Builtin` or a spec. `Servable` stands for the decoding and validation
of a spec and for the factory: a host may meet a spec it cannot serve. The program
that skips its reservation (`StartBare`) is the embedding that
`ReserveStaticHarnessNames` warns about. `home` and the `pin`, `known` and `owed` of a call
are observations. What a turn does is reduced to whether it stays unfinished and on
which harness.

**HarnessStream.** The harness is unconstrained within `Plan`: each goroutine makes
calls of the kinds listed, may be cancelled, and goes on whatever it is told. The
effect lock is a step of its own, taken and given up as `ctxlock.Mutex` does.
`Reply` includes a reply that meets a call which has just been cancelled: the `select`
of `awaitResult` may take either. gRPC's part (delivery in order until the stream
breaks, a broken stream ending both contexts) is external. The frame `receiveFrames`
has taken and not yet handed over is the first of `stream.down`: when the stream ends
it may be left there (`InHand`) and be delivered or dropped, as the second `select`
chooses. With `wired = FALSE` the
same harness calls the controller's sink directly, behind `sinkGuard` alone.

**ApprovalReport.** One session. An event is given to Append with one or more bodies,
stored in its wire form, which keeps the first of `BodyOrder`, and both readers see
what that decodes to. `ProjectApproval` is the append-by-append reducer,
`InspectApproval` the scan of the log. A record that does not decode is `Undecodable`. Builds below version 3 are
external to this repository: they are modelled by what the migrations say they did,
namely append and project nothing.

**Runtimes.** `runtime` chooses the backend. For the substrate each control call is a
step that succeeds, fails without effect, or fails after its effect; the caller's
context may end at any point, and teardown runs on its own. A tag owns the copy a
clone borrows until the clone's first own suspend. Local and remote share `pc` with
it: one server for all children, or nothing to provision and a Describe connection
that may be opened at any time. The owner of a local backend closes it after its
calls have drained (`HarnessRegistry.Stop`), so a Create after Close is not taken.

Bounds: `MaxFence`, `MaxRecords`, `MaxCrashes`, `MaxFailures`, `MaxStarts`,
`MaxCalls`, `MaxCancels`, `MaxEvents`, `MaxOpens`, `MaxFaults`, `MaxWakes`, and the
number of calls, each made once.

## Runs

| run | what it asks | instance |
|---|---|---|
| `session_log` | all properties of the log and the refinement of `OwnedJournal` | 2 writers, 3 fences, 3 records and a deletion, 6 kinds |
| `placement_hosts` | holds, fences and clones: what holds whatever another host does | 1 fork of 2 children beside 2 calls of a second host, deadlines, a crash; or beside 3 calls, without a crash, one each to create, wake and suspend the parent |
| `placement_one_host` | what one host alone guarantees (checkpoints, streams, deletion), and `OperationsReturn` | 3 calls on one host, no deadlines |
| `placement_approvals` | the gate protocol, and the types | 3 calls on 2 hosts, a crash |
| `placement_wakes` | violation, see findings | as `placement_one_host` |
| `turns` | recovery and replay on one host, and two hosts that drive one turn | 3 calls, 2 harnesses on one host or 1 on two, 1 failure, any crashes |
| `turn_fallback` | violation, see findings | 3 calls of the harness that answers itself |
| `harness_registry` | names, pins, retirement, backends and listings across hosts | 2 hosts, 3 names, 2 specs, 2 sessions, 4 calls, 3 starts |
| `harness_registry_resume` | violation, see findings | as `harness_registry`, one host without a reservation |
| `harness_stream` | replies, journal end, completion, park and termination of one execution | 2 goroutines, 3 sink calls, 1 cancellation, with and without a stream |
| `approval_report` | the report against the log | 3 processes of 2 builds, every prefix of 6 histories, then 2 of 28 events, 2 opens |
| `runtimes` | what is left after a failed fork or a Close | 3 children, 3 failing calls, 2 wakes of the parent, 4 runtimes |

Why these sizes: a fencing mistake needs an old incarnation, a new one and a record
of each, so two writers with three fences and three records already have an
incarnation that returns after being superseded. A fork interacts with at most the
one turn the guard admits, and a third call can be another fork, a resume, a suspend or a
deletion; two children are enough for something to happen between clones. For the parent to
hold another snapshot than the fork's it must be created, woken and suspended by three
other calls. That is the fourth call of `placement_hosts`: the constraint `Cases` of
`MCPlacement` admits it only there, after the fork's checkpoint. It also leaves out a crash
beside two forks and a third call. As the fourth call can always
be begun, a call stuck beside it is found not as a deadlock of this run but by
`OperationsReturn` and by `placement_approvals`. A gate has
four records and the turn's own start; three callers let two of them compete while
the third has crashed. A turn is cut at most twice with three calls, which is a
recovery of a recovery. For the registry, each of the four calls chooses from a menu
in which registrations of one name with two specs, a retirement, a create, an
override and a listing meet; three starts are one restart of either host. A stray
reply needs a cancelled call and a later one, the third call is the one that outlives
`Run`. The histories of `MCApprovalReport` lead to every stage of a gate, so two more
events reach past any of them. In a fork with three children one is
provisioned, one fails and one has not begun. The kinds of `MCSessionLog` are the lifecycle
kinds that move compute, a turn's record, an approval, which moves nothing, and the
reserved `DELETE`.

Symmetry is used over calls that have the same host and menu, in safety runs only.
Deadlock is checked in the runs of `SessionLog`, `Placement`, `Turn` and
`HarnessStream`, where only a state in which every call has returned may stutter. The
runs of `HarnessRegistry`, `ApprovalReport` and `Runtimes` end when their bounds are
used up, with hosts or processes in any state, so it is not checked there.

Fairness is in `FairSpec` of `Placement` and of `HarnessStream`. In `Placement` it is
weak fairness of the steps of each call: a goroutine that can run does run, descriptor calls have a timeout, and the
calls to runtime, harness and model are assumed to return. `Deadlines` is FALSE in
`placement_one_host`, so that the fork's wait is discharged by the turns it waits for
and not by a timeout. In `HarnessStream` each goroutine's step, Run's return, the
receiver, the handler's end and the controller's loop are weakly fair, being
goroutines that can run; the harness is assumed to return from `Run` and the
controller's model and tool calls to end, one way or the other. Making a call, cancelling and breaking the stream are not fair:
termination may not depend on them.

### What the properties say

- `TurnsAreContiguous`, `TokensNameOneWriter`, `FencesNeverGoBack`: the three facts
  that fencing consists of. `ImplementsOwnedJournal` puts them in one sentence.
- `ProjectionFollowsLog`: what the column must be is said by the kinds of the whole log,
  apart from `eventComputeState`, so a kind mapped wrongly is caught as well as one
  that is forgotten.
- `CheckpointIsRecorded`: from the last check to the SUSPEND record no call of the
  same process can make the record fail. Its run has a memory harness, which forks and
  has no approvals; what it says of a park is only in the theorem, and what a park
  reports is `ParkMeansSuspended`. Across processes it can, and the code says
  so (`appendLifecycle`); the run is therefore about one host.
- `LateTurnWritesNothing`: the turn that minted after the fork, stopped by
  `checkSuperseded` and by nothing else.
- `ClonesMatchTheirLog`: holds across hosts because of the two `requireSnapshot`
  around the tag and the CAS on `atSeq`.
- `GatesAreNotSkipped`, `ParkMeansSuspended`: across hosts, repairs and crashes.
- `CompletedTurnReplays`: a completed turn replays with the harness that completed
  it, whatever other harness, crash or host had a part in it before.
- `RecoveryServesWhatWasGiven`: compared are success and value. Usage that was cut
  off is served as zero, which the changelog documents.
- `AnsweredIsNotReinvoked`: for the owner of the session. A superseded incarnation
  may be making its last call, and nothing in the code can stop that.
- `SameHarnessNeverDiverges`: for harnesses that do not report a tool result
  directly after a failed tool call. Without a failure receipt such a report is
  taken for the call's result, as `docs/harness-authoring.md` and the changelog say.
- `NamesMeanOneHarness`: holds although each host checks only its own table and the
  rows, because registration and reservation each look at the other's table in their
  own transaction. `SessionsStayPinned` and `CollidedNamesAreNotServed` are about the
  reads after that, which share no transaction. A recovery whose stored name is both
  registered and static on the host is excepted from the first: see finding 3.
- `RetiredTakesNoSessions`: the check and the insert are one transaction; a fork's
  child is not a selection.
- `BackendsAreReleased`, `PagesAreComplete`: a count and a merge, both wrong in the
  ways that only an interleaving shows.
- `RepliesAnswerTheirCall`: also where a harness repeats the ID of a tool call after
  the first one was cancelled; the stream is then failed rather than a reply matched.
- `TurnEndsItsJournal`, `CompletedIsComplete`, `ParkIsAgreed`, `ExecutionsEnd`: what
  the controller records at the end of an execution, against goroutines that go on.
- `ReportAgreesWithTheLog`: exact while every writer projects; one-sided (never a
  report the log does not support) once an older build has appended.
- `NothingIsStranded`, `ClonesHaveTheirSnapshot`: one case is excepted in both, the
  actor of a `CreateActorFromTag` that took effect and lost its answer. `Backend.Fork`
  then releases the tag and leaves the actor, as its comment assumes that none exists.

### Findings

1. `placement_wakes`: the early checkpoint check of `Exec` and `Resume` is stale
   when compute is created, so a turn can wake a parent that a fork has just
   checkpointed. `ClonesMatchTheirLog` still holds (the fork fails instead), but the
   comment on `Placer.Fork` promises that the parent is not woken, and it is left
   running although its log ends in SUSPEND.
2. `turn_fallback`: a harness that answers its user itself when the model fails
   leaves MODEL_CALL, OUTPUT; recovery and replay serve that output as the model's
   completion.
3. `harness_registry_resume`: `checkResumedHarness` asks `isRegistered` about the stored
   name, which is false for any name that is static on the host. On a host that
   skipped its reservation, a session whose own name another host registered has its
   pending override turn resumed, although Exec would refuse that override. The
   comment on the function says that the turn is refused if either name is registered.
   The attempt to prove `SessionsStayPinned` without its exception led here.

## Proofs

All theorems hold for every value of the constants that satisfies the assumptions at
the end of this section, so for any number of writers, calls, hosts, names, children
and failures. Each module has the same plan: an inductive invariant in named parts,
lemmas that say what one action or operator does, one lemma per part that every step
keeps it, and a temporal theorem that puts them together.

**`LogOpsProofs`** says of each transaction what it leaves alone: an append that is
accepted adds one record under the stored fence at the head it compared, a refused one
changes nothing, a mint raises the fence by one. `SessionLogProofs`, `PlacementProofs`
and `TurnProofs` rest on it.

**`SessionLogProofs`**: `TypeCorrect`, `Fencing`, `TokensAreNotShared`,
`FencesAreOrdered`, `Frozen`, `DeletionEndsTheLog`, `ProjectionNeverDrifts`,
`LogImplementsJournal`.
The three fencing properties are not inductive one by one: that a record's neighbours
are of the same writer needs that only the holder of the newest token can append, which
needs that tokens are unique and that none is newer than the stored fence. `FencingInv`
joins them with the type invariant and with the fact that history and log have the same
length. In the refinement a mint is `TakeOver`, an accepted append is `Write` because an
append that is not refused is the owner's, a deletion is `Close`, and head reads,
refused appends and metadata writes change nothing the journal sees.

**`RuntimesProofs`**: `ForkInvariant`, `ForksStrandNothing`, `ClonesKeepTheirSnapshot`.
The properties speak of the end of a fork; the invariant has to say at each `pc` what
the fork has provisioned so far. `PhaseInv` ties `pc` to the result and the runtime,
`UntouchedInv` says that a child not yet reached has no actor, `TagInv` at which steps a
tag can be without an actor, `CloneInv` that a borrowed copy is of the fork's snapshot,
`StopInv` that every actor of a failed fork is still to be stopped, `ClosedInv` what
Close leaves.

**`HarnessRegistryProofs`**: `RegistryInvariant`, `RegistryTypes`, `OneHarnessPerName`,
`PinnedSessions`, `CollisionsFailClosed`, `NoBackendLeaks`, `RetiredStayEmpty` (an action
property), `ListingsAreComplete`. `CallsInv` says what a call at each step has read;
`TablesInv` that a served name is backed by the row or by the reservation that excludes
it, which is what makes `NamesMeanOneHarness` inductive; `BackendsInv` that each
open backend has a name or a registration in progress, at most one each; `SessionsInv`
that a session's row names its home; `RoutesInv` what the checks passed so far by a
routing call imply, although rows may have been committed since. Rows are never
deleted, so what a check found registered stays so: this is the argument the code
relies on for reads that share no transaction. Listings have an invariant of their own,
`PagesInv`: the pages are in order, and up to the cursor they hold every name that has
been there since the first one.

**`HarnessStreamProofs`**: `StreamInvariant`, `RepliesReachTheirCall`, `JournalsEnd`,
`CompletionIsTrue`, `ParksAreAgreed`. The invariant has ten parts, because a property of
the journal's end depends on where each goroutine is: `TaskInv`, `PhaseInv` (goroutines
and execution), `GuardInv` (the effect lock has the owner it says), `JournalInv`,
`EventInv`, `FrameInv` (what is on the stream is true of its sender), `PlaceInv` (a call
is in one place: unsent, on its way, running or answered), `ToolInv` (while the sink is
usable the only tool call under way is the one that waits, so a repeated ID cannot be
matched with an older reply), `ToldInv`, `OutInv` (what was told, and what Run returned,
is what the journal has).

**`PlacementProofs`**. The invariant is built in layers; a layer is
proved inductive with the ones it needs, and only those.

| layer | says | theorems |
|---|---|---|
| `ShapeInv` | what a call remembers at each `pc`, and which records and snapshots exist | `ShapeInvariant`, `PlacementTypes` |
| `HoldsInv` | the guard counts the active calls, as cardinalities; the mark is the marked call's | `HoldsAreExact` |
| `FenceInv` | fences are unique, and none in the log is newer than the stored one | `LateTurnsAreSilent` |
| `CloneInv` | from its record on, the parent slept on a fork's snapshot at the fork's head; the tag has that snapshot when the second check passes | `ClonesHoldTheirCheckpoint` |
| `StreamInv` | a stream open beside a checkpoint is one the fork has superseded, then ended, then seen the fence of | `SnapshotsAreQuiet` |
| `GatesInv` | what a call saw of the gate is still so, or head or fence have moved on and its append will be refused | `GatesInOrder`, `ParksAreSuspended` |
| `SerialInv` | on one host: an active writer has the newest fence and knows the head; a memory harness has no gate; beside a deletion no call is past its first check | `CheckpointsAreRecorded`, `DeletedSessionsRest` |

The layers up to `GatesInv` need nothing of how calls are spread over hosts, so
`ClonesMatchTheirLog`, `GatesAreNotSkipped` and `ParkMeansSuspended` hold for any number
of hosts and crashes: the append's comparison of head and fence is what makes a stale
check harmless. `GatesInv` says this in one line per record. The last two theorems have
the hypothesis `OneRegistry`, all calls on one host. It is not a convenience: across
processes a checkpoint can be overtaken, as the comment on `appendLifecycle` says, and a
turn of another process can wake the compute of a deleted session. The runs that check
the two properties are on one host too.

**`TurnProofs`** is about any number of calls, hosts, harnesses, inputs and crashes.
It has four layers, again each inductive with those before it.

| layer | says | theorems |
|---|---|---|
| `CoreInv` | what a call remembers in terms of the log; the records of an execution are not mixed with another's; the newest incarnation works on the last of them, and the intent it carries out is the last effect | `Core`, `TurnTypeCorrect`, `HarnessRunsOnAllInputs`, `OwnerCallsLastIntentOnly`, `DivergedWritesNothing` |
| `GivenCore` | an intent that something follows was given what is recorded for it, or an error if nothing is; a last intent that the owner goes past has failed, and its harness knows | `RecoveryServesGiven` |
| `AloneCore` | `TraceInv`: what the owner has written is a *trace* of its harness, each operation served from the records, up to usage that is not recorded; `AloneInv`: while there has been one harness only, every execution nobody writes to is such a trace, and every running call is at a place of one | `OneHarnessNeverDiverges` |
| `ReplayCore` | the turn an owner works on is not complete, and a completed one is all of a trace that ends in Return | `CompletedReplays` |

The first layer is the fencing argument: a record is appended by the newest incarnation
at the head it read, so the log behind it is the log it serves from, and what older ones
still do is refused. The second is about one step: the record after an intent tells
whether the call succeeded, and the proof goes through the six operations of the sink.
The third is about two readings of one log. The harness has been told what happened, a
later one will be served what is recorded, and the two differ in the usage of a
completion that was cut off before its `USAGE` record; a trace is stable because records
are only added, and a step of the owner adds to it just what it is told. `DoneStep` and
`EndedReplays` then identify the trace of a completed turn with the function by which
`ReplayOf` follows the harness: two candidates that differ have a least place where they
do, and there the step is the same (`OneReplay`). The same least-number argument gives
the length of a trace (`ShortTrace`), without an induction theorem.

Three of these theorems have hypotheses about the harnesses, for every sequence of
answers. They are what the controller relies on, not what the proof happens to need.
`FailuresDoStandOut`: what a harness does after a failed call cannot be taken for the
call's answer, since no receipt of the failure is recorded
(`docs/harness-authoring.md:335-336` says so of reports; finding 2 is the run that
violates it with an output). `UsageIsOnlyReported`: the usage of a completion is reported directly
after it if at all, and decides nothing. `RejectionsAreHeeded`: two rejected calls do not
follow each other; rejected calls leave no record, and `ReplayOf` bounds the operations
of a replay by the records, so this one belongs to the bound and not to the code. The
agents of the `turns` run satisfy all three for the answers up to four that TLC
enumerates, and the harness of `turn_fallback` does not satisfy the first.

**`ApprovalReportProofs`**: `ReportInvariant`, `ReportsAgree`. A listing reads a row that
`projectApproval` reduces append by append; decisions read the log, which
`inspectApprovalExecution` scans as a whole. The two are separate code for the same
rules, and the proof is a simulation of one by the other. `SimStep` takes an execution's
row and the scan of its records through one event: both refuse it, or both take it and
know the same afterwards (`Same`: start, inputs, completion, calls, and the last gated
call with its request, decision and receipt). From there `Told` says what a row tells of
the first n records, and `Describes` what the whole projection does: the cursor at n, the
last fork, the execution whose first record is the latest, and the count of invalid
executions, which a change of one row moves by what `projectApproval` adds to it. The
scan and the backfill are recursive functions; that they exist, and what holds of them at
each position, goes by the least position at which it would not (`ScanExists`,
`BackfillDescribes`). `ReportIs` compares the query with `InspectApproval` over a row that
describes the whole log.

The row need not describe the log, and `RowInv` says when: it is marked corrupt, because
the log has a record that does not decode or an append found a gap before it, or its
cursor is behind the head because the last append was an older build's. In both cases
nothing is reported. The cursor alone does not suffice for that: it catches up at the next
projecting append, which is why that append has to mark the row (the mutant
`MoveCursorBlindly` does not). `skipped` records that an older build has appended, and the
exact agreement of the third conjunct is claimed only without it.

**Assumptions.** They are the named ASSUMEs of the modules, which TLC evaluates in the
runs. `SessionLog`: `Nobody` is no writer, the kinds are event kinds, the bounds are
naturals. `Runtimes`: the bounds, and that a fork's children are a non-empty sequence of
distinct names, which `Placer.Fork` mints. `HarnessRegistry`: names are naturals,
`Builtin` and `None` are no specs, a host holds its static names and the default is one
of them, the menu consists of well-formed requests. `HarnessStream`: `Plan` gives each goroutine kinds of sink calls, and
`None` is no task. `Placement`: every call has a host and a menu of operations, the
bounds are naturals, and there are finitely many calls, without which counting the guard's
holders means nothing. `Turn`: there is at least one host, `"none"` is no call and no
harness, a completion is an answer that succeeded, and inputs and failures are naturals.
`ApprovalReport`: there are finitely many executions, without which counting the invalid
ones means nothing; the empty ID is one of them; each build knows a schema version; what
is appended, and each record of a history that is not damaged, is an event with the fields
of its kind; and no call has the ID `None`, which stands for the empty one (both readers
refuse a gated call without an ID as they do one without a key, `keyed`).

**Model-checked only.**

- `OperationsReturn` and `ExecutionsEnd`: liveness under fairness.
- The violation runs: their counterexamples are TLC's.

## Not modelled, and the plan

Not modelled and not planned: the bytes of encoding and hashing (`canon`, the fields
in `wire`), entry points, flags and addresses of the daemon, its tool executors,
logging, model HTTP, sample harnesses, and generated code (`api/genpb`, which is
more than a quarter of the implementation's lines).

Not modelled yet:

- the hash chain: `Verify`, and the lineage that `controller.Fork` makes of it;
- journals of v0.1.2 (`controller/legacy.go`), with recovery rules of their own;
- the harness identity of an execution, and intents a fork inherits unfinished;
- the window of `Service.Fork` between the copy of a child's log and its metadata is
  in `HarnessRegistry`, but the child's name is known to nobody then, and
  `SessionsStayPinned` counts only the calls that read the row after it;
- the cursor of `ListSessions` (the harness listing's is);
- the labels, annotations and error codes of the service.

Every safety property the passing runs check is a theorem. What is worth proving next
lies beyond them: that the traces of `Turn` carry over to a host of `HarnessStream`, so
that recovery is about the calls of a remote harness as well, and the hash chain once it
is modelled.
