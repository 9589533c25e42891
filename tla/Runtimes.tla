------------------------------ MODULE Runtimes ------------------------------
(* What a fork, and a backend that is closed, leave behind.                *)
(*                                                                         *)
(* Placer.Fork provisions the children of a fork one after another through *)
(* its runtime's Backend.Fork and copies the log to each; the first        *)
(* failure tears down what was provisioned, as the children's names are    *)
(* known to nobody else.                                                   *)
(*                                                                         *)
(* In the substrate each child costs several control calls.  A call that   *)
(* returns an error, a timed-out one for instance, may have taken effect.  *)
(* The caller's context may end at any point; teardown has its own.  The   *)
(* local runtime serves every child from one server it starts when first   *)
(* needed; the remote one attaches them to a harness that already runs,    *)
(* which it asks what it is over a connection of its own.                  *)
(*                                                                         *)
(* The control plane is external and modelled from its use: a new actor is *)
(* SUSPENDED; one made from a tag borrows the tag's copy of the snapshot   *)
(* until it first suspends itself; suspending a SUSPENDED actor does       *)
(* nothing and a RUNNING one cannot be deleted.  The children's names are  *)
(* new, so no tag or actor of theirs exists before.  The checkpoint the    *)
(* fork starts from is in Placement; the parent here only shows that       *)
(* another host may wake and suspend it.                                   *)
EXTENDS Naturals, Sequences

CONSTANTS
    Children,   \* the children of the fork, in order
    Runtimes,   \* "MEMORY": the substrate cloning a snapshot; "STATELESS": the
                \* substrate with fresh actors; "local"; "remote"
    MaxFaults,  \* bound: control calls that fail, or whose answer is lost
    MaxWakes    \* bound: times the parent is woken and suspended again

Kids == {Children[i] : i \in DOMAIN Children}

ASSUME RuntimesAssumption ==
    /\ Runtimes \subseteq {"MEMORY", "STATELESS", "local", "remote"}
    /\ MaxFaults \in Nat /\ MaxWakes \in Nat

(* A fork has at least one child, and every child a UID of its own.        *)
ASSUME ChildrenAssumption ==
    /\ Children \in Seq(Kids) /\ Children # <<>>
    /\ \A i, j \in DOMAIN Children : Children[i] = Children[j] => i = j

(* The snapshot the fork has taken of the parent, and what a tag holds     *)
(* whose copy is not complete: a number no snapshot has.                   *)
ForkSnapshot == 1
Pending == MaxWakes + 2

VARIABLES
    runtime,
    parent,     \* [state, snap]: the parent's actor and the snapshot it holds
    actor,      \* actor[c]: "none", "SUSPENDED" or "RUNNING"
    borrows,    \* borrows[c]: the actor still runs from its tag's copy
    tag,        \* tag[c]: 0 for none, the snapshot it copied, or Pending
    k,          \* the child being provisioned
    pc,         \* the next call of Placer.Fork and Backend.Fork
    todo,       \* the children to stop, the first one being stopped
    ctx,        \* whether the caller's context is "live" or "done"
    result,     \* what Fork returned: "none", "ok" or "error"
    faults,
    server,     \* local: the harness server is "off" or "up"
    conn,       \* remote: the Describe connection is "none" or "open"
    closed,     \* the backend was closed
    lost,       \* auxiliary: clones whose creation took effect with an error
    failed      \* auxiliary: a teardown call failed

acts == <<actor, borrows, tag>>
shared == <<server, conn, closed>>
vars == <<runtime, parent, acts, k, pc, todo, ctx, result, faults, shared, lost, failed>>

Child == Children[k]

FirstCall(r) ==
    CASE r = "MEMORY" -> "require" [] r = "STATELESS" -> "get"
      [] r = "local" -> "start"    [] r = "remote" -> "attach"

Init ==
    /\ runtime \in Runtimes
    /\ parent = [state |-> "SUSPENDED", snap |-> ForkSnapshot]
    /\ actor = [c \in Kids |-> "none"]
    /\ borrows = [c \in Kids |-> FALSE]
    /\ tag = [c \in Kids |-> 0]
    /\ k = 1 /\ pc = FirstCall(runtime) /\ todo = <<>>
    /\ ctx = "live" /\ result = "none" /\ faults = 0
    /\ server = "off" /\ conn = "none" /\ closed = FALSE
    /\ lost = {} /\ failed = FALSE

-----------------------------------------------------------------------------
(* Control calls, as their effect on what they name.                       *)

CreateActor(c, fromTag) ==
    /\ actor' = [actor EXCEPT ![c] = "SUSPENDED"]
    /\ borrows' = [borrows EXCEPT ![c] = fromTag]
    /\ UNCHANGED tag

ResumeActor(c) ==
    /\ actor' = [actor EXCEPT ![c] = "RUNNING"]
    /\ UNCHANGED <<borrows, tag>>

SuspendActor(c) ==
    /\ actor' = [actor EXCEPT ![c] = "SUSPENDED"]
    /\ borrows' = [borrows EXCEPT ![c] = @ /\ actor[c] # "RUNNING"]
    /\ UNCHANGED tag

DeleteActor(c) ==
    /\ actor' = [actor EXCEPT ![c] = "none"]
    /\ borrows' = [borrows EXCEPT ![c] = FALSE]
    /\ UNCHANGED tag

(* A tag that could not finish its copy stays pending.                     *)
TagActor(c, copied) ==
    /\ tag' = [tag EXCEPT ![c] = IF copied THEN parent.snap ELSE Pending]
    /\ UNCHANGED <<actor, borrows>>

DeleteTag(c) ==
    /\ tag' = [tag EXCEPT ![c] = 0]
    /\ UNCHANGED <<actor, borrows>>

Fault == faults < MaxFaults /\ faults' = faults + 1

-----------------------------------------------------------------------------
(* Backend.Fork and Placer.Fork.                                           *)

Goto(label) == pc' = label /\ UNCHANGED <<k, todo, result>>

Rest == UNCHANGED <<runtime, parent, ctx, shared>>

Quiet == UNCHANGED <<acts, faults, shared, lost, failed>>

(* The fork fails at this child: tear the child down, release its tag, or  *)
(* neither, and then stop the children provisioned before it.              *)
Provisioned == SubSeq(Children, 1, k - 1)

(* Only the substrate has something to stop: Stop of a local or a remote   *)
(* child does nothing, as its server or harness serves other sessions.     *)
StopChildren(cs) ==
    /\ IF cs = <<>> \/ runtime \in {"local", "remote"}
       THEN pc' = "done" /\ UNCHANGED todo
       ELSE pc' = "suspend" /\ todo' = cs
    /\ result' = "error" /\ UNCHANGED k

DestroyChild == StopChildren(<<Child>> \o Provisioned)

ReleaseForkTag == pc' = "release" /\ result' = "error" /\ UNCHANGED <<k, todo>>

(* A call of the fork fails: without effect, as it must once the caller's  *)
(* context is done, or with the effect and no answer.                      *)
CallFails == (ctx = "done" /\ UNCHANGED faults) \/ Fault

(* What GetActor says of the parent: its state and its latest complete     *)
(* snapshot, which a RUNNING actor still holds.                            *)
ActorInfo == [Status |-> parent.state, Snapshot |-> parent.snap]

(* requireSnapshot, before and after the tag.                              *)
RequireSnapshot ==
    LET refused == IF pc = "require" THEN StopChildren(Provisioned) ELSE ReleaseForkTag
    IN /\ pc \in {"require", "requireAgain"}
       /\ \/ /\ ctx = "live" /\ UNCHANGED faults
             /\ IF ActorInfo = [Status |-> "SUSPENDED", Snapshot |-> ForkSnapshot]
                THEN Goto(IF pc = "require" THEN "tag" ELSE "clone") ELSE refused
          \/ CallFails /\ refused
       /\ Rest /\ UNCHANGED <<acts, lost, failed>>

(* A parent that was woken has no snapshot to copy at that moment.         *)
Tag ==
    /\ pc = "tag"
    /\ \/ /\ ctx = "live" /\ parent.state = "SUSPENDED"
          /\ TagActor(Child, TRUE) /\ Goto("requireAgain") /\ UNCHANGED faults
       \/ /\ ctx = "live" /\ parent.state # "SUSPENDED"
          /\ UNCHANGED <<acts, faults>> /\ ReleaseForkTag
       \/ CallFails /\ UNCHANGED acts /\ ReleaseForkTag
       \/ Fault /\ ctx = "live" /\ TagActor(Child, FALSE) /\ ReleaseForkTag
    /\ Rest /\ UNCHANGED <<lost, failed>>

CreateActorFromTag ==
    /\ pc = "clone"
    /\ \/ /\ ctx = "live" /\ CreateActor(Child, TRUE)
          /\ Goto("resume") /\ UNCHANGED <<faults, lost>>
       \/ CallFails /\ ReleaseForkTag /\ UNCHANGED <<acts, lost>>
       \/ /\ Fault /\ ctx = "live" /\ CreateActor(Child, TRUE)
          /\ ReleaseForkTag /\ lost' = lost \cup {Child}
    /\ Rest /\ UNCHANGED failed

(* Backend.Create for a stateless child, whose actor GetActor does not     *)
(* find; any error tears the child down.                                   *)
GetActor ==
    /\ pc = "get"
    /\ \/ ctx = "live" /\ Goto("create") /\ UNCHANGED faults
       \/ CallFails /\ DestroyChild
    /\ Rest /\ UNCHANGED <<acts, lost, failed>>

Create ==
    /\ pc = "create"
    /\ \/ ctx = "live" /\ CreateActor(Child, FALSE) /\ Goto("resume") /\ UNCHANGED faults
       \/ CallFails /\ DestroyChild /\ UNCHANGED acts
       \/ Fault /\ ctx = "live" /\ CreateActor(Child, FALSE) /\ DestroyChild
    /\ Rest /\ UNCHANGED <<lost, failed>>

(* An actor that is not RUNNING after the call is an error as well.        *)
Resume ==
    /\ pc = "resume"
    /\ \/ ctx = "live" /\ ResumeActor(Child) /\ Goto("copy") /\ UNCHANGED faults
       \/ CallFails /\ DestroyChild /\ UNCHANGED acts
       \/ Fault /\ ctx = "live" /\ ResumeActor(Child) /\ DestroyChild
    /\ Rest /\ UNCHANGED <<lost, failed>>

(* The local start: the shared server, unless it is up.  The caller's      *)
(* context does not reach it.                                              *)
StartServer ==
    \/ server' = "up" /\ Goto("copy") /\ UNCHANGED faults
    \/ server = "off" /\ Fault /\ StopChildren(Provisioned) /\ UNCHANGED server

(* The local Fork is a Create for the child.                               *)
LocalFork ==
    /\ pc = "start" /\ StartServer
    /\ UNCHANGED <<runtime, parent, ctx, acts, conn, closed, lost, failed>>

(* The remote Fork provisions nothing.                                     *)
RemoteFork ==
    /\ pc = "attach" /\ Goto("copy")
    /\ Rest /\ UNCHANGED <<acts, faults, lost, failed>>

(* controller.Fork copies the log, or fails: this child is provisioned.    *)
CopyLog ==
    /\ pc = "copy"
    /\ \/ /\ UNCHANGED faults
          /\ IF k = Len(Children)
             THEN pc' = "done" /\ result' = "ok" /\ UNCHANGED <<k, todo>>
             ELSE k' = k + 1 /\ pc' = FirstCall(runtime) /\ UNCHANGED <<todo, result>>
       \/ Fault /\ StopChildren(Append(Provisioned, Child))
    /\ Rest /\ UNCHANGED <<acts, lost, failed>>

-----------------------------------------------------------------------------
(* Teardown: releaseForkTag, and Backend.Stop for each child.              *)

(* Mutant: teardown inherits the caller's context.                         *)
CleanupInherited == ctx

(* The context of a teardown is detached from the caller's.                *)
CleanupContext == "live"

(* A teardown call: it succeeds, is refused, by its context or by what it  *)
(* names, or fails, with its effect or without.                            *)
Teardown(accepted, effect, next, onError) ==
    \/ /\ IF CleanupContext = "live" /\ accepted THEN effect /\ next ELSE UNCHANGED acts /\ onError
       /\ UNCHANGED <<faults, failed>>
    \/ /\ Fault /\ failed' = TRUE
       /\ (accepted /\ effect) \/ UNCHANGED acts
       /\ onError

ReleaseTag ==
    LET next == StopChildren(Provisioned) IN
    /\ pc = "release"
    /\ Teardown(TRUE, DeleteTag(Child), next, next)
    /\ Rest /\ UNCHANGED lost

(* Stop's errors are ignored; it returns at the first one.                 *)
Stopped ==
    /\ todo' = Tail(todo) /\ pc' = IF Len(todo) = 1 THEN "done" ELSE "suspend"
    /\ UNCHANGED <<k, result>>

(* Mutant: the tag goes before the actor.                                  *)
StopOrderTagFirst(call) ==
    CASE call = "suspend" -> "untag" [] call = "untag" -> "delete" [] call = "delete" -> "stopped"

(* An actor that never suspended borrows from its tag, which goes last.    *)
StopOrder(call) ==
    CASE call = "suspend" -> "delete" [] call = "delete" -> "untag" [] call = "untag" -> "stopped"

StopNext == IF StopOrder(pc) = "stopped" THEN Stopped ELSE Goto(StopOrder(pc))

StopSuspend ==
    LET c == Head(todo) IN
    /\ pc = "suspend"
    /\ Teardown(actor[c] # "none", SuspendActor(c), StopNext, Stopped)
    /\ Rest /\ UNCHANGED lost

StopDelete ==
    LET c == Head(todo) IN
    /\ pc = "delete"
    /\ Teardown(actor[c] = "SUSPENDED", DeleteActor(c), StopNext, Stopped)
    /\ Rest /\ UNCHANGED lost

(* Ignored by Stop: a session that is no clone has no such tag.            *)
StopUntag ==
    LET c == Head(todo) IN
    /\ pc = "untag"
    /\ Teardown(TRUE, DeleteTag(c), StopNext, StopNext)
    /\ Rest /\ UNCHANGED lost

-----------------------------------------------------------------------------
(* Around the fork.                                                        *)

ContextEnds ==
    /\ ctx = "live" /\ pc # "done"
    /\ ctx' = "done"
    /\ UNCHANGED <<runtime, parent, k, pc, todo, result>> /\ Quiet

(* Another host wakes the parent, and suspends it with a new snapshot.     *)
ParentMoves ==
    /\ parent.snap <= MaxWakes
    /\ parent' = IF parent.state = "SUSPENDED" THEN [parent EXCEPT !.state = "RUNNING"]
                 ELSE [state |-> "SUSPENDED", snap |-> parent.snap + 1]
    /\ UNCHANGED <<runtime, k, pc, todo, ctx, result>> /\ Quiet

(* A child of a fork that succeeded is suspended and resumed (Snapshot,    *)
(* Restore, Create): in the substrate as an actor; locally, where Snapshot *)
(* only names the session, by a Create that finds the server up or starts  *)
(* it.  The remote runtime keeps nothing of its children.                  *)
ActorLives(c) ==
    /\ runtime \in {"MEMORY", "STATELESS"}
    /\ IF actor[c] = "RUNNING" THEN SuspendActor(c) ELSE ResumeActor(c)
    /\ UNCHANGED shared

LocalRestore ==
    /\ runtime = "local" /\ ~closed
    /\ server' = "up" /\ UNCHANGED <<acts, conn, closed>>

ChildLives(c) ==
    /\ result = "ok"
    /\ ActorLives(c) \/ LocalRestore
    /\ UNCHANGED <<runtime, parent, k, pc, todo, ctx, result, faults, lost, failed>>

(* connect: a closed backend stays closed.                                 *)
Connectable == ~closed

(* The remote Describe, of this or of any other call, at any time.         *)
Describe ==
    /\ runtime = "remote"
    /\ conn' = IF Connectable THEN "open" ELSE conn
    /\ UNCHANGED <<runtime, parent, k, pc, todo, ctx, result, acts, faults,
                   server, closed, lost, failed>>

(* Close.  Its owner drains the calls first; a remote Describe may still   *)
(* be under way, or come later.                                            *)
CloseBackend ==
    /\ ~closed /\ \/ runtime = "remote"
                  \/ runtime = "local" /\ pc = "done"
    /\ closed' = TRUE /\ server' = "off" /\ conn' = "none"
    /\ UNCHANGED <<runtime, parent, k, pc, todo, ctx, result, acts, faults, lost, failed>>

ForkStep ==
    \/ RequireSnapshot \/ Tag \/ CreateActorFromTag \/ GetActor \/ Create \/ Resume
    \/ LocalFork \/ RemoteFork \/ CopyLog
    \/ ReleaseTag \/ StopSuspend \/ StopDelete \/ StopUntag

Next ==
    \/ ForkStep \/ ContextEnds \/ ParentMoves \/ Describe \/ CloseBackend
    \/ \E c \in Kids : ChildLives(c)

Spec == Init /\ [][Next]_vars

-----------------------------------------------------------------------------
(* A fork that fails leaves no actor and no tag behind, wherever it failed *)
(* and although the caller is gone, as long as the teardown calls succeed. *)
(* The one exception is the actor of a CreateActorFromTag whose answer was *)
(* lost: Backend.Fork then releases only the tag.  And a backend that was  *)
(* closed has no server and no connection left, or opened again by a       *)
(* Describe that came after (local and remote Close).                      *)
NothingIsStranded ==
    /\ pc = "done" /\ result = "error" /\ ~failed =>
           \A c \in Kids : tag[c] = 0 /\ (actor[c] = "none" \/ c \in lost)
    /\ closed => server = "off" /\ conn = "none"

(* An actor that still borrows its snapshot has the tag that owns it, and  *)
(* what the tag copied is the snapshot of this fork, whatever happens to   *)
(* the parent between the checks and in whatever order the teardown goes   *)
(* (requireSnapshot, Stop); that same lost creation apart.                 *)
ClonesHaveTheirSnapshot ==
    \A c \in Kids \ lost : borrows[c] => tag[c] = ForkSnapshot
=============================================================================
