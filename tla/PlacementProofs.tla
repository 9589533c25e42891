-------------------------- MODULE PlacementProofs ---------------------------
(***************************************************************************)
(* Theorems about Placement, for any set of calls and hosts, either tier,  *)
(* every fan-out and every bound.                                          *)
(*                                                                         *)
(* The invariant comes in layers, each proved with the ones it needs: what *)
(* a call remembers at each of its steps; who has guard and mark, who may  *)
(* write, what a fork's children have, what a fork has superseded, what    *)
(* the calls know of an approval, and what one Registry alone guarantees.  *)
(* What each step changes, field by field, is stated once for all of them, *)
(* and cited in the place of the actions' definitions.  Each layer has an  *)
(* operator that sums up one step of a call as far as the layer cares, a   *)
(* lemma that every step is such a step, and a lemma that such a step      *)
(* keeps the layer.                                                        *)
(***************************************************************************)
EXTENDS Placement, LogOpsProofs, Integers, SequenceTheorems, FiniteSetTheorems, TLAPS

-----------------------------------------------------------------------------
(* What a call remembers *)

Turns == {"Exec", "Resume", "CheckedResume"}

Fencing == {"fenceMark", "fenceMint", "fenceHead"}

(* A turn at one of these has its connection open.                         *)
Streaming ==
    {"check", "start", "redrive", "run", "request", "marker", "mark", "handoff", "close"}

(* The steps of a fork that only a memory harness takes.                   *)
Checkpointing ==
    {"begin", "forkFence", "forkHead", "end", "wait", "checkpoint", "forkRecord"}

Cloning == {"require", "tag", "require2", "child", "copy"}

PCs ==
    {"idle", "inspect", "repair", "gate", "create", "open", "snapshot", "record", "scan",
     "decide", "delete", "abort", "rollback", "unwind", "done"}
    \union Fencing \union Streaming \union Checkpointing \union Cloning

OpType ==
    [kind : OpKinds \union {"none"}, pc : PCs, at : Nat, head : Nat, fence : Nat,
     then : {"none", "repair", "create", "check", "record", "decide", "end", "checkpoint"},
     live : BOOLEAN, superseded : BOOLEAN, ended : BOOLEAN, minted : BOOLEAN,
     late : BOOLEAN, open : SUBSET Ops, snap : Nat, tag : Nat, kids : Seq(Nat),
     result : {"none", "ok", "busy", "pending", "parked", "crashed"}]

GuardType == [operation : BOOLEAN, readers : Int, deleting : BOOLEAN]

Types ==
    /\ store \in Store
    /\ actor \in [state : ComputeState, snap : Nat]
    /\ image \in Seq(SUBSET Nat)
    /\ guard \in [Hosts -> GuardType]
    /\ mark \in [Hosts -> Ops \union {None}]
    /\ op \in [Ops -> OpType]
    /\ crashes \in 0 .. MaxCrashes

(* Which operation is at which step.                                       *)
KindInv(r) ==
    /\ r.pc = "idle" => r = [IdleOp EXCEPT !.ended = r.ended]
    /\ r.pc # "idle" => r.kind \in OpKinds
    /\ r.pc = "inspect" => r.kind \in Turns \union {"Suspend", "Fork"}
    /\ r.pc \in {"gate", "create", "open", "check", "run", "request", "handoff", "close"}
          => r.kind \in Turns
    /\ r.pc = "start" => r.kind = "Exec"
    /\ r.pc \in {"redrive", "marker", "repair"} => r.kind \in Resumes
    /\ r.pc \in {"fenceMark", "fenceHead"} => r.kind = "CheckedResume"
    /\ r.pc \in {"mark", "fenceMint"} => r.kind \in Turns \union {"Suspend", "Approve"}
    /\ r.pc \in {"snapshot", "record"} => r.kind \in Turns \union {"Suspend"}
    /\ r.pc \in {"scan", "decide"} => r.kind = "Approve"
    /\ r.pc = "delete" => r.kind = "Delete"
    /\ r.pc \in Checkpointing \union Cloning \union {"abort", "rollback"} => r.kind = "Fork"
    /\ r.pc \in Checkpointing \union {"require", "tag", "require2"} => Tier = "MEMORY"

(* Where a fence or a checked head returns to.                             *)
ThenInv(r) ==
    /\ r.pc \in Fencing =>
          r.then \in CASE r.kind = "Exec" -> {"check"}
                       [] r.kind = "Resume" -> {"repair", "check"}
                       [] r.kind = "CheckedResume" -> {"repair", "create", "check"}
                       [] r.kind = "Suspend" -> {"record"}
                       [] OTHER -> {"decide"}
    /\ r.pc \in {"forkFence", "forkHead"} => r.then \in {"end", "checkpoint"}
    /\ r.pc = "repair" => r.then = "repair"

(* The connection of a call, and its one fence under it.                   *)
LiveInv(r) ==
    /\ r.live => /\ r.kind \in Turns
                 /\ r.pc \in Streaming \union {"unwind"} \/ (r.pc \in Fencing /\ r.then = "check")
    /\ r.kind \in Turns /\ r.pc \in Streaming => r.live
    /\ r.pc \in Fencing /\ r.then = "check" => r.live
    /\ r.superseded => r.live
    /\ r.minted /\ r.kind \in Turns => r.pc \in Streaming \union {"snapshot", "record", "unwind",
          "done"}
    /\ r.late => \/ r.pc \in {"fenceHead", "check"} /\ r.then = "check" /\ r.superseded
                 \/ r.pc \in {"unwind", "done"}

KidsInv(r) ==
    /\ r.kids # <<>> => r.kind = "Fork"
    /\ r.pc \in Checkpointing \union {"inspect"} => r.kids = <<>>
    /\ r.pc \in Cloning \ {"copy"} => Len(r.kids) < Fanout
    /\ Len(r.kids) <= Fanout

(* Past its mint a call has a fence.                                       *)
FencedInv(r) ==
    r.fence = 0 =>
        /\ r.pc \notin {"fenceHead", "repair", "decide", "record"} \union (Streaming \ {"mark"})
        /\ r.pc \notin Checkpointing \ {"begin", "forkFence"}
        /\ r.pc = "forkFence" => r.then = "end"
        /\ r.pc \in {"mark", "snapshot"} => r.kind \notin Turns

Good(r) ==
    r \in OpType /\ KindInv(r) /\ ThenInv(r) /\ LiveInv(r) /\ KidsInv(r) /\ FencedInv(r)

Within(r) ==
    /\ r.at <= HeadSeq(store)
    /\ r.head <= HeadSeq(store)
    /\ r.fence <= store.fence
    /\ r.snap <= Len(image)
    /\ r.tag <= Len(image)

ShapeInv ==
    /\ Types
    /\ actor.snap = Len(image)
    /\ \A o \in Ops : Good(op[o]) /\ Within(op[o])

-----------------------------------------------------------------------------
(* The shape of a call *)

(* The globals only grow, so what was within them stays within.            *)
Grows ==
    /\ store' \in Store /\ HeadSeq(store) <= HeadSeq(store') /\ store.fence <= store'.fence
    /\ actor' \in [state : ComputeState, snap : Nat]
    /\ image' \in Seq(SUBSET Nat) /\ Len(image) <= Len(image') /\ actor'.snap = Len(image')
    /\ guard' \in [Hosts -> GuardType]
    /\ mark' \in [Hosts -> Ops \union {None}]
    /\ crashes' \in 0 .. MaxCrashes

(* Numbers that the bounds compare.                                        *)
LEMMA Numbers ==
    ASSUME ShapeInv
    PROVE  /\ HeadSeq(store) \in Nat /\ store.fence \in Nat /\ Len(image) \in Nat
           /\ \A o \in Ops : /\ op[o] \in OpType
                             /\ op[o].at \in Nat /\ op[o].head \in Nat /\ op[o].fence \in Nat
                             /\ op[o].snap \in Nat /\ op[o].tag \in Nat
<1>1. store.recs \in Seq(Record) /\ store.fence \in Nat
    BY DEF ShapeInv, Types, Store
<1>2. \A o \in Ops : op[o] \in OpType
    BY DEF ShapeInv, Good
<1>3. \A r \in OpType : r.at \in Nat /\ r.head \in Nat /\ r.fence \in Nat /\ r.snap \in Nat /\ r.tag \in Nat
    BY DEF OpType
<1>4. Len(image) \in Nat
    BY DEF ShapeInv, Types
<1> QED
    BY <1>1, <1>2, <1>3, <1>4 DEF HeadSeq

(* What was within the bounds stays within them.                           *)
LEMMA StaysWithin ==
    ASSUME ShapeInv, Grows, NEW o \in Ops, NEW r, r \in OpType, Within(r)
    PROVE  Within(r)'
<1>1. /\ HeadSeq(store) \in Nat /\ store.fence \in Nat /\ Len(image) \in Nat
    BY Numbers
<1>2. r.at \in Nat /\ r.head \in Nat /\ r.fence \in Nat /\ r.snap \in Nat /\ r.tag \in Nat
    BY DEF OpType
<1>3. store'.recs \in Seq(Record) /\ store'.fence \in Nat /\ image' \in Seq(SUBSET Nat)
    BY DEF Grows, Store
<1>4. HeadSeq(store') \in Nat /\ Len(image') \in Nat
    BY <1>3 DEF HeadSeq
<1>5. /\ HeadSeq(store) <= HeadSeq(store') /\ store.fence <= store'.fence
      /\ Len(image) <= Len(image')
    BY DEF Grows
<1>6. /\ r.at <= HeadSeq(store') /\ r.head <= HeadSeq(store') /\ r.fence <= store'.fence
      /\ r.snap <= Len(image') /\ r.tag <= Len(image')
    <2>1. \A a, b, c \in Nat : a <= b /\ b <= c => a <= c
        OBVIOUS
    <2>2. /\ r.at <= HeadSeq(store) /\ r.head <= HeadSeq(store) /\ r.fence <= store.fence
          /\ r.snap <= Len(image) /\ r.tag <= Len(image)
        BY DEF Within
    <2> QED
        BY <1>1, <1>2, <1>3, <1>4, <1>5, <2>1, <2>2
<1> QED
    BY <1>6 DEF Within

(* A step that changes one call.                                           *)
LEMMA OwnShape ==
    ASSUME ShapeInv, Grows, NEW o \in Ops, NEW r, op' = [op EXCEPT ![o] = r],
           Good(r), Within(r)'
    PROVE  ShapeInv'
<1>1. op \in [Ops -> OpType] /\ r \in OpType
    BY DEF ShapeInv, Types, Good
<1>2. op' \in [Ops -> OpType] /\ op'[o] = r /\ \A t \in Ops \ {o} : op'[t] = op[t]
    BY <1>1
<1>3. Types'
    BY <1>2 DEF Grows, Types
<1>4. ASSUME NEW t \in Ops PROVE Good(op[t])' /\ Within(op[t])'
    <2>1. CASE t = o
        BY <2>1, <1>2 DEF Good, Within, KindInv, ThenInv, LiveInv, KidsInv, FencedInv
    <2>2. CASE t # o
        <3>1. op'[t] = op[t]
            BY <1>2, <2>2
        <3>2. Good(op[t]) /\ Within(op[t])
            BY DEF ShapeInv
        <3>3. op[t] \in OpType
            BY <1>1
        <3>5. Good(op[t])'
            BY <3>1, <3>2 DEF Good, Within, KindInv, ThenInv, LiveInv, KidsInv, FencedInv
        <3>6. PICK q : q = op[t]
            OBVIOUS
        <3>7. Within(q)'
            BY <3>2, <3>3, <3>6, StaysWithin
        <3> QED
            BY <3>1, <3>5, <3>6, <3>7 DEF Within
    <2> QED
        BY <2>1, <2>2
<1>5. actor'.snap = Len(image')
    BY DEF Grows
<1> QED
    BY <1>3, <1>4, <1>5 DEF ShapeInv

(* A call that keeps its numbers but for head and tag.                     *)
Keeps(o, r) ==
    /\ r.at = op[o].at /\ r.fence = op[o].fence /\ r.snap = op[o].snap
    /\ r.head <= HeadSeq(store) /\ r.tag <= Len(image)

(* A step that changes nothing but one call and perhaps its holds, and     *)
(* raises none of the call's numbers but head and tag.                     *)
LEMMA QuietShape ==
    ASSUME ShapeInv, NEW o \in Ops, NEW r, op' = [op EXCEPT ![o] = r], Good(r), Keeps(o, r),
           UNCHANGED <<store, actor, image, crashes>>,
           guard' \in [Hosts -> GuardType], mark' \in [Hosts -> Ops \union {None}]
    PROVE  ShapeInv'
<1>1. Grows
    BY Numbers DEF Grows, ShapeInv, Types
<1>2. Within(r)
    BY DEF Within, ShapeInv, Keeps
<1>3. Within(r)'
    BY <1>2 DEF Within
<1> QED
    BY <1>1, <1>3, OwnShape

(* A step that moves one call and changes nothing else.                    *)
LEMMA GotoKeeps ==
    ASSUME ShapeInv, NEW o \in Ops, NEW p
    PROVE  Keeps(o, [op[o] EXCEPT !.pc = p])
<1>1. op[o] \in OpType /\ Within(op[o])
    BY DEF ShapeInv, Good
<1>2. \A r \in OpType : LET q == [r EXCEPT !.pc = p] IN
        /\ q.at = r.at /\ q.fence = r.fence /\ q.snap = r.snap
        /\ q.head = r.head /\ q.tag = r.tag
    BY DEF OpType
<1> QED
    BY <1>1, <1>2 DEF Within, Keeps

(* A call that only moves keeps the shape of all.                          *)
LEMMA GotoShape ==
    ASSUME ShapeInv, NEW o \in Ops, NEW p, op' = [op EXCEPT ![o] = [op[o] EXCEPT !.pc = p]],
           Good([op[o] EXCEPT !.pc = p]), OpOnly
    PROVE  ShapeInv'
<1>1. UNCHANGED <<store, actor, image, crashes>>
    BY DEF OpOnly
<1>2. guard' \in [Hosts -> GuardType] /\ mark' \in [Hosts -> Ops \union {None}]
    BY DEF OpOnly, ShapeInv, Types
<1> QED
    BY <1>1, <1>2, GotoKeeps, QuietShape

(* A fork has a child to make.                                             *)
LEMMA FanoutPositive == Fanout \in Nat /\ 0 < Fanout /\ Len(<<>>) = 0
BY PlacementAssumption

(* Every call in progress may return.                                      *)
LEMMA UnwindGood ==
    ASSUME NEW q, Good(q), q.pc # "idle"
    PROVE  Good([q EXCEPT !.pc = "unwind"])
BY DEF Good, OpType, KindInv, ThenInv, LiveInv, KidsInv, FencedInv,
           PCs, Fencing, Streaming, Checkpointing, Cloning, Turns, Resumes, OpKinds

(* The steps that only move their call.                                    *)
LEMMA GotoStepsShape ==
    ASSUME ShapeInv, NEW o \in Ops,
           \/ ExecInspect(o) \/ CheckSuperseded(o) \/ SuspendInspect(o) \/ ForkInspect(o)
           \/ ForkHead(o) \/ RequireSnapshot(o) \/ StopTurn(o)
    PROVE  ShapeInv'
<1>0. Good(op[o])
    BY DEF ShapeInv
<1>1. CASE ExecInspect(o)
    <2>1. PICK p \in {"gate", "unwind"} :
            /\ op' = [op EXCEPT ![o] = [op[o] EXCEPT !.pc = p]]
            /\ op[o].pc = "inspect" /\ op[o].kind = "Exec"
        BY <1>1 DEF ExecInspect, Goto, Become, Fail, At, Is
    <2>2. ASSUME p # "unwind" PROVE Good([op[o] EXCEPT !.pc = p])
        BY SMTT(30), <1>0, <2>1, <2>2 DEF Good, OpType, KindInv, ThenInv, LiveInv, KidsInv, FencedInv,
           PCs, Fencing, Streaming, Checkpointing, Cloning, Turns, Resumes, OpKinds
    <2> QED
        BY <1>0, <1>1, <2>1, <2>2, GotoShape, UnwindGood DEF ExecInspect
<1>2. CASE CheckSuperseded(o)
    <2>1. PICK p \in {"start", "redrive", "unwind"} :
            /\ op' = [op EXCEPT ![o] = [op[o] EXCEPT !.pc = p]]
            /\ op[o].pc = "check"
            /\ p = "start" => op[o].kind = "Exec"
            /\ p = "redrive" => op[o].kind # "Exec"
            /\ p # "unwind" => ~op[o].superseded
        BY <1>2 DEF CheckSuperseded, Goto, Become, Fail, At, Is
    <2>2. ASSUME p # "unwind" PROVE Good([op[o] EXCEPT !.pc = p])
        BY SMTT(30), <1>0, <2>1, <2>2 DEF Good, OpType, KindInv, ThenInv, LiveInv, KidsInv, FencedInv,
           PCs, Fencing, Streaming, Checkpointing, Cloning, Turns, Resumes, OpKinds
    <2> QED
        BY <1>0, <1>2, <2>1, <2>2, GotoShape, UnwindGood DEF CheckSuperseded
<1>3. CASE SuspendInspect(o)
    <2>1. PICK p \in {"mark", "unwind"} :
            /\ op' = [op EXCEPT ![o] = [op[o] EXCEPT !.pc = p]]
            /\ op[o].pc = "inspect" /\ op[o].kind = "Suspend"
        BY <1>3 DEF SuspendInspect, Goto, Become, Fail, At, Is
    <2>2. ASSUME p # "unwind" PROVE Good([op[o] EXCEPT !.pc = p])
        BY SMTT(30), <1>0, <2>1, <2>2 DEF Good, OpType, KindInv, ThenInv, LiveInv, KidsInv, FencedInv,
           PCs, Fencing, Streaming, Checkpointing, Cloning, Turns, Resumes, OpKinds
    <2> QED
        BY <1>0, <1>3, <2>1, <2>2, GotoShape, UnwindGood DEF SuspendInspect
<1>4. CASE ForkInspect(o)
    <2>1. PICK p \in {"child", "begin", "unwind"} :
            /\ op' = [op EXCEPT ![o] = [op[o] EXCEPT !.pc = p]]
            /\ op[o].pc = "inspect" /\ op[o].kind = "Fork"
            /\ p = "begin" => Tier = "MEMORY"
        BY <1>4 DEF ForkInspect, Goto, Become, Fail, At, Is
    <2>2. ASSUME p # "unwind" PROVE Good([op[o] EXCEPT !.pc = p])
        BY <1>0, <2>1, <2>2, FanoutPositive DEF Good, OpType, KindInv, ThenInv, LiveInv, KidsInv,
           FencedInv,
           PCs, Fencing, Streaming, Checkpointing, Cloning, Turns, Resumes, OpKinds
    <2> QED
        BY <1>0, <1>4, <2>1, <2>2, GotoShape, UnwindGood DEF ForkInspect
<1>5. CASE ForkHead(o)
    <2>1. PICK p \in {op[o].then, "unwind"} :
            /\ op' = [op EXCEPT ![o] = [op[o] EXCEPT !.pc = p]]
            /\ op[o].pc = "forkHead"
        BY <1>5 DEF ForkHead, Goto, Become, Fail, At, Is
    <2>2. ASSUME p # "unwind" PROVE Good([op[o] EXCEPT !.pc = p])
        BY SMTT(30), <1>0, <2>1, <2>2 DEF Good, OpType, KindInv, ThenInv, LiveInv, KidsInv, FencedInv,
           PCs, Fencing, Streaming, Checkpointing, Cloning, Turns, Resumes, OpKinds
    <2> QED
        BY <1>0, <1>5, <2>1, <2>2, GotoShape, UnwindGood DEF ForkHead
<1>6. CASE RequireSnapshot(o)
    <2>1. PICK p \in {"abort", "tag", "child"} :
            /\ op' = [op EXCEPT ![o] = [op[o] EXCEPT !.pc = p]]
            /\ op[o].pc \in {"require", "require2"}
        BY <1>6 DEF RequireSnapshot, Goto, Become, Fail, At, Is
    <2>2. ASSUME p # "unwind" PROVE Good([op[o] EXCEPT !.pc = p])
        BY <1>0, <2>1, <2>2 DEF Good, OpType, KindInv, ThenInv, LiveInv, KidsInv, FencedInv,
           PCs, Fencing, Streaming, Checkpointing, Cloning, Turns, Resumes, OpKinds
    <2> QED
        BY <1>0, <1>6, <2>1, <2>2, GotoShape, UnwindGood DEF RequireSnapshot
<1>7. CASE StopTurn(o)
    <2>1. PICK p \in {"unwind"} :
            /\ op' = [op EXCEPT ![o] = [op[o] EXCEPT !.pc = p]]
            /\ op[o].pc = "run"
        BY <1>7 DEF StopTurn, Goto, Become, Fail, At, Is
    <2>2. ASSUME p # "unwind" PROVE Good([op[o] EXCEPT !.pc = p])
        BY <1>0, <2>1, <2>2 DEF Good, OpType, KindInv, ThenInv, LiveInv, KidsInv, FencedInv,
           PCs, Fencing, Streaming, Checkpointing, Cloning, Turns, Resumes, OpKinds
    <2> QED
        BY <1>0, <1>7, <2>1, <2>2, GotoShape, UnwindGood DEF StopTurn
<1> QED
    BY <1>1, <1>2, <1>3, <1>4, <1>5, <1>6, <1>7

(* An append is refused and ends the call, or is accepted at the head.     *)
Refused(o) == UNCHANGED store /\ op' = [op EXCEPT ![o] = [op[o] EXCEPT !.pc = "unwind"]]

Accepted(o, kind) ==
    /\ CheckWritable(store)
    /\ ~(op[o].fence < store.fence)
    /\ store' = AppendTo(store, op[o].fence, kind)

(* An append is refused and ends the call, or is accepted at its head.     *)
LEMMA AppendCases ==
    ASSUME NEW o \in Ops, NEW expected, NEW kind, NEW r, AppendAt(o, expected, kind, r)
    PROVE  /\ LogOnly
           /\ \/ Refused(o)
              \/ Accepted(o, kind) /\ expected = HeadSeq(store) /\ op' = [op EXCEPT ![o] = r]
BY DEF AppendAt, AppendOutcome, Refused, Accepted, Fail, Goto, Become

(* An accepted append adds its record and changes no fence.                *)
LEMMA AcceptedGrows ==
    ASSUME ShapeInv, NEW o \in Ops, NEW kind \in EventKind, Accepted(o, kind)
    PROVE  /\ store' \in Store
           /\ store'.recs = Append(store.recs, [kind |-> kind, fence |-> op[o].fence])
           /\ store'.fence = store.fence /\ op[o].fence = store.fence
           /\ store'.deletion = "ACTIVE"
           /\ HeadSeq(store') = HeadSeq(store) + 1
<1>1. store \in Store /\ store.recs \in Seq(Record)
    BY DEF ShapeInv, Types, Store
<1>2. op[o].fence \in Nat /\ store.fence \in Nat /\ op[o].fence <= store.fence
    BY Numbers DEF ShapeInv, Within
<1>3. op[o].fence = store.fence
    BY <1>2 DEF Accepted
<1>4. /\ store' \in Store
      /\ store'.recs = Append(store.recs, [kind |-> kind, fence |-> op[o].fence])
      /\ store'.fence = store.fence /\ store'.deletion = "ACTIVE"
    BY <1>1, <1>2, AppendToEffect DEF Accepted
<1>5. HeadSeq(store') = HeadSeq(store) + 1
    BY <1>1, <1>4 DEF HeadSeq
<1> QED
    BY <1>3, <1>4, <1>5

(* An append keeps the shape when the call after it is a good one.         *)
LEMMA AppendShape ==
    ASSUME ShapeInv, NEW o \in Ops, NEW expected, NEW kind \in EventKind, NEW r,
           AppendAt(o, expected, kind, r), op[o].pc # "idle", Good(r),
           r.at = op[o].at, r.fence = op[o].fence, r.snap = op[o].snap,
           r.head = op[o].head, r.tag = op[o].tag
    PROVE  ShapeInv'
<1>1. LogOnly
    BY AppendCases
<1>2. CASE Refused(o)
    <2>1. Good([op[o] EXCEPT !.pc = "unwind"])
        BY UnwindGood DEF ShapeInv
    <2> QED
        BY <1>1, <1>2, <2>1, GotoShape DEF Refused, LogOnly, OpOnly
<1>3. CASE Accepted(o, kind) /\ op' = [op EXCEPT ![o] = r]
    <2>1. Grows
        <3>1. store' \in Store /\ store'.fence = store.fence /\ HeadSeq(store') = HeadSeq(store) + 1
            BY <1>3, AcceptedGrows
        <3> QED
            BY <1>1, <3>1, Numbers DEF Grows, LogOnly, ShapeInv, Types
    <2>2. Within(r)
        BY DEF Within, ShapeInv
    <2>3. r \in OpType
        BY DEF Good
    <2>4. Within(r)'
        BY <2>1, <2>2, <2>3, StaysWithin
    <2> QED
        BY <1>3, <2>1, <2>4, OwnShape
<1> QED
    BY <1>2, <1>3, AppendCases

(* What every step of a turn does: it moves the call on or ends it, and    *)
(* appends at most one record.                                             *)
TurnPCs == {"start", "redrive", "run", "request", "marker"}

TurnKindsWritten == TurnKinds \union {"APPROVAL_REQUEST", "RESUME"}

Moved(o, p, result) == [op[o] EXCEPT !.pc = p, !.result = result]

TurnMove(o, p, result) ==
    /\ op[o].pc \in TurnPCs
    /\ p \in {"run", "request", "marker", "mark", "unwind"}
    /\ result \in {op[o].result, "ok"}
    /\ p = "marker" => op[o].kind # "Exec"
    /\ op' = [op EXCEPT ![o] = Moved(o, p, result)]
    /\ \/ UNCHANGED store
       \/ \E kind \in TurnKindsWritten :
            Accepted(o, kind) /\ (kind = "TOOL_CALL" => Tier = "STATELESS")
    /\ LogOnly

(* The same call, moved, in the one form.                                  *)
LEMMA MovedForms ==
    ASSUME ShapeInv, NEW o \in Ops
    PROVE  /\ \A p : [op[o] EXCEPT !.pc = p] = Moved(o, p, op[o].result)
           /\ op[o] = Moved(o, op[o].pc, op[o].result)
<1>1. op[o] \in OpType
    BY Numbers
<1> QED
    BY <1>1 DEF OpType, Moved

(* An append of a turn is a move of the turn.                              *)
LEMMA TurnAppend ==
    ASSUME ShapeInv, NEW o \in Ops, op[o].pc \in TurnPCs, NEW expected,
           NEW kind \in TurnKindsWritten, kind = "TOOL_CALL" => Tier = "STATELESS",
           NEW p \in {"run", "request", "marker", "mark", "unwind"},
           NEW result \in {op[o].result, "ok"}, p = "marker" => op[o].kind # "Exec",
           AppendAt(o, expected, kind, Moved(o, p, result))
    PROVE  \E q, res : TurnMove(o, q, res)
<1>1. LogOnly
    BY AppendCases
<1>2. CASE Refused(o)
    <2>1. TurnMove(o, "unwind", op[o].result)
        BY <1>1, <1>2, MovedForms DEF TurnMove, Refused
    <2> QED
        BY <2>1
<1>3. CASE Accepted(o, kind) /\ op' = [op EXCEPT ![o] = Moved(o, p, result)]
    <2>1. TurnMove(o, p, result)
        BY <1>1, <1>3 DEF TurnMove
    <2> QED
        BY <2>1
<1> QED
    BY <1>2, <1>3, AppendCases

(* A turn that moves without writing.                                      *)
LEMMA TurnGoto ==
    ASSUME ShapeInv, NEW o \in Ops, op[o].pc \in TurnPCs,
           NEW p \in {"run", "marker", "mark", "unwind"}, p = "marker" => op[o].kind # "Exec",
           Goto(o, p), OpOnly
    PROVE  \E q, res : TurnMove(o, q, res)
<1>1. TurnMove(o, p, op[o].result)
    BY MovedForms DEF TurnMove, Goto, Become, OpOnly, LogOnly
<1> QED
    BY <1>1

(* Every step of a turn is such a move.                                    *)
LEMMA TurnStepMoves ==
    ASSUME ShapeInv, NEW o \in Ops, TurnStep(o)
    PROVE  \E p, result : TurnMove(o, p, result)
<1> DEFINE Goal == \E p, result : TurnMove(o, p, result)
<1> USE DEF TurnPCs, At
<1>0. /\ op[o].result \in {op[o].result, "ok"} /\ "ok" \in {op[o].result, "ok"}
      /\ {"EXECUTION_START", "APPROVAL_REQUEST", "OUTPUT", "TOOL_RESULT", "TOOL_CALL", "END",
           "ERROR", "RESUME"} \subseteq TurnKindsWritten
    BY DEF TurnKindsWritten, TurnKinds
<1> HIDE DEF Goal
<1>1. CASE StartTurn(o)
    <2>1. CASE Fail(o) /\ OpOnly
        BY <1>1, <2>1, TurnGoto DEF StartTurn, Fail, Goal
    <2>2. CASE AppendAt(o, op[o].at, "EXECUTION_START", [op[o] EXCEPT !.pc = "run"])
        <3>1. AppendAt(o, op[o].at, "EXECUTION_START", Moved(o, "run", op[o].result))
            BY <2>2, MovedForms
        <3> QED
            BY <1>1, <1>0, <3>1, TurnAppend DEF StartTurn, Goal
    <2> QED
        BY <1>1, <2>1, <2>2 DEF StartTurn
<1>2. CASE Effect(o)
    <2>1. op[o].pc = "run"
        BY <1>2 DEF Effect
    <2>2. AppendAt(o, HeadSeq(store), "OUTPUT", Moved(o, "run", op[o].result))
        BY <1>2, <2>1, MovedForms DEF Effect, Moved
    <2> QED
        BY <1>0, <2>1, <2>2, TurnAppend DEF Goal
<1>3. CASE CompleteApproval(o)
    <2>1. op[o].pc = "run"
        BY <1>3 DEF CompleteApproval
    <2>2. AppendAt(o, HeadSeq(store), "TOOL_RESULT", Moved(o, "run", op[o].result))
        BY <1>3, <2>1, MovedForms DEF CompleteApproval, Moved
    <2> QED
        BY <1>0, <2>1, <2>2, TurnAppend DEF Goal
<1>4. CASE ParkCall(o)
    <2>1. op[o].pc = "run" /\ Tier = "STATELESS"
        BY <1>4 DEF ParkCall
    <2>2. AppendAt(o, HeadSeq(store), "TOOL_CALL", Moved(o, "request", op[o].result))
        BY <1>4, <2>1, MovedForms DEF ParkCall, Moved
    <2> QED
        BY <1>0, <2>1, <2>2, TurnAppend DEF Goal
<1>5. CASE ParkRequest(o)
    <2>1. op[o].pc = "request"
        BY <1>5 DEF ParkRequest
    <2>2. AppendAt(o, HeadSeq(store), "APPROVAL_REQUEST", Moved(o, "mark", op[o].result))
        BY <1>5, <2>1, MovedForms DEF ParkRequest, Moved
    <2> QED
        BY <1>0, <2>1, <2>2, TurnAppend DEF Goal
<1>6. CASE FailTurn(o)
    <2>1. op[o].pc = "run"
        BY <1>6 DEF FailTurn
    <2>2. AppendAt(o, HeadSeq(store), "ERROR", Moved(o, "unwind", op[o].result))
        BY <1>6, <2>1, MovedForms DEF FailTurn, Moved
    <2> QED
        BY <1>0, <2>1, <2>2, TurnAppend DEF Goal
<1>7. CASE ResumeMarker(o)
    <2>1. op[o].pc = "marker"
        BY <1>7 DEF ResumeMarker
    <2>2. AppendAt(o, HeadSeq(store), "RESUME", Moved(o, "unwind", "ok"))
        BY <1>7, <2>1, MovedForms DEF ResumeMarker, Moved
    <2> QED
        BY <1>0, <2>1, <2>2, TurnAppend DEF Goal
<1>8. CASE StopTurn(o)
    BY <1>8, TurnGoto DEF StopTurn, Fail, Goal
<1>9. CASE EndTurn(o)
    <2>1. op[o].pc = "run"
        BY <1>9 DEF EndTurn
    <2>2. CASE op[o].kind = "Exec"
        <3>1. AppendAt(o, HeadSeq(store), "END", Moved(o, "unwind", "ok"))
            BY <1>9, <2>2 DEF EndTurn, Is, Moved
        <3> QED
            BY <1>0, <2>1, <3>1, TurnAppend DEF Goal
    <2>3. CASE op[o].kind # "Exec"
        <3>1. AppendAt(o, HeadSeq(store), "END", Moved(o, "marker", op[o].result))
            BY <1>9, <2>3, MovedForms DEF EndTurn, Is
        <3> QED
            BY <1>0, <2>1, <2>3, <3>1, TurnAppend DEF Goal
    <2> QED
        BY <2>2, <2>3
<1>10. CASE Redrive(o)
    <2>1. op[o].pc = "redrive" /\ op[o].kind # "Exec"
        BY <1>10 DEF Redrive, ShapeInv, Good, KindInv, Resumes
    <2>2. \/ \E p \in {"run", "marker", "mark", "unwind"} : Goto(o, p) /\ OpOnly
          \/ AppendAt(o, HeadSeq(store), "APPROVAL_REQUEST", [op[o] EXCEPT !.pc = "mark"])
        BY <1>10 DEF Redrive, Fail
    <2>3. CASE \E p \in {"run", "marker", "mark", "unwind"} : Goto(o, p) /\ OpOnly
        BY <2>1, <2>3, TurnGoto DEF Goal
    <2>4. CASE AppendAt(o, HeadSeq(store), "APPROVAL_REQUEST", [op[o] EXCEPT !.pc = "mark"])
        <3>1. AppendAt(o, HeadSeq(store), "APPROVAL_REQUEST", Moved(o, "mark", op[o].result))
            BY <2>4, MovedForms
        <3> QED
            BY <1>0, <2>1, <3>1, TurnAppend DEF Goal
    <2> QED
        BY <2>2, <2>3, <2>4
<1> QED
    BY <1>1, <1>2, <1>3, <1>4, <1>5, <1>6, <1>7, <1>8, <1>9, <1>10 DEF TurnStep, Goal

(* A turn's steps keep the shape.                                          *)
LEMMA TurnShape ==
    ASSUME ShapeInv, NEW o \in Ops, TurnStep(o)
    PROVE  ShapeInv'
<1>1. PICK p, result : TurnMove(o, p, result)
    BY TurnStepMoves
<1>r. PICK r : r = Moved(o, p, result)
    OBVIOUS
<1>2. Good(op[o]) /\ op[o] \in OpType /\ Within(op[o])
    BY DEF ShapeInv, Good
<1>3. /\ op[o].pc \in TurnPCs /\ p \in {"run", "request", "marker", "mark", "unwind"}
      /\ result \in {op[o].result, "ok"} /\ (p = "marker" => op[o].kind # "Exec")
    BY <1>1 DEF TurnMove
<1>4. Good(r)
    <2>1. /\ op[o].kind \in Turns /\ op[o].fence # 0 /\ ~op[o].late /\ op[o].live
          /\ op[o].kids = <<>>
        BY <1>2, <1>3 DEF TurnPCs, Good, KindInv, LiveInv, KidsInv, FencedInv, Streaming, Turns,
                         Resumes
    <2>2. /\ r = [op[o] EXCEPT !.pc = p, !.result = result]
        BY <1>r DEF Moved
    <2>3. r \in OpType
        <3>1. p \in PCs
            BY <1>3 DEF PCs, Streaming
        <3>2. result \in {"none", "ok", "busy", "pending", "parked", "crashed"}
            BY <1>2, <1>3 DEF OpType
        <3> QED
            BY <1>2, <2>2, <3>1, <3>2 DEF OpType
    <2>4. /\ r.pc = p /\ r.kind = op[o].kind /\ r.fence = op[o].fence /\ r.late = op[o].late
          /\ r.live = op[o].live /\ r.kids = op[o].kids /\ r.superseded = op[o].superseded
        BY <1>2, <2>2 DEF OpType
    <2>5. KindInv(r) /\ ThenInv(r)
        <3>1. op[o].kind \in OpKinds /\ (p = "marker" => op[o].kind \in Resumes)
            BY <1>3, <2>1 DEF Turns, Resumes, OpKinds
        <3>2. KindInv(r)
            BY <1>3, <2>1, <2>4, <3>1 DEF KindInv, Checkpointing, Cloning
        <3>3. ThenInv(r)
            BY <1>3, <2>4 DEF ThenInv, Fencing
        <3> QED
            BY <3>2, <3>3
    <2>6. LiveInv(r) /\ KidsInv(r) /\ FencedInv(r)
        BY <1>2, <1>3, <2>1, <2>4, FanoutPositive
        DEF Good, LiveInv, KidsInv, FencedInv, Streaming, Fencing, Checkpointing, Cloning
    <2> QED
        BY <2>3, <2>5, <2>6 DEF Good
<1>5. /\ r.at = op[o].at /\ r.fence = op[o].fence /\ r.snap = op[o].snap
      /\ r.head = op[o].head /\ r.tag = op[o].tag
    BY <1>2, <1>r DEF OpType, Moved
<1>6. Within(r)
    BY <1>2, <1>5 DEF Within
<1>7. r \in OpType /\ op' = [op EXCEPT ![o] = r] /\ LogOnly
    BY <1>1, <1>4, <1>r DEF Good, TurnMove
<1>8. Grows
    <2>1. CASE UNCHANGED store
        BY <1>7, <2>1, Numbers DEF Grows, LogOnly, ShapeInv, Types
    <2>2. CASE \E kind \in TurnKindsWritten : Accepted(o, kind)
        <3>1. PICK kind \in EventKind : Accepted(o, kind)
            BY <2>2 DEF TurnKindsWritten, EventKind, LifecycleKinds, ApprovalKinds
        <3>2. store' \in Store /\ store'.fence = store.fence /\ HeadSeq(store') = HeadSeq(store) + 1
            BY <3>1, AcceptedGrows
        <3> QED
            BY <1>7, <3>2, Numbers DEF Grows, LogOnly, ShapeInv, Types
    <2> QED
        BY <1>1, <2>1, <2>2 DEF TurnMove
<1>9. Within(r)'
    BY <1>6, <1>7, <1>8, StaysWithin
<1> QED
    BY <1>4, <1>7, <1>8, <1>9, OwnShape

(* The lengths and numbers these steps need.                               *)
LEMMA KidLength ==
    ASSUME ShapeInv
    PROVE  \A o \in Ops : /\ Len(op[o].kids) \in Nat
                          /\ Append(op[o].kids, op[o].tag) \in Seq(Nat)
                          /\ Append(op[o].kids, op[o].tag) # <<>>
                          /\ Len(Append(op[o].kids, op[o].tag)) = Len(op[o].kids) + 1
<1>1. \A r \in OpType : r.kids \in Seq(Nat) /\ r.tag \in Nat
    BY DEF OpType
<1>2. \A o \in Ops : op[o].kids \in Seq(Nat) /\ op[o].tag \in Nat
    BY <1>1, Numbers
<1>3. \A k \in Seq(Nat), n \in Nat :
        Len(k) \in Nat /\ Append(k, n) \in Seq(Nat) /\ Append(k, n) # <<>> /\ Len(Append(k,
                             n)) = Len(k) + 1
    OBVIOUS
<1> QED
    BY <1>2, <1>3

(* A call begins without children.                                         *)
LEMMA NoKids == <<>> \in Seq(Nat)
OBVIOUS

(* The actor's snapshot is the last image.                                 *)
LEMMA ActorSnap ==
    ASSUME ShapeInv
    PROVE  actor.snap \in Nat /\ actor.snap <= Len(image)
BY Numbers DEF ShapeInv

(* A released guard entry is still one.                                    *)
LEMMA ReleaseTypes ==
    ASSUME ShapeInv, NEW h \in Hosts, NEW kind
    PROVE  /\ [guard EXCEPT ![h] = Release(@, GuardKind(kind))] \in [Hosts -> GuardType]
           /\ [guard EXCEPT ![h] = Acquire(@, GuardKind(kind))] \in [Hosts -> GuardType]
<1>1. guard \in [Hosts -> GuardType] /\ guard[h] \in GuardType
    BY DEF ShapeInv, Types
<1>2. \A g \in GuardType : Release(g, GuardKind(kind)) \in GuardType /\ Acquire(g,
          GuardKind(kind)) \in GuardType
    <2>1. GuardKind(kind) \in {"operation", "read", "delete"}
        BY DEF GuardKind
    <2>2. \A g \in GuardType : g.readers + 1 \in Int /\ g.readers - 1 \in Int
        BY DEF GuardType
    <2> QED
        BY <2>1, <2>2 DEF GuardType, Release, Acquire
<1> QED
    BY <1>1, <1>2

(* The other steps that change no log and no compute.                      *)
(* The other steps that change no log and no compute.                      *)
(* The other steps that change no log and no compute.                      *)
LEMMA ResumeInspectShape ==
    ASSUME ShapeInv, NEW o \in Ops, ResumeInspect(o)
    PROVE  ShapeInv'
<1>0. Good(op[o]) /\ op[o] \in OpType /\ Within(op[o])
    BY DEF ShapeInv, Good
<1>1. /\ op[o].pc = "inspect" /\ op[o].kind \in Resumes
      /\ HeadSeq(store) \in Nat /\ Len(image) \in Nat
    BY Numbers DEF ResumeInspect, At, Is
<1>2. PICK r : /\ op' = [op EXCEPT ![o] = r]
               /\ \/ r = [op[o] EXCEPT !.pc = "unwind"]
                  \/ r = [op[o] EXCEPT !.pc = "unwind", !.result = "pending"]
                  \/ op[o].kind = "CheckedResume" /\ r = [op[o] EXCEPT !.head = HeadSeq(store),
                        !.then = "repair",
                                                                       !.pc = "fenceMark"]
                  \/ op[o].kind # "CheckedResume" /\ r = [op[o] EXCEPT !.head = HeadSeq(store),
                        !.then = "repair",
                                                                       !.pc = "fenceMint"]
                  \/ r = [op[o] EXCEPT !.pc = "gate"]
    BY <1>1 DEF ResumeInspect, Become, Goto, Fail, Succeed, At, Is
<1>3. ASSUME r = [op[o] EXCEPT !.pc = "unwind"]
      PROVE  Good(r) /\ Keeps(o, r)
    BY <1>0, <1>1, <1>3, UnwindGood, GotoKeeps
<1>4. ASSUME r = [op[o] EXCEPT !.pc = "unwind", !.result = "pending"]
      PROVE  Good(r) /\ Keeps(o, r)
    <2>1. r \in OpType
        BY <1>0, <1>1, <1>4 DEF OpType, PCs, Fencing, Streaming, Checkpointing, Cloning
    <2>2. /\ r.kind = op[o].kind /\ r.pc = "unwind" /\ r.at = op[o].at /\ r.head = op[o].head
          /\ r.fence = op[o].fence /\ r.then = op[o].then /\ r.live = op[o].live
          /\ r.superseded = op[o].superseded /\ r.ended = op[o].ended
          /\ r.minted = op[o].minted /\ r.late = op[o].late /\ r.open = op[o].open
          /\ r.snap = op[o].snap /\ r.tag = op[o].tag /\ r.kids = op[o].kids
          /\ r.result = "pending"
        BY <1>0, <1>1, <1>4 DEF OpType
    <2>3. KindInv(r)
        BY <1>0, <1>1, <2>2
        DEF Good, KindInv, ThenInv, LiveInv, Fencing, Streaming, Resumes, Turns, OpKinds,
            Checkpointing, Cloning
    <2>4. ThenInv(r)
        BY <1>0, <1>1, <2>2
        DEF Good, ThenInv, KindInv, Fencing, Turns, Resumes
    <2>5. LiveInv(r)
        BY <1>0, <1>1, <2>2
        DEF Good, LiveInv, KindInv, ThenInv, Streaming, Fencing, Turns, Resumes
    <2>6. KidsInv(r)
        BY <1>0, <1>1, <2>2
        DEF Good, KidsInv, KindInv, Checkpointing, Cloning
    <2>7. FencedInv(r)
        BY <1>0, <1>1, <2>2
        DEF Good, FencedInv, KindInv, ThenInv, Streaming, Fencing, Checkpointing, Turns, Resumes
    <2>8. Good(r)
        BY <2>1, <2>3, <2>4, <2>5, <2>6, <2>7 DEF Good
    <2> QED
        BY <1>0, <1>1, <2>2, <2>8 DEF Within, Keeps
<1>5. ASSUME op[o].kind = "CheckedResume", r = [op[o] EXCEPT !.head = HeadSeq(store), !.then = "repair",
                                                             !.pc = "fenceMark"]
      PROVE  Good(r) /\ Keeps(o, r)
    <2>1. r \in OpType
        BY <1>0, <1>1, <1>5 DEF OpType, PCs, Fencing, Streaming, Checkpointing, Cloning
    <2>2. /\ r.kind = op[o].kind /\ r.pc = "fenceMark" /\ r.at = op[o].at
          /\ r.head = HeadSeq(store) /\ r.fence = op[o].fence /\ r.then = "repair"
          /\ r.live = op[o].live /\ r.superseded = op[o].superseded /\ r.ended = op[o].ended
          /\ r.minted = op[o].minted /\ r.late = op[o].late /\ r.open = op[o].open
          /\ r.snap = op[o].snap /\ r.tag = op[o].tag /\ r.kids = op[o].kids
          /\ r.result = op[o].result
        BY <1>0, <1>1, <1>5 DEF OpType
    <2>3. KindInv(r)
        BY <1>0, <1>1, <1>5, <2>2
        DEF Good, KindInv, ThenInv, LiveInv, Fencing, Streaming, Resumes, Turns, OpKinds,
            Checkpointing, Cloning
    <2>4. ThenInv(r)
        BY <1>0, <1>1, <1>5, <2>2
        DEF Good, ThenInv, KindInv, Fencing, Turns, Resumes
    <2>5. LiveInv(r)
        BY <1>0, <1>1, <1>5, <2>2
        DEF Good, LiveInv, KindInv, ThenInv, Streaming, Fencing, Turns, Resumes
    <2>6. KidsInv(r)
        BY <1>0, <1>1, <1>5, <2>2
        DEF Good, KidsInv, KindInv, Checkpointing, Cloning
    <2>7. FencedInv(r)
        BY <1>0, <1>1, <1>5, <2>2
        DEF Good, FencedInv, KindInv, ThenInv, Streaming, Fencing, Checkpointing, Turns, Resumes
    <2>8. Good(r)
        BY <2>1, <2>3, <2>4, <2>5, <2>6, <2>7 DEF Good
    <2> QED
        BY <1>0, <1>1, <2>2, <2>8 DEF Within, Keeps
<1>6. ASSUME op[o].kind # "CheckedResume", r = [op[o] EXCEPT !.head = HeadSeq(store), !.then = "repair",
                                                             !.pc = "fenceMint"]
      PROVE  Good(r) /\ Keeps(o, r)
    <2>1. r \in OpType
        BY <1>0, <1>1, <1>6 DEF OpType, PCs, Fencing, Streaming, Checkpointing, Cloning
    <2>2. /\ r.kind = op[o].kind /\ r.pc = "fenceMint" /\ r.at = op[o].at
          /\ r.head = HeadSeq(store) /\ r.fence = op[o].fence /\ r.then = "repair"
          /\ r.live = op[o].live /\ r.superseded = op[o].superseded /\ r.ended = op[o].ended
          /\ r.minted = op[o].minted /\ r.late = op[o].late /\ r.open = op[o].open
          /\ r.snap = op[o].snap /\ r.tag = op[o].tag /\ r.kids = op[o].kids
          /\ r.result = op[o].result
        BY <1>0, <1>1, <1>6 DEF OpType
    <2>3. KindInv(r)
        BY <1>0, <1>1, <1>6, <2>2
        DEF Good, KindInv, ThenInv, LiveInv, Fencing, Streaming, Resumes, Turns, OpKinds,
            Checkpointing, Cloning
    <2>4. ThenInv(r)
        BY <1>0, <1>1, <1>6, <2>2
        DEF Good, ThenInv, KindInv, Fencing, Turns, Resumes
    <2>5. LiveInv(r)
        BY <1>0, <1>1, <1>6, <2>2
        DEF Good, LiveInv, KindInv, ThenInv, Streaming, Fencing, Turns, Resumes
    <2>6. KidsInv(r)
        BY <1>0, <1>1, <1>6, <2>2
        DEF Good, KidsInv, KindInv, Checkpointing, Cloning
    <2>7. FencedInv(r)
        BY <1>0, <1>1, <1>6, <2>2
        DEF Good, FencedInv, KindInv, ThenInv, Streaming, Fencing, Checkpointing, Turns, Resumes
    <2>8. Good(r)
        BY <2>1, <2>3, <2>4, <2>5, <2>6, <2>7 DEF Good
    <2> QED
        BY <1>0, <1>1, <2>2, <2>8 DEF Within, Keeps
<1>7. ASSUME r = [op[o] EXCEPT !.pc = "gate"]
      PROVE  Good(r) /\ Keeps(o, r)
    <2>1. r \in OpType
        BY <1>0, <1>1, <1>7 DEF OpType, PCs, Fencing, Streaming, Checkpointing, Cloning
    <2>2. /\ r.kind = op[o].kind /\ r.pc = "gate" /\ r.at = op[o].at /\ r.head = op[o].head
          /\ r.fence = op[o].fence /\ r.then = op[o].then /\ r.live = op[o].live
          /\ r.superseded = op[o].superseded /\ r.ended = op[o].ended
          /\ r.minted = op[o].minted /\ r.late = op[o].late /\ r.open = op[o].open
          /\ r.snap = op[o].snap /\ r.tag = op[o].tag /\ r.kids = op[o].kids
          /\ r.result = op[o].result
        BY <1>0, <1>1, <1>7 DEF OpType
    <2>3. KindInv(r)
        BY <1>0, <1>1, <2>2
        DEF Good, KindInv, ThenInv, LiveInv, Fencing, Streaming, Resumes, Turns, OpKinds,
            Checkpointing, Cloning
    <2>4. ThenInv(r)
        BY <1>0, <1>1, <2>2
        DEF Good, ThenInv, KindInv, Fencing, Turns, Resumes
    <2>5. LiveInv(r)
        BY <1>0, <1>1, <2>2
        DEF Good, LiveInv, KindInv, ThenInv, Streaming, Fencing, Turns, Resumes
    <2>6. KidsInv(r)
        BY <1>0, <1>1, <2>2
        DEF Good, KidsInv, KindInv, Checkpointing, Cloning
    <2>7. FencedInv(r)
        BY <1>0, <1>1, <2>2
        DEF Good, FencedInv, KindInv, ThenInv, Streaming, Fencing, Checkpointing, Turns, Resumes
    <2>8. Good(r)
        BY <2>1, <2>3, <2>4, <2>5, <2>6, <2>7 DEF Good
    <2> QED
        BY <1>0, <1>1, <2>2, <2>8 DEF Within, Keeps
<1>8. /\ UNCHANGED <<store, actor, image, crashes>>
      /\ guard' \in [Hosts -> GuardType] /\ mark' \in [Hosts -> Ops \union {None}]
    BY PlacementAssumption DEF ResumeInspect, OpOnly, ShapeInv, Types, Host
<1> QED
    BY <1>2, <1>3, <1>4, <1>5, <1>6, <1>7, <1>8, QuietShape

(* The admission keeps the shape.                                          *)
LEMMA GateShape ==
    ASSUME ShapeInv, NEW o \in Ops, Gate(o)
    PROVE  ShapeInv'
<1>0. Good(op[o]) /\ op[o] \in OpType /\ Within(op[o])
    BY DEF ShapeInv, Good
<1>1. /\ op[o].pc = "gate"
      /\ HeadSeq(store) \in Nat /\ Len(image) \in Nat
    BY Numbers DEF Gate, At, Is
<1>2. PICK r : /\ op' = [op EXCEPT ![o] = r]
               /\ \/ r = [op[o] EXCEPT !.pc = "unwind"]
                  \/ r = [op[o] EXCEPT !.pc = "create"]
                  \/ op[o].kind = "CheckedResume" /\ r = [op[o] EXCEPT !.pc = "fenceMark",
                        !.then = "create"]
    BY <1>1 DEF Gate, Become, Goto, Fail, Succeed, At, Is
<1>3. ASSUME r = [op[o] EXCEPT !.pc = "unwind"]
      PROVE  Good(r) /\ Keeps(o, r)
    BY <1>0, <1>1, <1>3, UnwindGood, GotoKeeps
<1>4. ASSUME r = [op[o] EXCEPT !.pc = "create"]
      PROVE  Good(r) /\ Keeps(o, r)
    <2>1. r \in OpType
        BY <1>0, <1>1, <1>4 DEF OpType, PCs, Fencing, Streaming, Checkpointing, Cloning
    <2>2. /\ r.kind = op[o].kind /\ r.pc = "create" /\ r.at = op[o].at /\ r.head = op[o].head
          /\ r.fence = op[o].fence /\ r.then = op[o].then /\ r.live = op[o].live
          /\ r.superseded = op[o].superseded /\ r.ended = op[o].ended
          /\ r.minted = op[o].minted /\ r.late = op[o].late /\ r.open = op[o].open
          /\ r.snap = op[o].snap /\ r.tag = op[o].tag /\ r.kids = op[o].kids
          /\ r.result = op[o].result
        BY <1>0, <1>1, <1>4 DEF OpType
    <2>3. KindInv(r)
        BY <1>0, <1>1, <2>2
        DEF Good, KindInv, ThenInv, LiveInv, Fencing, Streaming, Resumes, Turns, OpKinds,
            Checkpointing, Cloning
    <2>4. ThenInv(r)
        BY <1>0, <1>1, <2>2
        DEF Good, ThenInv, KindInv, Fencing, Turns, Resumes
    <2>5. LiveInv(r)
        BY <1>0, <1>1, <2>2
        DEF Good, LiveInv, KindInv, ThenInv, Streaming, Fencing, Turns, Resumes
    <2>6. KidsInv(r)
        BY <1>0, <1>1, <2>2
        DEF Good, KidsInv, KindInv, Checkpointing, Cloning
    <2>7. FencedInv(r)
        BY <1>0, <1>1, <2>2
        DEF Good, FencedInv, KindInv, ThenInv, Streaming, Fencing, Checkpointing, Turns, Resumes
    <2>8. Good(r)
        BY <2>1, <2>3, <2>4, <2>5, <2>6, <2>7 DEF Good
    <2> QED
        BY <1>0, <1>1, <2>2, <2>8 DEF Within, Keeps
<1>5. ASSUME op[o].kind = "CheckedResume", r = [op[o] EXCEPT !.pc = "fenceMark", !.then = "create"]
      PROVE  Good(r) /\ Keeps(o, r)
    <2>1. r \in OpType
        BY <1>0, <1>1, <1>5 DEF OpType, PCs, Fencing, Streaming, Checkpointing, Cloning
    <2>2. /\ r.kind = op[o].kind /\ r.pc = "fenceMark" /\ r.at = op[o].at
          /\ r.head = op[o].head /\ r.fence = op[o].fence /\ r.then = "create"
          /\ r.live = op[o].live /\ r.superseded = op[o].superseded /\ r.ended = op[o].ended
          /\ r.minted = op[o].minted /\ r.late = op[o].late /\ r.open = op[o].open
          /\ r.snap = op[o].snap /\ r.tag = op[o].tag /\ r.kids = op[o].kids
          /\ r.result = op[o].result
        BY <1>0, <1>1, <1>5 DEF OpType
    <2>3. KindInv(r)
        BY <1>0, <1>1, <1>5, <2>2
        DEF Good, KindInv, ThenInv, LiveInv, Fencing, Streaming, Resumes, Turns, OpKinds,
            Checkpointing, Cloning
    <2>4. ThenInv(r)
        BY <1>0, <1>1, <1>5, <2>2
        DEF Good, ThenInv, KindInv, Fencing, Turns, Resumes
    <2>5. LiveInv(r)
        BY <1>0, <1>1, <1>5, <2>2
        DEF Good, LiveInv, KindInv, ThenInv, Streaming, Fencing, Turns, Resumes
    <2>6. KidsInv(r)
        BY <1>0, <1>1, <1>5, <2>2
        DEF Good, KidsInv, KindInv, Checkpointing, Cloning
    <2>7. FencedInv(r)
        BY <1>0, <1>1, <1>5, <2>2
        DEF Good, FencedInv, KindInv, ThenInv, Streaming, Fencing, Checkpointing, Turns, Resumes
    <2>8. Good(r)
        BY <2>1, <2>3, <2>4, <2>5, <2>6, <2>7 DEF Good
    <2> QED
        BY <1>0, <1>1, <2>2, <2>8 DEF Within, Keeps
<1>6. /\ UNCHANGED <<store, actor, image, crashes>>
      /\ guard' \in [Hosts -> GuardType] /\ mark' \in [Hosts -> Ops \union {None}]
    BY PlacementAssumption DEF Gate, OpOnly, ShapeInv, Types, Host
<1> QED
    BY <1>2, <1>3, <1>4, <1>5, <1>6, QuietShape

(* Opening the connection keeps the shape.                                 *)
LEMMA OpenHarnessShape ==
    ASSUME ShapeInv, NEW o \in Ops, OpenHarness(o)
    PROVE  ShapeInv'
<1>0. Good(op[o]) /\ op[o] \in OpType /\ Within(op[o])
    BY DEF ShapeInv, Good
<1>1. /\ op[o].pc = "open"
      /\ HeadSeq(store) \in Nat /\ Len(image) \in Nat
    BY Numbers DEF OpenHarness, At, Is
<1>2. PICK r : /\ op' = [op EXCEPT ![o] = r]
               /\ \/ r = [op[o] EXCEPT !.pc = "unwind"]
                  \/ r = [op[o] EXCEPT !.live = TRUE, !.then = "check", !.pc = "unwind"]
                  \/ op[o].kind = "CheckedResume" /\ r = [op[o] EXCEPT !.live = TRUE,
                        !.then = "check", !.pc = "fenceMark"]
                  \/ op[o].kind # "CheckedResume" /\ r = [op[o] EXCEPT !.live = TRUE,
                        !.then = "check", !.pc = "fenceMint"]
    BY <1>1 DEF OpenHarness, Become, Goto, Fail, Succeed, At, Is
<1>3. ASSUME r = [op[o] EXCEPT !.pc = "unwind"]
      PROVE  Good(r) /\ Keeps(o, r)
    BY <1>0, <1>1, <1>3, UnwindGood, GotoKeeps
<1>4. ASSUME r = [op[o] EXCEPT !.live = TRUE, !.then = "check", !.pc = "unwind"]
      PROVE  Good(r) /\ Keeps(o, r)
    <2>1. r \in OpType
        BY <1>0, <1>1, <1>4 DEF OpType, PCs, Fencing, Streaming, Checkpointing, Cloning
    <2>2. /\ r.kind = op[o].kind /\ r.pc = "unwind" /\ r.at = op[o].at /\ r.head = op[o].head
          /\ r.fence = op[o].fence /\ r.then = "check" /\ r.live = TRUE
          /\ r.superseded = op[o].superseded /\ r.ended = op[o].ended
          /\ r.minted = op[o].minted /\ r.late = op[o].late /\ r.open = op[o].open
          /\ r.snap = op[o].snap /\ r.tag = op[o].tag /\ r.kids = op[o].kids
          /\ r.result = op[o].result
        BY <1>0, <1>1, <1>4 DEF OpType
    <2>3. KindInv(r)
        BY <1>0, <1>1, <2>2
        DEF Good, KindInv, ThenInv, LiveInv, Fencing, Streaming, Resumes, Turns, OpKinds,
            Checkpointing, Cloning
    <2>4. ThenInv(r)
        BY <1>0, <1>1, <2>2
        DEF Good, ThenInv, KindInv, Fencing, Turns, Resumes
    <2>5. LiveInv(r)
        BY <1>0, <1>1, <2>2
        DEF Good, LiveInv, KindInv, ThenInv, Streaming, Fencing, Turns, Resumes
    <2>6. KidsInv(r)
        BY <1>0, <1>1, <2>2
        DEF Good, KidsInv, KindInv, Checkpointing, Cloning
    <2>7. FencedInv(r)
        BY <1>0, <1>1, <2>2
        DEF Good, FencedInv, KindInv, ThenInv, Streaming, Fencing, Checkpointing, Turns, Resumes
    <2>8. Good(r)
        BY <2>1, <2>3, <2>4, <2>5, <2>6, <2>7 DEF Good
    <2> QED
        BY <1>0, <1>1, <2>2, <2>8 DEF Within, Keeps
<1>5. ASSUME op[o].kind = "CheckedResume", r = [op[o] EXCEPT !.live = TRUE, !.then = "check",
          !.pc = "fenceMark"]
      PROVE  Good(r) /\ Keeps(o, r)
    <2>1. r \in OpType
        BY <1>0, <1>1, <1>5 DEF OpType, PCs, Fencing, Streaming, Checkpointing, Cloning
    <2>2. /\ r.kind = op[o].kind /\ r.pc = "fenceMark" /\ r.at = op[o].at
          /\ r.head = op[o].head /\ r.fence = op[o].fence /\ r.then = "check" /\ r.live = TRUE
          /\ r.superseded = op[o].superseded /\ r.ended = op[o].ended
          /\ r.minted = op[o].minted /\ r.late = op[o].late /\ r.open = op[o].open
          /\ r.snap = op[o].snap /\ r.tag = op[o].tag /\ r.kids = op[o].kids
          /\ r.result = op[o].result
        BY <1>0, <1>1, <1>5 DEF OpType
    <2>3. KindInv(r)
        BY <1>0, <1>1, <1>5, <2>2
        DEF Good, KindInv, ThenInv, LiveInv, Fencing, Streaming, Resumes, Turns, OpKinds,
            Checkpointing, Cloning
    <2>4. ThenInv(r)
        BY <1>0, <1>1, <1>5, <2>2
        DEF Good, ThenInv, KindInv, Fencing, Turns, Resumes
    <2>5. LiveInv(r)
        BY <1>0, <1>1, <1>5, <2>2
        DEF Good, LiveInv, KindInv, ThenInv, Streaming, Fencing, Turns, Resumes
    <2>6. KidsInv(r)
        BY <1>0, <1>1, <1>5, <2>2
        DEF Good, KidsInv, KindInv, Checkpointing, Cloning
    <2>7. FencedInv(r)
        BY <1>0, <1>1, <1>5, <2>2
        DEF Good, FencedInv, KindInv, ThenInv, Streaming, Fencing, Checkpointing, Turns, Resumes
    <2>8. Good(r)
        BY <2>1, <2>3, <2>4, <2>5, <2>6, <2>7 DEF Good
    <2> QED
        BY <1>0, <1>1, <2>2, <2>8 DEF Within, Keeps
<1>6. ASSUME op[o].kind # "CheckedResume", r = [op[o] EXCEPT !.live = TRUE, !.then = "check",
          !.pc = "fenceMint"]
      PROVE  Good(r) /\ Keeps(o, r)
    <2>1. r \in OpType
        BY <1>0, <1>1, <1>6 DEF OpType, PCs, Fencing, Streaming, Checkpointing, Cloning
    <2>2. /\ r.kind = op[o].kind /\ r.pc = "fenceMint" /\ r.at = op[o].at
          /\ r.head = op[o].head /\ r.fence = op[o].fence /\ r.then = "check" /\ r.live = TRUE
          /\ r.superseded = op[o].superseded /\ r.ended = op[o].ended
          /\ r.minted = op[o].minted /\ r.late = op[o].late /\ r.open = op[o].open
          /\ r.snap = op[o].snap /\ r.tag = op[o].tag /\ r.kids = op[o].kids
          /\ r.result = op[o].result
        BY <1>0, <1>1, <1>6 DEF OpType
    <2>3. KindInv(r)
        BY <1>0, <1>1, <1>6, <2>2
        DEF Good, KindInv, ThenInv, LiveInv, Fencing, Streaming, Resumes, Turns, OpKinds,
            Checkpointing, Cloning
    <2>4. ThenInv(r)
        BY <1>0, <1>1, <1>6, <2>2
        DEF Good, ThenInv, KindInv, Fencing, Turns, Resumes
    <2>5. LiveInv(r)
        BY <1>0, <1>1, <1>6, <2>2
        DEF Good, LiveInv, KindInv, ThenInv, Streaming, Fencing, Turns, Resumes
    <2>6. KidsInv(r)
        BY <1>0, <1>1, <1>6, <2>2
        DEF Good, KidsInv, KindInv, Checkpointing, Cloning
    <2>7. FencedInv(r)
        BY <1>0, <1>1, <1>6, <2>2
        DEF Good, FencedInv, KindInv, ThenInv, Streaming, Fencing, Checkpointing, Turns, Resumes
    <2>8. Good(r)
        BY <2>1, <2>3, <2>4, <2>5, <2>6, <2>7 DEF Good
    <2> QED
        BY <1>0, <1>1, <2>2, <2>8 DEF Within, Keeps
<1>7. /\ UNCHANGED <<store, actor, image, crashes>>
      /\ guard' \in [Hosts -> GuardType] /\ mark' \in [Hosts -> Ops \union {None}]
    BY PlacementAssumption DEF OpenHarness, OpOnly, ShapeInv, Types, Host
<1> QED
    BY <1>2, <1>3, <1>4, <1>5, <1>6, <1>7, QuietShape

(* The inspection before a park keeps the shape.                           *)
LEMMA HandoffInspectShape ==
    ASSUME ShapeInv, NEW o \in Ops, HandoffInspect(o)
    PROVE  ShapeInv'
<1>0. Good(op[o]) /\ op[o] \in OpType /\ Within(op[o])
    BY DEF ShapeInv, Good
<1>1. /\ op[o].pc = "handoff"
      /\ HeadSeq(store) \in Nat /\ Len(image) \in Nat
    BY Numbers DEF HandoffInspect, At, Is
<1>2. PICK r : /\ op' = [op EXCEPT ![o] = r]
               /\ \/ r = [op[o] EXCEPT !.pc = "unwind"]
                  \/ r = [op[o] EXCEPT !.pc = "close", !.head = HeadSeq(store)]
    BY <1>1 DEF HandoffInspect, Become, Goto, Fail, Succeed, At, Is
<1>3. ASSUME r = [op[o] EXCEPT !.pc = "unwind"]
      PROVE  Good(r) /\ Keeps(o, r)
    BY <1>0, <1>1, <1>3, UnwindGood, GotoKeeps
<1>4. ASSUME r = [op[o] EXCEPT !.pc = "close", !.head = HeadSeq(store)]
      PROVE  Good(r) /\ Keeps(o, r)
    <2>1. r \in OpType
        BY <1>0, <1>1, <1>4 DEF OpType, PCs, Fencing, Streaming, Checkpointing, Cloning
    <2>2. /\ r.kind = op[o].kind /\ r.pc = "close" /\ r.at = op[o].at
          /\ r.head = HeadSeq(store) /\ r.fence = op[o].fence /\ r.then = op[o].then
          /\ r.live = op[o].live /\ r.superseded = op[o].superseded /\ r.ended = op[o].ended
          /\ r.minted = op[o].minted /\ r.late = op[o].late /\ r.open = op[o].open
          /\ r.snap = op[o].snap /\ r.tag = op[o].tag /\ r.kids = op[o].kids
          /\ r.result = op[o].result
        BY <1>0, <1>1, <1>4 DEF OpType
    <2>3. KindInv(r)
        BY <1>0, <1>1, <2>2
        DEF Good, KindInv, ThenInv, LiveInv, Fencing, Streaming, Resumes, Turns, OpKinds,
            Checkpointing, Cloning
    <2>4. ThenInv(r)
        BY <1>0, <1>1, <2>2
        DEF Good, ThenInv, KindInv, Fencing, Turns, Resumes
    <2>5. LiveInv(r)
        BY <1>0, <1>1, <2>2
        DEF Good, LiveInv, KindInv, ThenInv, Streaming, Fencing, Turns, Resumes
    <2>6. KidsInv(r)
        BY <1>0, <1>1, <2>2
        DEF Good, KidsInv, KindInv, Checkpointing, Cloning
    <2>7. FencedInv(r)
        BY <1>0, <1>1, <2>2
        DEF Good, FencedInv, KindInv, ThenInv, Streaming, Fencing, Checkpointing, Turns, Resumes
    <2>8. Good(r)
        BY <2>1, <2>3, <2>4, <2>5, <2>6, <2>7 DEF Good
    <2> QED
        BY <1>0, <1>1, <2>2, <2>8 DEF Within, Keeps
<1>5. /\ UNCHANGED <<store, actor, image, crashes>>
      /\ guard' \in [Hosts -> GuardType] /\ mark' \in [Hosts -> Ops \union {None}]
    BY PlacementAssumption DEF HandoffInspect, OpOnly, ShapeInv, Types, Host
<1> QED
    BY <1>2, <1>3, <1>4, <1>5, QuietShape

(* Closing the connection for a park keeps the shape.                      *)
LEMMA CloseInvocationShape ==
    ASSUME ShapeInv, NEW o \in Ops, CloseInvocation(o)
    PROVE  ShapeInv'
<1>0. Good(op[o]) /\ op[o] \in OpType /\ Within(op[o])
    BY DEF ShapeInv, Good
<1>1. /\ op[o].pc = "close"
      /\ HeadSeq(store) \in Nat /\ Len(image) \in Nat
    BY Numbers DEF CloseInvocation, At, Is
<1>2. PICK r : /\ op' = [op EXCEPT ![o] = r]
               /\ \/ r = [op[o] EXCEPT !.pc = "unwind"]
                  \/ ~op[o].superseded /\ r = [op[o] EXCEPT !.pc = "snapshot", !.live = FALSE,
                        !.minted = TRUE]
    BY <1>1 DEF CloseInvocation, Become, Goto, Fail, Succeed, At, Is
<1>3. ASSUME r = [op[o] EXCEPT !.pc = "unwind"]
      PROVE  Good(r) /\ Keeps(o, r)
    BY <1>0, <1>1, <1>3, UnwindGood, GotoKeeps
<1>4. ASSUME ~op[o].superseded, r = [op[o] EXCEPT !.pc = "snapshot", !.live = FALSE, !.minted = TRUE]
      PROVE  Good(r) /\ Keeps(o, r)
    <2>1. r \in OpType
        BY <1>0, <1>1, <1>4 DEF OpType, PCs, Fencing, Streaming, Checkpointing, Cloning
    <2>2. /\ r.kind = op[o].kind /\ r.pc = "snapshot" /\ r.at = op[o].at /\ r.head = op[o].head
          /\ r.fence = op[o].fence /\ r.then = op[o].then /\ r.live = FALSE
          /\ r.superseded = op[o].superseded /\ r.ended = op[o].ended /\ r.minted = TRUE
          /\ r.late = op[o].late /\ r.open = op[o].open /\ r.snap = op[o].snap
          /\ r.tag = op[o].tag /\ r.kids = op[o].kids /\ r.result = op[o].result
        BY <1>0, <1>1, <1>4 DEF OpType
    <2>3. KindInv(r)
        BY <1>0, <1>1, <1>4, <2>2
        DEF Good, KindInv, ThenInv, LiveInv, Fencing, Streaming, Resumes, Turns, OpKinds,
            Checkpointing, Cloning
    <2>4. ThenInv(r)
        BY <1>0, <1>1, <1>4, <2>2
        DEF Good, ThenInv, KindInv, Fencing, Turns, Resumes
    <2>5. LiveInv(r)
        BY <1>0, <1>1, <1>4, <2>2
        DEF Good, LiveInv, KindInv, ThenInv, Streaming, Fencing, Turns, Resumes
    <2>6. KidsInv(r)
        BY <1>0, <1>1, <1>4, <2>2
        DEF Good, KidsInv, KindInv, Checkpointing, Cloning
    <2>7. FencedInv(r)
        BY <1>0, <1>1, <1>4, <2>2
        DEF Good, FencedInv, KindInv, ThenInv, Streaming, Fencing, Checkpointing, Turns, Resumes
    <2>8. Good(r)
        BY <2>1, <2>3, <2>4, <2>5, <2>6, <2>7 DEF Good
    <2> QED
        BY <1>0, <1>1, <2>2, <2>8 DEF Within, Keeps
<1>5. /\ UNCHANGED <<store, actor, image, crashes>>
      /\ guard' \in [Hosts -> GuardType] /\ mark' \in [Hosts -> Ops \union {None}]
    BY PlacementAssumption DEF CloseInvocation, OpOnly, ShapeInv, Types, Host
<1> QED
    BY <1>2, <1>3, <1>4, <1>5, QuietShape

(* The scan of Approve keeps the shape.                                    *)
LEMMA ApproveScanShape ==
    ASSUME ShapeInv, NEW o \in Ops, ApproveScan(o)
    PROVE  ShapeInv'
<1>0. Good(op[o]) /\ op[o] \in OpType /\ Within(op[o])
    BY DEF ShapeInv, Good
<1>1. /\ op[o].pc = "scan"
      /\ HeadSeq(store) \in Nat /\ Len(image) \in Nat
    BY Numbers DEF ApproveScan, At, Is
<1>2. PICK r : /\ op' = [op EXCEPT ![o] = r]
               /\ \/ r = [op[o] EXCEPT !.pc = "unwind"]
                  \/ r = [op[o] EXCEPT !.pc = "fenceMint", !.then = "decide",
                                       !.head = HeadSeq(store)]
    BY <1>1 DEF ApproveScan, Become, Goto, Fail, Succeed, At, Is
<1>3. ASSUME r = [op[o] EXCEPT !.pc = "unwind"]
      PROVE  Good(r) /\ Keeps(o, r)
    BY <1>0, <1>1, <1>3, UnwindGood, GotoKeeps
<1>4. ASSUME r = [op[o] EXCEPT !.pc = "fenceMint", !.then = "decide",
                               !.head = HeadSeq(store)]
      PROVE  Good(r) /\ Keeps(o, r)
    <2>1. r \in OpType
        BY <1>0, <1>1, <1>4 DEF OpType, PCs, Fencing, Streaming, Checkpointing, Cloning
    <2>2. /\ r.kind = op[o].kind /\ r.pc = "fenceMint" /\ r.at = op[o].at
          /\ r.head = HeadSeq(store) /\ r.fence = op[o].fence /\ r.then = "decide"
          /\ r.live = op[o].live /\ r.superseded = op[o].superseded /\ r.ended = op[o].ended
          /\ r.minted = op[o].minted /\ r.late = op[o].late /\ r.open = op[o].open
          /\ r.snap = op[o].snap /\ r.tag = op[o].tag /\ r.kids = op[o].kids
          /\ r.result = op[o].result
        BY <1>0, <1>1, <1>4 DEF OpType
    <2>3. KindInv(r)
        BY <1>0, <1>1, <2>2
        DEF Good, KindInv, ThenInv, LiveInv, Fencing, Streaming, Resumes, Turns, OpKinds,
            Checkpointing, Cloning
    <2>4. ThenInv(r)
        BY <1>0, <1>1, <2>2
        DEF Good, ThenInv, KindInv, Fencing, Turns, Resumes
    <2>5. LiveInv(r)
        BY <1>0, <1>1, <2>2
        DEF Good, LiveInv, KindInv, ThenInv, Streaming, Fencing, Turns, Resumes
    <2>6. KidsInv(r)
        BY <1>0, <1>1, <2>2
        DEF Good, KidsInv, KindInv, Checkpointing, Cloning
    <2>7. FencedInv(r)
        BY <1>0, <1>1, <2>2
        DEF Good, FencedInv, KindInv, ThenInv, Streaming, Fencing, Checkpointing, Turns, Resumes
    <2>8. Good(r)
        BY <2>1, <2>3, <2>4, <2>5, <2>6, <2>7 DEF Good
    <2> QED
        BY <1>0, <1>1, <2>2, <2>8 DEF Within, Keeps
<1>5. /\ UNCHANGED <<store, actor, image, crashes>>
      /\ guard' \in [Hosts -> GuardType] /\ mark' \in [Hosts -> Ops \union {None}]
    BY PlacementAssumption DEF ApproveScan, OpOnly, ShapeInv, Types, Host
<1> QED
    BY <1>2, <1>3, <1>4, <1>5, QuietShape

(* The wait for the superseded turns keeps the shape.                      *)
LEMMA AwaitMintedShape ==
    ASSUME ShapeInv, NEW o \in Ops, AwaitMinted(o)
    PROVE  ShapeInv'
<1>0. Good(op[o]) /\ op[o] \in OpType /\ Within(op[o])
    BY DEF ShapeInv, Good
<1>1. /\ op[o].pc = "wait"
      /\ HeadSeq(store) \in Nat /\ Len(image) \in Nat
    BY Numbers DEF AwaitMinted, At, Is
<1>2. PICK r : /\ op' = [op EXCEPT ![o] = r]
               /\ \/ r = [op[o] EXCEPT !.pc = "unwind"]
                  \/ r = [op[o] EXCEPT !.pc = "forkFence", !.then = "checkpoint"]
    BY <1>1 DEF AwaitMinted, Become, Goto, Fail, Succeed, At, Is
<1>3. ASSUME r = [op[o] EXCEPT !.pc = "unwind"]
      PROVE  Good(r) /\ Keeps(o, r)
    BY <1>0, <1>1, <1>3, UnwindGood, GotoKeeps
<1>4. ASSUME r = [op[o] EXCEPT !.pc = "forkFence", !.then = "checkpoint"]
      PROVE  Good(r) /\ Keeps(o, r)
    <2>1. r \in OpType
        BY <1>0, <1>1, <1>4 DEF OpType, PCs, Fencing, Streaming, Checkpointing, Cloning
    <2>2. /\ r.kind = op[o].kind /\ r.pc = "forkFence" /\ r.at = op[o].at
          /\ r.head = op[o].head /\ r.fence = op[o].fence /\ r.then = "checkpoint"
          /\ r.live = op[o].live /\ r.superseded = op[o].superseded /\ r.ended = op[o].ended
          /\ r.minted = op[o].minted /\ r.late = op[o].late /\ r.open = op[o].open
          /\ r.snap = op[o].snap /\ r.tag = op[o].tag /\ r.kids = op[o].kids
          /\ r.result = op[o].result
        BY <1>0, <1>1, <1>4 DEF OpType
    <2>3. KindInv(r)
        BY <1>0, <1>1, <2>2
        DEF Good, KindInv, ThenInv, LiveInv, Fencing, Streaming, Resumes, Turns, OpKinds,
            Checkpointing, Cloning
    <2>4. ThenInv(r)
        BY <1>0, <1>1, <2>2
        DEF Good, ThenInv, KindInv, Fencing, Turns, Resumes
    <2>5. LiveInv(r)
        BY <1>0, <1>1, <2>2
        DEF Good, LiveInv, KindInv, ThenInv, Streaming, Fencing, Turns, Resumes
    <2>6. KidsInv(r)
        BY <1>0, <1>1, <2>2
        DEF Good, KidsInv, KindInv, Checkpointing, Cloning
    <2>7. FencedInv(r)
        BY <1>0, <1>1, <2>2
        DEF Good, FencedInv, KindInv, ThenInv, Streaming, Fencing, Checkpointing, Turns, Resumes
    <2>8. Good(r)
        BY <2>1, <2>3, <2>4, <2>5, <2>6, <2>7 DEF Good
    <2> QED
        BY <1>0, <1>1, <2>2, <2>8 DEF Within, Keeps
<1>5. /\ UNCHANGED <<store, actor, image, crashes>>
      /\ guard' \in [Hosts -> GuardType] /\ mark' \in [Hosts -> Ops \union {None}]
    BY PlacementAssumption DEF AwaitMinted, OpOnly, ShapeInv, Types, Host
<1> QED
    BY <1>2, <1>3, <1>4, <1>5, QuietShape

(* The tag of the parent keeps the shape.                                  *)
LEMMA TagActorShape ==
    ASSUME ShapeInv, NEW o \in Ops, TagActor(o)
    PROVE  ShapeInv'
<1>0. Good(op[o]) /\ op[o] \in OpType /\ Within(op[o])
    BY DEF ShapeInv, Good
<1>1. /\ op[o].pc = "tag"
      /\ HeadSeq(store) \in Nat /\ Len(image) \in Nat
    BY Numbers DEF TagActor, At, Is
<1>2. PICK r : /\ op' = [op EXCEPT ![o] = r]
               /\ \/ r = [op[o] EXCEPT !.pc = "abort"]
                  \/ r = [op[o] EXCEPT !.pc = "require2", !.tag = actor.snap]
    BY <1>1 DEF TagActor, Become, Goto, Fail, Succeed, At, Is
<1>3. ASSUME r = [op[o] EXCEPT !.pc = "abort"]
      PROVE  Good(r) /\ Keeps(o, r)
    <2>1. r \in OpType
        BY <1>0, <1>1, <1>3, ActorSnap DEF OpType, PCs, Fencing, Streaming, Checkpointing, Cloning
    <2>2. /\ r.kind = op[o].kind /\ r.pc = "abort" /\ r.at = op[o].at /\ r.head = op[o].head
          /\ r.fence = op[o].fence /\ r.then = op[o].then /\ r.live = op[o].live
          /\ r.superseded = op[o].superseded /\ r.ended = op[o].ended
          /\ r.minted = op[o].minted /\ r.late = op[o].late /\ r.open = op[o].open
          /\ r.snap = op[o].snap /\ r.tag = op[o].tag /\ r.kids = op[o].kids
          /\ r.result = op[o].result
        BY <1>0, <1>1, <1>3 DEF OpType
    <2>3. KindInv(r)
        BY <1>0, <1>1, <2>2, ActorSnap
        DEF Good, KindInv, ThenInv, LiveInv, Fencing, Streaming, Resumes, Turns, OpKinds,
            Checkpointing, Cloning
    <2>4. ThenInv(r)
        BY <1>0, <1>1, <2>2, ActorSnap
        DEF Good, ThenInv, KindInv, Fencing, Turns, Resumes
    <2>5. LiveInv(r)
        BY <1>0, <1>1, <2>2, ActorSnap
        DEF Good, LiveInv, KindInv, ThenInv, Streaming, Fencing, Turns, Resumes
    <2>6. KidsInv(r)
        BY <1>0, <1>1, <2>2, ActorSnap
        DEF Good, KidsInv, KindInv, Checkpointing, Cloning
    <2>7. FencedInv(r)
        BY <1>0, <1>1, <2>2, ActorSnap
        DEF Good, FencedInv, KindInv, ThenInv, Streaming, Fencing, Checkpointing, Turns, Resumes
    <2>8. Good(r)
        BY <2>1, <2>3, <2>4, <2>5, <2>6, <2>7 DEF Good
    <2> QED
        BY <1>0, <1>1, <2>2, <2>8, ActorSnap DEF Within, Keeps
<1>4. ASSUME r = [op[o] EXCEPT !.pc = "require2", !.tag = actor.snap]
      PROVE  Good(r) /\ Keeps(o, r)
    <2>1. r \in OpType
        BY <1>0, <1>1, <1>4, ActorSnap DEF OpType, PCs, Fencing, Streaming, Checkpointing, Cloning
    <2>2. /\ r.kind = op[o].kind /\ r.pc = "require2" /\ r.at = op[o].at /\ r.head = op[o].head
          /\ r.fence = op[o].fence /\ r.then = op[o].then /\ r.live = op[o].live
          /\ r.superseded = op[o].superseded /\ r.ended = op[o].ended
          /\ r.minted = op[o].minted /\ r.late = op[o].late /\ r.open = op[o].open
          /\ r.snap = op[o].snap /\ r.tag = actor.snap /\ r.kids = op[o].kids
          /\ r.result = op[o].result
        BY <1>0, <1>1, <1>4 DEF OpType
    <2>3. KindInv(r)
        BY <1>0, <1>1, <2>2, ActorSnap
        DEF Good, KindInv, ThenInv, LiveInv, Fencing, Streaming, Resumes, Turns, OpKinds,
            Checkpointing, Cloning
    <2>4. ThenInv(r)
        BY <1>0, <1>1, <2>2, ActorSnap
        DEF Good, ThenInv, KindInv, Fencing, Turns, Resumes
    <2>5. LiveInv(r)
        BY <1>0, <1>1, <2>2, ActorSnap
        DEF Good, LiveInv, KindInv, ThenInv, Streaming, Fencing, Turns, Resumes
    <2>6. KidsInv(r)
        BY <1>0, <1>1, <2>2, ActorSnap
        DEF Good, KidsInv, KindInv, Checkpointing, Cloning
    <2>7. FencedInv(r)
        BY <1>0, <1>1, <2>2, ActorSnap
        DEF Good, FencedInv, KindInv, ThenInv, Streaming, Fencing, Checkpointing, Turns, Resumes
    <2>8. Good(r)
        BY <2>1, <2>3, <2>4, <2>5, <2>6, <2>7 DEF Good
    <2> QED
        BY <1>0, <1>1, <2>2, <2>8, ActorSnap DEF Within, Keeps
<1>5. /\ UNCHANGED <<store, actor, image, crashes>>
      /\ guard' \in [Hosts -> GuardType] /\ mark' \in [Hosts -> Ops \union {None}]
    BY PlacementAssumption DEF TagActor, OpOnly, ShapeInv, Types, Host
<1> QED
    BY <1>2, <1>3, <1>4, <1>5, QuietShape

(* A new child keeps the shape.                                            *)
LEMMA CreateChildShape ==
    ASSUME ShapeInv, NEW o \in Ops, CreateChild(o)
    PROVE  ShapeInv'
<1>0. Good(op[o]) /\ op[o] \in OpType /\ Within(op[o])
    BY DEF ShapeInv, Good
<1>1. /\ op[o].pc = "child"
      /\ HeadSeq(store) \in Nat /\ Len(image) \in Nat
    BY Numbers DEF CreateChild, At, Is
<1>2. PICK r : /\ op' = [op EXCEPT ![o] = r]
               /\ \/ r = [op[o] EXCEPT !.pc = "abort"]
                  \/ r = [op[o] EXCEPT !.pc = "copy", !.kids = Append(op[o].kids, op[o].tag)]
    BY <1>1 DEF CreateChild, Become, Goto, Fail, Succeed, At, Is
<1>3. ASSUME r = [op[o] EXCEPT !.pc = "abort"]
      PROVE  Good(r) /\ Keeps(o, r)
    <2>1. r \in OpType
        BY <1>0, <1>1, <1>3, FanoutPositive, KidLength DEF OpType, PCs, Fencing, Streaming,
           Checkpointing, Cloning
    <2>2. /\ r.kind = op[o].kind /\ r.pc = "abort" /\ r.at = op[o].at /\ r.head = op[o].head
          /\ r.fence = op[o].fence /\ r.then = op[o].then /\ r.live = op[o].live
          /\ r.superseded = op[o].superseded /\ r.ended = op[o].ended
          /\ r.minted = op[o].minted /\ r.late = op[o].late /\ r.open = op[o].open
          /\ r.snap = op[o].snap /\ r.tag = op[o].tag /\ r.kids = op[o].kids
          /\ r.result = op[o].result
        BY <1>0, <1>1, <1>3 DEF OpType
    <2>3. KindInv(r)
        BY <1>0, <1>1, <2>2, FanoutPositive, KidLength
        DEF Good, KindInv, ThenInv, LiveInv, Fencing, Streaming, Resumes, Turns, OpKinds,
            Checkpointing, Cloning
    <2>4. ThenInv(r)
        BY <1>0, <1>1, <2>2, FanoutPositive, KidLength
        DEF Good, ThenInv, KindInv, Fencing, Turns, Resumes
    <2>5. LiveInv(r)
        BY <1>0, <1>1, <2>2, FanoutPositive, KidLength
        DEF Good, LiveInv, KindInv, ThenInv, Streaming, Fencing, Turns, Resumes
    <2>6. KidsInv(r)
        BY <1>0, <1>1, <2>2, FanoutPositive, KidLength
        DEF Good, KidsInv, KindInv, Checkpointing, Cloning
    <2>7. FencedInv(r)
        BY <1>0, <1>1, <2>2, FanoutPositive, KidLength
        DEF Good, FencedInv, KindInv, ThenInv, Streaming, Fencing, Checkpointing, Turns, Resumes
    <2>8. Good(r)
        BY <2>1, <2>3, <2>4, <2>5, <2>6, <2>7 DEF Good
    <2> QED
        BY <1>0, <1>1, <2>2, <2>8, FanoutPositive, KidLength DEF Within, Keeps
<1>4. ASSUME r = [op[o] EXCEPT !.pc = "copy", !.kids = Append(op[o].kids, op[o].tag)]
      PROVE  Good(r) /\ Keeps(o, r)
    <2>1. r \in OpType
        BY <1>0, <1>1, <1>4, FanoutPositive, KidLength DEF OpType, PCs, Fencing, Streaming,
           Checkpointing, Cloning
    <2>2. /\ r.kind = op[o].kind /\ r.pc = "copy" /\ r.at = op[o].at /\ r.head = op[o].head
          /\ r.fence = op[o].fence /\ r.then = op[o].then /\ r.live = op[o].live
          /\ r.superseded = op[o].superseded /\ r.ended = op[o].ended
          /\ r.minted = op[o].minted /\ r.late = op[o].late /\ r.open = op[o].open
          /\ r.snap = op[o].snap /\ r.tag = op[o].tag /\ r.kids = Append(op[o].kids, op[o].tag)
          /\ r.result = op[o].result
        BY <1>0, <1>1, <1>4 DEF OpType
    <2>3. KindInv(r)
        BY <1>0, <1>1, <2>2, FanoutPositive, KidLength
        DEF Good, KindInv, ThenInv, LiveInv, Fencing, Streaming, Resumes, Turns, OpKinds,
            Checkpointing, Cloning
    <2>4. ThenInv(r)
        BY <1>0, <1>1, <2>2, FanoutPositive, KidLength
        DEF Good, ThenInv, KindInv, Fencing, Turns, Resumes
    <2>5. LiveInv(r)
        BY <1>0, <1>1, <2>2, FanoutPositive, KidLength
        DEF Good, LiveInv, KindInv, ThenInv, Streaming, Fencing, Turns, Resumes
    <2>6. KidsInv(r)
        BY <1>0, <1>1, <2>2, FanoutPositive, KidLength
        DEF Good, KidsInv, KindInv, Checkpointing, Cloning
    <2>7. FencedInv(r)
        BY <1>0, <1>1, <2>2, FanoutPositive, KidLength
        DEF Good, FencedInv, KindInv, ThenInv, Streaming, Fencing, Checkpointing, Turns, Resumes
    <2>8. Good(r)
        BY <2>1, <2>3, <2>4, <2>5, <2>6, <2>7 DEF Good
    <2> QED
        BY <1>0, <1>1, <2>2, <2>8, FanoutPositive, KidLength DEF Within, Keeps
<1>5. /\ UNCHANGED <<store, actor, image, crashes>>
      /\ guard' \in [Hosts -> GuardType] /\ mark' \in [Hosts -> Ops \union {None}]
    BY PlacementAssumption DEF CreateChild, OpOnly, ShapeInv, Types, Host
<1> QED
    BY <1>2, <1>3, <1>4, <1>5, QuietShape

(* The copy of the log keeps the shape.                                    *)
LEMMA CopyLogShape ==
    ASSUME ShapeInv, NEW o \in Ops, CopyLog(o)
    PROVE  ShapeInv'
<1>0. Good(op[o]) /\ op[o] \in OpType /\ Within(op[o])
    BY DEF ShapeInv, Good
<1>1. /\ op[o].pc = "copy"
      /\ HeadSeq(store) \in Nat /\ Len(image) \in Nat
    BY Numbers DEF CopyLog, At, Is
<1>2. PICK r : /\ op' = [op EXCEPT ![o] = r]
               /\ \/ r = [op[o] EXCEPT !.pc = "abort"]
                  \/ r = [op[o] EXCEPT !.pc = "unwind", !.result = "ok"]
                  \/ Len(op[o].kids) # Fanout /\ r = [op[o] EXCEPT !.pc = IF Tier = "MEMORY" THEN "require" ELSE "child"]
    BY <1>1 DEF CopyLog, Become, Goto, Fail, Succeed, At, Is
<1>3. ASSUME r = [op[o] EXCEPT !.pc = "abort"]
      PROVE  Good(r) /\ Keeps(o, r)
    <2>1. r \in OpType
        BY <1>0, <1>1, <1>3, FanoutPositive, KidLength DEF OpType, PCs, Fencing, Streaming,
           Checkpointing, Cloning
    <2>2. /\ r.kind = op[o].kind /\ r.pc = "abort" /\ r.at = op[o].at /\ r.head = op[o].head
          /\ r.fence = op[o].fence /\ r.then = op[o].then /\ r.live = op[o].live
          /\ r.superseded = op[o].superseded /\ r.ended = op[o].ended
          /\ r.minted = op[o].minted /\ r.late = op[o].late /\ r.open = op[o].open
          /\ r.snap = op[o].snap /\ r.tag = op[o].tag /\ r.kids = op[o].kids
          /\ r.result = op[o].result
        BY <1>0, <1>1, <1>3 DEF OpType
    <2>3. KindInv(r)
        BY <1>0, <1>1, <2>2, FanoutPositive, KidLength
        DEF Good, KindInv, ThenInv, LiveInv, Fencing, Streaming, Resumes, Turns, OpKinds,
            Checkpointing, Cloning
    <2>4. ThenInv(r)
        BY <1>0, <1>1, <2>2, FanoutPositive, KidLength
        DEF Good, ThenInv, KindInv, Fencing, Turns, Resumes
    <2>5. LiveInv(r)
        BY <1>0, <1>1, <2>2, FanoutPositive, KidLength
        DEF Good, LiveInv, KindInv, ThenInv, Streaming, Fencing, Turns, Resumes
    <2>6. KidsInv(r)
        BY <1>0, <1>1, <2>2, FanoutPositive, KidLength
        DEF Good, KidsInv, KindInv, Checkpointing, Cloning
    <2>7. FencedInv(r)
        BY <1>0, <1>1, <2>2, FanoutPositive, KidLength
        DEF Good, FencedInv, KindInv, ThenInv, Streaming, Fencing, Checkpointing, Turns, Resumes
    <2>8. Good(r)
        BY <2>1, <2>3, <2>4, <2>5, <2>6, <2>7 DEF Good
    <2> QED
        BY <1>0, <1>1, <2>2, <2>8, FanoutPositive, KidLength DEF Within, Keeps
<1>4. ASSUME r = [op[o] EXCEPT !.pc = "unwind", !.result = "ok"]
      PROVE  Good(r) /\ Keeps(o, r)
    <2>1. r \in OpType
        BY <1>0, <1>1, <1>4, FanoutPositive, KidLength DEF OpType, PCs, Fencing, Streaming,
           Checkpointing, Cloning
    <2>2. /\ r.kind = op[o].kind /\ r.pc = "unwind" /\ r.at = op[o].at /\ r.head = op[o].head
          /\ r.fence = op[o].fence /\ r.then = op[o].then /\ r.live = op[o].live
          /\ r.superseded = op[o].superseded /\ r.ended = op[o].ended
          /\ r.minted = op[o].minted /\ r.late = op[o].late /\ r.open = op[o].open
          /\ r.snap = op[o].snap /\ r.tag = op[o].tag /\ r.kids = op[o].kids /\ r.result = "ok"
        BY <1>0, <1>1, <1>4 DEF OpType
    <2>3. KindInv(r)
        BY <1>0, <1>1, <2>2, FanoutPositive, KidLength
        DEF Good, KindInv, ThenInv, LiveInv, Fencing, Streaming, Resumes, Turns, OpKinds,
            Checkpointing, Cloning
    <2>4. ThenInv(r)
        BY <1>0, <1>1, <2>2, FanoutPositive, KidLength
        DEF Good, ThenInv, KindInv, Fencing, Turns, Resumes
    <2>5. LiveInv(r)
        BY <1>0, <1>1, <2>2, FanoutPositive, KidLength
        DEF Good, LiveInv, KindInv, ThenInv, Streaming, Fencing, Turns, Resumes
    <2>6. KidsInv(r)
        BY <1>0, <1>1, <2>2, FanoutPositive, KidLength
        DEF Good, KidsInv, KindInv, Checkpointing, Cloning
    <2>7. FencedInv(r)
        BY <1>0, <1>1, <2>2, FanoutPositive, KidLength
        DEF Good, FencedInv, KindInv, ThenInv, Streaming, Fencing, Checkpointing, Turns, Resumes
    <2>8. Good(r)
        BY <2>1, <2>3, <2>4, <2>5, <2>6, <2>7 DEF Good
    <2> QED
        BY <1>0, <1>1, <2>2, <2>8, FanoutPositive, KidLength DEF Within, Keeps
<1>5. ASSUME Len(op[o].kids) # Fanout,
          r = [op[o] EXCEPT !.pc = IF Tier = "MEMORY" THEN "require" ELSE "child"]
      PROVE  Good(r) /\ Keeps(o, r)
    <2>1. r \in OpType
        BY ZenonT(40), <1>0, <1>1, <1>5, FanoutPositive, KidLength DEF OpType, PCs, Fencing, Streaming,
           Checkpointing, Cloning
    <2>2. /\ r.kind = op[o].kind /\ r.pc = IF Tier = "MEMORY" THEN "require" ELSE "child"
          /\ r.at = op[o].at /\ r.head = op[o].head /\ r.fence = op[o].fence
          /\ r.then = op[o].then /\ r.live = op[o].live /\ r.superseded = op[o].superseded
          /\ r.ended = op[o].ended /\ r.minted = op[o].minted /\ r.late = op[o].late
          /\ r.open = op[o].open /\ r.snap = op[o].snap /\ r.tag = op[o].tag
          /\ r.kids = op[o].kids /\ r.result = op[o].result
        BY <1>0, <1>1, <1>5 DEF OpType
    <2>3. KindInv(r)
        BY <1>0, <1>1, <1>5, <2>2, FanoutPositive, KidLength
        DEF Good, KindInv, ThenInv, LiveInv, Fencing, Streaming, Resumes, Turns, OpKinds,
            Checkpointing, Cloning
    <2>4. ThenInv(r)
        BY <1>0, <1>1, <1>5, <2>2, FanoutPositive, KidLength
        DEF Good, ThenInv, KindInv, Fencing, Turns, Resumes
    <2>5. LiveInv(r)
        BY <1>0, <1>1, <1>5, <2>2, FanoutPositive, KidLength
        DEF Good, LiveInv, KindInv, ThenInv, Streaming, Fencing, Turns, Resumes
    <2>6. KidsInv(r)
        BY <1>0, <1>1, <1>5, <2>2, FanoutPositive, KidLength
        DEF Good, KidsInv, KindInv, Checkpointing, Cloning
    <2>7. FencedInv(r)
        BY <1>0, <1>1, <1>5, <2>2, FanoutPositive, KidLength
        DEF Good, FencedInv, KindInv, ThenInv, Streaming, Fencing, Checkpointing, Turns, Resumes
    <2>8. Good(r)
        BY <2>1, <2>3, <2>4, <2>5, <2>6, <2>7 DEF Good
    <2> QED
        BY <1>0, <1>1, <2>2, <2>8, FanoutPositive, KidLength DEF Within, Keeps
<1>6. /\ UNCHANGED <<store, actor, image, crashes>>
      /\ guard' \in [Hosts -> GuardType] /\ mark' \in [Hosts -> Ops \union {None}]
    BY PlacementAssumption DEF CopyLog, OpOnly, ShapeInv, Types, Host
<1> QED
    BY <1>2, <1>3, <1>4, <1>5, <1>6, QuietShape

(* An abort keeps the shape.                                               *)
LEMMA AbortForkShape ==
    ASSUME ShapeInv, NEW o \in Ops, AbortFork(o)
    PROVE  ShapeInv'
<1>0. Good(op[o]) /\ op[o] \in OpType /\ Within(op[o])
    BY DEF ShapeInv, Good
<1>1. /\ op[o].pc = "abort"
      /\ HeadSeq(store) \in Nat /\ Len(image) \in Nat
    BY Numbers DEF AbortFork, At, Is
<1>2. PICK r : /\ op' = [op EXCEPT ![o] = r]
               /\ \/ r = [op[o] EXCEPT !.pc = "rollback"]
    BY <1>1 DEF AbortFork, Become, Goto, Fail, Succeed, At, Is
<1>3. ASSUME r = [op[o] EXCEPT !.pc = "rollback"]
      PROVE  Good(r) /\ Keeps(o, r)
    <2>1. r \in OpType
        BY <1>0, <1>1, <1>3 DEF OpType, PCs, Fencing, Streaming, Checkpointing, Cloning
    <2>2. /\ r.kind = op[o].kind /\ r.pc = "rollback" /\ r.at = op[o].at /\ r.head = op[o].head
          /\ r.fence = op[o].fence /\ r.then = op[o].then /\ r.live = op[o].live
          /\ r.superseded = op[o].superseded /\ r.ended = op[o].ended
          /\ r.minted = op[o].minted /\ r.late = op[o].late /\ r.open = op[o].open
          /\ r.snap = op[o].snap /\ r.tag = op[o].tag /\ r.kids = op[o].kids
          /\ r.result = op[o].result
        BY <1>0, <1>1, <1>3 DEF OpType
    <2>3. KindInv(r)
        BY <1>0, <1>1, <2>2
        DEF Good, KindInv, ThenInv, LiveInv, Fencing, Streaming, Resumes, Turns, OpKinds,
            Checkpointing, Cloning
    <2>4. ThenInv(r)
        BY <1>0, <1>1, <2>2
        DEF Good, ThenInv, KindInv, Fencing, Turns, Resumes
    <2>5. LiveInv(r)
        BY <1>0, <1>1, <2>2
        DEF Good, LiveInv, KindInv, ThenInv, Streaming, Fencing, Turns, Resumes
    <2>6. KidsInv(r)
        BY <1>0, <1>1, <2>2
        DEF Good, KidsInv, KindInv, Checkpointing, Cloning
    <2>7. FencedInv(r)
        BY <1>0, <1>1, <2>2
        DEF Good, FencedInv, KindInv, ThenInv, Streaming, Fencing, Checkpointing, Turns, Resumes
    <2>8. Good(r)
        BY <2>1, <2>3, <2>4, <2>5, <2>6, <2>7 DEF Good
    <2> QED
        BY <1>0, <1>1, <2>2, <2>8 DEF Within, Keeps
<1>4. /\ UNCHANGED <<store, actor, image, crashes>>
      /\ guard' \in [Hosts -> GuardType] /\ mark' \in [Hosts -> Ops \union {None}]
    BY PlacementAssumption DEF AbortFork, OpOnly, ShapeInv, Types, Host
<1> QED
    BY <1>2, <1>3, <1>4, QuietShape

(* A rollback keeps the shape.                                             *)
LEMMA RollbackForkShape ==
    ASSUME ShapeInv, NEW o \in Ops, RollbackFork(o)
    PROVE  ShapeInv'
<1>0. Good(op[o]) /\ op[o] \in OpType /\ Within(op[o])
    BY DEF ShapeInv, Good
<1>1. /\ op[o].pc = "rollback"
      /\ HeadSeq(store) \in Nat /\ Len(image) \in Nat
    BY Numbers DEF RollbackFork, At, Is
<1>2. PICK r : /\ op' = [op EXCEPT ![o] = r]
               /\ \/ r = [op[o] EXCEPT !.pc = "unwind", !.kids = <<>>]
    BY <1>1 DEF RollbackFork, Become, Goto, Fail, Succeed, At, Is
<1>3. ASSUME r = [op[o] EXCEPT !.pc = "unwind", !.kids = <<>>]
      PROVE  Good(r) /\ Keeps(o, r)
    <2>1. r \in OpType
        BY <1>0, <1>1, <1>3, FanoutPositive, NoKids DEF OpType, PCs, Fencing, Streaming,
           Checkpointing, Cloning
    <2>2. /\ r.kind = op[o].kind /\ r.pc = "unwind" /\ r.at = op[o].at /\ r.head = op[o].head
          /\ r.fence = op[o].fence /\ r.then = op[o].then /\ r.live = op[o].live
          /\ r.superseded = op[o].superseded /\ r.ended = op[o].ended
          /\ r.minted = op[o].minted /\ r.late = op[o].late /\ r.open = op[o].open
          /\ r.snap = op[o].snap /\ r.tag = op[o].tag /\ r.kids = <<>>
          /\ r.result = op[o].result
        BY <1>0, <1>1, <1>3 DEF OpType
    <2>3. KindInv(r)
        BY <1>0, <1>1, <2>2, FanoutPositive, NoKids
        DEF Good, KindInv, ThenInv, LiveInv, Fencing, Streaming, Resumes, Turns, OpKinds,
            Checkpointing, Cloning
    <2>4. ThenInv(r)
        BY <1>0, <1>1, <2>2, FanoutPositive, NoKids
        DEF Good, ThenInv, KindInv, Fencing, Turns, Resumes
    <2>5. LiveInv(r)
        BY <1>0, <1>1, <2>2, FanoutPositive, NoKids
        DEF Good, LiveInv, KindInv, ThenInv, Streaming, Fencing, Turns, Resumes
    <2>6. KidsInv(r)
        BY <1>0, <1>1, <2>2, FanoutPositive, NoKids
        DEF Good, KidsInv, KindInv, Checkpointing, Cloning
    <2>7. FencedInv(r)
        BY <1>0, <1>1, <2>2, FanoutPositive, NoKids
        DEF Good, FencedInv, KindInv, ThenInv, Streaming, Fencing, Checkpointing, Turns, Resumes
    <2>8. Good(r)
        BY <2>1, <2>3, <2>4, <2>5, <2>6, <2>7 DEF Good
    <2> QED
        BY <1>0, <1>1, <2>2, <2>8, FanoutPositive, NoKids DEF Within, Keeps
<1>4. /\ UNCHANGED <<store, actor, image, crashes>>
      /\ guard' \in [Hosts -> GuardType] /\ mark' \in [Hosts -> Ops \union {None}]
    BY PlacementAssumption DEF RollbackFork, OpOnly, ShapeInv, Types, Host
<1> QED
    BY <1>2, <1>3, <1>4, QuietShape

(* The check of the head under the mark keeps the shape.                   *)
LEMMA FenceHeadShape ==
    ASSUME ShapeInv, NEW o \in Ops, FenceHead(o)
    PROVE  ShapeInv'
<1>0. Good(op[o]) /\ op[o] \in OpType /\ Within(op[o])
    BY DEF ShapeInv, Good
<1>1. /\ op[o].pc = "fenceHead" /\ op[o].then \in {"repair", "create", "check"}
      /\ HeadSeq(store) \in Nat /\ Len(image) \in Nat
    BY Numbers DEF FenceHead, At, Is, ShapeInv, Good, KindInv, ThenInv, Fencing
<1>2. PICK r : /\ op' = [op EXCEPT ![o] = r]
               /\ \/ r = [op[o] EXCEPT !.minted = op[o].live, !.pc = op[o].then]
                  \/ r = [op[o] EXCEPT !.minted = op[o].live, !.pc = "unwind"]
    BY <1>1 DEF FenceHead, Become, Goto, Fail, Succeed, At, Is
<1>3. ASSUME r = [op[o] EXCEPT !.minted = op[o].live, !.pc = op[o].then]
      PROVE  Good(r) /\ Keeps(o, r)
    <2>1. r \in OpType
        BY <1>0, <1>1, <1>3 DEF OpType, PCs, Fencing, Streaming, Checkpointing, Cloning
    <2>2. /\ r.kind = op[o].kind /\ r.pc = op[o].then /\ r.at = op[o].at /\ r.head = op[o].head
          /\ r.fence = op[o].fence /\ r.then = op[o].then /\ r.live = op[o].live
          /\ r.superseded = op[o].superseded /\ r.ended = op[o].ended /\ r.minted = op[o].live
          /\ r.late = op[o].late /\ r.open = op[o].open /\ r.snap = op[o].snap
          /\ r.tag = op[o].tag /\ r.kids = op[o].kids /\ r.result = op[o].result
        BY <1>0, <1>1, <1>3 DEF OpType
    <2>3. KindInv(r)
        BY <1>0, <1>1, <2>2
        DEF Good, KindInv, ThenInv, LiveInv, Fencing, Streaming, Resumes, Turns, OpKinds,
            Checkpointing, Cloning
    <2>4. ThenInv(r)
        BY <1>0, <1>1, <2>2
        DEF Good, ThenInv, KindInv, Fencing, Turns, Resumes
    <2>5. LiveInv(r)
        BY <1>0, <1>1, <2>2
        DEF Good, LiveInv, KindInv, ThenInv, Streaming, Fencing, Turns, Resumes
    <2>6. KidsInv(r)
        BY <1>0, <1>1, <2>2
        DEF Good, KidsInv, KindInv, Checkpointing, Cloning
    <2>7. FencedInv(r)
        BY <1>0, <1>1, <2>2
        DEF Good, FencedInv, KindInv, ThenInv, Streaming, Fencing, Checkpointing, Turns, Resumes
    <2>8. Good(r)
        BY <2>1, <2>3, <2>4, <2>5, <2>6, <2>7 DEF Good
    <2> QED
        BY <1>0, <1>1, <2>2, <2>8 DEF Within, Keeps
<1>4. ASSUME r = [op[o] EXCEPT !.minted = op[o].live, !.pc = "unwind"]
      PROVE  Good(r) /\ Keeps(o, r)
    <2>1. r \in OpType
        BY <1>0, <1>1, <1>4 DEF OpType, PCs, Fencing, Streaming, Checkpointing, Cloning
    <2>2. /\ r.kind = op[o].kind /\ r.pc = "unwind" /\ r.at = op[o].at /\ r.head = op[o].head
          /\ r.fence = op[o].fence /\ r.then = op[o].then /\ r.live = op[o].live
          /\ r.superseded = op[o].superseded /\ r.ended = op[o].ended /\ r.minted = op[o].live
          /\ r.late = op[o].late /\ r.open = op[o].open /\ r.snap = op[o].snap
          /\ r.tag = op[o].tag /\ r.kids = op[o].kids /\ r.result = op[o].result
        BY <1>0, <1>1, <1>4 DEF OpType
    <2>3. KindInv(r)
        BY <1>0, <1>1, <2>2
        DEF Good, KindInv, ThenInv, LiveInv, Fencing, Streaming, Resumes, Turns, OpKinds,
            Checkpointing, Cloning
    <2>4. ThenInv(r)
        BY <1>0, <1>1, <2>2
        DEF Good, ThenInv, KindInv, Fencing, Turns, Resumes
    <2>5. LiveInv(r)
        BY <1>0, <1>1, <2>2
        DEF Good, LiveInv, KindInv, ThenInv, Streaming, Fencing, Turns, Resumes
    <2>6. KidsInv(r)
        BY <1>0, <1>1, <2>2
        DEF Good, KidsInv, KindInv, Checkpointing, Cloning
    <2>7. FencedInv(r)
        BY <1>0, <1>1, <2>2
        DEF Good, FencedInv, KindInv, ThenInv, Streaming, Fencing, Checkpointing, Turns, Resumes
    <2>8. Good(r)
        BY <2>1, <2>3, <2>4, <2>5, <2>6, <2>7 DEF Good
    <2> QED
        BY <1>0, <1>1, <2>2, <2>8 DEF Within, Keeps
<1>5. /\ UNCHANGED <<store, actor, image, crashes>>
      /\ guard' \in [Hosts -> GuardType] /\ mark' \in [Hosts -> Ops \union {None}]
    BY PlacementAssumption DEF FenceHead, OpOnly, ShapeInv, Types, Host
<1> QED
    BY <1>2, <1>3, <1>4, <1>5, QuietShape

(* The mark keeps the shape.                                               *)
LEMMA MarkShape ==
    ASSUME ShapeInv, NEW o \in Ops, Mark(o)
    PROVE  ShapeInv'
<1>0. Good(op[o]) /\ op[o] \in OpType /\ Within(op[o])
    BY DEF ShapeInv, Good
<1>1. /\ op[o].pc \in {"mark", "fenceMark"}
      /\ HeadSeq(store) \in Nat /\ Len(image) \in Nat
    BY Numbers DEF Mark, At, Is
<1>2. PICK r : /\ op' = [op EXCEPT ![o] = r]
               /\ \/ r = [op[o] EXCEPT !.pc = "unwind", !.minted = op[o].live]
                  \/ op[o].pc = "fenceMark" /\ r = [op[o] EXCEPT !.pc = "fenceMint"]
                  \/ op[o].pc = "mark" /\ op[o].kind = "Suspend" /\ r = [op[o] EXCEPT !.pc = "snapshot"]
                  \/ op[o].pc = "mark" /\ op[o].kind = "Approve" /\ r = [op[o] EXCEPT !.pc = "scan"]
                  \/ op[o].pc = "mark" /\ op[o].kind \notin {"Suspend",
                        "Approve"} /\ r = [op[o] EXCEPT !.pc = "handoff"]
    <2>1. CASE MarkFree(o) /\ op[o].pc = "fenceMark"
        BY <1>0, <2>1 DEF Mark, Become, Goto, At, Is, Good, KindInv
    <2>2. CASE MarkFree(o) /\ op[o].pc = "mark" /\ op[o].kind = "Suspend"
        BY <2>2 DEF Mark, Become, Goto, At, Is
    <2>3. CASE MarkFree(o) /\ op[o].pc = "mark" /\ op[o].kind = "Approve"
        BY <2>3 DEF Mark, Become, Goto, At, Is
    <2>4. CASE MarkFree(o) /\ op[o].pc = "mark" /\ op[o].kind \notin {"Suspend", "Approve"}
        BY <2>4 DEF Mark, Become, Goto, At, Is
    <2>5. CASE ~MarkFree(o)
        BY <2>5 DEF Mark, Become
    <2> QED
        BY <1>1, <2>1, <2>2, <2>3, <2>4, <2>5
<1>3. ASSUME r = [op[o] EXCEPT !.pc = "unwind", !.minted = op[o].live]
      PROVE  Good(r) /\ Keeps(o, r)
    <2>1. r \in OpType
        BY <1>0, <1>1, <1>3 DEF OpType, PCs, Fencing, Streaming, Checkpointing, Cloning
    <2>2. /\ r.kind = op[o].kind /\ r.pc = "unwind" /\ r.at = op[o].at /\ r.head = op[o].head
          /\ r.fence = op[o].fence /\ r.then = op[o].then /\ r.live = op[o].live
          /\ r.superseded = op[o].superseded /\ r.ended = op[o].ended /\ r.minted = op[o].live
          /\ r.late = op[o].late /\ r.open = op[o].open /\ r.snap = op[o].snap
          /\ r.tag = op[o].tag /\ r.kids = op[o].kids /\ r.result = op[o].result
        BY <1>0, <1>1, <1>3 DEF OpType
    <2>3. KindInv(r)
        BY <1>0, <1>1, <2>2
        DEF Good, KindInv, ThenInv, LiveInv, Fencing, Streaming, Resumes, Turns, OpKinds,
            Checkpointing, Cloning
    <2>4. ThenInv(r)
        BY <1>0, <1>1, <2>2
        DEF Good, ThenInv, KindInv, Fencing, Turns, Resumes
    <2>5. LiveInv(r)
        BY <1>0, <1>1, <2>2
        DEF Good, LiveInv, KindInv, ThenInv, Streaming, Fencing, Turns, Resumes
    <2>6. KidsInv(r)
        BY <1>0, <1>1, <2>2
        DEF Good, KidsInv, KindInv, Checkpointing, Cloning
    <2>7. FencedInv(r)
        BY <1>0, <1>1, <2>2
        DEF Good, FencedInv, KindInv, ThenInv, Streaming, Fencing, Checkpointing, Turns, Resumes
    <2>8. Good(r)
        BY <2>1, <2>3, <2>4, <2>5, <2>6, <2>7 DEF Good
    <2> QED
        BY <1>0, <1>1, <2>2, <2>8 DEF Within, Keeps
<1>4. ASSUME op[o].pc = "fenceMark", r = [op[o] EXCEPT !.pc = "fenceMint"]
      PROVE  Good(r) /\ Keeps(o, r)
    <2>1. r \in OpType
        BY <1>0, <1>1, <1>4 DEF OpType, PCs, Fencing, Streaming, Checkpointing, Cloning
    <2>2. /\ r.kind = op[o].kind /\ r.pc = "fenceMint" /\ r.at = op[o].at
          /\ r.head = op[o].head /\ r.fence = op[o].fence /\ r.then = op[o].then
          /\ r.live = op[o].live /\ r.superseded = op[o].superseded /\ r.ended = op[o].ended
          /\ r.minted = op[o].minted /\ r.late = op[o].late /\ r.open = op[o].open
          /\ r.snap = op[o].snap /\ r.tag = op[o].tag /\ r.kids = op[o].kids
          /\ r.result = op[o].result
        BY <1>0, <1>1, <1>4 DEF OpType
    <2>3. KindInv(r)
        BY <1>0, <1>1, <1>4, <2>2
        DEF Good, KindInv, ThenInv, LiveInv, Fencing, Streaming, Resumes, Turns, OpKinds,
            Checkpointing, Cloning
    <2>4. ThenInv(r)
        BY <1>0, <1>1, <1>4, <2>2
        DEF Good, ThenInv, KindInv, Fencing, Turns, Resumes
    <2>5. LiveInv(r)
        BY <1>0, <1>1, <1>4, <2>2
        DEF Good, LiveInv, KindInv, ThenInv, Streaming, Fencing, Turns, Resumes
    <2>6. KidsInv(r)
        BY <1>0, <1>1, <1>4, <2>2
        DEF Good, KidsInv, KindInv, Checkpointing, Cloning
    <2>7. FencedInv(r)
        BY <1>0, <1>1, <1>4, <2>2
        DEF Good, FencedInv, KindInv, ThenInv, Streaming, Fencing, Checkpointing, Turns, Resumes
    <2>8. Good(r)
        BY <2>1, <2>3, <2>4, <2>5, <2>6, <2>7 DEF Good
    <2> QED
        BY <1>0, <1>1, <2>2, <2>8 DEF Within, Keeps
<1>5. ASSUME op[o].pc = "mark" /\ op[o].kind = "Suspend", r = [op[o] EXCEPT !.pc = "snapshot"]
      PROVE  Good(r) /\ Keeps(o, r)
    <2>1. r \in OpType
        BY <1>0, <1>1, <1>5 DEF OpType, PCs, Fencing, Streaming, Checkpointing, Cloning
    <2>2. /\ r.kind = op[o].kind /\ r.pc = "snapshot" /\ r.at = op[o].at /\ r.head = op[o].head
          /\ r.fence = op[o].fence /\ r.then = op[o].then /\ r.live = op[o].live
          /\ r.superseded = op[o].superseded /\ r.ended = op[o].ended
          /\ r.minted = op[o].minted /\ r.late = op[o].late /\ r.open = op[o].open
          /\ r.snap = op[o].snap /\ r.tag = op[o].tag /\ r.kids = op[o].kids
          /\ r.result = op[o].result
        BY <1>0, <1>1, <1>5 DEF OpType
    <2>3. KindInv(r)
        BY <1>0, <1>1, <1>5, <2>2
        DEF Good, KindInv, ThenInv, LiveInv, Fencing, Streaming, Resumes, Turns, OpKinds,
            Checkpointing, Cloning
    <2>4. ThenInv(r)
        BY <1>0, <1>1, <1>5, <2>2
        DEF Good, ThenInv, KindInv, Fencing, Turns, Resumes
    <2>5. LiveInv(r)
        BY <1>0, <1>1, <1>5, <2>2
        DEF Good, LiveInv, KindInv, ThenInv, Streaming, Fencing, Turns, Resumes
    <2>6. KidsInv(r)
        BY <1>0, <1>1, <1>5, <2>2
        DEF Good, KidsInv, KindInv, Checkpointing, Cloning
    <2>7. FencedInv(r)
        BY <1>0, <1>1, <1>5, <2>2
        DEF Good, FencedInv, KindInv, ThenInv, Streaming, Fencing, Checkpointing, Turns, Resumes
    <2>8. Good(r)
        BY <2>1, <2>3, <2>4, <2>5, <2>6, <2>7 DEF Good
    <2> QED
        BY <1>0, <1>1, <2>2, <2>8 DEF Within, Keeps
<1>6. ASSUME op[o].pc = "mark" /\ op[o].kind = "Approve", r = [op[o] EXCEPT !.pc = "scan"]
      PROVE  Good(r) /\ Keeps(o, r)
    <2>1. r \in OpType
        BY <1>0, <1>1, <1>6 DEF OpType, PCs, Fencing, Streaming, Checkpointing, Cloning
    <2>2. /\ r.kind = op[o].kind /\ r.pc = "scan" /\ r.at = op[o].at /\ r.head = op[o].head
          /\ r.fence = op[o].fence /\ r.then = op[o].then /\ r.live = op[o].live
          /\ r.superseded = op[o].superseded /\ r.ended = op[o].ended
          /\ r.minted = op[o].minted /\ r.late = op[o].late /\ r.open = op[o].open
          /\ r.snap = op[o].snap /\ r.tag = op[o].tag /\ r.kids = op[o].kids
          /\ r.result = op[o].result
        BY <1>0, <1>1, <1>6 DEF OpType
    <2>3. KindInv(r)
        BY <1>0, <1>1, <1>6, <2>2
        DEF Good, KindInv, ThenInv, LiveInv, Fencing, Streaming, Resumes, Turns, OpKinds,
            Checkpointing, Cloning
    <2>4. ThenInv(r)
        BY <1>0, <1>1, <1>6, <2>2
        DEF Good, ThenInv, KindInv, Fencing, Turns, Resumes
    <2>5. LiveInv(r)
        BY <1>0, <1>1, <1>6, <2>2
        DEF Good, LiveInv, KindInv, ThenInv, Streaming, Fencing, Turns, Resumes
    <2>6. KidsInv(r)
        BY <1>0, <1>1, <1>6, <2>2
        DEF Good, KidsInv, KindInv, Checkpointing, Cloning
    <2>7. FencedInv(r)
        BY <1>0, <1>1, <1>6, <2>2
        DEF Good, FencedInv, KindInv, ThenInv, Streaming, Fencing, Checkpointing, Turns, Resumes
    <2>8. Good(r)
        BY <2>1, <2>3, <2>4, <2>5, <2>6, <2>7 DEF Good
    <2> QED
        BY <1>0, <1>1, <2>2, <2>8 DEF Within, Keeps
<1>7. ASSUME op[o].pc = "mark" /\ op[o].kind \notin {"Suspend", "Approve"},
          r = [op[o] EXCEPT !.pc = "handoff"]
      PROVE  Good(r) /\ Keeps(o, r)
    <2>1. r \in OpType
        BY <1>0, <1>1, <1>7 DEF OpType, PCs, Fencing, Streaming, Checkpointing, Cloning
    <2>2. /\ r.kind = op[o].kind /\ r.pc = "handoff" /\ r.at = op[o].at /\ r.head = op[o].head
          /\ r.fence = op[o].fence /\ r.then = op[o].then /\ r.live = op[o].live
          /\ r.superseded = op[o].superseded /\ r.ended = op[o].ended
          /\ r.minted = op[o].minted /\ r.late = op[o].late /\ r.open = op[o].open
          /\ r.snap = op[o].snap /\ r.tag = op[o].tag /\ r.kids = op[o].kids
          /\ r.result = op[o].result
        BY <1>0, <1>1, <1>7 DEF OpType
    <2>3. KindInv(r)
        BY <1>0, <1>1, <1>7, <2>2
        DEF Good, KindInv, ThenInv, LiveInv, Fencing, Streaming, Resumes, Turns, OpKinds,
            Checkpointing, Cloning
    <2>4. ThenInv(r)
        BY <1>0, <1>1, <1>7, <2>2
        DEF Good, ThenInv, KindInv, Fencing, Turns, Resumes
    <2>5. LiveInv(r)
        BY <1>0, <1>1, <1>7, <2>2
        DEF Good, LiveInv, KindInv, ThenInv, Streaming, Fencing, Turns, Resumes
    <2>6. KidsInv(r)
        BY <1>0, <1>1, <1>7, <2>2
        DEF Good, KidsInv, KindInv, Checkpointing, Cloning
    <2>7. FencedInv(r)
        BY <1>0, <1>1, <1>7, <2>2
        DEF Good, FencedInv, KindInv, ThenInv, Streaming, Fencing, Checkpointing, Turns, Resumes
    <2>8. Good(r)
        BY <2>1, <2>3, <2>4, <2>5, <2>6, <2>7 DEF Good
    <2> QED
        BY <1>0, <1>1, <2>2, <2>8 DEF Within, Keeps
<1>8. /\ UNCHANGED <<store, actor, image, crashes>>
      /\ guard' \in [Hosts -> GuardType] /\ mark' \in [Hosts -> Ops \union {None}]
    BY PlacementAssumption DEF Mark, OpOnly, ShapeInv, Types, Host
<1> QED
    BY <1>2, <1>3, <1>4, <1>5, <1>6, <1>7, <1>8, QuietShape

(* The deferred releases keep the shape.                                   *)
LEMMA UnwindShape ==
    ASSUME ShapeInv, NEW o \in Ops, Unwind(o)
    PROVE  ShapeInv'
<1>0. Good(op[o]) /\ op[o] \in OpType /\ Within(op[o])
    BY DEF ShapeInv, Good
<1>1. /\ op[o].pc = "unwind"
      /\ HeadSeq(store) \in Nat /\ Len(image) \in Nat
    BY Numbers DEF Unwind, At, Is
<1>2. PICK r : /\ op' = [op EXCEPT ![o] = r]
               /\ \/ r = [op[o] EXCEPT !.pc = "done", !.live = FALSE, !.minted = TRUE,
                                       !.then = "none", !.open = {},
                                       !.tag = 0, !.head = 0,
                                       !.superseded = FALSE,
                                       !.ended = FALSE]
    BY <1>1 DEF Unwind, Become, Goto, Fail, Succeed, At, Is
<1>3. ASSUME r = [op[o] EXCEPT !.pc = "done", !.live = FALSE, !.minted = TRUE,
                               !.then = "none", !.open = {},
                               !.tag = 0, !.head = 0,
                               !.superseded = FALSE, !.ended = FALSE]
      PROVE  Good(r) /\ Keeps(o, r)
    <2>1. r \in OpType
        BY ZenonT(40), <1>0, <1>1, <1>3 DEF OpType, PCs, Fencing, Streaming, Checkpointing, Cloning
    <2>2. /\ r.kind = op[o].kind /\ r.pc = "done" /\ r.at = op[o].at /\ r.head = 0
          /\ r.fence = op[o].fence /\ r.then = "none" /\ r.live = FALSE /\ r.superseded = FALSE
          /\ r.ended = FALSE /\ r.minted = TRUE /\ r.late = op[o].late /\ r.open = {}
          /\ r.snap = op[o].snap /\ r.tag = 0 /\ r.kids = op[o].kids /\ r.result = op[o].result
        BY <1>0, <1>1, <1>3 DEF OpType
    <2>3. KindInv(r)
        BY <1>0, <1>1, <2>2
        DEF Good, KindInv, ThenInv, LiveInv, Fencing, Streaming, Resumes, Turns, OpKinds,
            Checkpointing, Cloning
    <2>4. ThenInv(r)
        BY <1>0, <1>1, <2>2
        DEF Good, ThenInv, KindInv, Fencing, Turns, Resumes
    <2>5. LiveInv(r)
        BY <1>0, <1>1, <2>2
        DEF Good, LiveInv, KindInv, ThenInv, Streaming, Fencing, Turns, Resumes
    <2>6. KidsInv(r)
        BY <1>0, <1>1, <2>2
        DEF Good, KidsInv, KindInv, Checkpointing, Cloning
    <2>7. FencedInv(r)
        BY <1>0, <1>1, <2>2
        DEF Good, FencedInv, KindInv, ThenInv, Streaming, Fencing, Checkpointing, Turns, Resumes
    <2>8. Good(r)
        BY <2>1, <2>3, <2>4, <2>5, <2>6, <2>7 DEF Good
    <2> QED
        BY <1>0, <1>1, <2>2, <2>8 DEF Within, Keeps
<1>4. /\ UNCHANGED <<store, actor, image, crashes>>
      /\ guard' \in [Hosts -> GuardType] /\ mark' \in [Hosts -> Ops \union {None}]
    BY ReleaseTypes, PlacementAssumption DEF Unwind, OpOnly, ShapeInv, Types, Host
<1> QED
    BY <1>2, <1>3, <1>4, QuietShape

(* The steps that append a record.                                         *)
LEMMA RepairShape ==
    ASSUME ShapeInv, NEW o \in Ops, Repair(o)
    PROVE  ShapeInv'
<1>0. Good(op[o]) /\ op[o] \in OpType /\ Within(op[o])
    BY DEF ShapeInv, Good
<1>1. /\ op[o].pc = "repair"
      /\ HeadSeq(store) \in Nat /\ Len(image) \in Nat
    BY Numbers DEF Repair, At, Is
<1>2. PICK r : r = [op[o] EXCEPT !.pc = "unwind", !.result = "pending"]
    OBVIOUS
<1>3. /\ Good(r) /\ Keeps(o, r) /\ r.head = op[o].head /\ r.tag = op[o].tag
    <2>1. r \in OpType
        BY <1>0, <1>1, <1>2 DEF OpType, PCs, Fencing, Streaming, Checkpointing, Cloning
    <2>2. /\ r.kind = op[o].kind /\ r.pc = "unwind" /\ r.at = op[o].at /\ r.head = op[o].head
          /\ r.fence = op[o].fence /\ r.then = op[o].then /\ r.live = op[o].live
          /\ r.superseded = op[o].superseded /\ r.ended = op[o].ended
          /\ r.minted = op[o].minted /\ r.late = op[o].late /\ r.open = op[o].open
          /\ r.snap = op[o].snap /\ r.tag = op[o].tag /\ r.kids = op[o].kids
          /\ r.result = "pending"
        BY <1>0, <1>1, <1>2 DEF OpType
    <2>3. KindInv(r)
        BY <1>0, <1>1, <2>2
        DEF Good, KindInv, ThenInv, LiveInv, Fencing, Streaming, Resumes, Turns, OpKinds,
            Checkpointing, Cloning
    <2>4. ThenInv(r)
        BY <1>0, <1>1, <2>2
        DEF Good, ThenInv, KindInv, Fencing, Turns, Resumes
    <2>5. LiveInv(r)
        BY <1>0, <1>1, <2>2
        DEF Good, LiveInv, KindInv, ThenInv, Streaming, Fencing, Turns, Resumes
    <2>6. KidsInv(r)
        BY <1>0, <1>1, <2>2
        DEF Good, KidsInv, KindInv, Checkpointing, Cloning
    <2>7. FencedInv(r)
        BY <1>0, <1>1, <2>2
        DEF Good, FencedInv, KindInv, ThenInv, Streaming, Fencing, Checkpointing, Turns, Resumes
    <2>8. Good(r)
        BY <2>1, <2>3, <2>4, <2>5, <2>6, <2>7 DEF Good
    <2> QED
        BY <1>0, <1>1, <2>2, <2>8 DEF Within, Keeps
<1>4. AppendAt(o, op[o].head, "APPROVAL_REQUEST", r)
    BY <1>2 DEF Repair
<1> QED
    BY <1>1, <1>3, <1>4, AppendShape DEF Keeps, EventKind, LifecycleKinds, ApprovalKinds

(* A decision keeps the shape.                                             *)
LEMMA DecideShape ==
    ASSUME ShapeInv, NEW o \in Ops, Decide(o)
    PROVE  ShapeInv'
<1>0. Good(op[o]) /\ op[o] \in OpType /\ Within(op[o])
    BY DEF ShapeInv, Good
<1>1. /\ op[o].pc = "decide"
      /\ HeadSeq(store) \in Nat /\ Len(image) \in Nat
    BY Numbers DEF Decide, At, Is
<1>2. PICK r : r = [op[o] EXCEPT !.pc = "unwind", !.result = "ok"]
    OBVIOUS
<1>3. /\ Good(r) /\ Keeps(o, r) /\ r.head = op[o].head /\ r.tag = op[o].tag
    <2>1. r \in OpType
        BY <1>0, <1>1, <1>2 DEF OpType, PCs, Fencing, Streaming, Checkpointing, Cloning
    <2>2. /\ r.kind = op[o].kind /\ r.pc = "unwind" /\ r.at = op[o].at /\ r.head = op[o].head
          /\ r.fence = op[o].fence /\ r.then = op[o].then /\ r.live = op[o].live
          /\ r.superseded = op[o].superseded /\ r.ended = op[o].ended
          /\ r.minted = op[o].minted /\ r.late = op[o].late /\ r.open = op[o].open
          /\ r.snap = op[o].snap /\ r.tag = op[o].tag /\ r.kids = op[o].kids /\ r.result = "ok"
        BY <1>0, <1>1, <1>2 DEF OpType
    <2>3. KindInv(r)
        BY <1>0, <1>1, <2>2
        DEF Good, KindInv, ThenInv, LiveInv, Fencing, Streaming, Resumes, Turns, OpKinds,
            Checkpointing, Cloning
    <2>4. ThenInv(r)
        BY <1>0, <1>1, <2>2
        DEF Good, ThenInv, KindInv, Fencing, Turns, Resumes
    <2>5. LiveInv(r)
        BY <1>0, <1>1, <2>2
        DEF Good, LiveInv, KindInv, ThenInv, Streaming, Fencing, Turns, Resumes
    <2>6. KidsInv(r)
        BY <1>0, <1>1, <2>2
        DEF Good, KidsInv, KindInv, Checkpointing, Cloning
    <2>7. FencedInv(r)
        BY <1>0, <1>1, <2>2
        DEF Good, FencedInv, KindInv, ThenInv, Streaming, Fencing, Checkpointing, Turns, Resumes
    <2>8. Good(r)
        BY <2>1, <2>3, <2>4, <2>5, <2>6, <2>7 DEF Good
    <2> QED
        BY <1>0, <1>1, <2>2, <2>8 DEF Within, Keeps
<1>4. AppendAt(o, op[o].head, "APPROVAL_RESULT", r)
    BY <1>2 DEF Decide
<1> QED
    BY <1>1, <1>3, <1>4, AppendShape DEF Keeps, EventKind, LifecycleKinds, ApprovalKinds

(* The record of a checkpoint keeps the shape.                             *)
LEMMA ForkRecordShape ==
    ASSUME ShapeInv, NEW o \in Ops, ForkRecord(o)
    PROVE  ShapeInv'
<1>0. Good(op[o]) /\ op[o] \in OpType /\ Within(op[o])
    BY DEF ShapeInv, Good
<1>1. /\ op[o].pc = "forkRecord"
      /\ HeadSeq(store) \in Nat /\ Len(image) \in Nat
    BY Numbers DEF ForkRecord, At, Is
<1>2. PICK r : r = [op[o] EXCEPT !.pc = "require"]
    OBVIOUS
<1>3. /\ Good(r) /\ Keeps(o, r) /\ r.head = op[o].head /\ r.tag = op[o].tag
    <2>1. r \in OpType
        BY <1>0, <1>1, <1>2, FanoutPositive DEF OpType, PCs, Fencing, Streaming, Checkpointing, Cloning
    <2>2. /\ r.kind = op[o].kind /\ r.pc = "require" /\ r.at = op[o].at /\ r.head = op[o].head
          /\ r.fence = op[o].fence /\ r.then = op[o].then /\ r.live = op[o].live
          /\ r.superseded = op[o].superseded /\ r.ended = op[o].ended
          /\ r.minted = op[o].minted /\ r.late = op[o].late /\ r.open = op[o].open
          /\ r.snap = op[o].snap /\ r.tag = op[o].tag /\ r.kids = op[o].kids
          /\ r.result = op[o].result
        BY <1>0, <1>1, <1>2 DEF OpType
    <2>3. KindInv(r)
        BY <1>0, <1>1, <2>2, FanoutPositive
        DEF Good, KindInv, ThenInv, LiveInv, Fencing, Streaming, Resumes, Turns, OpKinds,
            Checkpointing, Cloning
    <2>4. ThenInv(r)
        BY <1>0, <1>1, <2>2, FanoutPositive
        DEF Good, ThenInv, KindInv, Fencing, Turns, Resumes
    <2>5. LiveInv(r)
        BY <1>0, <1>1, <2>2, FanoutPositive
        DEF Good, LiveInv, KindInv, ThenInv, Streaming, Fencing, Turns, Resumes
    <2>6. KidsInv(r)
        BY <1>0, <1>1, <2>2, FanoutPositive
        DEF Good, KidsInv, KindInv, Checkpointing, Cloning
    <2>7. FencedInv(r)
        BY <1>0, <1>1, <2>2, FanoutPositive
        DEF Good, FencedInv, KindInv, ThenInv, Streaming, Fencing, Checkpointing, Turns, Resumes
    <2>8. Good(r)
        BY <2>1, <2>3, <2>4, <2>5, <2>6, <2>7 DEF Good
    <2> QED
        BY <1>0, <1>1, <2>2, <2>8, FanoutPositive DEF Within, Keeps
<1>4. AppendAt(o, op[o].at, "SUSPEND", r)
    BY <1>2 DEF ForkRecord
<1> QED
    BY <1>1, <1>3, <1>4, AppendShape DEF Keeps, EventKind, LifecycleKinds, ApprovalKinds

(* The SUSPEND record keeps the shape.                                     *)
LEMMA RecordSuspendShape ==
    ASSUME ShapeInv, NEW o \in Ops, RecordSuspend(o)
    PROVE  ShapeInv'
<1>0. Good(op[o]) /\ op[o] \in OpType /\ Within(op[o])
    BY DEF ShapeInv, Good
<1>1. /\ op[o].pc = "record"
      /\ HeadSeq(store) \in Nat /\ Len(image) \in Nat
    BY Numbers DEF RecordSuspend, At, Is
<1>2. PICK r, n : /\ AppendAt(o, n, "SUSPEND", r)
                  /\ \/ r = [op[o] EXCEPT !.pc = "unwind", !.result = "ok"]
                     \/ r = [op[o] EXCEPT !.pc = "unwind", !.result = "parked"]
    BY DEF RecordSuspend
<1>3. ASSUME r = [op[o] EXCEPT !.pc = "unwind", !.result = "ok"]
      PROVE  /\ Good(r) /\ Keeps(o, r) /\ r.head = op[o].head /\ r.tag = op[o].tag
    <2>1. r \in OpType
        BY <1>0, <1>1, <1>3 DEF OpType, PCs, Fencing, Streaming, Checkpointing, Cloning
    <2>2. /\ r.kind = op[o].kind /\ r.pc = "unwind" /\ r.at = op[o].at /\ r.head = op[o].head
          /\ r.fence = op[o].fence /\ r.then = op[o].then /\ r.live = op[o].live
          /\ r.superseded = op[o].superseded /\ r.ended = op[o].ended
          /\ r.minted = op[o].minted /\ r.late = op[o].late /\ r.open = op[o].open
          /\ r.snap = op[o].snap /\ r.tag = op[o].tag /\ r.kids = op[o].kids /\ r.result = "ok"
        BY <1>0, <1>1, <1>3 DEF OpType
    <2>3. KindInv(r)
        BY <1>0, <1>1, <2>2
        DEF Good, KindInv, ThenInv, LiveInv, Fencing, Streaming, Resumes, Turns, OpKinds,
            Checkpointing, Cloning
    <2>4. ThenInv(r)
        BY <1>0, <1>1, <2>2
        DEF Good, ThenInv, KindInv, Fencing, Turns, Resumes
    <2>5. LiveInv(r)
        BY <1>0, <1>1, <2>2
        DEF Good, LiveInv, KindInv, ThenInv, Streaming, Fencing, Turns, Resumes
    <2>6. KidsInv(r)
        BY <1>0, <1>1, <2>2
        DEF Good, KidsInv, KindInv, Checkpointing, Cloning
    <2>7. FencedInv(r)
        BY <1>0, <1>1, <2>2
        DEF Good, FencedInv, KindInv, ThenInv, Streaming, Fencing, Checkpointing, Turns, Resumes
    <2>8. Good(r)
        BY <2>1, <2>3, <2>4, <2>5, <2>6, <2>7 DEF Good
    <2> QED
        BY <1>0, <1>1, <2>2, <2>8 DEF Within, Keeps
<1>4. ASSUME r = [op[o] EXCEPT !.pc = "unwind", !.result = "parked"]
      PROVE  /\ Good(r) /\ Keeps(o, r) /\ r.head = op[o].head /\ r.tag = op[o].tag
    <2>1. r \in OpType
        BY <1>0, <1>1, <1>4 DEF OpType, PCs, Fencing, Streaming, Checkpointing, Cloning
    <2>2. /\ r.kind = op[o].kind /\ r.pc = "unwind" /\ r.at = op[o].at /\ r.head = op[o].head
          /\ r.fence = op[o].fence /\ r.then = op[o].then /\ r.live = op[o].live
          /\ r.superseded = op[o].superseded /\ r.ended = op[o].ended
          /\ r.minted = op[o].minted /\ r.late = op[o].late /\ r.open = op[o].open
          /\ r.snap = op[o].snap /\ r.tag = op[o].tag /\ r.kids = op[o].kids
          /\ r.result = "parked"
        BY <1>0, <1>1, <1>4 DEF OpType
    <2>3. KindInv(r)
        BY <1>0, <1>1, <2>2
        DEF Good, KindInv, ThenInv, LiveInv, Fencing, Streaming, Resumes, Turns, OpKinds,
            Checkpointing, Cloning
    <2>4. ThenInv(r)
        BY <1>0, <1>1, <2>2
        DEF Good, ThenInv, KindInv, Fencing, Turns, Resumes
    <2>5. LiveInv(r)
        BY <1>0, <1>1, <2>2
        DEF Good, LiveInv, KindInv, ThenInv, Streaming, Fencing, Turns, Resumes
    <2>6. KidsInv(r)
        BY <1>0, <1>1, <2>2
        DEF Good, KidsInv, KindInv, Checkpointing, Cloning
    <2>7. FencedInv(r)
        BY <1>0, <1>1, <2>2
        DEF Good, FencedInv, KindInv, ThenInv, Streaming, Fencing, Checkpointing, Turns, Resumes
    <2>8. Good(r)
        BY <2>1, <2>3, <2>4, <2>5, <2>6, <2>7 DEF Good
    <2> QED
        BY <1>0, <1>1, <2>2, <2>8 DEF Within, Keeps
<1> QED
    BY <1>1, <1>2, <1>3, <1>4, AppendShape DEF Keeps, EventKind, LifecycleKinds

(* A deletion keeps the shape.                                             *)
LEMMA DeleteRowShape ==
    ASSUME ShapeInv, NEW o \in Ops, DeleteRow(o)
    PROVE  ShapeInv'
<1>0. Good(op[o]) /\ op[o] \in OpType /\ Within(op[o])
    BY DEF ShapeInv, Good
<1>1. /\ op[o].pc = "delete"
      /\ HeadSeq(store) \in Nat /\ Len(image) \in Nat
    BY Numbers DEF DeleteRow, At, Is
<1>2. PICK r : r = [op[o] EXCEPT !.pc = "unwind", !.result = "ok"]
    OBVIOUS
<1>3. Good(r) /\ Within(r)
    <2>1. r \in OpType
        BY <1>0, <1>1, <1>2 DEF OpType, PCs, Fencing, Streaming, Checkpointing, Cloning
    <2>2. /\ r.kind = op[o].kind /\ r.pc = "unwind" /\ r.at = op[o].at /\ r.head = op[o].head
          /\ r.fence = op[o].fence /\ r.then = op[o].then /\ r.live = op[o].live
          /\ r.superseded = op[o].superseded /\ r.ended = op[o].ended
          /\ r.minted = op[o].minted /\ r.late = op[o].late /\ r.open = op[o].open
          /\ r.snap = op[o].snap /\ r.tag = op[o].tag /\ r.kids = op[o].kids /\ r.result = "ok"
        BY <1>0, <1>1, <1>2 DEF OpType
    <2>3. KindInv(r)
        BY <1>0, <1>1, <2>2
        DEF Good, KindInv, ThenInv, LiveInv, Fencing, Streaming, Resumes, Turns, OpKinds,
            Checkpointing, Cloning
    <2>4. ThenInv(r)
        BY <1>0, <1>1, <2>2
        DEF Good, ThenInv, KindInv, Fencing, Turns, Resumes
    <2>5. LiveInv(r)
        BY <1>0, <1>1, <2>2
        DEF Good, LiveInv, KindInv, ThenInv, Streaming, Fencing, Turns, Resumes
    <2>6. KidsInv(r)
        BY <1>0, <1>1, <2>2
        DEF Good, KidsInv, KindInv, Checkpointing, Cloning
    <2>7. FencedInv(r)
        BY <1>0, <1>1, <2>2
        DEF Good, FencedInv, KindInv, ThenInv, Streaming, Fencing, Checkpointing, Turns, Resumes
    <2>8. Good(r)
        BY <2>1, <2>3, <2>4, <2>5, <2>6, <2>7 DEF Good
    <2> QED
        BY <1>0, <1>1, <2>2, <2>8 DEF Within
<1>4. Grows
    <2>1. store \in Store /\ store.recs \in Seq(Record) /\ store.fence \in Nat
        BY DEF ShapeInv, Types, Store
    <2>2. /\ store' \in Store /\ store.fence <= store'.fence
          /\ store'.recs = store.recs
                \/ store'.recs = Append(store.recs, [kind |-> "DELETE", fence |-> store.fence + 1])
        BY <2>1, DeleteSessionEffect DEF DeleteRow
    <2>3. HeadSeq(store) <= HeadSeq(store')
        BY <2>1, <2>2 DEF HeadSeq
    <2> QED
        BY <2>2, <2>3, Numbers DEF DeleteRow, LogOnly, Grows, ShapeInv, Types
<1>5. Within(r)'
    BY <1>3, <1>4, StaysWithin DEF Good
<1>6. op' = [op EXCEPT ![o] = r]
    BY <1>2 DEF DeleteRow, Succeed, Become
<1> QED
    BY <1>3, <1>4, <1>5, <1>6, OwnShape

(* Waking the actor keeps the shape.                                       *)
LEMMA CreateShape ==
    ASSUME ShapeInv, NEW o \in Ops, Create(o)
    PROVE  ShapeInv'
<1>0. Good(op[o]) /\ op[o] \in OpType /\ Within(op[o])
    BY DEF ShapeInv, Good
<1>1. /\ op[o].pc = "create"
      /\ HeadSeq(store) \in Nat /\ Len(image) \in Nat
    BY Numbers DEF Create, At, Is
<1>2. PICK r : op' = [op EXCEPT ![o] = r] /\ \E p \in {"open", "unwind"} : r = [op[o] EXCEPT !.pc = p]
    BY DEF Create, Goto, Become, Fail
<1>3. ASSUME r = [op[o] EXCEPT !.pc = "open"]
      PROVE  Good(r) /\ Keeps(o, r)
    <2>1. r \in OpType
        BY <1>0, <1>1, <1>3 DEF OpType, PCs, Fencing, Streaming, Checkpointing, Cloning
    <2>2. /\ r.kind = op[o].kind /\ r.pc = "open" /\ r.at = op[o].at /\ r.head = op[o].head
          /\ r.fence = op[o].fence /\ r.then = op[o].then /\ r.live = op[o].live
          /\ r.superseded = op[o].superseded /\ r.ended = op[o].ended
          /\ r.minted = op[o].minted /\ r.late = op[o].late /\ r.open = op[o].open
          /\ r.snap = op[o].snap /\ r.tag = op[o].tag /\ r.kids = op[o].kids
          /\ r.result = op[o].result
        BY <1>0, <1>1, <1>3 DEF OpType
    <2>3. KindInv(r)
        BY <1>0, <1>1, <2>2
        DEF Good, KindInv, ThenInv, LiveInv, Fencing, Streaming, Resumes, Turns, OpKinds,
            Checkpointing, Cloning
    <2>4. ThenInv(r)
        BY <1>0, <1>1, <2>2
        DEF Good, ThenInv, KindInv, Fencing, Turns, Resumes
    <2>5. LiveInv(r)
        BY <1>0, <1>1, <2>2
        DEF Good, LiveInv, KindInv, ThenInv, Streaming, Fencing, Turns, Resumes
    <2>6. KidsInv(r)
        BY <1>0, <1>1, <2>2
        DEF Good, KidsInv, KindInv, Checkpointing, Cloning
    <2>7. FencedInv(r)
        BY <1>0, <1>1, <2>2
        DEF Good, FencedInv, KindInv, ThenInv, Streaming, Fencing, Checkpointing, Turns, Resumes
    <2>8. Good(r)
        BY <2>1, <2>3, <2>4, <2>5, <2>6, <2>7 DEF Good
    <2> QED
        BY <1>0, <1>1, <2>2, <2>8 DEF Within, Keeps
<1>4. Good(r) /\ Keeps(o, r)
    BY <1>0, <1>1, <1>2, <1>3, UnwindGood, GotoKeeps
<1>5. Within(r)
    BY <1>0, <1>4 DEF Keeps, Within
<1>6. Grows
    <2>1. actor' \in [state : ComputeState, snap : Nat] /\ actor'.snap = actor.snap
        BY DEF Create, ShapeInv, Types, ComputeState
    <2> QED
        BY <2>1, Numbers DEF Create, Grows, ShapeInv, Types
<1>7. Within(r)'
    BY <1>4, <1>5, <1>6, StaysWithin DEF Good
<1> QED
    BY <1>2, <1>4, <1>6, <1>7, OwnShape

(* A mint raises the fence and nothing else.                               *)
LEMMA MintGrows ==
    ASSUME ShapeInv, store' = NewFence(store), UNCHANGED <<actor, image, guard, mark, crashes>>
    PROVE  /\ Grows /\ store'.fence = store.fence + 1 /\ store'.recs = store.recs
           /\ store'.deletion = "ACTIVE"
<1>1. store \in Store
    BY DEF ShapeInv, Types
<1>2. /\ store' \in Store /\ store'.fence = store.fence + 1 /\ store'.recs = store.recs
      /\ store'.deletion = "ACTIVE"
    BY <1>1, MintEffect
<1>3. HeadSeq(store) <= HeadSeq(store') /\ store.fence <= store'.fence
    BY <1>2, Numbers DEF HeadSeq
<1> QED
    BY <1>2, <1>3, Numbers DEF Grows, ShapeInv, Types

(* The bounds of a call after a step that leaves it alone.                 *)
LEMMA PrimeWithin ==
    ASSUME ShapeInv, Grows, NEW o \in Ops
    PROVE  \A q : q = op[o] =>
              /\ q.at <= HeadSeq(store') /\ q.head <= HeadSeq(store') /\ q.fence <= store'.fence
              /\ q.snap <= Len(image') /\ q.tag <= Len(image')
<1> SUFFICES ASSUME NEW q, q = op[o]
             PROVE  /\ q.at <= HeadSeq(store') /\ q.head <= HeadSeq(store') /\ q.fence <= store'.fence
                    /\ q.snap <= Len(image') /\ q.tag <= Len(image')
    OBVIOUS
<1>1. Within(q) /\ q \in OpType
    BY DEF ShapeInv, Good
<1>2. Within(q)'
    BY <1>1, StaysWithin
<1> QED
    BY <1>2 DEF Within

(* A mint keeps the shape.                                                 *)
LEMMA FenceMintShape ==
    ASSUME ShapeInv, NEW o \in Ops, FenceMint(o)
    PROVE  ShapeInv'
<1>0. Good(op[o]) /\ op[o] \in OpType /\ Within(op[o])
    BY DEF ShapeInv, Good
<1>1. /\ op[o].pc = "fenceMint"
      /\ op[o].then \in {"repair", "create", "check", "record", "decide"}
      /\ HeadSeq(store) \in Nat /\ Len(image) \in Nat
    BY Numbers DEF FenceMint, At, Is, ShapeInv, Good, ThenInv, KindInv, Fencing, Turns
<1>2. store.fence \in Nat /\ store.fence + 1 \in Nat
    BY Numbers
<1>3. CASE CheckWritable(store)
    <2>1. Grows /\ store'.fence = store.fence + 1
        BY <1>3, MintGrows DEF FenceMint, LogOnly
    <2>w. /\ op[o].at <= HeadSeq(store') /\ op[o].head <= HeadSeq(store')
          /\ op[o].snap <= Len(image') /\ op[o].tag <= Len(image')
        BY <2>1, PrimeWithin
    <2>2. PICK r : /\ op' = [op EXCEPT ![o] = r]
                   /\ \/ op[o].kind = "CheckedResume" /\ r = [op[o] EXCEPT !.fence = store.fence + 1,
                                           !.late = op[o].superseded,
                                                                           !.minted = FALSE,
                                                                           !.pc = "fenceHead"]
                      \/ op[o].kind # "CheckedResume" /\ r = [op[o] EXCEPT !.fence = store.fence + 1,
                                           !.late = op[o].superseded,
                                                                           !.minted = op[o].live,
                                                                           !.pc = op[o].then]
        BY <1>0, <1>1, <1>3, <2>1 DEF FenceMint, Become, Goto, Is, OpType
    <2>3. ASSUME op[o].kind = "CheckedResume", r = [op[o] EXCEPT !.fence = store.fence + 1,
          !.late = op[o].superseded,
                                                                 !.minted = FALSE,
                                                                 !.pc = "fenceHead"]
          PROVE  Good(r) /\ Within(r)'
        <3>1. r \in OpType
            BY ZenonT(40), <1>0, <1>1, <1>2, <2>3 DEF OpType, PCs, Fencing, Streaming, Checkpointing, Cloning
        <3>2. /\ r.kind = op[o].kind /\ r.pc = "fenceHead" /\ r.at = op[o].at
              /\ r.head = op[o].head /\ r.fence = store.fence + 1 /\ r.then = op[o].then
              /\ r.live = op[o].live /\ r.superseded = op[o].superseded /\ r.ended = op[o].ended
              /\ r.minted = FALSE /\ r.late = op[o].superseded /\ r.open = op[o].open
              /\ r.snap = op[o].snap /\ r.tag = op[o].tag /\ r.kids = op[o].kids
              /\ r.result = op[o].result
            BY <1>0, <1>1, <1>2, <2>3 DEF OpType
        <3>3. KindInv(r)
            BY <1>0, <1>1, <1>2, <2>3, <3>2
            DEF Good, KindInv, ThenInv, LiveInv, Fencing, Streaming, Resumes, Turns, OpKinds,
                Checkpointing, Cloning
        <3>4. ThenInv(r)
            BY <1>0, <1>1, <1>2, <2>3, <3>2
            DEF Good, ThenInv, KindInv, Fencing, Turns, Resumes
        <3>5. LiveInv(r)
            BY <1>0, <1>1, <1>2, <2>3, <3>2
            DEF Good, LiveInv, KindInv, ThenInv, Streaming, Fencing, Turns, Resumes
        <3>6. KidsInv(r)
            BY <1>0, <1>1, <1>2, <2>3, <3>2
            DEF Good, KidsInv, KindInv, Checkpointing, Cloning
        <3>7. FencedInv(r)
            BY <1>0, <1>1, <1>2, <2>3, <3>2
            DEF Good, FencedInv, KindInv, ThenInv, Streaming, Fencing, Checkpointing, Turns, Resumes
        <3>8. Good(r)
            BY <3>1, <3>3, <3>4, <3>5, <3>6, <3>7 DEF Good
        <3> QED
            BY <1>0, <1>1, <1>2, <3>2, <3>8, <2>1, <2>w DEF Within
    <2>4. ASSUME op[o].kind # "CheckedResume", r = [op[o] EXCEPT !.fence = store.fence + 1,
          !.late = op[o].superseded,
                                                                 !.minted = op[o].live,
                                                                 !.pc = op[o].then]
          PROVE  Good(r) /\ Within(r)'
        <3>1. r \in OpType
            BY ZenonT(40), <1>0, <1>1, <1>2, <2>4 DEF OpType, PCs, Fencing, Streaming, Checkpointing, Cloning
        <3>2. /\ r.kind = op[o].kind /\ r.pc = op[o].then /\ r.at = op[o].at /\ r.head = op[o].head
              /\ r.fence = store.fence + 1 /\ r.then = op[o].then /\ r.live = op[o].live
              /\ r.superseded = op[o].superseded /\ r.ended = op[o].ended /\ r.minted = op[o].live
              /\ r.late = op[o].superseded /\ r.open = op[o].open /\ r.snap = op[o].snap
              /\ r.tag = op[o].tag /\ r.kids = op[o].kids /\ r.result = op[o].result
            BY <1>0, <1>1, <1>2, <2>4 DEF OpType
        <3>3. KindInv(r)
            BY <1>0, <1>1, <1>2, <2>4, <3>2
            DEF Good, KindInv, ThenInv, LiveInv, Fencing, Streaming, Resumes, Turns, OpKinds,
                Checkpointing, Cloning
        <3>4. ThenInv(r)
            BY <1>0, <1>1, <1>2, <2>4, <3>2
            DEF Good, ThenInv, KindInv, Fencing, Turns, Resumes
        <3>5. LiveInv(r)
            BY <1>0, <1>1, <1>2, <2>4, <3>2
            DEF Good, LiveInv, KindInv, ThenInv, Streaming, Fencing, Turns, Resumes
        <3>6. KidsInv(r)
            BY <1>0, <1>1, <1>2, <2>4, <3>2
            DEF Good, KidsInv, KindInv, Checkpointing, Cloning
        <3>7. FencedInv(r)
            BY <1>0, <1>1, <1>2, <2>4, <3>2
            DEF Good, FencedInv, KindInv, ThenInv, Streaming, Fencing, Checkpointing, Turns, Resumes
        <3>8. Good(r)
            BY <3>1, <3>3, <3>4, <3>5, <3>6, <3>7 DEF Good
        <3> QED
            BY <1>0, <1>1, <1>2, <3>2, <3>8, <2>1, <2>w DEF Within
    <2> QED
        BY <2>1, <2>2, <2>3, <2>4, OwnShape
<1>4. CASE ~CheckWritable(store)
    <2>1. PICK r : op' = [op EXCEPT ![o] = r] /\ r = [op[o] EXCEPT !.pc = "unwind",
          !.minted = op[o].live]
        BY <1>4 DEF FenceMint, Become
    <2>2. Good(r) /\ Keeps(o, r)
        <3>1. r \in OpType
            BY <1>0, <1>1, <2>1 DEF OpType, PCs, Fencing, Streaming, Checkpointing, Cloning
        <3>2. /\ r.kind = op[o].kind /\ r.pc = "unwind" /\ r.at = op[o].at /\ r.head = op[o].head
              /\ r.fence = op[o].fence /\ r.then = op[o].then /\ r.live = op[o].live
              /\ r.superseded = op[o].superseded /\ r.ended = op[o].ended /\ r.minted = op[o].live
              /\ r.late = op[o].late /\ r.open = op[o].open /\ r.snap = op[o].snap
              /\ r.tag = op[o].tag /\ r.kids = op[o].kids /\ r.result = op[o].result
            BY <1>0, <1>1, <2>1 DEF OpType
        <3>3. KindInv(r)
            BY <1>0, <1>1, <3>2
            DEF Good, KindInv, ThenInv, LiveInv, Fencing, Streaming, Resumes, Turns, OpKinds,
                Checkpointing, Cloning
        <3>4. ThenInv(r)
            BY <1>0, <1>1, <3>2
            DEF Good, ThenInv, KindInv, Fencing, Turns, Resumes
        <3>5. LiveInv(r)
            BY <1>0, <1>1, <3>2
            DEF Good, LiveInv, KindInv, ThenInv, Streaming, Fencing, Turns, Resumes
        <3>6. KidsInv(r)
            BY <1>0, <1>1, <3>2
            DEF Good, KidsInv, KindInv, Checkpointing, Cloning
        <3>7. FencedInv(r)
            BY <1>0, <1>1, <3>2
            DEF Good, FencedInv, KindInv, ThenInv, Streaming, Fencing, Checkpointing, Turns, Resumes
        <3>8. Good(r)
            BY <3>1, <3>3, <3>4, <3>5, <3>6, <3>7 DEF Good
        <3> QED
            BY <1>0, <1>1, <3>2, <3>8 DEF Within, Keeps
    <2>3. /\ UNCHANGED <<store, actor, image, crashes>>
          /\ guard' \in [Hosts -> GuardType] /\ mark' \in [Hosts -> Ops \union {None}]
        BY <1>4 DEF FenceMint, LogOnly, ShapeInv, Types
    <2> QED
        BY <2>1, <2>2, <2>3, QuietShape
<1> QED
    BY <1>3, <1>4

(* The mint of a fork keeps the shape.                                     *)
LEMMA ForkFenceShape ==
    ASSUME ShapeInv, NEW o \in Ops, ForkFence(o)
    PROVE  ShapeInv'
<1>0. Good(op[o]) /\ op[o] \in OpType /\ Within(op[o])
    BY DEF ShapeInv, Good
<1>1. /\ op[o].pc = "forkFence"
      /\ HeadSeq(store) \in Nat /\ Len(image) \in Nat
    BY Numbers DEF ForkFence, At, Is
<1>2. store.fence \in Nat /\ store.fence + 1 \in Nat
    BY Numbers
<1>3. CASE CheckWritable(store)
    <2>1. Grows /\ store'.fence = store.fence + 1
        BY <1>3, MintGrows DEF ForkFence, LogOnly
    <2>w. /\ op[o].at <= HeadSeq(store') /\ op[o].head <= HeadSeq(store')
          /\ op[o].snap <= Len(image') /\ op[o].tag <= Len(image')
        BY <2>1, PrimeWithin
    <2>2. PICK r : /\ op' = [op EXCEPT ![o] = r]
                   /\ \/ r = [op[o] EXCEPT !.pc = "forkHead", !.fence = store.fence + 1]
        BY <1>0, <1>1, <1>3, <2>1 DEF ForkFence, Become, Goto, Is, OpType
    <2>3. ASSUME r = [op[o] EXCEPT !.pc = "forkHead", !.fence = store.fence + 1]
          PROVE  Good(r) /\ Within(r)'
        <3>1. r \in OpType
            BY <1>0, <1>1, <1>2, <2>3 DEF OpType, PCs, Fencing, Streaming, Checkpointing, Cloning
        <3>2. /\ r.kind = op[o].kind /\ r.pc = "forkHead" /\ r.at = op[o].at /\ r.head = op[o].head
              /\ r.fence = store.fence + 1 /\ r.then = op[o].then /\ r.live = op[o].live
              /\ r.superseded = op[o].superseded /\ r.ended = op[o].ended
              /\ r.minted = op[o].minted /\ r.late = op[o].late /\ r.open = op[o].open
              /\ r.snap = op[o].snap /\ r.tag = op[o].tag /\ r.kids = op[o].kids
              /\ r.result = op[o].result
            BY <1>0, <1>1, <1>2, <2>3 DEF OpType
        <3>3. KindInv(r)
            BY <1>0, <1>1, <1>2, <3>2
            DEF Good, KindInv, ThenInv, LiveInv, Fencing, Streaming, Resumes, Turns, OpKinds,
                Checkpointing, Cloning
        <3>4. ThenInv(r)
            BY <1>0, <1>1, <1>2, <3>2
            DEF Good, ThenInv, KindInv, Fencing, Turns, Resumes
        <3>5. LiveInv(r)
            BY <1>0, <1>1, <1>2, <3>2
            DEF Good, LiveInv, KindInv, ThenInv, Streaming, Fencing, Turns, Resumes
        <3>6. KidsInv(r)
            BY <1>0, <1>1, <1>2, <3>2
            DEF Good, KidsInv, KindInv, Checkpointing, Cloning
        <3>7. FencedInv(r)
            BY <1>0, <1>1, <1>2, <3>2
            DEF Good, FencedInv, KindInv, ThenInv, Streaming, Fencing, Checkpointing, Turns, Resumes
        <3>8. Good(r)
            BY <3>1, <3>3, <3>4, <3>5, <3>6, <3>7 DEF Good
        <3> QED
            BY <1>0, <1>1, <1>2, <3>2, <3>8, <2>1, <2>w DEF Within
    <2> QED
        BY <2>1, <2>2, <2>3, OwnShape
<1>4. CASE ~CheckWritable(store)
    <2>1. Fail(o) /\ OpOnly
        BY <1>4 DEF ForkFence, LogOnly, OpOnly
    <2> QED
        BY <1>0, <1>1, <2>1, UnwindGood, GotoShape DEF Fail, Goto, Become
<1> QED
    BY <1>3, <1>4

(* The snapshots of im2 are those of im, each known at more heads, and     *)
(* perhaps a new one.                                                      *)
Remembers(im, im2) ==
    /\ im2 \in Seq(SUBSET Nat) /\ Len(im) <= Len(im2)
    /\ \A k \in 1 .. Len(im) : im[k] \subseteq im2[k]

(* A suspend leaves the actor on the last snapshot, known at the head.     *)
LEMMA Suspended ==
    ASSUME ShapeInv, NEW o \in Ops, NEW next, TakeSnapshot(o, next)
    PROVE  /\ Remembers(image, image')
           /\ Len(image') \in Nat /\ 0 < Len(image')
           /\ HeadSeq(store) \in image'[Len(image')]
           /\ actor' = [state |-> "COLD", snap |-> Len(image')]
<1>1. image \in Seq(SUBSET Nat) /\ Len(image) \in Nat /\ HeadSeq(store) \in Nat
    BY Numbers DEF ShapeInv, Types
<1>2. actor.snap = Len(image)
    BY DEF ShapeInv
<1>3. actor' = [state |-> "COLD", snap |-> Len(image')]
    BY DEF TakeSnapshot
<1>4. CASE actor.state = "COLD" /\ actor.snap # 0
    <2>1. /\ image' = [image EXCEPT ![Len(image)] = @ \union {HeadSeq(store)}]
          /\ Len(image) \in 1 .. Len(image)
        BY <1>1, <1>2, <1>4 DEF TakeSnapshot
    <2>2. image[Len(image)] \union {HeadSeq(store)} \in SUBSET Nat
        BY <1>1, <2>1, ElementOfSeq
    <2>3. image' \in Seq(SUBSET Nat) /\ Len(image') = Len(image)
        BY <1>1, <2>1, <2>2, ExceptSeq
    <2>4. \A k \in 1 .. Len(image) : image[k] \subseteq image'[k]
        BY <1>1, <2>1
    <2>5. HeadSeq(store) \in image'[Len(image)]
        BY <1>1, <2>1
    <2> QED
        BY <1>1, <1>3, <2>1, <2>3, <2>4, <2>5 DEF Remembers
<1>5. CASE ~(actor.state = "COLD" /\ actor.snap # 0)
    <2>1. image' = Append(image, {HeadSeq(store)})
        BY <1>5 DEF TakeSnapshot
    <2>2. {HeadSeq(store)} \in SUBSET Nat
        BY <1>1
    <2>3. /\ image' \in Seq(SUBSET Nat) /\ Len(image') = Len(image) + 1
          /\ \A k \in 1 .. Len(image) : image'[k] = image[k]
          /\ image'[Len(image) + 1] = {HeadSeq(store)}
        BY <1>1, <2>1, <2>2, AppendProperties
    <2> QED
        BY <1>1, <1>3, <2>3 DEF Remembers
<1> QED
    BY <1>4, <1>5

(* The steps that take a snapshot, begin, or change several calls.         *)
LEMMA SnapshotShape ==
    ASSUME ShapeInv, NEW o \in Ops, Snapshot(o)
    PROVE  ShapeInv'
<1>0. Good(op[o]) /\ op[o] \in OpType /\ Within(op[o])
    BY DEF ShapeInv, Good
<1>1. /\ op[o].pc = "snapshot"
      /\ HeadSeq(store) \in Nat /\ Len(image) \in Nat
    BY Numbers DEF Snapshot, At, Is, ShapeInv, Good, KindInv
<1>2. CASE Fail(o) /\ UNCHANGED <<actor, image>>
    BY <1>0, <1>1, <1>2, UnwindGood, GotoShape DEF Snapshot, OpOnly, Fail, Goto, Become
<1>3. CASE TakeSnapshot(o, IF Is(o, {"Suspend"}) THEN "fenceMint" ELSE "record")
    <2>0. /\ Remembers(image, image') /\ Len(image') \in Nat
          /\ actor' = [state |-> "COLD", snap |-> Len(image')]
        BY <1>3, Suspended
    <2>1. Grows /\ Len(image') \in Nat
        BY <1>1, <2>0, Numbers DEF Snapshot, Grows, Remembers, ShapeInv, Types, ComputeState
    <2>w. /\ op[o].at <= HeadSeq(store') /\ op[o].head <= HeadSeq(store') /\ op[o].fence <= store'.fence
          /\ op[o].tag <= Len(image')
        BY <2>1, PrimeWithin
    <2>2. PICK r, k : /\ op' = [op EXCEPT ![o] = r] /\ k = Len(image')
                      /\ \/ op[o].kind = "Suspend" /\ r = [op[o] EXCEPT !.pc = "fenceMint",
                            !.then = "record", !.snap = k]
                         \/ op[o].kind # "Suspend" /\ r = [op[o] EXCEPT !.pc = "record",
                               !.then = "record", !.snap = k]
        BY <1>1, <1>3 DEF TakeSnapshot, Become, Is
    <2>3. ASSUME op[o].kind = "Suspend", r = [op[o] EXCEPT !.pc = "fenceMint", !.then = "record",
          !.snap = k]
          PROVE  Good(r) /\ Within(r)'
        <3>1. r \in OpType
            BY <1>0, <1>1, <2>1, <2>2, <2>3 DEF OpType, PCs, Fencing, Streaming, Checkpointing, Cloning
        <3>2. /\ r.kind = op[o].kind /\ r.pc = "fenceMint" /\ r.at = op[o].at
              /\ r.head = op[o].head /\ r.fence = op[o].fence /\ r.then = "record"
              /\ r.live = op[o].live /\ r.superseded = op[o].superseded /\ r.ended = op[o].ended
              /\ r.minted = op[o].minted /\ r.late = op[o].late /\ r.open = op[o].open
              /\ r.snap = k /\ r.tag = op[o].tag /\ r.kids = op[o].kids /\ r.result = op[o].result
            BY <1>0, <1>1, <2>1, <2>2, <2>3 DEF OpType
        <3>3. KindInv(r)
            BY <1>0, <1>1, <2>1, <2>2, <2>3, <3>2
            DEF Good, KindInv, ThenInv, LiveInv, Fencing, Streaming, Resumes, Turns, OpKinds,
                Checkpointing, Cloning
        <3>4. ThenInv(r)
            BY <1>0, <1>1, <2>1, <2>2, <2>3, <3>2
            DEF Good, ThenInv, KindInv, Fencing, Turns, Resumes
        <3>5. LiveInv(r)
            BY <1>0, <1>1, <2>1, <2>2, <2>3, <3>2
            DEF Good, LiveInv, KindInv, ThenInv, Streaming, Fencing, Turns, Resumes
        <3>6. KidsInv(r)
            BY <1>0, <1>1, <2>1, <2>2, <2>3, <3>2
            DEF Good, KidsInv, KindInv, Checkpointing, Cloning
        <3>7. FencedInv(r)
            BY <1>0, <1>1, <2>1, <2>2, <2>3, <3>2
            DEF Good, FencedInv, KindInv, ThenInv, Streaming, Fencing, Checkpointing, Turns, Resumes
        <3>8. Good(r)
            BY <3>1, <3>3, <3>4, <3>5, <3>6, <3>7 DEF Good
        <3> QED
            BY <1>0, <1>1, <2>1, <2>2, <3>2, <3>8, <2>w DEF Within
    <2>4. ASSUME op[o].kind # "Suspend", r = [op[o] EXCEPT !.pc = "record", !.then = "record",
          !.snap = k]
          PROVE  Good(r) /\ Within(r)'
        <3>1. r \in OpType
            BY ZenonT(40), <1>0, <1>1, <2>1, <2>2, <2>4 DEF OpType, PCs, Fencing, Streaming, Checkpointing, Cloning
        <3>2. /\ r.kind = op[o].kind /\ r.pc = "record" /\ r.at = op[o].at /\ r.head = op[o].head
              /\ r.fence = op[o].fence /\ r.then = "record" /\ r.live = op[o].live
              /\ r.superseded = op[o].superseded /\ r.ended = op[o].ended
              /\ r.minted = op[o].minted /\ r.late = op[o].late /\ r.open = op[o].open
              /\ r.snap = k /\ r.tag = op[o].tag /\ r.kids = op[o].kids /\ r.result = op[o].result
            BY <1>0, <1>1, <2>1, <2>2, <2>4 DEF OpType
        <3>3. KindInv(r)
            BY <1>0, <1>1, <2>1, <2>2, <2>4, <3>2
            DEF Good, KindInv, ThenInv, LiveInv, Fencing, Streaming, Resumes, Turns, OpKinds,
                Checkpointing, Cloning
        <3>4. ThenInv(r)
            BY <1>0, <1>1, <2>1, <2>2, <2>4, <3>2
            DEF Good, ThenInv, KindInv, Fencing, Turns, Resumes
        <3>5. LiveInv(r)
            BY <1>0, <1>1, <2>1, <2>2, <2>4, <3>2
            DEF Good, LiveInv, KindInv, ThenInv, Streaming, Fencing, Turns, Resumes
        <3>6. KidsInv(r)
            BY <1>0, <1>1, <2>1, <2>2, <2>4, <3>2
            DEF Good, KidsInv, KindInv, Checkpointing, Cloning
        <3>7. FencedInv(r)
            BY <1>0, <1>1, <2>1, <2>2, <2>4, <3>2
            DEF Good, FencedInv, KindInv, ThenInv, Streaming, Fencing, Checkpointing, Turns, Resumes
        <3>8. Good(r)
            BY <3>1, <3>3, <3>4, <3>5, <3>6, <3>7 DEF Good
        <3> QED
            BY <1>0, <1>1, <2>1, <2>2, <3>2, <3>8, <2>w DEF Within
    <2> QED
        BY <2>1, <2>2, <2>3, <2>4, OwnShape
<1> QED
    BY <1>2, <1>3 DEF Snapshot

(* A checkpoint's snapshot keeps the shape.                                *)
LEMMA CheckpointShape ==
    ASSUME ShapeInv, NEW o \in Ops, Checkpoint(o)
    PROVE  ShapeInv'
<1>0. Good(op[o]) /\ op[o] \in OpType /\ Within(op[o])
    BY DEF ShapeInv, Good
<1>1. /\ op[o].pc = "checkpoint"
      /\ HeadSeq(store) \in Nat /\ Len(image) \in Nat
    BY Numbers DEF Checkpoint, At, Is, ShapeInv, Good, KindInv
<1>2. CASE Fail(o) /\ UNCHANGED <<actor, image>>
    BY <1>0, <1>1, <1>2, UnwindGood, GotoShape DEF Checkpoint, OpOnly, Fail, Goto, Become
<1>3. CASE TakeSnapshot(o, "forkRecord")
    <2>0. /\ Remembers(image, image') /\ Len(image') \in Nat
          /\ actor' = [state |-> "COLD", snap |-> Len(image')]
        BY <1>3, Suspended
    <2>1. Grows /\ Len(image') \in Nat
        BY <1>1, <2>0, Numbers DEF Checkpoint, Grows, Remembers, ShapeInv, Types, ComputeState
    <2>w. /\ op[o].at <= HeadSeq(store') /\ op[o].head <= HeadSeq(store') /\ op[o].fence <= store'.fence
          /\ op[o].tag <= Len(image')
        BY <2>1, PrimeWithin
    <2>2. PICK r, k : /\ op' = [op EXCEPT ![o] = r] /\ k = Len(image')
                      /\ \/ r = [op[o] EXCEPT !.pc = "forkRecord", !.then = "record", !.snap = k]
        BY <1>1, <1>3 DEF TakeSnapshot, Become, Is
    <2>3. ASSUME r = [op[o] EXCEPT !.pc = "forkRecord", !.then = "record", !.snap = k]
          PROVE  Good(r) /\ Within(r)'
        <3>1. r \in OpType
            BY ZenonT(40), <1>0, <1>1, <2>1, <2>2, <2>3 DEF OpType, PCs, Fencing, Streaming, Checkpointing, Cloning
        <3>2. /\ r.kind = op[o].kind /\ r.pc = "forkRecord" /\ r.at = op[o].at
              /\ r.head = op[o].head /\ r.fence = op[o].fence /\ r.then = "record"
              /\ r.live = op[o].live /\ r.superseded = op[o].superseded /\ r.ended = op[o].ended
              /\ r.minted = op[o].minted /\ r.late = op[o].late /\ r.open = op[o].open
              /\ r.snap = k /\ r.tag = op[o].tag /\ r.kids = op[o].kids /\ r.result = op[o].result
            BY <1>0, <1>1, <2>1, <2>2, <2>3 DEF OpType
        <3>3. KindInv(r)
            BY <1>0, <1>1, <2>1, <2>2, <3>2
            DEF Good, KindInv, ThenInv, LiveInv, Fencing, Streaming, Resumes, Turns, OpKinds,
                Checkpointing, Cloning
        <3>4. ThenInv(r)
            BY <1>0, <1>1, <2>1, <2>2, <3>2
            DEF Good, ThenInv, KindInv, Fencing, Turns, Resumes
        <3>5. LiveInv(r)
            BY <1>0, <1>1, <2>1, <2>2, <3>2
            DEF Good, LiveInv, KindInv, ThenInv, Streaming, Fencing, Turns, Resumes
        <3>6. KidsInv(r)
            BY <1>0, <1>1, <2>1, <2>2, <3>2
            DEF Good, KidsInv, KindInv, Checkpointing, Cloning
        <3>7. FencedInv(r)
            BY <1>0, <1>1, <2>1, <2>2, <3>2
            DEF Good, FencedInv, KindInv, ThenInv, Streaming, Fencing, Checkpointing, Turns, Resumes
        <3>8. Good(r)
            BY <3>1, <3>3, <3>4, <3>5, <3>6, <3>7 DEF Good
        <3> QED
            BY <1>0, <1>1, <2>1, <2>2, <3>2, <3>8, <2>w DEF Within
    <2> QED
        BY <2>1, <2>2, <2>3, OwnShape
<1> QED
    BY <1>2, <1>3 DEF Checkpoint

(* A call that arrives is in shape, admitted or not.                       *)
LEMMA BeginShape ==
    ASSUME ShapeInv, NEW o \in Ops, NEW kind \in OpKinds, Begin(o, kind)
    PROVE  ShapeInv'
<1>0. Good(op[o]) /\ op[o] \in OpType /\ Within(op[o])
    BY DEF ShapeInv, Good
<1>1. /\ op[o].pc = "idle" /\ op[o] = [IdleOp EXCEPT !.ended = op[o].ended]
      /\ HeadSeq(store) \in Nat /\ Len(image) \in Nat /\ store.fence \in Nat
    BY Numbers DEF Begin, At, ShapeInv, Good, KindInv
<1>2. PICK r, p : /\ op' = [op EXCEPT ![o] = r]
                  /\ \/ /\ r = [op[o] EXCEPT !.kind = kind, !.at = HeadSeq(store), !.pc = p]
                        /\ \/ kind = "Approve" /\ p = "mark"
                           \/ kind = "Delete" /\ p = "delete"
                           \/ kind \notin {"Approve", "Delete"} /\ p = "inspect"
                     \/ /\ r = [op[o] EXCEPT !.kind = kind, !.pc = "done", !.result = "busy"]
                        /\ p = "done"
    BY DEF Begin, Become
<1>3. r.kids = <<>> /\ r.live = FALSE /\ r.superseded = FALSE /\ r.minted = FALSE /\ r.late = FALSE
    <2>1. /\ op[o].kids = <<>> /\ op[o].live = FALSE /\ op[o].superseded = FALSE
          /\ op[o].minted = FALSE /\ op[o].late = FALSE
        BY <1>1 DEF IdleOp
    <2>2. /\ r.kids = op[o].kids /\ r.live = op[o].live /\ r.superseded = op[o].superseded
          /\ r.minted = op[o].minted /\ r.late = op[o].late
        BY <1>0, <1>2 DEF OpType
    <2> QED
        BY <2>1, <2>2
<1>4. r \in OpType
    <2>1. p \in PCs
        BY <1>2 DEF PCs, Streaming
    <2>2. [op[o] EXCEPT !.kind = kind, !.at = HeadSeq(store), !.pc = p] \in OpType
        BY <1>0, <1>1, <2>1 DEF OpType
    <2>3. [op[o] EXCEPT !.kind = kind, !.pc = "done", !.result = "busy"] \in OpType
        BY <1>0 DEF OpType, PCs
    <2> QED
        BY <1>2, <2>2, <2>3
<1>5. r.kind = kind /\ r.pc = p /\ r.pc \in {"mark", "delete", "inspect", "done"}
    BY <1>0, <1>2 DEF OpType
<1>6. /\ p = "mark" => kind = "Approve"
      /\ p = "delete" => kind = "Delete"
      /\ p = "inspect" => kind \notin {"Approve", "Delete"}
    BY <1>2
<1>7. KindInv(r) /\ ThenInv(r)
    BY <1>5, <1>6 DEF KindInv, ThenInv, OpKinds, Turns, Checkpointing, Cloning, Fencing
<1>8. LiveInv(r) /\ KidsInv(r) /\ FencedInv(r)
    BY <1>3, <1>5, <1>6, FanoutPositive
    DEF LiveInv, KidsInv, FencedInv, Turns, Streaming, Fencing, Checkpointing, Cloning
<1>9. Within(r)
    <2>1. /\ r.at \in {op[o].at, HeadSeq(store)} /\ r.head = op[o].head /\ r.fence = op[o].fence
          /\ r.snap = op[o].snap /\ r.tag = op[o].tag
        BY <1>0, <1>2 DEF OpType
    <2> QED
        BY <1>0, <1>1, <2>1 DEF Within
<1>10. Grows
    <2>1. guard' \in [Hosts -> GuardType]
        BY ReleaseTypes, PlacementAssumption DEF Begin, ShapeInv, Types, Host
    <2>2. UNCHANGED <<store, actor, image, mark, crashes>>
        BY DEF Begin
    <2> QED
        BY <2>1, <2>2, Numbers DEF Grows, ShapeInv, Types
<1>11. Within(r)'
    BY <1>4, <1>9, <1>10, StaysWithin
<1> QED
    BY <1>2, <1>4, <1>7, <1>8, <1>10, <1>11, OwnShape DEF Good

(* A step that changes several calls.                                      *)
LEMMA AllShape ==
    ASSUME ShapeInv, Grows, op' \in [Ops -> OpType],
           \A t \in Ops : /\ Good(op'[t]) /\ op'[t].at <= op[t].at /\ op'[t].head <= op[t].head
                          /\ op'[t].fence <= op[t].fence /\ op'[t].snap <= op[t].snap
                          /\ op'[t].tag <= op[t].tag
    PROVE  ShapeInv'
<1>1. Types'
    BY DEF Grows, Types
<1>2. ASSUME NEW t \in Ops PROVE Good(op[t])' /\ Within(op[t])'
    <2>1. Good(op[t])'
        BY DEF Good, KindInv, ThenInv, LiveInv, KidsInv, FencedInv
    <2>2. /\ op[t].at <= HeadSeq(store') /\ op[t].head <= HeadSeq(store')
          /\ op[t].fence <= store'.fence /\ op[t].snap <= Len(image') /\ op[t].tag <= Len(image')
        BY PrimeWithin
    <2>3. /\ op'[t].at \in Nat /\ op'[t].head \in Nat /\ op'[t].fence \in Nat
          /\ op'[t].snap \in Nat /\ op'[t].tag \in Nat
        BY DEF OpType
    <2>4. HeadSeq(store') \in Nat /\ store'.fence \in Nat /\ Len(image') \in Nat
        <3>1. store'.recs \in Seq(Record) /\ store'.fence \in Nat /\ image' \in Seq(SUBSET Nat)
            BY DEF Grows, Store
        <3> QED
            BY <3>1 DEF HeadSeq
    <2>5. \A a, b, c \in Nat : a <= b /\ b <= c => a <= c
        OBVIOUS
    <2>6. /\ op'[t].at <= HeadSeq(store') /\ op'[t].head <= HeadSeq(store')
          /\ op'[t].fence <= store'.fence /\ op'[t].snap <= Len(image') /\ op'[t].tag <= Len(image')
        BY <2>2, <2>3, <2>4, <2>5, Numbers
    <2> QED
        BY <2>1, <2>6 DEF Within
<1>3. actor'.snap = Len(image')
    BY DEF Grows
<1> QED
    BY <1>1, <1>2, <1>3 DEF ShapeInv

(* The flags a checkpoint sets in other calls.                             *)
LEMMA FlagGood ==
    ASSUME NEW q, Good(q)
    PROVE  /\ Good([q EXCEPT !.ended = TRUE])
           /\ q.live => Good([q EXCEPT !.superseded = TRUE])
<1>0. q \in OpType
    BY DEF Good
<1>1. ASSUME NEW r, r = [q EXCEPT !.ended = TRUE] PROVE Good(r)
    <2>1. r \in OpType
        BY <1>0, <1>1 DEF OpType, PCs, Fencing, Streaming, Checkpointing, Cloning
    <2>2. /\ r.kind = q.kind /\ r.pc = q.pc /\ r.at = q.at /\ r.head = q.head
          /\ r.fence = q.fence /\ r.then = q.then /\ r.live = q.live
          /\ r.superseded = q.superseded /\ r.ended = TRUE /\ r.minted = q.minted
          /\ r.late = q.late /\ r.open = q.open /\ r.snap = q.snap
          /\ r.tag = q.tag /\ r.kids = q.kids /\ r.result = q.result
        BY <1>0, <1>1 DEF OpType
    <2>i. q.pc = "idle" => r = [IdleOp EXCEPT !.ended = r.ended]
        <3>1. SUFFICES ASSUME q.pc = "idle" PROVE r = [IdleOp EXCEPT !.ended = TRUE]
            BY <2>2
        <3>2. q = [IdleOp EXCEPT !.ended = q.ended]
            BY <3>1 DEF Good, KindInv
        <3> QED
            BY <1>1, <3>2 DEF IdleOp
    <2>3. KindInv(r)
        BY <1>0, <2>2, <2>i
        DEF Good, KindInv, ThenInv, LiveInv, Fencing, Streaming, Resumes, Turns, OpKinds,
            Checkpointing, Cloning
    <2>4. ThenInv(r)
        BY <1>0, <2>2
        DEF Good, ThenInv, KindInv, Fencing, Turns, Resumes
    <2>5. LiveInv(r)
        BY <1>0, <2>2
        DEF Good, LiveInv, KindInv, ThenInv, Streaming, Fencing, Turns, Resumes
    <2>6. KidsInv(r)
        BY <1>0, <2>2
        DEF Good, KidsInv, KindInv, Checkpointing, Cloning
    <2>7. FencedInv(r)
        BY <1>0, <2>2
        DEF Good, FencedInv, KindInv, ThenInv, Streaming, Fencing, Checkpointing, Turns, Resumes
    <2>8. Good(r)
        BY <2>1, <2>3, <2>4, <2>5, <2>6, <2>7 DEF Good
    <2> QED
        BY <2>8
<1>2. ASSUME q.live, NEW r, r = [q EXCEPT !.superseded = TRUE] PROVE Good(r)
    <2>1. r \in OpType
        BY <1>0, <1>2 DEF OpType, PCs, Fencing, Streaming, Checkpointing, Cloning
    <2>2. /\ r.kind = q.kind /\ r.pc = q.pc /\ r.at = q.at /\ r.head = q.head
          /\ r.fence = q.fence /\ r.then = q.then /\ r.live = q.live
          /\ r.superseded = TRUE /\ r.ended = q.ended /\ r.minted = q.minted
          /\ r.late = q.late /\ r.open = q.open /\ r.snap = q.snap
          /\ r.tag = q.tag /\ r.kids = q.kids /\ r.result = q.result
        BY <1>0, <1>2 DEF OpType
    <2>3. KindInv(r)
        BY <1>0, <1>2, <2>2
        DEF Good, KindInv, ThenInv, LiveInv, Fencing, Streaming, Resumes, Turns, OpKinds,
            Checkpointing, Cloning
    <2>4. ThenInv(r)
        BY <1>0, <1>2, <2>2
        DEF Good, ThenInv, KindInv, Fencing, Turns, Resumes
    <2>5. LiveInv(r)
        BY <1>0, <1>2, <2>2
        DEF Good, LiveInv, KindInv, ThenInv, Streaming, Fencing, Turns, Resumes
    <2>6. KidsInv(r)
        BY <1>0, <1>2, <2>2
        DEF Good, KidsInv, KindInv, Checkpointing, Cloning
    <2>7. FencedInv(r)
        BY <1>0, <1>2, <2>2
        DEF Good, FencedInv, KindInv, ThenInv, Streaming, Fencing, Checkpointing, Turns, Resumes
    <2>8. Good(r)
        BY <2>1, <2>3, <2>4, <2>5, <2>6, <2>7 DEF Good
    <2> QED
        BY <2>8
<1> QED
    BY <1>1, <1>2

(* A checkpoint that begins, superseding turns, keeps the shape.           *)
LEMMA BeginCheckpointShape ==
    ASSUME ShapeInv, NEW o \in Ops, BeginCheckpoint(o)
    PROVE  ShapeInv'
<1>0. op \in [Ops -> OpType] /\ \A t \in Ops : Good(op[t]) /\ op[t] \in OpType
    BY DEF ShapeInv, Good, Types
<1>1. op[o].pc = "begin"
    BY DEF BeginCheckpoint, At
<1>2. CASE Fail(o) /\ UNCHANGED mark
    BY <1>0, <1>1, <1>2, UnwindGood, GotoShape DEF BeginCheckpoint, OpOnly, Fail, Goto, Become
<1>3. CASE MarkFree(o)
    <2>1. PICK open \in SUBSET Ops :
            /\ \A t \in open : op[t].live
            /\ op' = [t \in Ops |->
                        IF t = o THEN [op[o] EXCEPT !.pc = "forkFence", !.then = "end", !.open = open]
                        ELSE IF t \in open THEN [op[t] EXCEPT !.superseded = TRUE] ELSE op[t]]
        <3> DEFINE S == {t \in Ops : Host(t) = Host(o) /\ op[t].live}
        <3>1. S \in SUBSET Ops /\ \A t \in S : op[t].live
            OBVIOUS
        <3>2. op' = [t \in Ops |->
                        IF t = o THEN [op[o] EXCEPT !.pc = "forkFence", !.then = "end", !.open = S]
                        ELSE IF t \in S THEN [op[t] EXCEPT !.superseded = TRUE] ELSE op[t]]
            BY <1>3 DEF BeginCheckpoint
        <3> HIDE DEF S
        <3> QED
            BY <3>1, <3>2
    <2>0. Good(op[o]) /\ op[o] \in OpType /\ open \subseteq Ops
        BY <1>0, <2>1
    <2>2. PICK r : r = [op[o] EXCEPT !.pc = "forkFence", !.then = "end", !.open = open]
        OBVIOUS
    <2>3. Good(r) /\ op'[o] = r
        <3>1. r \in OpType
            BY <1>1, <2>0, <2>2 DEF OpType, PCs, Fencing, Streaming, Checkpointing, Cloning
        <3>2. /\ r.kind = op[o].kind /\ r.pc = "forkFence" /\ r.at = op[o].at
              /\ r.head = op[o].head /\ r.fence = op[o].fence /\ r.then = "end"
              /\ r.live = op[o].live /\ r.superseded = op[o].superseded /\ r.ended = op[o].ended
              /\ r.minted = op[o].minted /\ r.late = op[o].late /\ r.open = open
              /\ r.snap = op[o].snap /\ r.tag = op[o].tag /\ r.kids = op[o].kids
              /\ r.result = op[o].result
            BY <1>1, <2>0, <2>2 DEF OpType
        <3>3. KindInv(r)
            BY <1>1, <2>0, <3>2
            DEF Good, KindInv, ThenInv, LiveInv, Fencing, Streaming, Resumes, Turns, OpKinds,
                Checkpointing, Cloning
        <3>4. ThenInv(r)
            BY <1>1, <2>0, <3>2
            DEF Good, ThenInv, KindInv, Fencing, Turns, Resumes
        <3>5. LiveInv(r)
            BY <1>1, <2>0, <3>2
            DEF Good, LiveInv, KindInv, ThenInv, Streaming, Fencing, Turns, Resumes
        <3>6. KidsInv(r)
            BY <1>1, <2>0, <3>2
            DEF Good, KidsInv, KindInv, Checkpointing, Cloning
        <3>7. FencedInv(r)
            BY <1>1, <2>0, <3>2
            DEF Good, FencedInv, KindInv, ThenInv, Streaming, Fencing, Checkpointing, Turns, Resumes
        <3>8. Good(r)
            BY <3>1, <3>3, <3>4, <3>5, <3>6, <3>7 DEF Good
        <3> QED
            BY <1>1, <2>0, <3>2, <3>8, <2>1, <2>2
    <2>4. \A t \in Ops \ {o} : op'[t] \in {op[t], [op[t] EXCEPT !.superseded = TRUE]} /\ Good(op'[t])
        BY <1>0, <2>1, FlagGood
    <2>5. \A t \in Ops : Good(op'[t]) /\ op'[t] \in OpType
        BY <2>3, <2>4 DEF Good
    <2>6. op' \in [Ops -> OpType]
        BY <2>1, <2>5
    <2>7. ASSUME NEW t \in Ops
          PROVE  /\ op'[t].at = op[t].at /\ op'[t].head = op[t].head /\ op'[t].fence = op[t].fence
                 /\ op'[t].snap = op[t].snap /\ op'[t].tag = op[t].tag
        <3>1. op[t] \in OpType
            BY <1>0
        <3>2. op'[t] \in {op[t], [op[t] EXCEPT !.superseded = TRUE],
                          [op[t] EXCEPT !.pc = "forkFence", !.then = "end", !.open = open]}
            BY <2>2, <2>3, <2>4
        <3> QED
            BY <3>1, <3>2 DEF OpType
    <2>8. Grows
        <3>1. mark' \in [Hosts -> Ops \union {None}]
            BY <1>3, PlacementAssumption DEF BeginCheckpoint, ShapeInv, Types, Host
        <3>2. UNCHANGED <<store, actor, image, guard, crashes>>
            BY DEF BeginCheckpoint
        <3> QED
            BY <3>1, <3>2, Numbers DEF Grows, ShapeInv, Types
    <2> QED
        BY <2>5, <2>6, <2>7, <2>8, AllShape, Numbers
<1> QED
    BY <1>2, <1>3 DEF BeginCheckpoint

(* Cancelling the superseded turns keeps the shape.                        *)
LEMMA EndHarnessesShape ==
    ASSUME ShapeInv, NEW o \in Ops, EndHarnesses(o)
    PROVE  ShapeInv'
<1>0. op \in [Ops -> OpType] /\ \A t \in Ops : Good(op[t]) /\ op[t] \in OpType
    BY DEF ShapeInv, Good, Types
<1>1. op[o].pc = "end"
    BY DEF EndHarnesses, At
<1>2. op' = [t \in Ops |-> IF t = o THEN [op[o] EXCEPT !.pc = "wait"]
                           ELSE IF t \in op[o].open THEN [op[t] EXCEPT !.ended = TRUE] ELSE op[t]]
    BY DEF EndHarnesses
<1>00. Good(op[o]) /\ op[o] \in OpType
    BY <1>0
<1>3. PICK r : r = [op[o] EXCEPT !.pc = "wait"]
    OBVIOUS
<1>4. Good(r) /\ op'[o] = r
    <2>1. r \in OpType
        BY SMTT(30), <1>00, <1>1, <1>3 DEF OpType, PCs, Fencing, Streaming, Checkpointing, Cloning
    <2>2. /\ r.kind = op[o].kind /\ r.pc = "wait" /\ r.at = op[o].at /\ r.head = op[o].head
          /\ r.fence = op[o].fence /\ r.then = op[o].then /\ r.live = op[o].live
          /\ r.superseded = op[o].superseded /\ r.ended = op[o].ended
          /\ r.minted = op[o].minted /\ r.late = op[o].late /\ r.open = op[o].open
          /\ r.snap = op[o].snap /\ r.tag = op[o].tag /\ r.kids = op[o].kids
          /\ r.result = op[o].result
        BY <1>00, <1>1, <1>3 DEF OpType
    <2>3. KindInv(r)
        BY <1>00, <1>1, <2>2
        DEF Good, KindInv, ThenInv, LiveInv, Fencing, Streaming, Resumes, Turns, OpKinds,
            Checkpointing, Cloning
    <2>4. ThenInv(r)
        BY <1>00, <1>1, <2>2
        DEF Good, ThenInv, KindInv, Fencing, Turns, Resumes
    <2>5. LiveInv(r)
        BY <1>00, <1>1, <2>2
        DEF Good, LiveInv, KindInv, ThenInv, Streaming, Fencing, Turns, Resumes
    <2>6. KidsInv(r)
        BY <1>00, <1>1, <2>2
        DEF Good, KidsInv, KindInv, Checkpointing, Cloning
    <2>7. FencedInv(r)
        BY <1>00, <1>1, <2>2
        DEF Good, FencedInv, KindInv, ThenInv, Streaming, Fencing, Checkpointing, Turns, Resumes
    <2>8. Good(r)
        BY <2>1, <2>3, <2>4, <2>5, <2>6, <2>7 DEF Good
    <2> QED
        BY <1>00, <1>1, <2>2, <2>8, <1>2, <1>3
<1>5. \A t \in Ops \ {o} : op'[t] \in {op[t], [op[t] EXCEPT !.ended = TRUE]} /\ Good(op'[t])
    BY <1>0, <1>2, FlagGood
<1>6. \A t \in Ops : Good(op'[t]) /\ op'[t] \in OpType
    BY <1>4, <1>5 DEF Good
<1>7. op' \in [Ops -> OpType]
    BY <1>2, <1>6
<1>8. ASSUME NEW t \in Ops
      PROVE  /\ op'[t].at = op[t].at /\ op'[t].head = op[t].head /\ op'[t].fence = op[t].fence
             /\ op'[t].snap = op[t].snap /\ op'[t].tag = op[t].tag
    <2>1. op[t] \in OpType
        BY <1>0
    <2>2. op'[t] \in {op[t], [op[t] EXCEPT !.ended = TRUE], [op[t] EXCEPT !.pc = "wait"]}
        BY <1>3, <1>4, <1>5
    <2> QED
        BY <2>1, <2>2 DEF OpType
<1>9. Grows
    BY Numbers DEF EndHarnesses, OpOnly, Grows, ShapeInv, Types
<1> QED
    BY <1>6, <1>7, <1>8, <1>9, AllShape, Numbers

(* A crash leaves the calls of its host in shape, and the others alone.    *)
LEMMA CrashShape ==
    ASSUME ShapeInv, NEW h \in Hosts, Crash(h)
    PROVE  ShapeInv'
<1>0. op \in [Ops -> OpType] /\ \A t \in Ops : Good(op[t]) /\ op[t] \in OpType
    BY DEF ShapeInv, Good, Types
<1>1. op' = [t \in Ops |->
                IF Host(t) = h /\ op[t].pc \notin {"idle", "done"}
                THEN [IdleOp EXCEPT !.kind = op[t].kind, !.pc = "done", !.result = "crashed"]
                ELSE op[t]]
    BY DEF Crash
<1>2. ASSUME NEW t \in Ops, op[t].pc # "idle",
             NEW r, r = [IdleOp EXCEPT !.kind = op[t].kind, !.pc = "done", !.result = "crashed"]
      PROVE  Good(r) /\ r.at = 0 /\ r.head = 0 /\ r.fence = 0 /\ r.snap = 0 /\ r.tag = 0
    <2>1. op[t].kind \in OpKinds
        BY <1>0, <1>2 DEF Good, KindInv
    <2>2. /\ r.kind = op[t].kind /\ r.pc = "done" /\ r.at = 0 /\ r.head = 0 /\ r.fence = 0
          /\ r.then = "none" /\ r.live = FALSE /\ r.superseded = FALSE /\ r.minted = FALSE
          /\ r.late = FALSE /\ r.snap = 0 /\ r.tag = 0 /\ r.kids = <<>>
        BY <1>2 DEF IdleOp
    <2>3. r \in OpType
        BY <1>2, <2>1, NoKids DEF IdleOp, OpType, PCs
    <2>4. KindInv(r) /\ ThenInv(r)
        BY <2>1, <2>2 DEF KindInv, ThenInv, Checkpointing, Cloning, Fencing
    <2>5. LiveInv(r) /\ KidsInv(r) /\ FencedInv(r)
        BY <2>1, <2>2, FanoutPositive DEF LiveInv, KidsInv, FencedInv, Streaming, Fencing,
           Checkpointing, Cloning
    <2> QED
        BY <2>2, <2>3, <2>4, <2>5 DEF Good
<1>3. ASSUME NEW t \in Ops
      PROVE  /\ Good(op'[t]) /\ op'[t] \in OpType
             /\ op'[t].at <= op[t].at /\ op'[t].head <= op[t].head
             /\ op'[t].fence <= op[t].fence /\ op'[t].snap <= op[t].snap
             /\ op'[t].tag <= op[t].tag
    <2>1. CASE op'[t] = op[t]
        BY <1>0, <2>1, Numbers
    <2>2. CASE op'[t] # op[t]
        <3>1. /\ op[t].pc # "idle"
              /\ op'[t] = [IdleOp EXCEPT !.kind = op[t].kind, !.pc = "done", !.result = "crashed"]
            BY <1>1, <2>2
        <3>2. PICK r : r = [IdleOp EXCEPT !.kind = op[t].kind, !.pc = "done", !.result = "crashed"]
            OBVIOUS
        <3>3. Good(r) /\ r.at = 0 /\ r.head = 0 /\ r.fence = 0 /\ r.snap = 0 /\ r.tag = 0
            BY <1>2, <3>1, <3>2
        <3>4. r \in OpType
            BY <3>3 DEF Good
        <3> QED
            BY <3>1, <3>2, <3>3, <3>4, Numbers
    <2> QED
        BY <2>1, <2>2
<1>4. op' \in [Ops -> OpType]
    BY <1>1, <1>3
<1>5. Grows
    <2>1. FreeGuard \in GuardType
        BY DEF FreeGuard, GuardType
    <2>2. crashes' \in 0 .. MaxCrashes
        <3>1. MaxCrashes \in Nat
            BY PlacementAssumption
        <3>2. crashes \in 0 .. MaxCrashes /\ crashes < MaxCrashes /\ crashes' = crashes + 1
            BY DEF Crash, ShapeInv, Types
        <3> QED
            BY <3>1, <3>2
    <2>3. guard' \in [Hosts -> GuardType] /\ mark' \in [Hosts -> Ops \union {None}]
        BY <2>1 DEF Crash, ShapeInv, Types
    <2> QED
        <3>1. UNCHANGED <<store, actor, image>>
            BY DEF Crash
        <3> QED
            BY <2>2, <2>3, <3>1, Numbers DEF Grows, ShapeInv, Types
<1> QED
    BY <1>3, <1>4, <1>5, AllShape

-----------------------------------------------------------------------------
(* The shape holds in every state *)

(* A session that has its row and nothing else.                            *)
LEMMA InitShape == Init => ShapeInv
<1> SUFFICES ASSUME Init PROVE ShapeInv
    OBVIOUS
<1>1. EmptyStore \in Store
    BY EmptySeq DEF EmptyStore, Store, ComputeState
<1>2. store \in Store /\ store.recs = <<>> /\ store.fence = 0 /\ HeadSeq(store) = 0
    BY <1>1, PutEffect DEF Init, EmptyStore, HeadSeq
<1>3. IdleOp \in OpType
    BY EmptySeq DEF OpType, IdleOp, PCs
<1>4. guard \in [Hosts -> GuardType] /\ mark \in [Hosts -> Ops \union {None}]
    BY DEF Init, GuardType, FreeGuard
<1>5. Types
    BY <1>2, <1>3, <1>4, EmptySeq, PlacementAssumption DEF Init, Types, ComputeState
<1>6. Len(image) = 0
    BY DEF Init
<1>7. Good(IdleOp)
    <2>1. IdleOp = [IdleOp EXCEPT !.ended = IdleOp.ended]
        BY DEF IdleOp
    <2>2. /\ IdleOp.pc = "idle" /\ IdleOp.kids = <<>> /\ IdleOp.then = "none"
          /\ ~IdleOp.live /\ ~IdleOp.superseded /\ ~IdleOp.late /\ ~IdleOp.minted
        BY DEF IdleOp
    <2>3. KindInv(IdleOp) /\ ThenInv(IdleOp)
        BY <2>1, <2>2 DEF KindInv, ThenInv, Fencing, Checkpointing, Cloning
    <2>4. LiveInv(IdleOp) /\ FencedInv(IdleOp)
        BY <2>2 DEF LiveInv, FencedInv, Fencing, Streaming, Checkpointing
    <2>5. KidsInv(IdleOp)
        BY <2>2, FanoutPositive DEF KidsInv, Checkpointing, Cloning
    <2> QED
        BY <1>3, <2>3, <2>4, <2>5 DEF Good
<1>8. Within(IdleOp)
    BY <1>2, <1>6 DEF Within, IdleOp
<1> QED
    BY <1>5, <1>6, <1>7, <1>8 DEF ShapeInv, Init

(* Every step of a call keeps the shape.                                   *)
LEMMA OpStepShape ==
    ASSUME ShapeInv, NEW o \in Ops, OpStep(o)
    PROVE  ShapeInv'
<1>1. CASE ForkStep(o)
    BY <1>1, GotoStepsShape, BeginCheckpointShape, ForkFenceShape, EndHarnessesShape,
       AwaitMintedShape, CheckpointShape, ForkRecordShape, TagActorShape, CreateChildShape,
       CopyLogShape, AbortForkShape, RollbackForkShape
    DEF ForkStep
<1>2. CASE TurnStep(o)
    BY <1>2, TurnShape
<1>3. CASE \/ Unwind(o) \/ Mark(o) \/ FenceMint(o) \/ FenceHead(o)
           \/ ExecInspect(o) \/ ResumeInspect(o) \/ Repair(o) \/ Gate(o) \/ Create(o)
           \/ OpenHarness(o) \/ CheckSuperseded(o)
    BY <1>3, UnwindShape, MarkShape, FenceMintShape, FenceHeadShape, GotoStepsShape,
       ResumeInspectShape, RepairShape, GateShape, CreateShape, OpenHarnessShape
<1>4. CASE \/ HandoffInspect(o) \/ CloseInvocation(o) \/ SuspendInspect(o)
           \/ Snapshot(o) \/ RecordSuspend(o) \/ ApproveScan(o) \/ Decide(o) \/ DeleteRow(o)
    BY <1>4, HandoffInspectShape, CloseInvocationShape, GotoStepsShape, SnapshotShape,
       RecordSuspendShape, ApproveScanShape, DecideShape, DeleteRowShape
<1> QED
    BY <1>1, <1>2, <1>3, <1>4 DEF OpStep

(* A step that changes nothing keeps it too.                               *)
LEMMA StutterShape == ShapeInv /\ UNCHANGED vars => ShapeInv'
BY DEF vars, ShapeInv, Types, Good, Within, KindInv, ThenInv, LiveInv, KidsInv, FencedInv

(* Every step keeps the shape.                                             *)
LEMMA NextShape == ShapeInv /\ [Next]_vars => ShapeInv'
<1> SUFFICES ASSUME ShapeInv, [Next]_vars PROVE ShapeInv'
    OBVIOUS
<1>1. ASSUME NEW o \in Ops, OpStep(o) PROVE ShapeInv'
    BY <1>1, OpStepShape
<1>2. ASSUME NEW o \in Ops, NEW kind \in OpKinds, Begin(o, kind) PROVE ShapeInv'
    BY <1>2, BeginShape
<1>3. ASSUME NEW h \in Hosts, Crash(h) PROVE ShapeInv'
    BY <1>3, CrashShape
<1>4. CASE UNCHANGED vars
    BY <1>4, StutterShape
<1> QED
    BY <1>1, <1>2, <1>3, <1>4 DEF Next, Quiescent

(* What a call remembers fits the step it is at, in every reachable state: *)
(* only turns have a connection, only a call past its mint writes, a       *)
(* superseded turn that minted late has not passed checkSuperseded, and no *)
(* number a call kept is beyond the log, the fence or the snapshots.       *)
THEOREM ShapeInvariant == Spec => []ShapeInv
<1>1. Init => ShapeInv
    BY InitShape
<1>2. ShapeInv /\ [Next]_vars => ShapeInv'
    BY NextShape
<1> QED
    BY <1>1, <1>2, PTL DEF Spec

-----------------------------------------------------------------------------
(* What each step does, field by field *)

(* The fields of a call that a step may change are its pc and those in S.  *)
Keeping(q, r, S) ==
    /\ r.kind = q.kind /\ r.at = q.at
    /\ ("head" \notin S => r.head = q.head) /\ ("fence" \notin S => r.fence = q.fence)
    /\ ("then" \notin S => r.then = q.then) /\ ("live" \notin S => r.live = q.live)
    /\ ("superseded" \notin S => r.superseded = q.superseded) /\ ("ended" \notin S => r.ended = q.ended)
    /\ ("minted" \notin S => r.minted = q.minted) /\ ("late" \notin S => r.late = q.late)
    /\ ("open" \notin S => r.open = q.open) /\ ("snap" \notin S => r.snap = q.snap)
    /\ ("tag" \notin S => r.tag = q.tag) /\ ("kids" \notin S => r.kids = q.kids)
    /\ ("result" \notin S => r.result = q.result)

(* The other calls stay as they are.                                       *)
Alone(o) == \A t \in Ops \ {o} : op'[t] = op[t]

(* The call gives up, and its deferred releases are all that is left.      *)
Quits(o) == Keeping(op[o], op'[o], {}) /\ op'[o].pc = "unwind"

(* The deferred releases.                                                  *)
LEMMA UnwindEffect ==
    ASSUME ShapeInv, NEW o \in Ops, Unwind(o)
    PROVE  /\ Alone(o)
           /\ op[o].pc = "unwind"
           /\ UNCHANGED <<store, actor, image, crashes>>
           /\ Keeping(op[o], op'[o], {"live", "minted", "then", "open", "tag", "head",
                 "superseded", "ended"})
           /\ op'[o].pc = "done"
           /\ op'[o].live = FALSE
           /\ op'[o].minted = TRUE
           /\ op'[o].then = "none"
           /\ op'[o].open = {}
           /\ op'[o].tag = 0
           /\ op'[o].head = 0
           /\ op'[o].superseded = FALSE
           /\ op'[o].ended = FALSE
           /\ mark' = [mark EXCEPT ![Host(o)] = IF @ = o THEN None ELSE @]
           /\ guard' = [guard EXCEPT ![Host(o)] = Release(@, GuardKind(op[o].kind))]
<1>0. op \in [Ops -> OpType] /\ op[o] \in OpType
    BY DEF ShapeInv, Types
<1>1. op[o].pc = "unwind" /\ UNCHANGED <<store, actor, image, crashes>>
    BY DEF Unwind, Become, Goto, Fail, Succeed, At, Is, OpOnly, LogOnly
<1> DEFINE B1 == /\ op' = [op EXCEPT ![o] = [op[o] EXCEPT !.pc = "done", !.live = FALSE,
                       !.minted = TRUE, !.then = "none", !.open = {}, !.tag = 0, !.head = 0,
                             !.superseded = FALSE, !.ended = FALSE]]
                 /\ mark' = [mark EXCEPT ![Host(o)] = IF @ = o THEN None ELSE @]
                 /\ guard' = [guard EXCEPT ![Host(o)] = Release(@, GuardKind(op[o].kind))]
<1>2. B1
    BY DEF Unwind, Become, Goto, Fail, Succeed, At, Is, OpOnly, LogOnly
<1>3. ASSUME B1
      PROVE  /\ Alone(o)
             /\ Keeping(op[o], op'[o], {"live", "minted", "then", "open", "tag", "head",
                   "superseded", "ended"})
             /\ op'[o].pc = "done"
             /\ op'[o].live = FALSE
             /\ op'[o].minted = TRUE
             /\ op'[o].then = "none"
             /\ op'[o].open = {}
             /\ op'[o].tag = 0
             /\ op'[o].head = 0
             /\ op'[o].superseded = FALSE
             /\ op'[o].ended = FALSE
    <2>1. op'[o] = [op[o] EXCEPT !.pc = "done", !.live = FALSE, !.minted = TRUE, !.then = "none",
          !.open = {}, !.tag = 0, !.head = 0, !.superseded = FALSE, !.ended = FALSE]
        BY <1>0, <1>3
    <2>2. Alone(o)
        BY <1>0, <1>3 DEF Alone
    <2> QED
        BY <1>0, <2>1, <2>2 DEF OpType, Keeping
<1> QED
    BY <1>1, <1>2, <1>3

(* The mark is taken, or the call refused.                                 *)
LEMMA MarkEffect ==
    ASSUME ShapeInv, NEW o \in Ops, Mark(o)
    PROVE  /\ Alone(o)
           /\ op[o].pc \in {"mark", "fenceMark"}
           /\ UNCHANGED <<store, actor, image, guard, crashes>>
           /\ \/ /\ mark[Host(o)] = None
                 /\ Keeping(op[o], op'[o], {})
                 /\ op'[o].pc = IF op[o].pc = "fenceMark" THEN "fenceMint"
                   ELSE IF op[o].kind = "Suspend" THEN "snapshot"
                   ELSE IF op[o].kind = "Approve" THEN "scan" ELSE "handoff"
                 /\ mark' = [mark EXCEPT ![Host(o)] = o]
              \/ /\ mark[Host(o)] # None
                 /\ Keeping(op[o], op'[o], {"minted"})
                 /\ op'[o].pc = "unwind"
                 /\ op'[o].minted = op[o].live
                 /\ mark' = mark
<1>0. op \in [Ops -> OpType] /\ op[o] \in OpType
    BY DEF ShapeInv, Types
<1>1. op[o].pc \in {"mark", "fenceMark"} /\ UNCHANGED <<store, actor, image, guard, crashes>>
    BY DEF Mark, MarkFree, Become, Goto, Fail, Succeed, At, Is, OpOnly, LogOnly
<1> DEFINE B1 == /\ op' = [op EXCEPT ![o] = [op[o] EXCEPT !.pc = IF op[o].pc = "fenceMark" THEN "fenceMint"
                                  ELSE IF op[o].kind = "Suspend" THEN "snapshot"
                                  ELSE IF op[o].kind = "Approve" THEN "scan" ELSE "handoff"]]
                 /\ mark[Host(o)] = None
                 /\ mark' = [mark EXCEPT ![Host(o)] = o]
<1> DEFINE B2 == /\ op' = [op EXCEPT ![o] = [op[o] EXCEPT !.pc = "unwind", !.minted = op[o].live]]
                 /\ mark[Host(o)] # None
                 /\ mark' = mark
<1>2. B1 \/ B2
    <2>1. CASE mark[Host(o)] = None
        <3>1. (CASE At(o, "fenceMark") -> "fenceMint" [] Is(o, {"Suspend"}) -> "snapshot"
                 [] Is(o, {"Approve"}) -> "scan" [] OTHER -> "handoff") =
              (IF op[o].pc = "fenceMark" THEN "fenceMint"
               ELSE IF op[o].kind = "Suspend" THEN "snapshot"
               ELSE IF op[o].kind = "Approve" THEN "scan" ELSE "handoff")
            <4>1. At(o, "fenceMark") => op[o].kind = "CheckedResume"
                BY DEF ShapeInv, Good, KindInv, At
            <4> QED
                BY <4>1 DEF At, Is
        <3>2. /\ op' = [op EXCEPT ![o] = [op[o] EXCEPT !.pc =
                    CASE At(o, "fenceMark") -> "fenceMint" [] Is(o, {"Suspend"}) -> "snapshot"
                      [] Is(o, {"Approve"}) -> "scan" [] OTHER -> "handoff"]]
              /\ mark' = [mark EXCEPT ![Host(o)] = o]
            BY <2>1 DEF Mark, MarkFree, Goto, Become
        <3> QED
            BY <2>1, <3>1, <3>2
    <2>2. CASE mark[Host(o)] # None
        BY <2>2 DEF Mark, MarkFree, Become
    <2> QED
        BY <2>1, <2>2
<1>3. ASSUME B1
      PROVE  /\ Alone(o)
             /\ Keeping(op[o], op'[o], {})
             /\ op'[o].pc = IF op[o].pc = "fenceMark" THEN "fenceMint"
                   ELSE IF op[o].kind = "Suspend" THEN "snapshot"
                   ELSE IF op[o].kind = "Approve" THEN "scan" ELSE "handoff"
    <2>1. op'[o] = [op[o] EXCEPT !.pc = IF op[o].pc = "fenceMark" THEN "fenceMint"
                   ELSE IF op[o].kind = "Suspend" THEN "snapshot"
                   ELSE IF op[o].kind = "Approve" THEN "scan" ELSE "handoff"]
        BY <1>0, <1>3
    <2>2. Alone(o)
        BY <1>0, <1>3 DEF Alone
    <2> QED
        BY <1>0, <2>1, <2>2 DEF OpType, Keeping
<1>4. ASSUME B2
      PROVE  /\ Alone(o)
             /\ Keeping(op[o], op'[o], {"minted"})
             /\ op'[o].pc = "unwind"
             /\ op'[o].minted = op[o].live
    <2>1. op'[o] = [op[o] EXCEPT !.pc = "unwind", !.minted = op[o].live]
        BY <1>0, <1>4
    <2>2. Alone(o)
        BY <1>0, <1>4 DEF Alone
    <2> QED
        BY <1>0, <2>1, <2>2 DEF OpType, Keeping
<1> QED
    BY <1>1, <1>2, <1>3, <1>4

(* The fence is minted, or the session is deleted.                         *)
LEMMA FenceMintEffect ==
    ASSUME ShapeInv, NEW o \in Ops, FenceMint(o)
    PROVE  /\ Alone(o)
           /\ op[o].pc = "fenceMint"
           /\ UNCHANGED <<actor, image, guard, mark, crashes>>
           /\ \/ /\ CheckWritable(store)
                 /\ Keeping(op[o], op'[o], {"fence", "late", "minted"})
                 /\ op'[o].pc = IF op[o].kind = "CheckedResume" THEN "fenceHead" ELSE op[o].then
                 /\ op'[o].fence = store'.fence
                 /\ op'[o].late = op[o].superseded
                 /\ op'[o].minted = (op[o].live /\ op[o].kind # "CheckedResume")
                 /\ store' = NewFence(store)
              \/ /\ ~CheckWritable(store)
                 /\ Keeping(op[o], op'[o], {"minted"})
                 /\ op'[o].pc = "unwind"
                 /\ op'[o].minted = op[o].live
                 /\ store' = store
<1>0. op \in [Ops -> OpType] /\ op[o] \in OpType
    BY DEF ShapeInv, Types
<1>1. op[o].pc = "fenceMint" /\ UNCHANGED <<actor, image, guard, mark, crashes>>
    BY DEF FenceMint, Become, Goto, Fail, Succeed, At, Is, OpOnly, LogOnly
<1> DEFINE B1 == /\ op' = [op EXCEPT ![o] = [op[o] EXCEPT !.pc = IF op[o].kind = "CheckedResume" THEN "fenceHead" ELSE op[o].then,
                                                   !.fence = store'.fence,
                                                   !.late = op[o].superseded,
                                                   !.minted = (op[o].live /\ op[o].kind # "CheckedResume")]]
                 /\ CheckWritable(store)
                 /\ store' = NewFence(store)
<1> DEFINE B2 == /\ op' = [op EXCEPT ![o] = [op[o] EXCEPT !.pc = "unwind", !.minted = op[o].live]]
                 /\ ~CheckWritable(store)
                 /\ store' = store
<1>2. B1 \/ B2
    BY DEF FenceMint, Become, Goto, Fail, Succeed, At, Is, OpOnly, LogOnly
<1>3. ASSUME B1
      PROVE  /\ Alone(o)
             /\ Keeping(op[o], op'[o], {"fence", "late", "minted"})
             /\ op'[o].pc = IF op[o].kind = "CheckedResume" THEN "fenceHead" ELSE op[o].then
             /\ op'[o].fence = store'.fence
             /\ op'[o].late = op[o].superseded
             /\ op'[o].minted = (op[o].live /\ op[o].kind # "CheckedResume")
    <2>1. op'[o] = [op[o] EXCEPT !.pc = IF op[o].kind = "CheckedResume" THEN "fenceHead" ELSE op[o].then,
                                 !.fence = store'.fence,
                                 !.late = op[o].superseded,
                                 !.minted = (op[o].live /\ op[o].kind # "CheckedResume")]
        BY <1>0, <1>3
    <2>2. Alone(o)
        BY <1>0, <1>3 DEF Alone
    <2> QED
        BY <1>0, <2>1, <2>2 DEF OpType, Keeping
<1>4. ASSUME B2
      PROVE  /\ Alone(o)
             /\ Keeping(op[o], op'[o], {"minted"})
             /\ op'[o].pc = "unwind"
             /\ op'[o].minted = op[o].live
    <2>1. op'[o] = [op[o] EXCEPT !.pc = "unwind", !.minted = op[o].live]
        BY <1>0, <1>4
    <2>2. Alone(o)
        BY <1>0, <1>4 DEF Alone
    <2> QED
        BY <1>0, <2>1, <2>2 DEF OpType, Keeping
<1> QED
    BY <1>1, <1>2, <1>3, <1>4

(* A checked fence compares the head and lifts the mark.                   *)
LEMMA FenceHeadEffect ==
    ASSUME ShapeInv, NEW o \in Ops, FenceHead(o)
    PROVE  /\ Alone(o)
           /\ op[o].pc = "fenceHead"
           /\ UNCHANGED <<store, actor, image, guard, crashes>>
           /\ Keeping(op[o], op'[o], {"minted"})
           /\ op'[o].pc = IF HeadSeq(store) = op[o].at THEN op[o].then ELSE "unwind"
           /\ op'[o].minted = op[o].live
           /\ mark' = [mark EXCEPT ![Host(o)] = None]
<1>0. op \in [Ops -> OpType] /\ op[o] \in OpType
    BY DEF ShapeInv, Types
<1>1. op[o].pc = "fenceHead" /\ UNCHANGED <<store, actor, image, guard, crashes>>
    BY DEF FenceHead, Become, Goto, Fail, Succeed, At, Is, OpOnly, LogOnly
<1> DEFINE B1 == /\ op' = [op EXCEPT ![o] = [op[o] EXCEPT !.pc = IF HeadSeq(store) = op[o].at THEN op[o].then ELSE "unwind",
                                                   !.minted = op[o].live]]
                 /\ mark' = [mark EXCEPT ![Host(o)] = None]
<1>2. B1
    BY DEF FenceHead, Become, Goto, Fail, Succeed, At, Is, OpOnly, LogOnly
<1>3. ASSUME B1
      PROVE  /\ Alone(o)
             /\ Keeping(op[o], op'[o], {"minted"})
             /\ op'[o].pc = IF HeadSeq(store) = op[o].at THEN op[o].then ELSE "unwind"
             /\ op'[o].minted = op[o].live
    <2>1. op'[o] = [op[o] EXCEPT !.pc = IF HeadSeq(store) = op[o].at THEN op[o].then ELSE "unwind",
          !.minted = op[o].live]
        BY <1>0, <1>3
    <2>2. Alone(o)
        BY <1>0, <1>3 DEF Alone
    <2> QED
        BY <1>0, <2>1, <2>2 DEF OpType, Keeping
<1> QED
    BY <1>1, <1>2, <1>3

(* Exec is refused beside an open gate.                                    *)
LEMMA ExecInspectEffect ==
    ASSUME ShapeInv, NEW o \in Ops, ExecInspect(o)
    PROVE  /\ Alone(o)
           /\ op[o].pc = "inspect" /\ op[o].kind = "Exec"
           /\ UNCHANGED <<store, actor, image, guard, mark, crashes>>
           /\ \/ /\ CheckWritable(store)
                 /\ InspectApproval(store.recs) = "none"
                 /\ Keeping(op[o], op'[o], {})
                 /\ op'[o].pc = "gate"
              \/ /\ Quits(o)
<1>0. op \in [Ops -> OpType] /\ op[o] \in OpType
    BY DEF ShapeInv, Types
<1>1. op[o].pc = "inspect" /\ op[o].kind = "Exec" /\ UNCHANGED <<store, actor, image, guard, mark,
                                 crashes>>
    BY DEF ExecInspect, Become, Goto, Fail, Succeed, At, Is, OpOnly, LogOnly
<1> DEFINE B1 == /\ op' = [op EXCEPT ![o] = [op[o] EXCEPT !.pc = "gate"]]
                 /\ CheckWritable(store)
                 /\ InspectApproval(store.recs) = "none"
<1> DEFINE B2 == op' = [op EXCEPT ![o] = [op[o] EXCEPT !.pc = "unwind"]]
<1>2. B1 \/ B2
    BY DEF ExecInspect, Become, Goto, Fail, Succeed, At, Is, OpOnly, LogOnly
<1>3. ASSUME B1
      PROVE  /\ Alone(o)
             /\ Keeping(op[o], op'[o], {})
             /\ op'[o].pc = "gate"
    <2>1. op'[o] = [op[o] EXCEPT !.pc = "gate"]
        BY <1>0, <1>3
    <2>2. Alone(o)
        BY <1>0, <1>3 DEF Alone
    <2> QED
        BY <1>0, <2>1, <2>2 DEF OpType, Keeping
<1>4. ASSUME B2
      PROVE  /\ Alone(o)
             /\ Keeping(op[o], op'[o], {})
             /\ op'[o].pc = "unwind"
    <2>1. op'[o] = [op[o] EXCEPT !.pc = "unwind"]
        BY <1>0, <1>4
    <2>2. Alone(o)
        BY <1>0, <1>4 DEF Alone
    <2> QED
        BY <1>0, <2>1, <2>2 DEF OpType, Keeping
<1> QED
    BY <1>1, <1>2, <1>3, <1>4 DEF Quits

(* Compute is made live, or the call fails.                                *)
LEMMA CreateEffect ==
    ASSUME ShapeInv, NEW o \in Ops, Create(o)
    PROVE  /\ Alone(o)
           /\ op[o].pc = "create"
           /\ UNCHANGED <<store, image, guard, mark, crashes>>
           /\ \/ /\ Keeping(op[o], op'[o], {})
                 /\ op'[o].pc = "open"
                 /\ actor' = [actor EXCEPT !.state = "LIVE"]
              \/ /\ Quits(o)
                 /\ actor' = actor
<1>0. op \in [Ops -> OpType] /\ op[o] \in OpType
    BY DEF ShapeInv, Types
<1>1. op[o].pc = "create" /\ UNCHANGED <<store, image, guard, mark, crashes>>
    BY DEF Create, Become, Goto, Fail, Succeed, At, Is, OpOnly, LogOnly
<1> DEFINE B1 == /\ op' = [op EXCEPT ![o] = [op[o] EXCEPT !.pc = "open"]]
                 /\ actor' = [actor EXCEPT !.state = "LIVE"]
<1> DEFINE B2 == /\ op' = [op EXCEPT ![o] = [op[o] EXCEPT !.pc = "unwind"]]
                 /\ actor' = actor
<1>2. B1 \/ B2
    BY DEF Create, Become, Goto, Fail, Succeed, At, Is, OpOnly, LogOnly
<1>3. ASSUME B1
      PROVE  /\ Alone(o)
             /\ Keeping(op[o], op'[o], {})
             /\ op'[o].pc = "open"
    <2>1. op'[o] = [op[o] EXCEPT !.pc = "open"]
        BY <1>0, <1>3
    <2>2. Alone(o)
        BY <1>0, <1>3 DEF Alone
    <2> QED
        BY <1>0, <2>1, <2>2 DEF OpType, Keeping
<1>4. ASSUME B2
      PROVE  /\ Alone(o)
             /\ Keeping(op[o], op'[o], {})
             /\ op'[o].pc = "unwind"
    <2>1. op'[o] = [op[o] EXCEPT !.pc = "unwind"]
        BY <1>0, <1>4
    <2>2. Alone(o)
        BY <1>0, <1>4 DEF Alone
    <2> QED
        BY <1>0, <2>1, <2>2 DEF OpType, Keeping
<1> QED
    BY <1>1, <1>2, <1>3, <1>4 DEF Quits

(* A superseded turn ends here.                                            *)
LEMMA CheckSupersededEffect ==
    ASSUME ShapeInv, NEW o \in Ops, CheckSuperseded(o)
    PROVE  /\ Alone(o)
           /\ op[o].pc = "check"
           /\ UNCHANGED <<store, actor, image, guard, mark, crashes>>
           /\ \/ /\ ~op[o].superseded
                 /\ ~op[o].ended
                 /\ Keeping(op[o], op'[o], {})
                 /\ op'[o].pc = IF op[o].kind = "Exec" THEN "start" ELSE "redrive"
              \/ /\ Quits(o)
<1>0. op \in [Ops -> OpType] /\ op[o] \in OpType
    BY DEF ShapeInv, Types
<1>1. op[o].pc = "check" /\ UNCHANGED <<store, actor, image, guard, mark, crashes>>
    BY DEF CheckSuperseded, Become, Goto, Fail, Succeed, At, Is, OpOnly, LogOnly
<1> DEFINE B1 == /\ op' = [op EXCEPT ![o] = [op[o] EXCEPT !.pc = IF op[o].kind = "Exec" THEN "start" ELSE "redrive"]]
                 /\ ~op[o].superseded
                 /\ ~op[o].ended
<1> DEFINE B2 == op' = [op EXCEPT ![o] = [op[o] EXCEPT !.pc = "unwind"]]
<1>2. B1 \/ B2
    BY DEF CheckSuperseded, Become, Goto, Fail, Succeed, At, Is, OpOnly, LogOnly
<1>3. ASSUME B1
      PROVE  /\ Alone(o)
             /\ Keeping(op[o], op'[o], {})
             /\ op'[o].pc = IF op[o].kind = "Exec" THEN "start" ELSE "redrive"
    <2>1. op'[o] = [op[o] EXCEPT !.pc = IF op[o].kind = "Exec" THEN "start" ELSE "redrive"]
        BY <1>0, <1>3
    <2>2. Alone(o)
        BY <1>0, <1>3 DEF Alone
    <2> QED
        BY <1>0, <2>1, <2>2 DEF OpType, Keeping
<1>4. ASSUME B2
      PROVE  /\ Alone(o)
             /\ Keeping(op[o], op'[o], {})
             /\ op'[o].pc = "unwind"
    <2>1. op'[o] = [op[o] EXCEPT !.pc = "unwind"]
        BY <1>0, <1>4
    <2>2. Alone(o)
        BY <1>0, <1>4 DEF Alone
    <2> QED
        BY <1>0, <2>1, <2>2 DEF OpType, Keeping
<1> QED
    BY <1>1, <1>2, <1>3, <1>4 DEF Quits

(* A park looks at the gate once more.                                     *)
LEMMA HandoffInspectEffect ==
    ASSUME ShapeInv, NEW o \in Ops, HandoffInspect(o)
    PROVE  /\ Alone(o)
           /\ op[o].pc = "handoff"
           /\ UNCHANGED <<store, actor, image, guard, mark, crashes>>
           /\ \/ /\ InspectApproval(store.recs) = "requested"
                 /\ Keeping(op[o], op'[o], {"head"})
                 /\ op'[o].pc = "close"
                 /\ op'[o].head = HeadSeq(store)
              \/ /\ Quits(o)
<1>0. op \in [Ops -> OpType] /\ op[o] \in OpType
    BY DEF ShapeInv, Types
<1>1. op[o].pc = "handoff" /\ UNCHANGED <<store, actor, image, guard, mark, crashes>>
    BY DEF HandoffInspect, Become, Goto, Fail, Succeed, At, Is, OpOnly, LogOnly
<1> DEFINE B1 == /\ op' = [op EXCEPT ![o] = [op[o] EXCEPT !.pc = "close", !.head = HeadSeq(store)]]
                 /\ InspectApproval(store.recs) = "requested"
<1> DEFINE B2 == op' = [op EXCEPT ![o] = [op[o] EXCEPT !.pc = "unwind"]]
<1>2. B1 \/ B2
    BY DEF HandoffInspect, Become, Goto, Fail, Succeed, At, Is, OpOnly, LogOnly
<1>3. ASSUME B1
      PROVE  /\ Alone(o)
             /\ Keeping(op[o], op'[o], {"head"})
             /\ op'[o].pc = "close"
             /\ op'[o].head = HeadSeq(store)
    <2>1. op'[o] = [op[o] EXCEPT !.pc = "close", !.head = HeadSeq(store)]
        BY <1>0, <1>3
    <2>2. Alone(o)
        BY <1>0, <1>3 DEF Alone
    <2> QED
        BY <1>0, <2>1, <2>2 DEF OpType, Keeping
<1>4. ASSUME B2
      PROVE  /\ Alone(o)
             /\ Keeping(op[o], op'[o], {})
             /\ op'[o].pc = "unwind"
    <2>1. op'[o] = [op[o] EXCEPT !.pc = "unwind"]
        BY <1>0, <1>4
    <2>2. Alone(o)
        BY <1>0, <1>4 DEF Alone
    <2> QED
        BY <1>0, <2>1, <2>2 DEF OpType, Keeping
<1> QED
    BY <1>1, <1>2, <1>3, <1>4 DEF Quits

(* A park closes its own connection.                                       *)
LEMMA CloseInvocationEffect ==
    ASSUME ShapeInv, NEW o \in Ops, CloseInvocation(o)
    PROVE  /\ Alone(o)
           /\ op[o].pc = "close"
           /\ UNCHANGED <<store, actor, image, guard, mark, crashes>>
           /\ \/ /\ ~op[o].superseded
                 /\ ~op[o].ended
                 /\ Keeping(op[o], op'[o], {"live", "minted"})
                 /\ op'[o].pc = "snapshot"
                 /\ op'[o].live = FALSE
                 /\ op'[o].minted = TRUE
              \/ /\ Quits(o)
<1>0. op \in [Ops -> OpType] /\ op[o] \in OpType
    BY DEF ShapeInv, Types
<1>1. op[o].pc = "close" /\ UNCHANGED <<store, actor, image, guard, mark, crashes>>
    BY DEF CloseInvocation, Become, Goto, Fail, Succeed, At, Is, OpOnly, LogOnly
<1> DEFINE B1 == /\ op' = [op EXCEPT ![o] = [op[o] EXCEPT !.pc = "snapshot", !.live = FALSE,
                       !.minted = TRUE]]
                 /\ ~op[o].superseded
                 /\ ~op[o].ended
<1> DEFINE B2 == op' = [op EXCEPT ![o] = [op[o] EXCEPT !.pc = "unwind"]]
<1>2. B1 \/ B2
    BY DEF CloseInvocation, Become, Goto, Fail, Succeed, At, Is, OpOnly, LogOnly
<1>3. ASSUME B1
      PROVE  /\ Alone(o)
             /\ Keeping(op[o], op'[o], {"live", "minted"})
             /\ op'[o].pc = "snapshot"
             /\ op'[o].live = FALSE
             /\ op'[o].minted = TRUE
    <2>1. op'[o] = [op[o] EXCEPT !.pc = "snapshot", !.live = FALSE, !.minted = TRUE]
        BY <1>0, <1>3
    <2>2. Alone(o)
        BY <1>0, <1>3 DEF Alone
    <2> QED
        BY <1>0, <2>1, <2>2 DEF OpType, Keeping
<1>4. ASSUME B2
      PROVE  /\ Alone(o)
             /\ Keeping(op[o], op'[o], {})
             /\ op'[o].pc = "unwind"
    <2>1. op'[o] = [op[o] EXCEPT !.pc = "unwind"]
        BY <1>0, <1>4
    <2>2. Alone(o)
        BY <1>0, <1>4 DEF Alone
    <2> QED
        BY <1>0, <2>1, <2>2 DEF OpType, Keeping
<1> QED
    BY <1>1, <1>2, <1>3, <1>4 DEF Quits

(* Suspend looks at the row.                                               *)
LEMMA SuspendInspectEffect ==
    ASSUME ShapeInv, NEW o \in Ops, SuspendInspect(o)
    PROVE  /\ Alone(o)
           /\ op[o].pc = "inspect" /\ op[o].kind = "Suspend"
           /\ UNCHANGED <<store, actor, image, guard, mark, crashes>>
           /\ \/ /\ CheckWritable(store)
                 /\ Keeping(op[o], op'[o], {})
                 /\ op'[o].pc = "mark"
              \/ /\ Quits(o)
<1>0. op \in [Ops -> OpType] /\ op[o] \in OpType
    BY DEF ShapeInv, Types
<1>1. op[o].pc = "inspect" /\ op[o].kind = "Suspend" /\ UNCHANGED <<store, actor, image, guard,
                                 mark, crashes>>
    BY DEF SuspendInspect, Become, Goto, Fail, Succeed, At, Is, OpOnly, LogOnly
<1> DEFINE B1 == /\ op' = [op EXCEPT ![o] = [op[o] EXCEPT !.pc = "mark"]]
                 /\ CheckWritable(store)
<1> DEFINE B2 == op' = [op EXCEPT ![o] = [op[o] EXCEPT !.pc = "unwind"]]
<1>2. B1 \/ B2
    BY DEF SuspendInspect, Become, Goto, Fail, Succeed, At, Is, OpOnly, LogOnly
<1>3. ASSUME B1
      PROVE  /\ Alone(o)
             /\ Keeping(op[o], op'[o], {})
             /\ op'[o].pc = "mark"
    <2>1. op'[o] = [op[o] EXCEPT !.pc = "mark"]
        BY <1>0, <1>3
    <2>2. Alone(o)
        BY <1>0, <1>3 DEF Alone
    <2> QED
        BY <1>0, <2>1, <2>2 DEF OpType, Keeping
<1>4. ASSUME B2
      PROVE  /\ Alone(o)
             /\ Keeping(op[o], op'[o], {})
             /\ op'[o].pc = "unwind"
    <2>1. op'[o] = [op[o] EXCEPT !.pc = "unwind"]
        BY <1>0, <1>4
    <2>2. Alone(o)
        BY <1>0, <1>4 DEF Alone
    <2> QED
        BY <1>0, <2>1, <2>2 DEF OpType, Keeping
<1> QED
    BY <1>1, <1>2, <1>3, <1>4 DEF Quits

(* Suspend and park take the snapshot.                                     *)
LEMMA SnapshotEffect ==
    ASSUME ShapeInv, NEW o \in Ops, Snapshot(o)
    PROVE  /\ Alone(o)
           /\ op[o].pc = "snapshot"
           /\ UNCHANGED <<store, guard, mark, crashes>>
           /\ \/ /\ CheckWritable(store)
                 /\ actor.state # "NONE"
                 /\ Keeping(op[o], op'[o], {"then", "snap"})
                 /\ op'[o].pc = IF op[o].kind = "Suspend" THEN "fenceMint" ELSE "record"
                 /\ op'[o].then = "record"
                 /\ op'[o].snap = Len(image')
                 /\ Remembers(image, image') /\ 0 < Len(image')
                 /\ HeadSeq(store) \in image'[Len(image')]
                 /\ actor' = [state |-> "COLD", snap |-> Len(image')]
              \/ /\ Quits(o)
                 /\ actor' = actor
                 /\ image' = image
<1>0. op \in [Ops -> OpType] /\ op[o] \in OpType
    BY DEF ShapeInv, Types
<1>1. op[o].pc = "snapshot" /\ UNCHANGED <<store, guard, mark, crashes>>
    BY DEF Snapshot, TakeSnapshot, Become, Goto, Fail, Succeed, At, Is, OpOnly, LogOnly
<1> DEFINE B1 == /\ op' = [op EXCEPT ![o] = [op[o] EXCEPT !.pc = IF op[o].kind = "Suspend" THEN "fenceMint" ELSE "record",
                                                   !.then = "record",
                                                   !.snap = Len(image')]]
                 /\ CheckWritable(store)
                 /\ actor.state # "NONE"
                 /\ Remembers(image, image') /\ 0 < Len(image')
                 /\ HeadSeq(store) \in image'[Len(image')]
                 /\ actor' = [state |-> "COLD", snap |-> Len(image')]
<1> DEFINE B2 == /\ op' = [op EXCEPT ![o] = [op[o] EXCEPT !.pc = "unwind"]]
                 /\ actor' = actor
                 /\ image' = image
<1>2. B1 \/ B2
    <2>1. ASSUME CheckWritable(store), NEW next,
                 next = IF op[o].kind = "Suspend" THEN "fenceMint" ELSE "record",
                 TakeSnapshot(o, next)
          PROVE  B1
        <3>1. /\ Remembers(image, image') /\ 0 < Len(image')
              /\ HeadSeq(store) \in image'[Len(image')]
              /\ actor' = [state |-> "COLD", snap |-> Len(image')]
            BY <2>1, Suspended
        <3>2. /\ actor.state # "NONE"
              /\ op' = [op EXCEPT ![o] = [op[o] EXCEPT !.pc = next, !.then = "record",
                                         !.snap = Len(image')]]
            BY <2>1 DEF TakeSnapshot, Become
        <3> QED
            BY <2>1, <3>1, <3>2
    <2>2. ASSUME Fail(o), UNCHANGED <<actor, image>> PROVE B2
        BY <2>2 DEF Goto, Become, Fail
    <2> QED
        BY <2>1, <2>2 DEF Snapshot, Is
<1>3. ASSUME B1
      PROVE  /\ Alone(o)
             /\ Keeping(op[o], op'[o], {"then", "snap"})
             /\ op'[o].pc = IF op[o].kind = "Suspend" THEN "fenceMint" ELSE "record"
             /\ op'[o].then = "record"
             /\ op'[o].snap = Len(image')
    <2>1. op'[o] = [op[o] EXCEPT !.pc = IF op[o].kind = "Suspend" THEN "fenceMint" ELSE "record",
          !.then = "record", !.snap = Len(image')]
        BY <1>0, <1>3
    <2>2. Alone(o)
        BY <1>0, <1>3 DEF Alone
    <2> QED
        BY <1>0, <2>1, <2>2 DEF OpType, Keeping
<1>4. ASSUME B2
      PROVE  /\ Alone(o)
             /\ Keeping(op[o], op'[o], {})
             /\ op'[o].pc = "unwind"
    <2>1. op'[o] = [op[o] EXCEPT !.pc = "unwind"]
        BY <1>0, <1>4
    <2>2. Alone(o)
        BY <1>0, <1>4 DEF Alone
    <2> QED
        BY <1>0, <2>1, <2>2 DEF OpType, Keeping
<1> QED
    BY <1>1, <1>2, <1>3, <1>4 DEF Quits

(* Approve finds the request it answers.                                   *)
LEMMA ApproveScanEffect ==
    ASSUME ShapeInv, NEW o \in Ops, ApproveScan(o)
    PROVE  /\ Alone(o)
           /\ op[o].pc = "scan"
           /\ UNCHANGED <<store, actor, image, guard, mark, crashes>>
           /\ \/ /\ CheckWritable(store)
                 /\ InspectApproval(store.recs) = "requested"
                 /\ Keeping(op[o], op'[o], {"then", "head"})
                 /\ op'[o].pc = "fenceMint"
                 /\ op'[o].then = "decide"
                 /\ op'[o].head = HeadSeq(store)
              \/ /\ Quits(o)
<1>0. op \in [Ops -> OpType] /\ op[o] \in OpType
    BY DEF ShapeInv, Types
<1>1. op[o].pc = "scan" /\ UNCHANGED <<store, actor, image, guard, mark, crashes>>
    BY DEF ApproveScan, Become, Goto, Fail, Succeed, At, Is, OpOnly, LogOnly
<1> DEFINE B1 == /\ op' = [op EXCEPT ![o] = [op[o] EXCEPT !.pc = "fenceMint", !.then = "decide",
                       !.head = HeadSeq(store)]]
                 /\ CheckWritable(store)
                 /\ InspectApproval(store.recs) = "requested"
<1> DEFINE B2 == op' = [op EXCEPT ![o] = [op[o] EXCEPT !.pc = "unwind"]]
<1>2. B1 \/ B2
    BY DEF ApproveScan, Become, Goto, Fail, Succeed, At, Is, OpOnly, LogOnly
<1>3. ASSUME B1
      PROVE  /\ Alone(o)
             /\ Keeping(op[o], op'[o], {"then", "head"})
             /\ op'[o].pc = "fenceMint"
             /\ op'[o].then = "decide"
             /\ op'[o].head = HeadSeq(store)
    <2>1. op'[o] = [op[o] EXCEPT !.pc = "fenceMint", !.then = "decide", !.head = HeadSeq(store)]
        BY <1>0, <1>3
    <2>2. Alone(o)
        BY <1>0, <1>3 DEF Alone
    <2> QED
        BY <1>0, <2>1, <2>2 DEF OpType, Keeping
<1>4. ASSUME B2
      PROVE  /\ Alone(o)
             /\ Keeping(op[o], op'[o], {})
             /\ op'[o].pc = "unwind"
    <2>1. op'[o] = [op[o] EXCEPT !.pc = "unwind"]
        BY <1>0, <1>4
    <2>2. Alone(o)
        BY <1>0, <1>4 DEF Alone
    <2> QED
        BY <1>0, <2>1, <2>2 DEF OpType, Keeping
<1> QED
    BY <1>1, <1>2, <1>3, <1>4 DEF Quits

(* The deletion.                                                           *)
LEMMA DeleteRowEffect ==
    ASSUME ShapeInv, NEW o \in Ops, DeleteRow(o)
    PROVE  /\ Alone(o)
           /\ op[o].pc = "delete"
           /\ UNCHANGED <<actor, image, guard, mark, crashes>>
           /\ Keeping(op[o], op'[o], {"result"})
           /\ op'[o].pc = "unwind"
           /\ op'[o].result = "ok"
           /\ store' = IF store.deletion = "ACTIVE" THEN DeleteSession(store) ELSE store
<1>0. op \in [Ops -> OpType] /\ op[o] \in OpType
    BY DEF ShapeInv, Types
<1>1. op[o].pc = "delete" /\ UNCHANGED <<actor, image, guard, mark, crashes>>
    BY DEF DeleteRow, Become, Goto, Fail, Succeed, At, Is, OpOnly, LogOnly
<1> DEFINE B1 == /\ op' = [op EXCEPT ![o] = [op[o] EXCEPT !.pc = "unwind", !.result = "ok"]]
                 /\ store' = IF store.deletion = "ACTIVE" THEN DeleteSession(store) ELSE store
<1>2. B1
    BY DEF DeleteRow, Become, Goto, Fail, Succeed, At, Is, OpOnly, LogOnly
<1>3. ASSUME B1
      PROVE  /\ Alone(o)
             /\ Keeping(op[o], op'[o], {"result"})
             /\ op'[o].pc = "unwind"
             /\ op'[o].result = "ok"
    <2>1. op'[o] = [op[o] EXCEPT !.pc = "unwind", !.result = "ok"]
        BY <1>0, <1>3
    <2>2. Alone(o)
        BY <1>0, <1>3 DEF Alone
    <2> QED
        BY <1>0, <2>1, <2>2 DEF OpType, Keeping
<1> QED
    BY <1>1, <1>2, <1>3

(* A fork mints.                                                           *)
LEMMA ForkFenceEffect ==
    ASSUME ShapeInv, NEW o \in Ops, ForkFence(o)
    PROVE  /\ Alone(o)
           /\ op[o].pc = "forkFence"
           /\ UNCHANGED <<actor, image, guard, mark, crashes>>
           /\ \/ /\ CheckWritable(store)
                 /\ Keeping(op[o], op'[o], {"fence"})
                 /\ op'[o].pc = "forkHead"
                 /\ op'[o].fence = store'.fence
                 /\ store' = NewFence(store)
              \/ /\ Quits(o)
                 /\ store' = store
<1>0. op \in [Ops -> OpType] /\ op[o] \in OpType
    BY DEF ShapeInv, Types
<1>1. op[o].pc = "forkFence" /\ UNCHANGED <<actor, image, guard, mark, crashes>>
    BY DEF ForkFence, Become, Goto, Fail, Succeed, At, Is, OpOnly, LogOnly
<1> DEFINE B1 == /\ op' = [op EXCEPT ![o] = [op[o] EXCEPT !.pc = "forkHead", !.fence = store'.fence]]
                 /\ CheckWritable(store)
                 /\ store' = NewFence(store)
<1> DEFINE B2 == /\ op' = [op EXCEPT ![o] = [op[o] EXCEPT !.pc = "unwind"]]
                 /\ store' = store
<1>2. B1 \/ B2
    BY DEF ForkFence, Become, Goto, Fail, Succeed, At, Is, OpOnly, LogOnly
<1>3. ASSUME B1
      PROVE  /\ Alone(o)
             /\ Keeping(op[o], op'[o], {"fence"})
             /\ op'[o].pc = "forkHead"
             /\ op'[o].fence = store'.fence
    <2>1. op'[o] = [op[o] EXCEPT !.pc = "forkHead", !.fence = store'.fence]
        BY <1>0, <1>3
    <2>2. Alone(o)
        BY <1>0, <1>3 DEF Alone
    <2> QED
        BY <1>0, <2>1, <2>2 DEF OpType, Keeping
<1>4. ASSUME B2
      PROVE  /\ Alone(o)
             /\ Keeping(op[o], op'[o], {})
             /\ op'[o].pc = "unwind"
    <2>1. op'[o] = [op[o] EXCEPT !.pc = "unwind"]
        BY <1>0, <1>4
    <2>2. Alone(o)
        BY <1>0, <1>4 DEF Alone
    <2> QED
        BY <1>0, <2>1, <2>2 DEF OpType, Keeping
<1> QED
    BY <1>1, <1>2, <1>3, <1>4 DEF Quits

(* A fork compares the head.                                               *)
LEMMA ForkHeadEffect ==
    ASSUME ShapeInv, NEW o \in Ops, ForkHead(o)
    PROVE  /\ Alone(o)
           /\ op[o].pc = "forkHead"
           /\ UNCHANGED <<store, actor, image, guard, mark, crashes>>
           /\ \/ /\ HeadSeq(store) = op[o].at
                 /\ Keeping(op[o], op'[o], {})
                 /\ op'[o].pc = op[o].then
              \/ /\ Quits(o)
<1>0. op \in [Ops -> OpType] /\ op[o] \in OpType
    BY DEF ShapeInv, Types
<1>1. op[o].pc = "forkHead" /\ UNCHANGED <<store, actor, image, guard, mark, crashes>>
    BY DEF ForkHead, Become, Goto, Fail, Succeed, At, Is, OpOnly, LogOnly
<1> DEFINE B1 == /\ op' = [op EXCEPT ![o] = [op[o] EXCEPT !.pc = op[o].then]]
                 /\ HeadSeq(store) = op[o].at
<1> DEFINE B2 == op' = [op EXCEPT ![o] = [op[o] EXCEPT !.pc = "unwind"]]
<1>2. B1 \/ B2
    BY DEF ForkHead, Become, Goto, Fail, Succeed, At, Is, OpOnly, LogOnly
<1>3. ASSUME B1
      PROVE  /\ Alone(o)
             /\ Keeping(op[o], op'[o], {})
             /\ op'[o].pc = op[o].then
    <2>1. op'[o] = [op[o] EXCEPT !.pc = op[o].then]
        BY <1>0, <1>3
    <2>2. Alone(o)
        BY <1>0, <1>3 DEF Alone
    <2> QED
        BY <1>0, <2>1, <2>2 DEF OpType, Keeping
<1>4. ASSUME B2
      PROVE  /\ Alone(o)
             /\ Keeping(op[o], op'[o], {})
             /\ op'[o].pc = "unwind"
    <2>1. op'[o] = [op[o] EXCEPT !.pc = "unwind"]
        BY <1>0, <1>4
    <2>2. Alone(o)
        BY <1>0, <1>4 DEF Alone
    <2> QED
        BY <1>0, <2>1, <2>2 DEF OpType, Keeping
<1> QED
    BY <1>1, <1>2, <1>3, <1>4 DEF Quits

(* A fork has waited, or its deadline passed.                              *)
LEMMA AwaitMintedEffect ==
    ASSUME ShapeInv, NEW o \in Ops, AwaitMinted(o)
    PROVE  /\ Alone(o)
           /\ op[o].pc = "wait"
           /\ UNCHANGED <<store, actor, image, guard, mark, crashes>>
           /\ \/ /\ \A t \in op[o].open : op[t].minted
                 /\ Keeping(op[o], op'[o], {"then"})
                 /\ op'[o].pc = "forkFence"
                 /\ op'[o].then = "checkpoint"
              \/ /\ Quits(o)
<1>0. op \in [Ops -> OpType] /\ op[o] \in OpType
    BY DEF ShapeInv, Types
<1>1. op[o].pc = "wait" /\ UNCHANGED <<store, actor, image, guard, mark, crashes>>
    BY DEF AwaitMinted, Become, Goto, Fail, Succeed, At, Is, OpOnly, LogOnly
<1> DEFINE B1 == /\ op' = [op EXCEPT ![o] = [op[o] EXCEPT !.pc = "forkFence", !.then = "checkpoint"]]
                 /\ \A t \in op[o].open : op[t].minted
<1> DEFINE B2 == op' = [op EXCEPT ![o] = [op[o] EXCEPT !.pc = "unwind"]]
<1>2. B1 \/ B2
    BY DEF AwaitMinted, Become, Goto, Fail, Succeed, At, Is, OpOnly, LogOnly
<1>3. ASSUME B1
      PROVE  /\ Alone(o)
             /\ Keeping(op[o], op'[o], {"then"})
             /\ op'[o].pc = "forkFence"
             /\ op'[o].then = "checkpoint"
    <2>1. op'[o] = [op[o] EXCEPT !.pc = "forkFence", !.then = "checkpoint"]
        BY <1>0, <1>3
    <2>2. Alone(o)
        BY <1>0, <1>3 DEF Alone
    <2> QED
        BY <1>0, <2>1, <2>2 DEF OpType, Keeping
<1>4. ASSUME B2
      PROVE  /\ Alone(o)
             /\ Keeping(op[o], op'[o], {})
             /\ op'[o].pc = "unwind"
    <2>1. op'[o] = [op[o] EXCEPT !.pc = "unwind"]
        BY <1>0, <1>4
    <2>2. Alone(o)
        BY <1>0, <1>4 DEF Alone
    <2> QED
        BY <1>0, <2>1, <2>2 DEF OpType, Keeping
<1> QED
    BY <1>1, <1>2, <1>3, <1>4 DEF Quits

(* A fork takes the snapshot.                                              *)
LEMMA CheckpointEffect ==
    ASSUME ShapeInv, NEW o \in Ops, Checkpoint(o)
    PROVE  /\ Alone(o)
           /\ op[o].pc = "checkpoint"
           /\ UNCHANGED <<store, guard, mark, crashes>>
           /\ \/ /\ actor.state # "NONE"
                 /\ Keeping(op[o], op'[o], {"then", "snap"})
                 /\ op'[o].pc = "forkRecord"
                 /\ op'[o].then = "record"
                 /\ op'[o].snap = Len(image')
                 /\ Remembers(image, image') /\ 0 < Len(image')
                 /\ HeadSeq(store) \in image'[Len(image')]
                 /\ actor' = [state |-> "COLD", snap |-> Len(image')]
              \/ /\ Quits(o)
                 /\ actor' = actor
                 /\ image' = image
<1>0. op \in [Ops -> OpType] /\ op[o] \in OpType
    BY DEF ShapeInv, Types
<1>1. op[o].pc = "checkpoint" /\ UNCHANGED <<store, guard, mark, crashes>>
    BY DEF Checkpoint, TakeSnapshot, Become, Goto, Fail, Succeed, At, Is, OpOnly, LogOnly
<1> DEFINE B1 == /\ op' = [op EXCEPT ![o] = [op[o] EXCEPT !.pc = "forkRecord", !.then = "record",
                       !.snap = Len(image')]]
                 /\ actor.state # "NONE"
                 /\ Remembers(image, image') /\ 0 < Len(image')
                 /\ HeadSeq(store) \in image'[Len(image')]
                 /\ actor' = [state |-> "COLD", snap |-> Len(image')]
<1> DEFINE B2 == /\ op' = [op EXCEPT ![o] = [op[o] EXCEPT !.pc = "unwind"]]
                 /\ actor' = actor
                 /\ image' = image
<1>2. B1 \/ B2
    <2>1. CASE TakeSnapshot(o, "forkRecord")
        BY <2>1, Suspended DEF Checkpoint, TakeSnapshot, Become, Is
    <2>2. CASE ~TakeSnapshot(o, "forkRecord")
        BY <2>2 DEF Checkpoint, Goto, Become, Fail
    <2> QED
        BY <2>1, <2>2
<1>3. ASSUME B1
      PROVE  /\ Alone(o)
             /\ Keeping(op[o], op'[o], {"then", "snap"})
             /\ op'[o].pc = "forkRecord"
             /\ op'[o].then = "record"
             /\ op'[o].snap = Len(image')
    <2>1. op'[o] = [op[o] EXCEPT !.pc = "forkRecord", !.then = "record", !.snap = Len(image')]
        BY <1>0, <1>3
    <2>2. Alone(o)
        BY <1>0, <1>3 DEF Alone
    <2> QED
        BY <1>0, <2>1, <2>2 DEF OpType, Keeping
<1>4. ASSUME B2
      PROVE  /\ Alone(o)
             /\ Keeping(op[o], op'[o], {})
             /\ op'[o].pc = "unwind"
    <2>1. op'[o] = [op[o] EXCEPT !.pc = "unwind"]
        BY <1>0, <1>4
    <2>2. Alone(o)
        BY <1>0, <1>4 DEF Alone
    <2> QED
        BY <1>0, <2>1, <2>2 DEF OpType, Keeping
<1> QED
    BY <1>1, <1>2, <1>3, <1>4 DEF Quits

(* The tag copies what the parent holds.                                   *)
LEMMA TagActorEffect ==
    ASSUME ShapeInv, NEW o \in Ops, TagActor(o)
    PROVE  /\ Alone(o)
           /\ op[o].pc = "tag"
           /\ UNCHANGED <<store, actor, image, guard, mark, crashes>>
           /\ \/ /\ actor.state = "COLD"
                 /\ Keeping(op[o], op'[o], {"tag"})
                 /\ op'[o].pc = "require2"
                 /\ op'[o].tag = actor.snap
              \/ /\ Keeping(op[o], op'[o], {})
                 /\ op'[o].pc = "abort"
<1>0. op \in [Ops -> OpType] /\ op[o] \in OpType
    BY DEF ShapeInv, Types
<1>1. op[o].pc = "tag" /\ UNCHANGED <<store, actor, image, guard, mark, crashes>>
    BY DEF TagActor, Become, Goto, Fail, Succeed, At, Is, OpOnly, LogOnly
<1> DEFINE B1 == /\ op' = [op EXCEPT ![o] = [op[o] EXCEPT !.pc = "require2", !.tag = actor.snap]]
                 /\ actor.state = "COLD"
<1> DEFINE B2 == op' = [op EXCEPT ![o] = [op[o] EXCEPT !.pc = "abort"]]
<1>2. B1 \/ B2
    BY DEF TagActor, Become, Goto, Fail, Succeed, At, Is, OpOnly, LogOnly
<1>3. ASSUME B1
      PROVE  /\ Alone(o)
             /\ Keeping(op[o], op'[o], {"tag"})
             /\ op'[o].pc = "require2"
             /\ op'[o].tag = actor.snap
    <2>1. op'[o] = [op[o] EXCEPT !.pc = "require2", !.tag = actor.snap]
        BY <1>0, <1>3
    <2>2. Alone(o)
        BY <1>0, <1>3 DEF Alone
    <2> QED
        BY <1>0, <2>1, <2>2 DEF OpType, Keeping
<1>4. ASSUME B2
      PROVE  /\ Alone(o)
             /\ Keeping(op[o], op'[o], {})
             /\ op'[o].pc = "abort"
    <2>1. op'[o] = [op[o] EXCEPT !.pc = "abort"]
        BY <1>0, <1>4
    <2>2. Alone(o)
        BY <1>0, <1>4 DEF Alone
    <2> QED
        BY <1>0, <2>1, <2>2 DEF OpType, Keeping
<1> QED
    BY <1>1, <1>2, <1>3, <1>4

(* A child is made from the tag.                                           *)
LEMMA CreateChildEffect ==
    ASSUME ShapeInv, NEW o \in Ops, CreateChild(o)
    PROVE  /\ Alone(o)
           /\ op[o].pc = "child"
           /\ UNCHANGED <<store, actor, image, guard, mark, crashes>>
           /\ \/ /\ Keeping(op[o], op'[o], {"kids"})
                 /\ op'[o].pc = "copy"
                 /\ op'[o].kids = Append(op[o].kids, op[o].tag)
              \/ /\ Keeping(op[o], op'[o], {})
                 /\ op'[o].pc = "abort"
<1>0. op \in [Ops -> OpType] /\ op[o] \in OpType
    BY DEF ShapeInv, Types
<1>1. op[o].pc = "child" /\ UNCHANGED <<store, actor, image, guard, mark, crashes>>
    BY DEF CreateChild, Become, Goto, Fail, Succeed, At, Is, OpOnly, LogOnly
<1> DEFINE B1 == op' = [op EXCEPT ![o] = [op[o] EXCEPT !.pc = "copy", !.kids = Append(op[o].kids,
      op[o].tag)]]
<1> DEFINE B2 == op' = [op EXCEPT ![o] = [op[o] EXCEPT !.pc = "abort"]]
<1>2. B1 \/ B2
    BY DEF CreateChild, Become, Goto, Fail, Succeed, At, Is, OpOnly, LogOnly
<1>3. ASSUME B1
      PROVE  /\ Alone(o)
             /\ Keeping(op[o], op'[o], {"kids"})
             /\ op'[o].pc = "copy"
             /\ op'[o].kids = Append(op[o].kids, op[o].tag)
    <2>1. op'[o] = [op[o] EXCEPT !.pc = "copy", !.kids = Append(op[o].kids, op[o].tag)]
        BY <1>0, <1>3
    <2>2. Alone(o)
        BY <1>0, <1>3 DEF Alone
    <2> QED
        BY <1>0, <2>1, <2>2 DEF OpType, Keeping
<1>4. ASSUME B2
      PROVE  /\ Alone(o)
             /\ Keeping(op[o], op'[o], {})
             /\ op'[o].pc = "abort"
    <2>1. op'[o] = [op[o] EXCEPT !.pc = "abort"]
        BY <1>0, <1>4
    <2>2. Alone(o)
        BY <1>0, <1>4 DEF Alone
    <2> QED
        BY <1>0, <2>1, <2>2 DEF OpType, Keeping
<1> QED
    BY <1>1, <1>2, <1>3, <1>4

(* A failed fork frees its parent.                                         *)
LEMMA AbortForkEffect ==
    ASSUME ShapeInv, NEW o \in Ops, AbortFork(o)
    PROVE  /\ Alone(o)
           /\ op[o].pc = "abort"
           /\ UNCHANGED <<store, actor, image, guard, crashes>>
           /\ Keeping(op[o], op'[o], {})
           /\ op'[o].pc = "rollback"
           /\ mark' = [mark EXCEPT ![Host(o)] = IF @ = o THEN None ELSE @]
<1>0. op \in [Ops -> OpType] /\ op[o] \in OpType
    BY DEF ShapeInv, Types
<1>1. op[o].pc = "abort" /\ UNCHANGED <<store, actor, image, guard, crashes>>
    BY DEF AbortFork, Become, Goto, Fail, Succeed, At, Is, OpOnly, LogOnly
<1> DEFINE B1 == /\ op' = [op EXCEPT ![o] = [op[o] EXCEPT !.pc = "rollback"]]
                 /\ mark' = [mark EXCEPT ![Host(o)] = IF @ = o THEN None ELSE @]
<1>2. B1
    BY DEF AbortFork, Become, Goto, Fail, Succeed, At, Is, OpOnly, LogOnly
<1>3. ASSUME B1
      PROVE  /\ Alone(o)
             /\ Keeping(op[o], op'[o], {})
             /\ op'[o].pc = "rollback"
    <2>1. op'[o] = [op[o] EXCEPT !.pc = "rollback"]
        BY <1>0, <1>3
    <2>2. Alone(o)
        BY <1>0, <1>3 DEF Alone
    <2> QED
        BY <1>0, <2>1, <2>2 DEF OpType, Keeping
<1> QED
    BY <1>1, <1>2, <1>3

(* A failed fork stops its children.                                       *)
LEMMA RollbackForkEffect ==
    ASSUME ShapeInv, NEW o \in Ops, RollbackFork(o)
    PROVE  /\ Alone(o)
           /\ op[o].pc = "rollback"
           /\ UNCHANGED <<store, actor, image, guard, mark, crashes>>
           /\ Keeping(op[o], op'[o], {"kids"})
           /\ op'[o].pc = "unwind"
           /\ op'[o].kids = <<>>
<1>0. op \in [Ops -> OpType] /\ op[o] \in OpType
    BY DEF ShapeInv, Types
<1>1. op[o].pc = "rollback" /\ UNCHANGED <<store, actor, image, guard, mark, crashes>>
    BY DEF RollbackFork, Become, Goto, Fail, Succeed, At, Is, OpOnly, LogOnly
<1> DEFINE B1 == op' = [op EXCEPT ![o] = [op[o] EXCEPT !.pc = "unwind", !.kids = <<>>]]
<1>2. B1
    BY DEF RollbackFork, Become, Goto, Fail, Succeed, At, Is, OpOnly, LogOnly
<1>3. ASSUME B1
      PROVE  /\ Alone(o)
             /\ Keeping(op[o], op'[o], {"kids"})
             /\ op'[o].pc = "unwind"
             /\ op'[o].kids = <<>>
    <2>1. op'[o] = [op[o] EXCEPT !.pc = "unwind", !.kids = <<>>]
        BY <1>0, <1>3
    <2>2. Alone(o)
        BY <1>0, <1>3 DEF Alone
    <2> QED
        BY <1>0, <2>1, <2>2 DEF OpType, Keeping
<1> QED
    BY <1>1, <1>2, <1>3

(* A memory fork is made at the head.                                      *)
LEMMA ForkInspectEffect ==
    ASSUME ShapeInv, NEW o \in Ops, ForkInspect(o)
    PROVE  /\ Alone(o)
           /\ op[o].pc = "inspect" /\ op[o].kind = "Fork"
           /\ UNCHANGED <<store, actor, image, guard, mark, crashes>>
           /\ \/ /\ CheckWritable(store)
                 /\ Tier = "STATELESS"
                 /\ Keeping(op[o], op'[o], {})
                 /\ op'[o].pc = "child"
              \/ /\ CheckWritable(store)
                 /\ Tier = "MEMORY"
                 /\ HeadSeq(store) = op[o].at
                 /\ Keeping(op[o], op'[o], {})
                 /\ op'[o].pc = "begin"
              \/ /\ Quits(o)
<1>0. op \in [Ops -> OpType] /\ op[o] \in OpType
    BY DEF ShapeInv, Types
<1>1. op[o].pc = "inspect" /\ op[o].kind = "Fork" /\ UNCHANGED <<store, actor, image, guard, mark,
                                 crashes>>
    BY DEF ForkInspect, Become, Goto, Fail, Succeed, At, Is, OpOnly, LogOnly
<1> DEFINE B1 == /\ op' = [op EXCEPT ![o] = [op[o] EXCEPT !.pc = "child"]]
                 /\ CheckWritable(store)
                 /\ Tier = "STATELESS"
<1> DEFINE B2 == /\ op' = [op EXCEPT ![o] = [op[o] EXCEPT !.pc = "begin"]]
                 /\ CheckWritable(store)
                 /\ Tier = "MEMORY"
                 /\ HeadSeq(store) = op[o].at
<1> DEFINE B3 == op' = [op EXCEPT ![o] = [op[o] EXCEPT !.pc = "unwind"]]
<1>2. B1 \/ B2 \/ B3
    BY DEF ForkInspect, Become, Goto, Fail, Succeed, At, Is, OpOnly, LogOnly
<1>3. ASSUME B1
      PROVE  /\ Alone(o)
             /\ Keeping(op[o], op'[o], {})
             /\ op'[o].pc = "child"
    <2>1. op'[o] = [op[o] EXCEPT !.pc = "child"]
        BY <1>0, <1>3
    <2>2. Alone(o)
        BY <1>0, <1>3 DEF Alone
    <2> QED
        BY <1>0, <2>1, <2>2 DEF OpType, Keeping
<1>4. ASSUME B2
      PROVE  /\ Alone(o)
             /\ Keeping(op[o], op'[o], {})
             /\ op'[o].pc = "begin"
    <2>1. op'[o] = [op[o] EXCEPT !.pc = "begin"]
        BY <1>0, <1>4
    <2>2. Alone(o)
        BY <1>0, <1>4 DEF Alone
    <2> QED
        BY <1>0, <2>1, <2>2 DEF OpType, Keeping
<1>5. ASSUME B3
      PROVE  /\ Alone(o)
             /\ Keeping(op[o], op'[o], {})
             /\ op'[o].pc = "unwind"
    <2>1. op'[o] = [op[o] EXCEPT !.pc = "unwind"]
        BY <1>0, <1>5
    <2>2. Alone(o)
        BY <1>0, <1>5 DEF Alone
    <2> QED
        BY <1>0, <2>1, <2>2 DEF OpType, Keeping
<1> QED
    BY <1>1, <1>2, <1>3, <1>4, <1>5 DEF Quits

(* The parent must hold the fork's snapshot.                               *)
LEMMA RequireSnapshotEffect ==
    ASSUME ShapeInv, NEW o \in Ops, RequireSnapshot(o)
    PROVE  /\ Alone(o)
           /\ op[o].pc \in {"require", "require2"}
           /\ UNCHANGED <<store, actor, image, guard, mark, crashes>>
           /\ \/ /\ HoldsSnapshot(op[o].snap)
                 /\ Keeping(op[o], op'[o], {})
                 /\ op'[o].pc = IF op[o].pc = "require" THEN "tag" ELSE "child"
              \/ /\ ~HoldsSnapshot(op[o].snap)
                 /\ Keeping(op[o], op'[o], {})
                 /\ op'[o].pc = "abort"
<1>0. op \in [Ops -> OpType] /\ op[o] \in OpType
    BY DEF ShapeInv, Types
<1>1. op[o].pc \in {"require", "require2"} /\ UNCHANGED <<store, actor, image, guard, mark, crashes>>
    BY DEF RequireSnapshot, Become, Goto, Fail, Succeed, At, Is, OpOnly, LogOnly
<1> DEFINE B1 == /\ op' = [op EXCEPT ![o] = [op[o] EXCEPT !.pc = IF op[o].pc = "require" THEN "tag" ELSE "child"]]
                 /\ HoldsSnapshot(op[o].snap)
<1> DEFINE B2 == /\ op' = [op EXCEPT ![o] = [op[o] EXCEPT !.pc = "abort"]]
                 /\ ~HoldsSnapshot(op[o].snap)
<1>2. B1 \/ B2
    BY DEF RequireSnapshot, Become, Goto, Fail, Succeed, At, Is, OpOnly, LogOnly
<1>3. ASSUME B1
      PROVE  /\ Alone(o)
             /\ Keeping(op[o], op'[o], {})
             /\ op'[o].pc = IF op[o].pc = "require" THEN "tag" ELSE "child"
    <2>1. op'[o] = [op[o] EXCEPT !.pc = IF op[o].pc = "require" THEN "tag" ELSE "child"]
        BY <1>0, <1>3
    <2>2. Alone(o)
        BY <1>0, <1>3 DEF Alone
    <2> QED
        BY <1>0, <2>1, <2>2 DEF OpType, Keeping
<1>4. ASSUME B2
      PROVE  /\ Alone(o)
             /\ Keeping(op[o], op'[o], {})
             /\ op'[o].pc = "abort"
    <2>1. op'[o] = [op[o] EXCEPT !.pc = "abort"]
        BY <1>0, <1>4
    <2>2. Alone(o)
        BY <1>0, <1>4 DEF Alone
    <2> QED
        BY <1>0, <2>1, <2>2 DEF OpType, Keeping
<1> QED
    BY <1>1, <1>2, <1>3, <1>4

(* The log is copied; the last child completes the fork.                   *)
LEMMA CopyLogEffect ==
    ASSUME ShapeInv, NEW o \in Ops, CopyLog(o)
    PROVE  /\ Alone(o)
           /\ op[o].pc = "copy"
           /\ UNCHANGED <<store, actor, image, guard, mark, crashes>>
           /\ \/ /\ CheckWritable(store)
                 /\ Len(op[o].kids) = Fanout
                 /\ Keeping(op[o], op'[o], {"result"})
                 /\ op'[o].pc = "unwind"
                 /\ op'[o].result = "ok"
              \/ /\ CheckWritable(store)
                 /\ Len(op[o].kids) # Fanout
                 /\ Keeping(op[o], op'[o], {})
                 /\ op'[o].pc = IF Tier = "MEMORY" THEN "require" ELSE "child"
              \/ /\ Keeping(op[o], op'[o], {})
                 /\ op'[o].pc = "abort"
<1>0. op \in [Ops -> OpType] /\ op[o] \in OpType
    BY DEF ShapeInv, Types
<1>1. op[o].pc = "copy" /\ UNCHANGED <<store, actor, image, guard, mark, crashes>>
    BY DEF CopyLog, Become, Goto, Fail, Succeed, At, Is, OpOnly, LogOnly
<1> DEFINE B1 == /\ op' = [op EXCEPT ![o] = [op[o] EXCEPT !.pc = "unwind", !.result = "ok"]]
                 /\ CheckWritable(store)
                 /\ Len(op[o].kids) = Fanout
<1> DEFINE B2 == /\ op' = [op EXCEPT ![o] = [op[o] EXCEPT !.pc = IF Tier = "MEMORY" THEN "require" ELSE "child"]]
                 /\ CheckWritable(store)
                 /\ Len(op[o].kids) # Fanout
<1> DEFINE B3 == op' = [op EXCEPT ![o] = [op[o] EXCEPT !.pc = "abort"]]
<1>2. B1 \/ B2 \/ B3
    BY DEF CopyLog, Become, Goto, Fail, Succeed, At, Is, OpOnly, LogOnly
<1>3. ASSUME B1
      PROVE  /\ Alone(o)
             /\ Keeping(op[o], op'[o], {"result"})
             /\ op'[o].pc = "unwind"
             /\ op'[o].result = "ok"
    <2>1. op'[o] = [op[o] EXCEPT !.pc = "unwind", !.result = "ok"]
        BY <1>0, <1>3
    <2>2. Alone(o)
        BY <1>0, <1>3 DEF Alone
    <2> QED
        BY <1>0, <2>1, <2>2 DEF OpType, Keeping
<1>4. ASSUME B2
      PROVE  /\ Alone(o)
             /\ Keeping(op[o], op'[o], {})
             /\ op'[o].pc = IF Tier = "MEMORY" THEN "require" ELSE "child"
    <2>1. op'[o] = [op[o] EXCEPT !.pc = IF Tier = "MEMORY" THEN "require" ELSE "child"]
        BY <1>0, <1>4
    <2>2. Alone(o)
        BY <1>0, <1>4 DEF Alone
    <2> QED
        BY <1>0, <2>1, <2>2 DEF OpType, Keeping
<1>5. ASSUME B3
      PROVE  /\ Alone(o)
             /\ Keeping(op[o], op'[o], {})
             /\ op'[o].pc = "abort"
    <2>1. op'[o] = [op[o] EXCEPT !.pc = "abort"]
        BY <1>0, <1>5
    <2>2. Alone(o)
        BY <1>0, <1>5 DEF Alone
    <2> QED
        BY <1>0, <2>1, <2>2 DEF OpType, Keeping
<1> QED
    BY <1>1, <1>2, <1>3, <1>4, <1>5

(* A turn is refused during a checkpoint.                                  *)
LEMMA GateEffect ==
    ASSUME ShapeInv, NEW o \in Ops, Gate(o)
    PROVE  /\ Alone(o)
           /\ op[o].pc = "gate"
           /\ UNCHANGED <<store, actor, image, guard, mark, crashes>>
           /\ \/ /\ mark[Host(o)] = None
                 /\ op[o].kind = "CheckedResume"
                 /\ Keeping(op[o], op'[o], {"then"})
                 /\ op'[o].pc = "fenceMark"
                 /\ op'[o].then = "create"
              \/ /\ mark[Host(o)] = None
                 /\ op[o].kind # "CheckedResume"
                 /\ Keeping(op[o], op'[o], {})
                 /\ op'[o].pc = "create"
              \/ /\ Quits(o)
<1>0. op \in [Ops -> OpType] /\ op[o] \in OpType
    BY DEF ShapeInv, Types
<1>1. op[o].pc = "gate" /\ UNCHANGED <<store, actor, image, guard, mark, crashes>>
    BY DEF Gate, MarkFree, Become, Goto, Fail, Succeed, At, Is, OpOnly, LogOnly
<1> DEFINE B1 == /\ op' = [op EXCEPT ![o] = [op[o] EXCEPT !.pc = "fenceMark", !.then = "create"]]
                 /\ mark[Host(o)] = None
                 /\ op[o].kind = "CheckedResume"
<1> DEFINE B2 == /\ op' = [op EXCEPT ![o] = [op[o] EXCEPT !.pc = "create"]]
                 /\ mark[Host(o)] = None
                 /\ op[o].kind # "CheckedResume"
<1> DEFINE B3 == op' = [op EXCEPT ![o] = [op[o] EXCEPT !.pc = "unwind"]]
<1>2. B1 \/ B2 \/ B3
    BY DEF Gate, MarkFree, Become, Goto, Fail, Succeed, At, Is, OpOnly, LogOnly
<1>3. ASSUME B1
      PROVE  /\ Alone(o)
             /\ Keeping(op[o], op'[o], {"then"})
             /\ op'[o].pc = "fenceMark"
             /\ op'[o].then = "create"
    <2>1. op'[o] = [op[o] EXCEPT !.pc = "fenceMark", !.then = "create"]
        BY <1>0, <1>3
    <2>2. Alone(o)
        BY <1>0, <1>3 DEF Alone
    <2> QED
        BY <1>0, <2>1, <2>2 DEF OpType, Keeping
<1>4. ASSUME B2
      PROVE  /\ Alone(o)
             /\ Keeping(op[o], op'[o], {})
             /\ op'[o].pc = "create"
    <2>1. op'[o] = [op[o] EXCEPT !.pc = "create"]
        BY <1>0, <1>4
    <2>2. Alone(o)
        BY <1>0, <1>4 DEF Alone
    <2> QED
        BY <1>0, <2>1, <2>2 DEF OpType, Keeping
<1>5. ASSUME B3
      PROVE  /\ Alone(o)
             /\ Keeping(op[o], op'[o], {})
             /\ op'[o].pc = "unwind"
    <2>1. op'[o] = [op[o] EXCEPT !.pc = "unwind"]
        BY <1>0, <1>5
    <2>2. Alone(o)
        BY <1>0, <1>5 DEF Alone
    <2> QED
        BY <1>0, <2>1, <2>2 DEF OpType, Keeping
<1> QED
    BY <1>1, <1>2, <1>3, <1>4, <1>5 DEF Quits

(* Resume finds out what is pending.                                       *)
LEMMA ResumeInspectEffect ==
    ASSUME ShapeInv, NEW o \in Ops, ResumeInspect(o)
    PROVE  /\ Alone(o)
           /\ op[o].pc = "inspect" /\ op[o].kind \in Resumes
           /\ UNCHANGED <<store, actor, image, guard, mark, crashes>>
           /\ \/ /\ InspectApproval(store.recs) = "requested"
                 /\ Keeping(op[o], op'[o], {"result"})
                 /\ op'[o].pc = "unwind"
                 /\ op'[o].result = "pending"
              \/ /\ CheckWritable(store)
                 /\ InspectApproval(store.recs) = "called"
                 /\ Keeping(op[o], op'[o], {"head", "then"})
                 /\ op'[o].head = HeadSeq(store)
                 /\ op'[o].then = "repair"
                 /\ op'[o].pc = IF op[o].kind = "CheckedResume" THEN "fenceMark" ELSE "fenceMint"
              \/ /\ CheckWritable(store)
                 /\ Keeping(op[o], op'[o], {})
                 /\ op'[o].pc = "gate"
              \/ /\ Quits(o)
<1>0. op \in [Ops -> OpType] /\ op[o] \in OpType
    BY DEF ShapeInv, Types
<1>1. op[o].pc = "inspect" /\ op[o].kind \in Resumes /\ UNCHANGED <<store, actor, image, guard,
                                 mark, crashes>>
    BY DEF ResumeInspect, Become, Goto, Fail, Succeed, At, Is, OpOnly, LogOnly
<1> DEFINE B1 == /\ op' = [op EXCEPT ![o] = [op[o] EXCEPT !.pc = "unwind", !.result = "pending"]]
                 /\ InspectApproval(store.recs) = "requested"
<1> DEFINE B2 == /\ op' = [op EXCEPT ![o] = [op[o] EXCEPT !.head = HeadSeq(store),
                       !.then = "repair",
                             !.pc = IF op[o].kind = "CheckedResume" THEN "fenceMark" ELSE "fenceMint"]]
                 /\ CheckWritable(store)
                 /\ InspectApproval(store.recs) = "called"
<1> DEFINE B3 == /\ op' = [op EXCEPT ![o] = [op[o] EXCEPT !.pc = "gate"]]
                 /\ CheckWritable(store)
<1> DEFINE B4 == op' = [op EXCEPT ![o] = [op[o] EXCEPT !.pc = "unwind"]]
<1>2. B1 \/ B2 \/ B3 \/ B4
    BY DEF ResumeInspect, Become, Goto, Fail, Succeed, At, Is, OpOnly, LogOnly
<1>3. ASSUME B1
      PROVE  /\ Alone(o)
             /\ Keeping(op[o], op'[o], {"result"})
             /\ op'[o].pc = "unwind"
             /\ op'[o].result = "pending"
    <2>1. op'[o] = [op[o] EXCEPT !.pc = "unwind", !.result = "pending"]
        BY <1>0, <1>3
    <2>2. Alone(o)
        BY <1>0, <1>3 DEF Alone
    <2> QED
        BY <1>0, <2>1, <2>2 DEF OpType, Keeping
<1>4. ASSUME B2
      PROVE  /\ Alone(o)
             /\ Keeping(op[o], op'[o], {"head", "then"})
             /\ op'[o].head = HeadSeq(store)
             /\ op'[o].then = "repair"
             /\ op'[o].pc = IF op[o].kind = "CheckedResume" THEN "fenceMark" ELSE "fenceMint"
    <2>1. op'[o] = [op[o] EXCEPT !.head = HeadSeq(store), !.then = "repair",
          !.pc = IF op[o].kind = "CheckedResume" THEN "fenceMark" ELSE "fenceMint"]
        BY <1>0, <1>4
    <2>2. Alone(o)
        BY <1>0, <1>4 DEF Alone
    <2> QED
        BY <1>0, <2>1, <2>2 DEF OpType, Keeping
<1>5. ASSUME B3
      PROVE  /\ Alone(o)
             /\ Keeping(op[o], op'[o], {})
             /\ op'[o].pc = "gate"
    <2>1. op'[o] = [op[o] EXCEPT !.pc = "gate"]
        BY <1>0, <1>5
    <2>2. Alone(o)
        BY <1>0, <1>5 DEF Alone
    <2> QED
        BY <1>0, <2>1, <2>2 DEF OpType, Keeping
<1>6. ASSUME B4
      PROVE  /\ Alone(o)
             /\ Keeping(op[o], op'[o], {})
             /\ op'[o].pc = "unwind"
    <2>1. op'[o] = [op[o] EXCEPT !.pc = "unwind"]
        BY <1>0, <1>6
    <2>2. Alone(o)
        BY <1>0, <1>6 DEF Alone
    <2> QED
        BY <1>0, <2>1, <2>2 DEF OpType, Keeping
<1> QED
    BY <1>1, <1>2, <1>3, <1>4, <1>5, <1>6 DEF Quits

(* The connection is registered unless a checkpoint runs.                  *)
LEMMA OpenHarnessEffect ==
    ASSUME ShapeInv, NEW o \in Ops, OpenHarness(o)
    PROVE  /\ Alone(o)
           /\ op[o].pc = "open"
           /\ UNCHANGED <<store, actor, image, guard, mark, crashes>>
           /\ \/ /\ mark[Host(o)] = None
                 /\ Keeping(op[o], op'[o], {"live", "then"})
                 /\ op'[o].pc = IF op[o].kind = "CheckedResume" THEN "fenceMark" ELSE "fenceMint"
                 /\ op'[o].live = TRUE
                 /\ op'[o].then = "check"
              \/ /\ mark[Host(o)] = None
                 /\ Keeping(op[o], op'[o], {"live", "then"})
                 /\ op'[o].pc = "unwind"
                 /\ op'[o].live = TRUE
                 /\ op'[o].then = "check"
              \/ /\ Quits(o)
<1>0. op \in [Ops -> OpType] /\ op[o] \in OpType
    BY DEF ShapeInv, Types
<1>1. op[o].pc = "open" /\ UNCHANGED <<store, actor, image, guard, mark, crashes>>
    BY DEF OpenHarness, MarkFree, Become, Goto, Fail, Succeed, At, Is, OpOnly, LogOnly
<1> DEFINE B1 == /\ op' = [op EXCEPT ![o] = [op[o] EXCEPT !.pc = IF op[o].kind = "CheckedResume" THEN "fenceMark" ELSE "fenceMint",
                                                   !.live = TRUE,
                                                   !.then = "check"]]
                 /\ mark[Host(o)] = None
<1> DEFINE B2 == /\ op' = [op EXCEPT ![o] = [op[o] EXCEPT !.pc = "unwind", !.live = TRUE,
                       !.then = "check"]]
                 /\ mark[Host(o)] = None
<1> DEFINE B3 == op' = [op EXCEPT ![o] = [op[o] EXCEPT !.pc = "unwind"]]
<1>2. B1 \/ B2 \/ B3
    BY DEF OpenHarness, MarkFree, Become, Goto, Fail, Succeed, At, Is, OpOnly, LogOnly
<1>3. ASSUME B1
      PROVE  /\ Alone(o)
             /\ Keeping(op[o], op'[o], {"live", "then"})
             /\ op'[o].pc = IF op[o].kind = "CheckedResume" THEN "fenceMark" ELSE "fenceMint"
             /\ op'[o].live = TRUE
             /\ op'[o].then = "check"
    <2>1. op'[o] = [op[o] EXCEPT !.pc = IF op[o].kind = "CheckedResume" THEN "fenceMark" ELSE "fenceMint",
                                 !.live = TRUE,
                                 !.then = "check"]
        BY <1>0, <1>3
    <2>2. Alone(o)
        BY <1>0, <1>3 DEF Alone
    <2> QED
        BY <1>0, <2>1, <2>2 DEF OpType, Keeping
<1>4. ASSUME B2
      PROVE  /\ Alone(o)
             /\ Keeping(op[o], op'[o], {"live", "then"})
             /\ op'[o].pc = "unwind"
             /\ op'[o].live = TRUE
             /\ op'[o].then = "check"
    <2>1. op'[o] = [op[o] EXCEPT !.pc = "unwind", !.live = TRUE, !.then = "check"]
        BY <1>0, <1>4
    <2>2. Alone(o)
        BY <1>0, <1>4 DEF Alone
    <2> QED
        BY <1>0, <2>1, <2>2 DEF OpType, Keeping
<1>5. ASSUME B3
      PROVE  /\ Alone(o)
             /\ Keeping(op[o], op'[o], {})
             /\ op'[o].pc = "unwind"
    <2>1. op'[o] = [op[o] EXCEPT !.pc = "unwind"]
        BY <1>0, <1>5
    <2>2. Alone(o)
        BY <1>0, <1>5 DEF Alone
    <2> QED
        BY <1>0, <2>1, <2>2 DEF OpType, Keeping
<1> QED
    BY <1>1, <1>2, <1>3, <1>4, <1>5 DEF Quits

(* A missing request is recorded.                                          *)
LEMMA RepairEffect ==
    ASSUME ShapeInv, NEW o \in Ops, Repair(o)
    PROVE  /\ Alone(o)
           /\ op[o].pc = "repair"
           /\ UNCHANGED <<actor, image, guard, mark, crashes>>
           /\ \/ /\ op[o].head = HeadSeq(store)
                 /\ Accepted(o, "APPROVAL_REQUEST")
                 /\ Keeping(op[o], op'[o], {"result"})
                 /\ op'[o].pc = "unwind"
                 /\ op'[o].result = "pending"
              \/ /\ Quits(o)
                 /\ store' = store
<1>0. op \in [Ops -> OpType] /\ op[o] \in OpType
    BY DEF ShapeInv, Types
<1>1. op[o].pc = "repair" /\ UNCHANGED <<actor, image, guard, mark, crashes>>
    BY DEF Repair, AppendAt, AppendOutcome, Accepted, Become, Goto, Fail, Succeed, At, Is, OpOnly,
       LogOnly
<1> DEFINE B1 == /\ op' = [op EXCEPT ![o] = [op[o] EXCEPT !.pc = "unwind", !.result = "pending"]]
                 /\ op[o].head = HeadSeq(store)
                 /\ Accepted(o, "APPROVAL_REQUEST")
<1> DEFINE B2 == /\ op' = [op EXCEPT ![o] = [op[o] EXCEPT !.pc = "unwind"]]
                 /\ store' = store
<1>2. B1 \/ B2
    BY DEF Repair, AppendAt, AppendOutcome, Accepted, Become, Goto, Fail, Succeed, At, Is, OpOnly,
       LogOnly
<1>3. ASSUME B1
      PROVE  /\ Alone(o)
             /\ Keeping(op[o], op'[o], {"result"})
             /\ op'[o].pc = "unwind"
             /\ op'[o].result = "pending"
    <2>1. op'[o] = [op[o] EXCEPT !.pc = "unwind", !.result = "pending"]
        BY <1>0, <1>3
    <2>2. Alone(o)
        BY <1>0, <1>3 DEF Alone
    <2> QED
        BY <1>0, <2>1, <2>2 DEF OpType, Keeping
<1>4. ASSUME B2
      PROVE  /\ Alone(o)
             /\ Keeping(op[o], op'[o], {})
             /\ op'[o].pc = "unwind"
    <2>1. op'[o] = [op[o] EXCEPT !.pc = "unwind"]
        BY <1>0, <1>4
    <2>2. Alone(o)
        BY <1>0, <1>4 DEF Alone
    <2> QED
        BY <1>0, <2>1, <2>2 DEF OpType, Keeping
<1> QED
    BY <1>1, <1>2, <1>3, <1>4 DEF Quits

(* A decision is recorded.                                                 *)
LEMMA DecideEffect ==
    ASSUME ShapeInv, NEW o \in Ops, Decide(o)
    PROVE  /\ Alone(o)
           /\ op[o].pc = "decide"
           /\ UNCHANGED <<actor, image, guard, mark, crashes>>
           /\ \/ /\ op[o].head = HeadSeq(store)
                 /\ Accepted(o, "APPROVAL_RESULT")
                 /\ Keeping(op[o], op'[o], {"result"})
                 /\ op'[o].pc = "unwind"
                 /\ op'[o].result = "ok"
              \/ /\ Quits(o)
                 /\ store' = store
<1>0. op \in [Ops -> OpType] /\ op[o] \in OpType
    BY DEF ShapeInv, Types
<1>1. op[o].pc = "decide" /\ UNCHANGED <<actor, image, guard, mark, crashes>>
    BY DEF Decide, AppendAt, AppendOutcome, Accepted, Become, Goto, Fail, Succeed, At, Is, OpOnly,
       LogOnly
<1> DEFINE B1 == /\ op' = [op EXCEPT ![o] = [op[o] EXCEPT !.pc = "unwind", !.result = "ok"]]
                 /\ op[o].head = HeadSeq(store)
                 /\ Accepted(o, "APPROVAL_RESULT")
<1> DEFINE B2 == /\ op' = [op EXCEPT ![o] = [op[o] EXCEPT !.pc = "unwind"]]
                 /\ store' = store
<1>2. B1 \/ B2
    BY DEF Decide, AppendAt, AppendOutcome, Accepted, Become, Goto, Fail, Succeed, At, Is, OpOnly,
       LogOnly
<1>3. ASSUME B1
      PROVE  /\ Alone(o)
             /\ Keeping(op[o], op'[o], {"result"})
             /\ op'[o].pc = "unwind"
             /\ op'[o].result = "ok"
    <2>1. op'[o] = [op[o] EXCEPT !.pc = "unwind", !.result = "ok"]
        BY <1>0, <1>3
    <2>2. Alone(o)
        BY <1>0, <1>3 DEF Alone
    <2> QED
        BY <1>0, <2>1, <2>2 DEF OpType, Keeping
<1>4. ASSUME B2
      PROVE  /\ Alone(o)
             /\ Keeping(op[o], op'[o], {})
             /\ op'[o].pc = "unwind"
    <2>1. op'[o] = [op[o] EXCEPT !.pc = "unwind"]
        BY <1>0, <1>4
    <2>2. Alone(o)
        BY <1>0, <1>4 DEF Alone
    <2> QED
        BY <1>0, <2>1, <2>2 DEF OpType, Keeping
<1> QED
    BY <1>1, <1>2, <1>3, <1>4 DEF Quits

(* A fork records its checkpoint.                                          *)
LEMMA ForkRecordEffect ==
    ASSUME ShapeInv, NEW o \in Ops, ForkRecord(o)
    PROVE  /\ Alone(o)
           /\ op[o].pc = "forkRecord"
           /\ UNCHANGED <<actor, image, guard, mark, crashes>>
           /\ \/ /\ op[o].at = HeadSeq(store)
                 /\ Accepted(o, "SUSPEND")
                 /\ Keeping(op[o], op'[o], {})
                 /\ op'[o].pc = "require"
              \/ /\ Quits(o)
                 /\ store' = store
<1>0. op \in [Ops -> OpType] /\ op[o] \in OpType
    BY DEF ShapeInv, Types
<1>1. op[o].pc = "forkRecord" /\ UNCHANGED <<actor, image, guard, mark, crashes>>
    BY DEF ForkRecord, AppendAt, AppendOutcome, Accepted, Become, Goto, Fail, Succeed, At, Is,
       OpOnly, LogOnly
<1> DEFINE B1 == /\ op' = [op EXCEPT ![o] = [op[o] EXCEPT !.pc = "require"]]
                 /\ op[o].at = HeadSeq(store)
                 /\ Accepted(o, "SUSPEND")
<1> DEFINE B2 == /\ op' = [op EXCEPT ![o] = [op[o] EXCEPT !.pc = "unwind"]]
                 /\ store' = store
<1>2. B1 \/ B2
    BY DEF ForkRecord, AppendAt, AppendOutcome, Accepted, Become, Goto, Fail, Succeed, At, Is,
       OpOnly, LogOnly
<1>3. ASSUME B1
      PROVE  /\ Alone(o)
             /\ Keeping(op[o], op'[o], {})
             /\ op'[o].pc = "require"
    <2>1. op'[o] = [op[o] EXCEPT !.pc = "require"]
        BY <1>0, <1>3
    <2>2. Alone(o)
        BY <1>0, <1>3 DEF Alone
    <2> QED
        BY <1>0, <2>1, <2>2 DEF OpType, Keeping
<1>4. ASSUME B2
      PROVE  /\ Alone(o)
             /\ Keeping(op[o], op'[o], {})
             /\ op'[o].pc = "unwind"
    <2>1. op'[o] = [op[o] EXCEPT !.pc = "unwind"]
        BY <1>0, <1>4
    <2>2. Alone(o)
        BY <1>0, <1>4 DEF Alone
    <2> QED
        BY <1>0, <2>1, <2>2 DEF OpType, Keeping
<1> QED
    BY <1>1, <1>2, <1>3, <1>4 DEF Quits

(* Suspend and park record theirs.                                         *)
LEMMA RecordSuspendEffect ==
    ASSUME ShapeInv, NEW o \in Ops, RecordSuspend(o)
    PROVE  /\ Alone(o)
           /\ op[o].pc = "record"
           /\ UNCHANGED <<actor, image, guard, mark, crashes>>
           /\ \/ /\ op[o].kind = "Suspend" \/ op[o].head = HeadSeq(store)
                 /\ Accepted(o, "SUSPEND")
                 /\ Keeping(op[o], op'[o], {"result"})
                 /\ op'[o].pc = "unwind"
                 /\ op'[o].result = IF op[o].kind = "Suspend" THEN "ok" ELSE "parked"
              \/ /\ Quits(o)
                 /\ store' = store
<1>0. op \in [Ops -> OpType] /\ op[o] \in OpType
    BY DEF ShapeInv, Types
<1>1. op[o].pc = "record" /\ UNCHANGED <<actor, image, guard, mark, crashes>>
    BY DEF RecordSuspend, AppendAt, AppendOutcome, Accepted, Become, Goto, Fail, Succeed, At, Is,
       OpOnly, LogOnly
<1> DEFINE B1 == /\ op' = [op EXCEPT ![o] = [op[o] EXCEPT !.pc = "unwind",
                       !.result = IF op[o].kind = "Suspend" THEN "ok" ELSE "parked"]]
                 /\ op[o].kind = "Suspend" \/ op[o].head = HeadSeq(store)
                 /\ Accepted(o, "SUSPEND")
<1> DEFINE B2 == /\ op' = [op EXCEPT ![o] = [op[o] EXCEPT !.pc = "unwind"]]
                 /\ store' = store
<1>2. B1 \/ B2
    BY DEF RecordSuspend, AppendAt, AppendOutcome, Accepted, Become, Goto, Fail, Succeed, At, Is,
       OpOnly, LogOnly
<1>3. ASSUME B1
      PROVE  /\ Alone(o)
             /\ Keeping(op[o], op'[o], {"result"})
             /\ op'[o].pc = "unwind"
             /\ op'[o].result = IF op[o].kind = "Suspend" THEN "ok" ELSE "parked"
    <2>1. op'[o] = [op[o] EXCEPT !.pc = "unwind",
          !.result = IF op[o].kind = "Suspend" THEN "ok" ELSE "parked"]
        BY <1>0, <1>3
    <2>2. Alone(o)
        BY <1>0, <1>3 DEF Alone
    <2> QED
        BY <1>0, <2>1, <2>2 DEF OpType, Keeping
<1>4. ASSUME B2
      PROVE  /\ Alone(o)
             /\ Keeping(op[o], op'[o], {})
             /\ op'[o].pc = "unwind"
    <2>1. op'[o] = [op[o] EXCEPT !.pc = "unwind"]
        BY <1>0, <1>4
    <2>2. Alone(o)
        BY <1>0, <1>4 DEF Alone
    <2> QED
        BY <1>0, <2>1, <2>2 DEF OpType, Keeping
<1> QED
    BY <1>1, <1>2, <1>3, <1>4 DEF Quits

(* A turn's steps, seen from outside.                                      *)
LEMMA TurnEffect ==
    ASSUME ShapeInv, NEW o \in Ops, TurnStep(o)
    PROVE  /\ Alone(o)
           /\ op[o].pc \in TurnPCs
           /\ UNCHANGED <<actor, image, guard, mark, crashes>>
           /\ Keeping(op[o], op'[o], {"result"})
           /\ op'[o].pc \in {"run", "request", "marker", "mark", "unwind"}
           /\ op'[o].result \in {op[o].result, "ok"}
           /\ \/ UNCHANGED store
              \/ \E kind \in TurnKindsWritten :
                    Accepted(o, kind) /\ (kind = "TOOL_CALL" => Tier = "STATELESS")
<1>0. op \in [Ops -> OpType] /\ op[o] \in OpType
    BY DEF ShapeInv, Types
<1>1. PICK p, result : TurnMove(o, p, result)
    BY TurnStepMoves
<1>2. op'[o] = Moved(o, p, result) /\ Alone(o)
    BY <1>0, <1>1 DEF TurnMove, Alone
<1>3. /\ Keeping(op[o], op'[o], {"result"}) /\ op'[o].pc = p /\ op'[o].result = result
    BY <1>0, <1>2 DEF OpType, Keeping, Moved
<1> QED
    BY <1>1, <1>2, <1>3 DEF TurnMove, LogOnly

(* A call that is told it was superseded keeps the rest.                   *)
LEMMA Superseding ==
    ASSUME NEW q \in OpType
    PROVE  LET r == [q EXCEPT !.superseded = TRUE]
           IN  Keeping(q, r, {"superseded"}) /\ r.pc = q.pc
<1>1. PICK r : r = [q EXCEPT !.superseded = TRUE]
    OBVIOUS
<1>2. /\ r.kind = q.kind /\ r.at = q.at /\ r.head = q.head /\ r.fence = q.fence /\ r.then = q.then
      /\ r.open = q.open /\ r.snap = q.snap /\ r.tag = q.tag /\ r.kids = q.kids
      /\ r.result = q.result /\ r.pc = q.pc
    BY <1>1 DEF OpType
<1>3. r.live = q.live /\ r.ended = q.ended /\ r.minted = q.minted /\ r.late = q.late
    BY <1>1 DEF OpType
<1> QED
    BY <1>1, <1>2, <1>3 DEF Keeping

(* A fork takes the mark and supersedes the connections it finds.          *)
LEMMA BeginCheckpointEffect ==
    ASSUME ShapeInv, NEW o \in Ops, BeginCheckpoint(o)
    PROVE  /\ op[o].pc = "begin"
           /\ UNCHANGED <<store, actor, image, guard, crashes>>
           /\ \/ mark[Host(o)] # None /\ Alone(o) /\ Quits(o) /\ mark' = mark
              \/ /\ mark[Host(o)] = None
                 /\ mark' = [mark EXCEPT ![Host(o)] = o]
                 /\ Keeping(op[o], op'[o], {"then", "open"})
                 /\ op'[o].pc = "forkFence"
                 /\ op'[o].then = "end"
                 /\ op'[o].open = {t \in Ops : Host(t) = Host(o) /\ op[t].live}
                 /\ \A t \in Ops \ {o} :
                        /\ Keeping(op[t], op'[t], {"superseded"})
                        /\ op'[t].pc = op[t].pc
                        /\ op[t].superseded => op'[t].superseded
                        /\ t \in op'[o].open => op'[t].superseded
                        /\ op'[t] = op[t] \/ op[t].live
<1>0. op \in [Ops -> OpType] /\ op[o] \in OpType
    BY DEF ShapeInv, Types
<1>1. op[o].pc = "begin" /\ UNCHANGED <<store, actor, image, guard, crashes>>
    BY DEF BeginCheckpoint, At
<1>2. CASE MarkFree(o)
    <2>1. PICK open : open = {t \in Ops : Host(t) = Host(o) /\ op[t].live}
        OBVIOUS
    <2>2. /\ mark' = [mark EXCEPT ![Host(o)] = o]
          /\ op' = [t \in Ops |->
                        IF t = o THEN [op[o] EXCEPT !.pc = "forkFence", !.then = "end", !.open = open]
                        ELSE IF t \in open THEN [op[t] EXCEPT !.superseded = TRUE]
                        ELSE op[t]]
        BY <1>2, <2>1 DEF BeginCheckpoint
    <2>3. op'[o] = [op[o] EXCEPT !.pc = "forkFence", !.then = "end", !.open = open]
        BY <2>2
    <2>4. /\ Keeping(op[o], op'[o], {"then", "open"}) /\ op'[o].pc = "forkFence"
          /\ op'[o].then = "end" /\ op'[o].open = open
        BY <1>0, <2>3 DEF OpType, Keeping
    <2>5. ASSUME NEW t \in Ops \ {o}
          PROVE  /\ Keeping(op[t], op'[t], {"superseded"})
                 /\ op'[t].pc = op[t].pc
                 /\ op[t].superseded => op'[t].superseded
                 /\ t \in op'[o].open => op'[t].superseded
                 /\ op'[t] = op[t] \/ op[t].live
        <3>1. CASE t \in open
            <4>1. op'[t] = [op[t] EXCEPT !.superseded = TRUE] /\ op[t].live
                BY <2>1, <2>2, <2>5, <3>1
            <4>2. op[t] \in OpType
                BY <1>0, <2>5
            <4>3. Keeping(op[t], op'[t], {"superseded"}) /\ op'[t].pc = op[t].pc
                BY <4>1, <4>2, Superseding
            <4>4. op'[t].superseded = TRUE
                BY <4>1, <4>2 DEF OpType
            <4> QED
                BY <4>1, <4>3, <4>4
        <3>2. CASE t \notin open
            <4>1. op'[t] = op[t]
                BY <2>2, <2>5, <3>2
            <4> QED
                BY <2>4, <3>2, <4>1 DEF Keeping
        <3> QED
            BY <3>1, <3>2
    <2> QED
        BY <1>1, <1>2, <2>1, <2>2, <2>4, <2>5 DEF MarkFree
<1>3. CASE ~MarkFree(o)
    <2>1. mark' = mark /\ op' = [op EXCEPT ![o] = [op[o] EXCEPT !.pc = "unwind"]]
        BY <1>3 DEF BeginCheckpoint, Fail, Goto, Become
    <2>2. op'[o] = [op[o] EXCEPT !.pc = "unwind"] /\ Alone(o)
        BY <1>0, <2>1 DEF Alone
    <2>3. Quits(o)
        BY <1>0, <2>2 DEF OpType, Keeping, Quits
    <2> QED
        BY <1>1, <1>3, <2>1, <2>2, <2>3 DEF MarkFree
<1> QED
    BY <1>2, <1>3

(* A fork cancels what it superseded.                                      *)
LEMMA EndHarnessesEffect ==
    ASSUME ShapeInv, NEW o \in Ops, EndHarnesses(o)
    PROVE  /\ op[o].pc = "end"
           /\ UNCHANGED <<store, actor, image, guard, mark, crashes>>
           /\ Keeping(op[o], op'[o], {})
           /\ op'[o].pc = "wait"
           /\ \A t \in Ops \ {o} :
                /\ Keeping(op[t], op'[t], {"ended"})
                /\ op'[t].pc = op[t].pc
                /\ op[t].ended => op'[t].ended
                /\ t \in op[o].open => op'[t].ended
<1>0. op \in [Ops -> OpType] /\ op[o] \in OpType
    BY DEF ShapeInv, Types
<1>1. op[o].pc = "end" /\ UNCHANGED <<store, actor, image, guard, mark, crashes>>
    BY DEF EndHarnesses, At, OpOnly
<1>2. op' = [t \in Ops |->
                IF t = o THEN [op[o] EXCEPT !.pc = "wait"]
                ELSE IF t \in op[o].open THEN [op[t] EXCEPT !.ended = TRUE]
                ELSE op[t]]
    BY DEF EndHarnesses
<1>3. op'[o] = [op[o] EXCEPT !.pc = "wait"]
    BY <1>2
<1>4. Keeping(op[o], op'[o], {}) /\ op'[o].pc = "wait"
    BY <1>0, <1>3 DEF OpType, Keeping
<1>5. ASSUME NEW t \in Ops \ {o}
      PROVE  /\ Keeping(op[t], op'[t], {"ended"})
             /\ op'[t].pc = op[t].pc
             /\ op[t].ended => op'[t].ended
             /\ t \in op[o].open => op'[t].ended
    <2>1. CASE t \in op[o].open
        <3>1. op'[t] = [op[t] EXCEPT !.ended = TRUE]
            BY <1>2, <1>5, <2>1
        <3> QED
            BY <1>0, <1>5, <3>1 DEF OpType, Keeping
    <2>2. CASE t \notin op[o].open
        <3>1. op'[t] = op[t]
            BY <1>2, <1>5, <2>2
        <3> QED
            BY <2>2, <3>1 DEF Keeping
    <2> QED
        BY <2>1, <2>2
<1> QED
    BY <1>1, <1>4, <1>5

(* A call is admitted with the hold it asks for, or refused at once.       *)
LEMMA BeginEffect ==
    ASSUME ShapeInv, NEW o \in Ops, NEW kind \in OpKinds, Begin(o, kind)
    PROVE  /\ Alone(o)
           /\ op[o].pc = "idle"
           /\ op[o].kids = <<>> /\ op[o].fence = 0 /\ ~op[o].live /\ ~op[o].late
           /\ op[o].result = "none"
           /\ op'[o].kids = <<>> /\ op'[o].fence = 0 /\ ~op'[o].live /\ ~op'[o].late
           /\ op'[o].then = "none"
           /\ op'[o].kind = kind
           /\ UNCHANGED <<store, actor, image, mark, crashes>>
           /\ \/ /\ CanAcquire(guard[Host(o)], GuardKind(kind))
                 /\ guard' = [guard EXCEPT ![Host(o)] = Acquire(@, GuardKind(kind))]
                 /\ op'[o].at = HeadSeq(store)
                 /\ op'[o].result = "none"
                 /\ op'[o].pc = IF kind = "Approve" THEN "mark"
                                ELSE IF kind = "Delete" THEN "delete" ELSE "inspect"
              \/ UNCHANGED guard /\ op'[o].pc = "done" /\ op'[o].result = "busy"
<1>0. op \in [Ops -> OpType] /\ op[o] \in OpType
    BY DEF ShapeInv, Types
<1>1. op[o].pc = "idle" /\ UNCHANGED <<store, actor, image, mark, crashes>>
    BY DEF Begin, At
<1>2. op[o] = [IdleOp EXCEPT !.ended = op[o].ended]
    BY <1>1 DEF ShapeInv, Good, KindInv
<1>3. /\ op[o].kids = <<>> /\ op[o].fence = 0 /\ ~op[o].live /\ ~op[o].late
      /\ op[o].result = "none" /\ op[o].then = "none"
    BY <1>2 DEF IdleOp
<1>4. CASE CanAcquire(guard[Host(o)], GuardKind(kind))
    <2>1. PICK p : /\ p = (IF kind = "Approve" THEN "mark"
                                ELSE IF kind = "Delete" THEN "delete" ELSE "inspect")
                   /\ p = (CASE kind = "Approve" -> "mark" [] kind = "Delete" -> "delete"
                             [] OTHER -> "inspect")
        OBVIOUS
    <2>2. /\ guard' = [guard EXCEPT ![Host(o)] = Acquire(@, GuardKind(kind))]
          /\ op' = [op EXCEPT ![o] = [op[o] EXCEPT !.kind = kind, !.at = HeadSeq(store), !.pc = p]]
        BY <1>4, <2>1 DEF Begin, Become
    <2>3. op'[o] = [op[o] EXCEPT !.kind = kind, !.at = HeadSeq(store), !.pc = p] /\ Alone(o)
        BY <1>0, <2>2 DEF Alone
    <2>4. /\ op'[o].kids = op[o].kids /\ op'[o].fence = op[o].fence /\ op'[o].live = op[o].live
          /\ op'[o].late = op[o].late /\ op'[o].then = op[o].then /\ op'[o].kind = kind
          /\ op'[o].at = HeadSeq(store) /\ op'[o].result = op[o].result /\ op'[o].pc = p
        BY <1>0, <2>3 DEF OpType
    <2> QED
        BY <1>1, <1>3, <1>4, <2>1, <2>2, <2>3, <2>4
<1>5. CASE ~CanAcquire(guard[Host(o)], GuardKind(kind))
    <2>2. /\ UNCHANGED guard
          /\ op' = [op EXCEPT ![o] = [op[o] EXCEPT !.kind = kind, !.pc = "done", !.result = "busy"]]
        BY <1>5 DEF Begin, Become
    <2>3. op'[o] = [op[o] EXCEPT !.kind = kind, !.pc = "done", !.result = "busy"] /\ Alone(o)
        BY <1>0, <2>2 DEF Alone
    <2>4. /\ op'[o].kids = op[o].kids /\ op'[o].fence = op[o].fence /\ op'[o].live = op[o].live
          /\ op'[o].late = op[o].late /\ op'[o].then = op[o].then /\ op'[o].kind = kind
          /\ op'[o].result = "busy" /\ op'[o].pc = "done"
        BY <1>0, <2>3 DEF OpType
    <2> QED
        BY <1>1, <1>3, <2>2, <2>3, <2>4
<1> QED
    BY <1>4, <1>5

(* What a crash leaves of a call in progress.                              *)
Crashed(q, r) ==
    /\ r.kind = q.kind /\ r.pc = "done" /\ r.result = "crashed" /\ r.fence = 0
    /\ r.kids = <<>> /\ r.then = "none" /\ ~r.live /\ ~r.late /\ r.open = {}

(* What a crash leaves of the calls of its host.                           *)
LEMMA CrashEffect ==
    ASSUME ShapeInv, NEW h \in Hosts, Crash(h)
    PROVE  /\ UNCHANGED <<store, actor, image>>
           /\ guard' = [guard EXCEPT ![h] = FreeGuard]
           /\ mark' = [mark EXCEPT ![h] = None]
           /\ \A t \in Ops : IF Host(t) = h /\ op[t].pc \notin {"idle", "done"}
                             THEN Crashed(op[t], op'[t]) ELSE op'[t] = op[t]
<1>1. ASSUME NEW t \in Ops
      PROVE  IF Host(t) = h /\ op[t].pc \notin {"idle", "done"}
             THEN Crashed(op[t], op'[t]) ELSE op'[t] = op[t]
    <2>1. op'[t] = IF Host(t) = h /\ op[t].pc \notin {"idle", "done"}
                   THEN [IdleOp EXCEPT !.kind = op[t].kind, !.pc = "done", !.result = "crashed"]
                   ELSE op[t]
        BY DEF Crash
    <2>2. PICK r : r = [IdleOp EXCEPT !.kind = op[t].kind, !.pc = "done", !.result = "crashed"]
        OBVIOUS
    <2>3. Crashed(op[t], r)
        BY <2>2 DEF IdleOp, Crashed
    <2> QED
        BY <2>1, <2>2, <2>3
<1> QED
    BY <1>1 DEF Crash

-----------------------------------------------------------------------------
(* Who holds guard and mark *)

Marked(o) ==
    \/ op[o].pc \in MarkedSteps /\ (op[o].pc \in {"child", "copy"} => Tier = "MEMORY")
    \/ op[o].pc = "fenceMint" /\ op[o].kind \in {"Approve", "Suspend", "CheckedResume"}
    \/ op[o].pc = "record"

MarkInv ==
    \A o \in Ops :
        /\ Marked(o) => mark[Host(o)] = o
        /\ \A h \in Hosts : mark[h] = o =>
              Host(o) = h /\ (Marked(o) \/ op[o].pc \in {"unwind", "abort"})

(* One entry of the guard matches the calls that hold it.                  *)
EntryInv(entry, operations, reads, deletes) ==
    /\ Cardinality(operations) = IF entry.operation THEN 1 ELSE 0
    /\ Cardinality(reads) = entry.readers
    /\ Cardinality(deletes) = IF entry.deleting THEN 1 ELSE 0
    /\ entry.deleting => ~entry.operation /\ entry.readers = 0

GuardInv ==
    \A h \in Hosts :
        EntryInv(guard[h], Active(h, "operation"), Active(h, "read"), Active(h, "delete"))

HoldsInv == MarkInv /\ GuardInv

-----------------------------------------------------------------------------
(* Who may write *)

FenceInv ==
    /\ \A o, t \in Ops : op[o].fence = op[t].fence => o = t \/ op[o].fence = 0
    /\ \A i \in DOMAIN store.recs : store.recs[i].fence <= store.fence
    /\ LateTurnWritesNothing

-----------------------------------------------------------------------------
(* What a fork's children have *)

(* r's checkpoint is one of the images im, taken at r's head; n is the     *)
(* head of the log now.                                                    *)
CloneOf(r, im, n) ==
    /\ r.pc = "forkRecord" => r.snap > 0 /\ \E h \in im[r.snap] : r.at <= h /\ h <= n
    /\ r.pc \in Cloning => r.snap > 0 /\ r.at \in im[r.snap]
    /\ r.pc = "require2" => r.snap <= r.tag
    /\ r.pc = "child" => r.tag = r.snap
    /\ \A i \in DOMAIN r.kids : r.snap > 0 /\ r.kids[i] = r.snap /\ r.at \in im[r.snap]

CloneInv == Tier = "MEMORY" => \A o \in Ops : CloneOf(op[o], image, HeadSeq(store))

-----------------------------------------------------------------------------
(* What the log shows of an approval *)

Gate0 == InspectApproval(store.recs)

(* What r has seen of the gate is still so, unless the log has moved on    *)
(* from the head r captured, or from the fence r writes under.             *)
OpenGate(r, gate, fence, n) ==
    /\ r.pc = "request" /\ r.fence = fence => gate = "called"
    /\ r.head = n =>
        /\ r.pc \in Fencing \union {"repair"} /\ r.then = "repair" => gate = "called"
        /\ r.kind = "Approve" /\ r.pc \in {"fenceMint", "decide"} => gate = "requested"
        /\ r.kind \in Turns /\ r.pc \in {"close", "snapshot", "record"} => gate = "requested"

OpenGateInv == \A o \in Ops : OpenGate(op[o], Gate0, store.fence, HeadSeq(store))

GatesInv ==
    /\ OpenGateInv
    /\ \A o \in Ops : op[o].result = "parked" => op[o].pc \in {"unwind", "done"}
    /\ GatesAreNotSkipped
    /\ ParkMeansSuspended

-----------------------------------------------------------------------------
(* What a fork has superseded *)

(* The fork has cancelled the turns it found.                              *)
Ended(r) ==
    \/ r.pc \in {"wait", "checkpoint", "forkRecord"}
    \/ r.pc \in {"forkFence", "forkHead"} /\ r.then = "checkpoint"

(* ... and has seen the fence of each.                                     *)
Awaited(r) == Ended(r) /\ r.pc # "wait"

StreamInv ==
    \A o, t \in Ops : op[o].pc \in Checkpointing \ {"begin"} /\ Host(t) = Host(o) =>
        /\ op[t].live => t \in op[o].open /\ op[t].superseded
        /\ op[t].live /\ Ended(op[o]) => op[t].ended
        /\ op[t].live /\ Awaited(op[o]) => op[t].minted

-----------------------------------------------------------------------------
(* What one Registry alone guarantees *)

OneRegistry == \A o, t \in Ops : HostOf[o] = HostOf[t]

(* A memory harness gates nothing.                                         *)
UngatedInv ==
    Tier = "MEMORY" =>
        /\ \A i \in DOMAIN store.recs : store.recs[i].kind # "TOOL_CALL"
        /\ \A o \in Ops : op[o].then # "repair"

(* A call beside a deletion has not begun, or will find the tombstone.     *)
Late(r) ==
    \/ r.pc \in {"idle", "inspect", "scan", "delete", "unwind", "done"}
    \/ r.pc = "mark" /\ r.kind = "Approve"

DeletedInv == store.deletion = "PENDING" => \A o \in Ops : Late(op[o])

(* r's fence is the newest, and the head n is the one r knows.             *)
Newest(r, fence, n) ==
    /\ r.kind \in Turns /\ r.pc \in Streaming => r.superseded \/ r.fence = fence
    /\ r.pc \in {"fenceHead", "checkpoint", "forkRecord", "record"} => r.fence = fence
    /\ r.pc = "snapshot" /\ r.kind \in Turns => r.fence = fence
    /\ r.pc = "forkHead" /\ r.then = "checkpoint" => r.fence = fence
    /\ r.kind \in Turns /\ r.pc \in {"close", "snapshot", "record"} => r.head = n
    /\ r.pc \in {"checkpoint", "forkRecord"} => r.at = n

NewestInv == \A o \in Ops : Newest(op[o], store.fence, HeadSeq(store))

-----------------------------------------------------------------------------
(* Whom a step touches *)

(* A call keeps everything but what a checkpoint tells it.                 *)
Same(q, r) ==
    /\ r.kind = q.kind /\ r.pc = q.pc /\ r.at = q.at /\ r.head = q.head /\ r.fence = q.fence
    /\ r.then = q.then /\ r.live = q.live /\ r.minted = q.minted /\ r.late = q.late
    /\ r.open = q.open /\ r.snap = q.snap /\ r.tag = q.tag /\ r.kids = q.kids
    /\ r.result = q.result /\ (q.superseded => r.superseded) /\ (q.ended => r.ended)

(* A step of o is o's: the other calls stay where they are.                *)
Moves(o) ==
    /\ op[o].pc \notin {"idle", "done"}
    /\ op'[o].kind = op[o].kind /\ op'[o].at = op[o].at
    /\ op'[o].pc # "idle"
    /\ \A t \in Ops \ {o} : Same(op[t], op'[t])

(* Every step of a call is such a step, and only Unwind ends it.           *)
LEMMA StepMoves ==
    ASSUME ShapeInv, NEW o \in Ops, OpStep(o)
    PROVE  Moves(o) /\ (op'[o].pc = "done" => Unwind(o))
<1>0. /\ op[o].pc \in {"forkHead", "fenceMint", "fenceHead"} => op[o].then \notin {"idle", "done"}
    BY DEF ShapeInv, Good, ThenInv, Fencing, KindInv
<1>1. CASE Unwind(o)
    BY <1>1, UnwindEffect DEF Moves, Same, Alone, Keeping, Quits
<1>2. CASE Mark(o)
    BY <1>2, MarkEffect DEF Moves, Same, Alone, Keeping, Quits
<1>3. CASE FenceMint(o)
    BY <1>3, <1>0, FenceMintEffect DEF Moves, Same, Alone, Keeping, Quits
<1>4. CASE FenceHead(o)
    BY <1>4, <1>0, FenceHeadEffect DEF Moves, Same, Alone, Keeping, Quits
<1>5. CASE ExecInspect(o)
    BY <1>5, ExecInspectEffect DEF Moves, Same, Alone, Keeping, Quits
<1>6. CASE ResumeInspect(o)
    BY <1>6, ResumeInspectEffect DEF Moves, Same, Alone, Keeping, Quits
<1>7. CASE Gate(o)
    BY <1>7, GateEffect DEF Moves, Same, Alone, Keeping, Quits
<1>8. CASE Create(o)
    BY <1>8, CreateEffect DEF Moves, Same, Alone, Keeping, Quits
<1>9. CASE OpenHarness(o)
    BY <1>9, OpenHarnessEffect DEF Moves, Same, Alone, Keeping, Quits
<1>10. CASE CheckSuperseded(o)
    BY <1>10, CheckSupersededEffect DEF Moves, Same, Alone, Keeping, Quits
<1>11. CASE HandoffInspect(o)
    BY <1>11, HandoffInspectEffect DEF Moves, Same, Alone, Keeping, Quits
<1>12. CASE CloseInvocation(o)
    BY <1>12, CloseInvocationEffect DEF Moves, Same, Alone, Keeping, Quits
<1>13. CASE SuspendInspect(o)
    BY <1>13, SuspendInspectEffect DEF Moves, Same, Alone, Keeping, Quits
<1>14. CASE Snapshot(o)
    BY <1>14, SnapshotEffect DEF Moves, Same, Alone, Keeping, Quits
<1>15. CASE ApproveScan(o)
    BY <1>15, ApproveScanEffect DEF Moves, Same, Alone, Keeping, Quits
<1>16. CASE DeleteRow(o)
    BY <1>16, DeleteRowEffect DEF Moves, Same, Alone, Keeping, Quits
<1>17. CASE ForkInspect(o)
    BY <1>17, ForkInspectEffect DEF Moves, Same, Alone, Keeping, Quits
<1>18. CASE ForkFence(o)
    BY <1>18, ForkFenceEffect DEF Moves, Same, Alone, Keeping, Quits
<1>19. CASE ForkHead(o)
    BY <1>19, <1>0, ForkHeadEffect DEF Moves, Same, Alone, Keeping, Quits
<1>20. CASE AwaitMinted(o)
    BY <1>20, AwaitMintedEffect DEF Moves, Same, Alone, Keeping, Quits
<1>21. CASE Checkpoint(o)
    BY <1>21, CheckpointEffect DEF Moves, Same, Alone, Keeping, Quits
<1>22. CASE RequireSnapshot(o)
    BY <1>22, RequireSnapshotEffect DEF Moves, Same, Alone, Keeping, Quits
<1>23. CASE TagActor(o)
    BY <1>23, TagActorEffect DEF Moves, Same, Alone, Keeping, Quits
<1>24. CASE CreateChild(o)
    BY <1>24, CreateChildEffect DEF Moves, Same, Alone, Keeping, Quits
<1>25. CASE CopyLog(o)
    BY <1>25, CopyLogEffect DEF Moves, Same, Alone, Keeping, Quits
<1>26. CASE AbortFork(o)
    BY <1>26, AbortForkEffect DEF Moves, Same, Alone, Keeping, Quits
<1>27. CASE RollbackFork(o)
    BY <1>27, RollbackForkEffect DEF Moves, Same, Alone, Keeping, Quits
<1>28. CASE Repair(o)
    BY <1>28, RepairEffect DEF Moves, Same, Alone, Keeping, Quits
<1>29. CASE RecordSuspend(o)
    BY <1>29, RecordSuspendEffect DEF Moves, Same, Alone, Keeping, Quits
<1>30. CASE Decide(o)
    BY <1>30, DecideEffect DEF Moves, Same, Alone, Keeping, Quits
<1>31. CASE ForkRecord(o)
    BY <1>31, ForkRecordEffect DEF Moves, Same, Alone, Keeping, Quits
<1>32. CASE BeginCheckpoint(o)
    BY <1>32, BeginCheckpointEffect DEF Moves, Same, Alone, Keeping, Quits
<1>33. CASE EndHarnesses(o)
    BY <1>33, EndHarnessesEffect DEF Moves, Same, Alone, Keeping, Quits
<1>34. CASE TurnStep(o)
    BY SMTT(30), <1>34, TurnEffect DEF Moves, Same, Alone, Keeping, Quits, TurnPCs
<1> QED
    BY <1>1, <1>2, <1>3, <1>4, <1>5, <1>6, <1>7, <1>8, <1>9, <1>10, <1>11, <1>12,
       <1>13, <1>14, <1>15, <1>16, <1>17, <1>18, <1>19, <1>20, <1>21, <1>22, <1>23,
       <1>24, <1>25, <1>26, <1>27, <1>28, <1>29, <1>30, <1>31, <1>32, <1>33, <1>34
    DEF OpStep, ForkStep

-----------------------------------------------------------------------------
(* Guard and mark *)

(* A step keeps the mark with the marked steps, takes it, or lifts it.     *)
Holding(o) ==
    \/ /\ mark' = mark
       /\ Marked(o)' => Marked(o)
       /\ Marked(o) \/ op[o].pc \in {"unwind", "abort"} =>
            Marked(o)' \/ op'[o].pc \in {"unwind", "abort"}
    \/ mark[Host(o)] = None /\ mark' = [mark EXCEPT ![Host(o)] = o] /\ Marked(o)'
    \/ ~Marked(o)' /\ mark' = [mark EXCEPT ![Host(o)] = IF @ = o THEN None ELSE @]

(* The mark is where the steps are that need it.                           *)
LEMMA StepHolding ==
    ASSUME ShapeInv, MarkInv, NEW o \in Ops, OpStep(o)
    PROVE  Holding(o)
<1>0. KindInv(op[o]) /\ ThenInv(op[o]) /\ Host(o) \in Hosts
    BY PlacementAssumption DEF ShapeInv, Good, Host
<1> USE DEF Holding, Marked, MarkedSteps, Keeping, Quits
<1>1. CASE Unwind(o)
    BY <1>1, <1>0, UnwindEffect DEF KindInv, ThenInv, Fencing, Turns, Resumes, Checkpointing, Cloning
<1>2. CASE Mark(o)
    BY <1>2, <1>0, MarkEffect DEF KindInv, ThenInv, Fencing, Turns, Resumes, Checkpointing, Cloning
<1>3. CASE FenceMint(o)
    <2>1. /\ op[o].kind \in Turns \union {"Suspend", "Approve"} /\ op[o].pc = "fenceMint"
          /\ op[o].kind \in Turns => op[o].then \in {"repair", "create", "check"}
          /\ op[o].kind = "Suspend" => op[o].then = "record"
          /\ op[o].kind = "Approve" => op[o].then = "decide"
        BY <1>3, <1>0, FenceMintEffect DEF ThenInv, KindInv, Fencing, Turns
    <2> QED
        BY <1>3, <2>1, FenceMintEffect DEF Turns
<1>4. CASE FenceHead(o)
    <2>1. Marked(o)
        BY <1>4, FenceHeadEffect
    <2>2. mark[Host(o)] = o
        BY <2>1 DEF MarkInv
    <2>3. [mark EXCEPT ![Host(o)] = None] = [mark EXCEPT ![Host(o)] = IF @ = o THEN None ELSE @]
        BY <2>2
    <2>4. op[o].then \notin MarkedSteps \union {"record", "fenceMint"}
        BY <1>4, <1>0, FenceHeadEffect DEF ThenInv, KindInv, Fencing
    <2> QED
        BY <1>4, <2>3, <2>4, FenceHeadEffect
<1>5. CASE ExecInspect(o)
    BY <1>5, <1>0, ExecInspectEffect DEF KindInv, ThenInv, Fencing, Turns, Resumes, Checkpointing,
       Cloning
<1>6. CASE ResumeInspect(o)
    BY <1>6, <1>0, ResumeInspectEffect DEF KindInv, ThenInv, Fencing, Turns, Resumes,
       Checkpointing, Cloning
<1>7. CASE Gate(o)
    BY <1>7, <1>0, GateEffect DEF KindInv, ThenInv, Fencing, Turns, Resumes, Checkpointing, Cloning
<1>8. CASE Create(o)
    BY <1>8, <1>0, CreateEffect DEF KindInv, ThenInv, Fencing, Turns, Resumes, Checkpointing, Cloning
<1>9. CASE OpenHarness(o)
    BY ZenonT(40), <1>9, <1>0, OpenHarnessEffect DEF KindInv, ThenInv, Fencing, Turns, Resumes, Checkpointing,
       Cloning
<1>10. CASE CheckSuperseded(o)
    BY <1>10, <1>0, CheckSupersededEffect DEF KindInv, ThenInv, Fencing, Turns, Resumes,
       Checkpointing, Cloning
<1>11. CASE HandoffInspect(o)
    BY <1>11, <1>0, HandoffInspectEffect DEF KindInv, ThenInv, Fencing, Turns, Resumes,
       Checkpointing, Cloning
<1>12. CASE CloseInvocation(o)
    BY <1>12, <1>0, CloseInvocationEffect DEF KindInv, ThenInv, Fencing, Turns, Resumes,
       Checkpointing, Cloning
<1>13. CASE SuspendInspect(o)
    BY <1>13, <1>0, SuspendInspectEffect DEF KindInv, ThenInv, Fencing, Turns, Resumes,
       Checkpointing, Cloning
<1>14. CASE Snapshot(o)
    BY <1>14, <1>0, SnapshotEffect DEF KindInv, ThenInv, Fencing, Turns, Resumes, Checkpointing, Cloning
<1>15. CASE ApproveScan(o)
    BY <1>15, <1>0, ApproveScanEffect DEF KindInv, ThenInv, Fencing, Turns, Resumes, Checkpointing,
       Cloning
<1>16. CASE DeleteRow(o)
    BY <1>16, <1>0, DeleteRowEffect DEF KindInv, ThenInv, Fencing, Turns, Resumes, Checkpointing,
       Cloning
<1>17. CASE ForkInspect(o)
    BY <1>17, <1>0, ForkInspectEffect DEF KindInv, ThenInv, Fencing, Turns, Resumes, Checkpointing,
       Cloning
<1>18. CASE ForkFence(o)
    BY <1>18, <1>0, ForkFenceEffect DEF KindInv, ThenInv, Fencing, Turns, Resumes, Checkpointing,
       Cloning
<1>19. CASE ForkHead(o)
    BY <1>19, <1>0, ForkHeadEffect DEF KindInv, ThenInv, Fencing, Turns, Resumes, Checkpointing, Cloning
<1>20. CASE AwaitMinted(o)
    BY <1>20, <1>0, AwaitMintedEffect DEF KindInv, ThenInv, Fencing, Turns, Resumes, Checkpointing,
       Cloning
<1>21. CASE Checkpoint(o)
    BY <1>21, <1>0, CheckpointEffect DEF KindInv, ThenInv, Fencing, Turns, Resumes, Checkpointing,
       Cloning
<1>22. CASE RequireSnapshot(o)
    BY <1>22, <1>0, RequireSnapshotEffect DEF KindInv, ThenInv, Fencing, Turns, Resumes,
       Checkpointing, Cloning
<1>23. CASE TagActor(o)
    BY <1>23, <1>0, TagActorEffect DEF KindInv, ThenInv, Fencing, Turns, Resumes, Checkpointing, Cloning
<1>24. CASE CreateChild(o)
    BY <1>24, <1>0, CreateChildEffect DEF KindInv, ThenInv, Fencing, Turns, Resumes, Checkpointing,
       Cloning
<1>25. CASE CopyLog(o)
    BY <1>25, <1>0, CopyLogEffect DEF KindInv, ThenInv, Fencing, Turns, Resumes, Checkpointing, Cloning
<1>26. CASE AbortFork(o)
    BY <1>26, <1>0, AbortForkEffect DEF KindInv, ThenInv, Fencing, Turns, Resumes, Checkpointing,
       Cloning
<1>27. CASE RollbackFork(o)
    BY <1>27, <1>0, RollbackForkEffect DEF KindInv, ThenInv, Fencing, Turns, Resumes,
       Checkpointing, Cloning
<1>28. CASE Repair(o)
    BY <1>28, <1>0, RepairEffect DEF KindInv, ThenInv, Fencing, Turns, Resumes, Checkpointing, Cloning
<1>29. CASE RecordSuspend(o)
    BY <1>29, <1>0, RecordSuspendEffect DEF KindInv, ThenInv, Fencing, Turns, Resumes,
       Checkpointing, Cloning
<1>30. CASE Decide(o)
    BY <1>30, <1>0, DecideEffect DEF KindInv, ThenInv, Fencing, Turns, Resumes, Checkpointing, Cloning
<1>31. CASE ForkRecord(o)
    BY <1>31, <1>0, ForkRecordEffect DEF KindInv, ThenInv, Fencing, Turns, Resumes, Checkpointing,
       Cloning
<1>32. CASE BeginCheckpoint(o)
    BY <1>32, <1>0, BeginCheckpointEffect DEF KindInv, ThenInv, Fencing, Turns, Resumes,
       Checkpointing, Cloning
<1>33. CASE EndHarnesses(o)
    BY <1>33, <1>0, EndHarnessesEffect DEF KindInv, ThenInv, Fencing, Turns, Resumes,
       Checkpointing, Cloning
<1>34. CASE TurnStep(o)
    BY <1>34, <1>0, TurnEffect DEF KindInv, ThenInv, Fencing, Turns, Resumes, Checkpointing,
       Cloning, TurnPCs
<1> QED
    BY <1>1, <1>2, <1>3, <1>4, <1>5, <1>6, <1>7, <1>8, <1>9, <1>10, <1>11, <1>12,
       <1>13, <1>14, <1>15, <1>16, <1>17, <1>18, <1>19, <1>20, <1>21, <1>22, <1>23,
       <1>24, <1>25, <1>26, <1>27, <1>28, <1>29, <1>30, <1>31, <1>32, <1>33, <1>34
    DEF OpStep, ForkStep

(* So the mark stays with its call.                                        *)
LEMMA HoldingKeepsMark ==
    ASSUME ShapeInv, MarkInv, NEW o \in Ops, Moves(o), Holding(o)
    PROVE  MarkInv'
<1>0. mark \in [Hosts -> Ops \union {None}] /\ None \notin Ops /\ \A t \in Ops : Host(t) \in Hosts
    BY PlacementAssumption DEF ShapeInv, Types, Host
<1>1. \A t \in Ops \ {o} : Marked(t)' <=> Marked(t)
    BY DEF Moves, Same, Marked
<1>2. ASSUME NEW t \in Ops, Marked(t)' PROVE mark'[Host(t)] = t
    BY <1>0, <1>1, <1>2 DEF MarkInv, Holding
<1>3. ASSUME NEW t \in Ops, NEW h \in Hosts, mark'[h] = t
      PROVE  Host(t) = h /\ (Marked(t)' \/ op'[t].pc \in {"unwind", "abort"})
    <2>1. CASE t = o
        BY <1>0, <1>3, <2>1 DEF MarkInv, Holding
    <2>2. CASE t # o
        <3>1. mark[h] = t
            BY <1>0, <1>3, <2>2 DEF Holding
        <3>2. Host(t) = h /\ (Marked(t) \/ op[t].pc \in {"unwind", "abort"})
            BY <3>1 DEF MarkInv
        <3>3. op'[t].pc = op[t].pc
            BY <2>2 DEF Moves, Same
        <3> QED
            BY <1>1, <2>2, <3>2, <3>3
    <2> QED
        BY <2>1, <2>2
<1> QED
    BY <1>2, <1>3 DEF MarkInv, Host

(* The calls that hold a host's guard, in number.                          *)
LEMMA ActiveFinite ==
    ASSUME NEW h, NEW k
    PROVE  IsFiniteSet(Active(h, k)) /\ Cardinality(Active(h, k)) \in Nat
           /\ Cardinality(Active(h, k)) <= Cardinality(Ops)
<1>1. IsFiniteSet(Ops) /\ Active(h, k) \subseteq Ops
    BY PlacementAssumption DEF Active
<1> QED
    BY <1>1, FS_Subset, FS_CardinalityType

(* What a guard's entry holds.                                             *)
LEMMA GuardEntry ==
    ASSUME ShapeInv, NEW h \in Hosts
    PROVE  /\ guard[h] \in GuardType /\ guard[h].operation \in BOOLEAN
           /\ guard[h].readers \in Int /\ guard[h].deleting \in BOOLEAN
<1>1. guard[h] \in GuardType
    BY DEF ShapeInv, Types
<1> QED
    BY <1>1 DEF GuardType

(* A release is of a hold that is there.                                   *)
LEMMA ReleaseEntry ==
    ASSUME NEW entry \in GuardType, NEW X, NEW Y, NEW Z, NEW k \in {"operation", "read", "delete"},
           IsFiniteSet(X), IsFiniteSet(Y), IsFiniteSet(Z), EntryInv(entry, X, Y, Z), NEW o,
           o \in (IF k = "operation" THEN X ELSE IF k = "read" THEN Y ELSE Z)
    PROVE  EntryInv(Release(entry, k),
                    IF k = "operation" THEN X \ {o} ELSE X,
                    IF k = "read" THEN Y \ {o} ELSE Y,
                    IF k = "delete" THEN Z \ {o} ELSE Z)
<1>0. entry.operation \in BOOLEAN /\ entry.readers \in Int /\ entry.deleting \in BOOLEAN
    BY DEF GuardType
<1>1. \A S : IsFiniteSet(S) /\ o \in S =>
            Cardinality(S) \in Nat /\ Cardinality(S) # 0 /\ Cardinality(S \ {o}) = Cardinality(S) - 1
    BY FS_RemoveElement, FS_CardinalityType, FS_EmptySet
<1>2. CASE k = "operation"
    <2>1. /\ Release(entry, k).operation = FALSE /\ Release(entry, k).readers = entry.readers
          /\ Release(entry, k).deleting = entry.deleting
        BY <1>2 DEF GuardType, Release
    <2>2. Cardinality(X) # 0 /\ Cardinality(X \ {o}) = Cardinality(X) - 1
        BY <1>1, <1>2
    <2>3. entry.operation /\ Cardinality(X) = 1
        BY <1>0, <2>2 DEF EntryInv
    <2> QED
        BY <1>2, <2>1, <2>2, <2>3 DEF EntryInv
<1>3. CASE k = "read"
    <2>1. /\ Release(entry, k).operation = entry.operation
          /\ Release(entry, k).readers = entry.readers - 1
          /\ Release(entry, k).deleting = entry.deleting
        BY <1>3 DEF GuardType, Release
    <2>2. Cardinality(Y) # 0 /\ Cardinality(Y \ {o}) = Cardinality(Y) - 1
        BY <1>1, <1>3
    <2>3. Cardinality(Y) = entry.readers /\ ~entry.deleting
        BY <1>0, <2>2 DEF EntryInv
    <2> QED
        BY <1>3, <2>1, <2>2, <2>3 DEF EntryInv
<1>4. CASE k = "delete"
    <2>1. /\ Release(entry, k).operation = entry.operation
          /\ Release(entry, k).readers = entry.readers
          /\ Release(entry, k).deleting = FALSE
        BY <1>4 DEF GuardType, Release
    <2>2. Cardinality(Z) # 0 /\ Cardinality(Z \ {o}) = Cardinality(Z) - 1
        BY <1>1, <1>4
    <2>3. entry.deleting /\ Cardinality(Z) = 1
        BY <1>0, <2>2 DEF EntryInv
    <2> QED
        BY <1>4, <2>1, <2>2, <2>3 DEF EntryInv
<1> QED
    BY <1>2, <1>3, <1>4

(* An admission is of a hold that the others allow.                        *)
LEMMA AcquireEntry ==
    ASSUME NEW entry \in GuardType, NEW X, NEW Y, NEW Z, NEW k \in {"operation", "read", "delete"},
           IsFiniteSet(X), IsFiniteSet(Y), IsFiniteSet(Z), EntryInv(entry, X, Y, Z), NEW o,
           o \notin X, o \notin Y, o \notin Z, CanAcquire(entry, k)
    PROVE  EntryInv(Acquire(entry, k),
                    IF k = "operation" THEN X \union {o} ELSE X,
                    IF k = "read" THEN Y \union {o} ELSE Y,
                    IF k = "delete" THEN Z \union {o} ELSE Z)
<1>0. entry.operation \in BOOLEAN /\ entry.readers \in Int /\ entry.deleting \in BOOLEAN
    BY DEF GuardType
<1>1. \A S : IsFiniteSet(S) /\ o \notin S =>
            Cardinality(S) \in Nat /\ Cardinality(S \union {o}) = Cardinality(S) + 1
    BY FS_AddElement, FS_CardinalityType
<1>2. CASE k = "operation"
    <2>1. /\ Acquire(entry, k).operation = TRUE /\ Acquire(entry, k).readers = entry.readers
          /\ Acquire(entry, k).deleting = entry.deleting
        BY <1>2 DEF GuardType, Acquire
    <2>2. Cardinality(X \union {o}) = Cardinality(X) + 1
        BY <1>1
    <2>3. ~entry.operation /\ ~entry.deleting /\ Cardinality(X) = 0
        BY <1>0, <1>2 DEF EntryInv, CanAcquire
    <2> QED
        BY <1>2, <2>1, <2>2, <2>3 DEF EntryInv
<1>3. CASE k = "read"
    <2>1. /\ Acquire(entry, k).operation = entry.operation
          /\ Acquire(entry, k).readers = entry.readers + 1
          /\ Acquire(entry, k).deleting = entry.deleting
        BY <1>3 DEF GuardType, Acquire
    <2>2. Cardinality(Y \union {o}) = Cardinality(Y) + 1
        BY <1>1
    <2>3. Cardinality(Y) = entry.readers /\ ~entry.deleting
        BY <1>0, <1>3 DEF EntryInv, CanAcquire
    <2> QED
        BY <1>3, <2>1, <2>2, <2>3 DEF EntryInv
<1>4. CASE k = "delete"
    <2>1. /\ Acquire(entry, k).operation = entry.operation
          /\ Acquire(entry, k).readers = entry.readers
          /\ Acquire(entry, k).deleting = TRUE
        BY <1>4 DEF GuardType, Acquire
    <2>2. Cardinality(Z \union {o}) = Cardinality(Z) + 1
        BY <1>1
    <2>3. ~entry.operation /\ entry.readers = 0 /\ Cardinality(Z) = 0
        BY <1>0, <1>4 DEF EntryInv, CanAcquire
    <2> QED
        BY <1>4, <2>1, <2>2, <2>3 DEF EntryInv
<1> QED
    BY <1>2, <1>3, <1>4

(* The kinds of hold.                                                      *)
LEMMA GuardKinds == \A kind : GuardKind(kind) \in {"operation", "read", "delete"}
BY DEF GuardKind

(* Only the releases touch the guard.                                      *)
LEMMA StepGuard ==
    ASSUME ShapeInv, NEW o \in Ops, OpStep(o), ~Unwind(o)
    PROVE  guard' = guard
<1>1. CASE Unwind(o)
    BY <1>1
<1>2. CASE Mark(o)
    BY <1>2, MarkEffect
<1>3. CASE FenceMint(o)
    BY <1>3, FenceMintEffect
<1>4. CASE FenceHead(o)
    BY <1>4, FenceHeadEffect
<1>5. CASE ExecInspect(o)
    BY <1>5, ExecInspectEffect
<1>6. CASE ResumeInspect(o)
    BY <1>6, ResumeInspectEffect
<1>7. CASE Gate(o)
    BY <1>7, GateEffect
<1>8. CASE Create(o)
    BY <1>8, CreateEffect
<1>9. CASE OpenHarness(o)
    BY <1>9, OpenHarnessEffect
<1>10. CASE CheckSuperseded(o)
    BY <1>10, CheckSupersededEffect
<1>11. CASE HandoffInspect(o)
    BY <1>11, HandoffInspectEffect
<1>12. CASE CloseInvocation(o)
    BY <1>12, CloseInvocationEffect
<1>13. CASE SuspendInspect(o)
    BY <1>13, SuspendInspectEffect
<1>14. CASE Snapshot(o)
    BY <1>14, SnapshotEffect
<1>15. CASE ApproveScan(o)
    BY <1>15, ApproveScanEffect
<1>16. CASE DeleteRow(o)
    BY <1>16, DeleteRowEffect
<1>17. CASE ForkInspect(o)
    BY <1>17, ForkInspectEffect
<1>18. CASE ForkFence(o)
    BY <1>18, ForkFenceEffect
<1>19. CASE ForkHead(o)
    BY <1>19, ForkHeadEffect
<1>20. CASE AwaitMinted(o)
    BY <1>20, AwaitMintedEffect
<1>21. CASE Checkpoint(o)
    BY <1>21, CheckpointEffect
<1>22. CASE RequireSnapshot(o)
    BY <1>22, RequireSnapshotEffect
<1>23. CASE TagActor(o)
    BY <1>23, TagActorEffect
<1>24. CASE CreateChild(o)
    BY <1>24, CreateChildEffect
<1>25. CASE CopyLog(o)
    BY <1>25, CopyLogEffect
<1>26. CASE AbortFork(o)
    BY <1>26, AbortForkEffect
<1>27. CASE RollbackFork(o)
    BY <1>27, RollbackForkEffect
<1>28. CASE Repair(o)
    BY <1>28, RepairEffect
<1>29. CASE RecordSuspend(o)
    BY <1>29, RecordSuspendEffect
<1>30. CASE Decide(o)
    BY <1>30, DecideEffect
<1>31. CASE ForkRecord(o)
    BY <1>31, ForkRecordEffect
<1>32. CASE BeginCheckpoint(o)
    BY <1>32, BeginCheckpointEffect
<1>33. CASE EndHarnesses(o)
    BY <1>33, EndHarnessesEffect
<1>34. CASE TurnStep(o)
    BY <1>34, TurnEffect
<1> QED
    BY <1>1, <1>2, <1>3, <1>4, <1>5, <1>6, <1>7, <1>8, <1>9, <1>10, <1>11, <1>12,
       <1>13, <1>14, <1>15, <1>16, <1>17, <1>18, <1>19, <1>20, <1>21, <1>22, <1>23,
       <1>24, <1>25, <1>26, <1>27, <1>28, <1>29, <1>30, <1>31, <1>32, <1>33, <1>34
    DEF OpStep, ForkStep

(* A step that changes no hold.                                            *)
LEMMA QuietGuard ==
    ASSUME GuardInv, guard' = guard,
           \A t \in Ops : /\ op'[t].kind = op[t].kind
                          /\ op'[t].pc \in {"idle", "done"} <=> op[t].pc \in {"idle", "done"}
    PROVE  GuardInv'
<1>1. \A h, k : Active(h, k)' = Active(h, k)
    BY DEF Active, Host
<1> QED
    BY <1>1 DEF GuardInv

(* The guard of the host a call is made to.                                *)
LEMMA GuardChange ==
    ASSUME ShapeInv, GuardInv, NEW o \in Ops, NEW e,
           guard' = [guard EXCEPT ![Host(o)] = e], NEW k \in {"operation", "read", "delete"},
           \A h, j : h # Host(o) \/ j # k => Active(h, j)' = Active(h, j),
           EntryInv(e, Active(Host(o), "operation")', Active(Host(o), "read")',
                       Active(Host(o), "delete")')
    PROVE  GuardInv'
<1>1. guard \in [Hosts -> GuardType] /\ Host(o) \in Hosts
    BY PlacementAssumption DEF ShapeInv, Types, Host
<1>2. guard'[Host(o)] = e /\ \A h \in Hosts \ {Host(o)} : guard'[h] = guard[h]
    BY <1>1
<1>3. ASSUME NEW h \in Hosts
      PROVE  EntryInv(guard'[h], Active(h, "operation")', Active(h, "read")', Active(h, "delete")')
    <2>1. CASE h = Host(o)
        BY <1>2, <2>1
    <2>2. CASE h # Host(o)
        <3>1. guard'[h] = guard[h] /\ \A j : Active(h, j)' = Active(h, j)
            BY <1>2, <2>2
        <3>2. EntryInv(guard[h], Active(h, "operation"), Active(h, "read"), Active(h, "delete"))
            BY DEF GuardInv
        <3> QED
            BY <3>1, <3>2
    <2> QED
        BY <2>1, <2>2
<1> QED
    BY <1>3 DEF GuardInv, EntryInv, Host

(* The deferred releases take the call, and its hold, from the host.       *)
LEMMA UnwindGuard ==
    ASSUME ShapeInv, GuardInv, NEW o \in Ops, Unwind(o)
    PROVE  GuardInv'
<1> DEFINE k == GuardKind(op[o].kind)
           h == Host(o)
<1>0. k \in {"operation", "read", "delete"} /\ h \in Hosts
    BY GuardKinds, PlacementAssumption DEF Host
<1>1. /\ op[o].pc = "unwind" /\ op'[o].pc = "done" /\ op'[o].kind = op[o].kind
      /\ \A t \in Ops \ {o} : op'[t] = op[t]
      /\ guard' = [guard EXCEPT ![h] = Release(@, k)]
    BY UnwindEffect DEF Alone, Keeping
<1>2. \A g, j : Active(g, j)' = IF g = h /\ j = k THEN Active(g, j) \ {o} ELSE Active(g, j)
    <2>1. ASSUME NEW g, NEW j, NEW t \in Ops
          PROVE  t \in Active(g, j)' <=> (t \in Active(g, j) /\ (t = o => g # h \/ j # k))
        <3>1. CASE t = o
            BY <1>1, <3>1 DEF Active, Host
        <3>2. CASE t # o
            BY <1>1, <3>2 DEF Active, Host
        <3> QED
            BY <3>1, <3>2
    <2>2. \A g, j : Active(g, j) \subseteq Ops /\ Active(g, j)' \subseteq Ops
        BY DEF Active
    <2>3. \A g, j : o \in Active(g, j) => g = h /\ j = k
        BY DEF Active
    <2> QED
        BY <2>1, <2>2, <2>3
<1>3. o \in Active(h, k)
    BY <1>1 DEF Active
<1>4. guard' = [guard EXCEPT ![h] = Release(guard[h], k)]
    BY <1>0, <1>1
<1>5. EntryInv(guard[h], Active(h, "operation"), Active(h, "read"), Active(h, "delete"))
    BY <1>0 DEF GuardInv
<1>6. guard[h] \in GuardType
    BY <1>0, GuardEntry
<1>7. EntryInv(Release(guard[h], k),
               IF k = "operation" THEN Active(h, "operation") \ {o} ELSE Active(h, "operation"),
               IF k = "read" THEN Active(h, "read") \ {o} ELSE Active(h, "read"),
               IF k = "delete" THEN Active(h, "delete") \ {o} ELSE Active(h, "delete"))
    <2>1. o \in (IF k = "operation" THEN Active(h, "operation")
                 ELSE IF k = "read" THEN Active(h, "read") ELSE Active(h, "delete"))
        BY <1>0, <1>3
    <2> HIDE DEF k, h
    <2> QED
        BY <1>0, <1>5, <1>6, <2>1, ActiveFinite, ReleaseEntry
<1> HIDE DEF k, h
<1>8. EntryInv(Release(guard[h], k), Active(h, "operation")', Active(h, "read")', Active(h, "delete")')
    <2>1. \A j : Active(h, j)' = IF j = k THEN Active(h, j) \ {o} ELSE Active(h, j)
        BY <1>2
    <2>2. /\ Active(h, "operation")' = (IF k = "operation" THEN Active(h, "operation") \ {o}
                                                          ELSE Active(h, "operation"))
          /\ Active(h, "read")' = (IF k = "read" THEN Active(h, "read") \ {o} ELSE Active(h, "read"))
          /\ Active(h, "delete")' = (IF k = "delete" THEN Active(h, "delete") \ {o}
                                                    ELSE Active(h, "delete"))
        BY <2>1
    <2> QED
        BY <1>7, <2>2
<1>9. \A g, j : g # h \/ j # k => Active(g, j)' = Active(g, j)
    BY <1>2
<1> QED
    BY <1>0, <1>4, <1>8, <1>9, GuardChange DEF h

(* An admission adds the call and its hold.                                *)
LEMMA BeginGuard ==
    ASSUME ShapeInv, GuardInv, NEW o \in Ops, NEW kind \in OpKinds, Begin(o, kind)
    PROVE  GuardInv'
<1> DEFINE k == GuardKind(kind)
           h == Host(o)
<1>0. k \in {"operation", "read", "delete"} /\ h \in Hosts
    BY GuardKinds, PlacementAssumption DEF Host
<1>1. /\ op[o].pc = "idle" /\ op'[o].kind = kind /\ \A t \in Ops \ {o} : op'[t] = op[t]
    BY BeginEffect DEF Alone
<1>2. CASE UNCHANGED guard /\ op'[o].pc = "done"
    <2>1. \A g, j : Active(g, j)' = Active(g, j)
        BY <1>1, <1>2 DEF Active, Host
    <2> QED
        BY <1>2, <2>1 DEF GuardInv
<1>3. CASE /\ CanAcquire(guard[h], k)
           /\ guard' = [guard EXCEPT ![h] = Acquire(@, k)]
           /\ op'[o].pc \in {"mark", "delete", "inspect"}
    <2>2. \A g, j : Active(g, j)' = IF g = h /\ j = k THEN Active(g, j) \union {o} ELSE Active(g, j)
        <3>1. ASSUME NEW g, NEW j, NEW t \in Ops
              PROVE  t \in Active(g, j)' <=> (t \in Active(g, j) \/ (t = o /\ g = h /\ j = k))
            <4>1. CASE t = o
                BY <1>1, <1>3, <4>1 DEF Active, Host
            <4>2. CASE t # o
                BY <1>1, <4>2 DEF Active, Host
            <4> QED
                BY <4>1, <4>2
        <3>2. \A g, j : Active(g, j) \subseteq Ops /\ Active(g, j)' \subseteq Ops
            BY DEF Active
        <3> QED
            BY <3>1, <3>2
    <2>3. \A g, j : o \notin Active(g, j)
        BY <1>1 DEF Active
    <2>4. guard' = [guard EXCEPT ![h] = Acquire(guard[h], k)]
        BY <1>0, <1>3
    <2>5. EntryInv(guard[h], Active(h, "operation"), Active(h, "read"), Active(h, "delete"))
        BY <1>0 DEF GuardInv
    <2>6. guard[h] \in GuardType /\ CanAcquire(guard[h], k)
        BY <1>0, <1>3, GuardEntry
    <2> HIDE DEF k, h
    <2>7. EntryInv(Acquire(guard[h], k),
                   IF k = "operation" THEN Active(h, "operation") \union {o} ELSE Active(h,
                         "operation"),
                   IF k = "read" THEN Active(h, "read") \union {o} ELSE Active(h, "read"),
                   IF k = "delete" THEN Active(h, "delete") \union {o} ELSE Active(h, "delete"))
        BY <1>0, <2>3, <2>5, <2>6, ActiveFinite, AcquireEntry
    <2>8. EntryInv(Acquire(guard[h], k), Active(h, "operation")', Active(h, "read")', Active(h,
          "delete")')
        <3>1. \A j : Active(h, j)' = IF j = k THEN Active(h, j) \union {o} ELSE Active(h, j)
            BY <2>2
        <3>2. /\ Active(h, "operation")' = (IF k = "operation" THEN Active(h, "operation") \union {o}
                                                              ELSE Active(h, "operation"))
              /\ Active(h, "read")' = (IF k = "read" THEN Active(h, "read") \union {o}
                                                    ELSE Active(h, "read"))
              /\ Active(h, "delete")' = (IF k = "delete" THEN Active(h, "delete") \union {o}
                                                        ELSE Active(h, "delete"))
            BY <3>1
        <3> QED
            BY <2>7, <3>2
    <2>9. \A g, j : g # h \/ j # k => Active(g, j)' = Active(g, j)
        BY <2>2
    <2> QED
        BY <1>0, <2>4, <2>8, <2>9, GuardChange DEF h
<1> QED
    BY <1>2, <1>3, BeginEffect

(* A crash empties the host.                                               *)
LEMMA CrashHolds ==
    ASSUME ShapeInv, MarkInv, GuardInv, NEW c \in Hosts, Crash(c)
    PROVE  MarkInv' /\ GuardInv'
<1>0. /\ guard \in [Hosts -> GuardType] /\ mark \in [Hosts -> Ops \union {None}]
      /\ None \notin Ops /\ \A t \in Ops : Host(t) \in Hosts
    BY PlacementAssumption DEF ShapeInv, Types, Host
<1>1. /\ guard' = [guard EXCEPT ![c] = FreeGuard] /\ mark' = [mark EXCEPT ![c] = None]
      /\ \A t \in Ops : IF Host(t) = c /\ op[t].pc \notin {"idle", "done"}
                         THEN op'[t].pc = "done" /\ op'[t].kind = op[t].kind ELSE op'[t] = op[t]
    BY CrashEffect DEF Crashed
<1>2. ASSUME NEW h \in Hosts
      PROVE  EntryInv(guard'[h], Active(h, "operation")', Active(h, "read")', Active(h, "delete")')
    <2>1. CASE h = c
        <3>1. \A k : Active(h, k)' = {}
            BY <1>1, <2>1 DEF Active, Host
        <3>2. guard'[h] = FreeGuard /\ Cardinality({}) = 0
            BY <1>0, <1>1, <2>1, FS_EmptySet
        <3> QED
            BY <3>1, <3>2 DEF EntryInv, FreeGuard
    <2>2. CASE h # c
        <3>1. \A k : Active(h, k)' = Active(h, k)
            BY <1>1, <2>2 DEF Active, Host
        <3>2. guard'[h] = guard[h]
            BY <1>0, <1>1, <2>2
        <3>3. EntryInv(guard[h], Active(h, "operation"), Active(h, "read"), Active(h, "delete"))
            BY DEF GuardInv
        <3> QED
            BY <3>1, <3>2, <3>3
    <2> QED
        BY <2>1, <2>2
<1>3. ASSUME NEW t \in Ops
      PROVE  /\ Marked(t)' => mark'[Host(t)] = t
             /\ \A h \in Hosts : mark'[h] = t =>
                    Host(t) = h /\ (Marked(t)' \/ op'[t].pc \in {"unwind", "abort"})
    <2>1. /\ Marked(t) => mark[Host(t)] = t
          /\ \A h \in Hosts : mark[h] = t =>
                    Host(t) = h /\ (Marked(t) \/ op[t].pc \in {"unwind", "abort"})
        BY DEF MarkInv
    <2>2. Marked(t)' => Host(t) # c /\ Marked(t)
        BY <1>1 DEF Marked, MarkedSteps
    <2>3. \A h \in Hosts : h # c => mark'[h] = mark[h]
        BY <1>0, <1>1
    <2>4. mark'[c] = None
        BY <1>0, <1>1
    <2>5. Host(t) # c => op'[t] = op[t]
        BY <1>1
    <2>6. Host(t) # c => (Marked(t)' <=> Marked(t))
        BY <2>5 DEF Marked
    <2> QED
        BY <1>0, <2>1, <2>2, <2>3, <2>4, <2>5, <2>6
<1> QED
    BY <1>2, <1>3 DEF GuardInv, MarkInv, Host

(* Nothing is held at first.                                               *)
LEMMA InitHolds == Init => HoldsInv
<1> SUFFICES ASSUME Init PROVE HoldsInv
    OBVIOUS
<1>1. \A o \in Ops : op[o].pc = "idle"
    BY DEF Init, IdleOp
<1>2. MarkInv
    BY <1>1, PlacementAssumption DEF MarkInv, Marked, MarkedSteps, Init
<1>3. \A h, k : Active(h, k) = {}
    BY <1>1 DEF Active
<1>4. Cardinality({}) = 0
    BY FS_EmptySet
<1>5. \A h \in Hosts : guard[h] = FreeGuard
    BY DEF Init
<1>6. EntryInv(FreeGuard, {}, {}, {})
    BY <1>4 DEF EntryInv, FreeGuard
<1>7. GuardInv
    BY <1>3, <1>5, <1>6 DEF GuardInv
<1> QED
    BY <1>2, <1>7 DEF HoldsInv

(* Every step keeps guard and mark with the calls that hold them.          *)
LEMMA NextHolds == ShapeInv /\ HoldsInv /\ [Next]_vars => HoldsInv'
<1> SUFFICES ASSUME ShapeInv, HoldsInv, [Next]_vars PROVE HoldsInv'
    OBVIOUS
<1>0. MarkInv /\ GuardInv
    BY DEF HoldsInv
<1>1. ASSUME NEW o \in Ops, OpStep(o) PROVE HoldsInv'
    <2>1. Moves(o) /\ Holding(o)
        BY <1>0, <1>1, StepMoves, StepHolding
    <2>2. MarkInv'
        BY <1>0, <2>1, HoldingKeepsMark
    <2>3. CASE Unwind(o)
        BY <1>0, <2>2, <2>3, UnwindGuard DEF HoldsInv
    <2>4. CASE ~Unwind(o)
        <3>1. guard' = guard /\ op'[o].pc \notin {"idle", "done"}
            BY <1>1, <2>1, <2>4, StepGuard, StepMoves DEF Moves
        <3>2. GuardInv'
            BY <1>0, <2>1, <3>1, QuietGuard DEF Moves, Same
        <3> QED
            BY <2>2, <3>2 DEF HoldsInv
    <2> QED
        BY <2>3, <2>4
<1>2. ASSUME NEW o \in Ops, NEW kind \in OpKinds, Begin(o, kind) PROVE HoldsInv'
    <2>1. GuardInv'
        BY <1>0, <1>2, BeginGuard
    <2>2. /\ mark' = mark /\ op[o].pc = "idle"
          /\ op'[o].pc \in {"mark", "delete", "inspect", "done"}
          /\ \A t \in Ops \ {o} : op'[t] = op[t]
        BY <1>2, BeginEffect DEF Alone
    <2>3. ~Marked(o) /\ ~Marked(o)' /\ \A t \in Ops \ {o} : Marked(t)' <=> Marked(t)
        BY <2>2 DEF Marked, MarkedSteps
    <2>4. \A h \in Hosts : mark[h] # o
        BY <1>0, <2>2, <2>3 DEF MarkInv
    <2>5. MarkInv'
        BY <1>0, <2>2, <2>3, <2>4 DEF MarkInv, Host
    <2> QED
        BY <2>1, <2>5 DEF HoldsInv
<1>3. ASSUME NEW c \in Hosts, Crash(c) PROVE HoldsInv'
    BY <1>0, <1>3, CrashHolds DEF HoldsInv
<1>4. CASE UNCHANGED vars
    <2>1. \A h, k : Active(h, k)' = Active(h, k)
        BY <1>4 DEF vars, Active, Host
    <2>2. \A o : Marked(o)' <=> Marked(o)
        BY <1>4 DEF vars, Marked
    <2> QED
        BY <1>0, <1>4, <2>1, <2>2 DEF vars, HoldsInv, MarkInv, GuardInv, Host
<1> QED
    BY <1>1, <1>2, <1>3, <1>4 DEF Next, Quiescent

(* Guard and mark in every reachable state.                                *)
LEMMA HoldsInvariant == Spec => [](ShapeInv /\ HoldsInv)
<1>1. Init => ShapeInv /\ HoldsInv
    BY InitShape, InitHolds
<1>2. (ShapeInv /\ HoldsInv) /\ [Next]_vars => (ShapeInv /\ HoldsInv)'
    BY NextShape, NextHolds
<1> QED
    BY <1>1, <1>2, PTL DEF Spec

(* Every variable of Placement keeps its type, and no number a call        *)
(* remembers is beyond what the log, the fence or the fan-out allow.       *)
THEOREM PlacementTypes == Spec => []TypeOK
<1>1. ASSUME ShapeInv, HoldsInv PROVE TypeOK
    <2>1. /\ store \in Store /\ image \in Seq(SUBSET Nat) /\ crashes \in 0 .. MaxCrashes
        BY <1>1 DEF ShapeInv, Types
    <2>2. actor \in [state : ComputeState, snap : 0 .. Len(image)]
        <3>1. actor \in [state : ComputeState, snap : Nat] /\ actor.snap = Len(image)
            BY <1>1 DEF ShapeInv, Types
        <3>2. Len(image) \in 0 .. Len(image)
            BY <2>1
        <3> QED
            BY <3>1, <3>2
    <2>3. ASSUME NEW h \in Hosts
          PROVE  /\ mark[h] \in Ops \union {None}
                 /\ guard[h] \in [operation : BOOLEAN, readers : 0 .. Cardinality(Ops),
                                  deleting : BOOLEAN]
        <3>1. mark[h] \in Ops \union {None}
            BY <1>1 DEF ShapeInv, Types
        <3>2. guard[h] \in GuardType
            BY <1>1, GuardEntry
        <3>3. Cardinality(Active(h, "read")) = guard[h].readers
            BY <1>1 DEF HoldsInv, GuardInv, EntryInv
        <3>4. Cardinality(Ops) \in Nat
            BY PlacementAssumption, FS_CardinalityType
        <3>5. guard[h].readers \in 0 .. Cardinality(Ops)
            BY <3>3, <3>4, ActiveFinite
        <3> QED
            BY <3>1, <3>2, <3>5 DEF GuardType
    <2>4. ASSUME NEW o \in Ops
          PROVE  /\ DOMAIN op[o] = DOMAIN IdleOp
                 /\ op[o].kind \in OpKinds \union {"none"}
                 /\ op[o].at \in 0 .. HeadSeq(store)
                 /\ op[o].fence \in 0 .. store.fence
                 /\ op[o].open \subseteq Ops
                 /\ Len(op[o].kids) <= Fanout
        <3>1. op[o] \in OpType /\ Within(op[o]) /\ KidsInv(op[o])
            BY <1>1 DEF ShapeInv, Good
        <3>2. DOMAIN op[o] = DOMAIN IdleOp
            BY <3>1 DEF OpType, IdleOp
        <3>3. op[o].kind \in OpKinds \union {"none"} /\ op[o].open \subseteq Ops
            BY <3>1 DEF OpType
        <3>4. /\ op[o].at \in Nat /\ op[o].fence \in Nat /\ store.fence \in Nat
              /\ HeadSeq(store) \in Nat
            BY <1>1, Numbers
        <3>5. op[o].at \in 0 .. HeadSeq(store) /\ op[o].fence \in 0 .. store.fence
            BY <3>1, <3>4 DEF Within
        <3> QED
            BY <3>1, <3>2, <3>3, <3>5 DEF KidsInv
    <2> QED
        BY <2>1, <2>2, <2>3, <2>4 DEF TypeOK
<1> QED
    BY <1>1, HoldsInvariant, PTL

(* The session guard admits what acquire promises and no hold outlives its *)
(* call, on whatever path the call returns or its host crashes, for any    *)
(* number of calls: one turn or lifecycle operation at a time, forks       *)
(* beside it, nothing beside a deletion, and the checkpoint mark with the  *)
(* one call that is inside its marked section.                             *)
THEOREM HoldsAreExact == Spec => []HoldsMatchCalls
<1>1. ASSUME ShapeInv, HoldsInv PROVE HoldsMatchCalls
    <2> SUFFICES ASSUME NEW h \in Hosts
                 PROVE  /\ Cardinality(Active(h, "operation")) = IF guard[h].operation THEN 1 ELSE 0
                        /\ Cardinality(Active(h, "read")) = guard[h].readers
                        /\ Cardinality(Active(h, "delete")) = IF guard[h].deleting THEN 1 ELSE 0
                        /\ guard[h].deleting => ~guard[h].operation /\ guard[h].readers = 0
                        /\ \A o \in Ops : Host(o) = h /\ op[o].pc \in MarkedSteps =>
                                mark[h] = o \/ Tier = "STATELESS"
                        /\ mark[h] # None => op[mark[h]].pc \notin {"idle", "done", "rollback"}
        BY DEF HoldsMatchCalls
    <2>1. EntryInv(guard[h], Active(h, "operation"), Active(h, "read"), Active(h, "delete"))
        BY <1>1 DEF HoldsInv, GuardInv
    <2>2. ASSUME NEW o \in Ops, Host(o) = h, op[o].pc \in MarkedSteps, Tier # "STATELESS"
          PROVE  mark[h] = o
        <3>1. Tier = "MEMORY"
            BY <2>2, PlacementAssumption
        <3> QED
            BY <1>1, <2>2, <3>1 DEF HoldsInv, MarkInv, Marked
    <2>3. ASSUME mark[h] # None PROVE op[mark[h]].pc \notin {"idle", "done", "rollback"}
        <3>1. mark[h] \in Ops
            BY <1>1, <2>3 DEF ShapeInv, Types
        <3>2. Marked(mark[h]) \/ op[mark[h]].pc \in {"unwind", "abort"}
            BY <1>1, <3>1 DEF HoldsInv, MarkInv
        <3> QED
            BY <3>2 DEF Marked, MarkedSteps
    <2> QED
        BY <2>1, <2>2, <2>3 DEF EntryInv
<1> QED
    BY <1>1, HoldsInvariant, PTL

-----------------------------------------------------------------------------
(* Fences *)

(* The one write to the durable state that a step of o may make.           *)
Mints(o) ==
    /\ CheckWritable(store) /\ store' = NewFence(store) /\ op'[o].fence = store'.fence
    /\ op[o].pc \in {"fenceMint", "forkFence"}

Appends(o) ==
    /\ \E kind \in EventKind : Accepted(o, kind)
    /\ op'[o].fence = op[o].fence /\ op[o].fence # 0 /\ ~op[o].late /\ ~op'[o].late
    /\ op[o].pc \in TurnPCs \union {"repair", "decide", "record", "forkRecord"}

Deletes(o) ==
    /\ store.deletion = "ACTIVE" /\ store' = DeleteSession(store)
    /\ op'[o].fence = op[o].fence /\ op'[o].late = op[o].late /\ op[o].pc = "delete"
    /\ op'[o].pc = "unwind" /\ op'[o].result = "ok"

Reads(o) == store' = store /\ op'[o].fence = op[o].fence /\ op'[o].late = op[o].late

(* Every step makes one of them at most.                                   *)
LEMMA StepWrites ==
    ASSUME ShapeInv, NEW o \in Ops, OpStep(o)
    PROVE  Reads(o) \/ Mints(o) \/ Appends(o) \/ Deletes(o)
<1>0. LiveInv(op[o]) /\ FencedInv(op[o])
    BY DEF ShapeInv, Good
<1>00. /\ TurnKindsWritten \subseteq EventKind
       /\ {"SUSPEND", "APPROVAL_REQUEST", "APPROVAL_RESULT"} \subseteq EventKind
    BY DEF TurnKindsWritten, EventKind, LifecycleKinds, ApprovalKinds
<1> USE DEF Keeping, Quits
<1>1. CASE Unwind(o)
    BY <1>1, UnwindEffect DEF Reads
<1>2. CASE Mark(o)
    BY <1>2, MarkEffect DEF Reads
<1>3. CASE FenceMint(o)
    BY <1>3, FenceMintEffect DEF Reads, Mints
<1>4. CASE FenceHead(o)
    BY <1>4, FenceHeadEffect DEF Reads
<1>5. CASE ExecInspect(o)
    BY <1>5, ExecInspectEffect DEF Reads
<1>6. CASE ResumeInspect(o)
    BY <1>6, ResumeInspectEffect DEF Reads
<1>7. CASE Gate(o)
    BY <1>7, GateEffect DEF Reads
<1>8. CASE Create(o)
    BY <1>8, CreateEffect DEF Reads
<1>9. CASE OpenHarness(o)
    BY <1>9, OpenHarnessEffect DEF Reads
<1>10. CASE CheckSuperseded(o)
    BY <1>10, CheckSupersededEffect DEF Reads
<1>11. CASE HandoffInspect(o)
    BY <1>11, HandoffInspectEffect DEF Reads
<1>12. CASE CloseInvocation(o)
    BY <1>12, CloseInvocationEffect DEF Reads
<1>13. CASE SuspendInspect(o)
    BY <1>13, SuspendInspectEffect DEF Reads
<1>14. CASE Snapshot(o)
    BY <1>14, SnapshotEffect DEF Reads
<1>15. CASE ApproveScan(o)
    BY <1>15, ApproveScanEffect DEF Reads
<1>16. CASE DeleteRow(o)
    BY <1>16, DeleteRowEffect DEF Reads, Deletes
<1>17. CASE ForkInspect(o)
    BY <1>17, ForkInspectEffect DEF Reads
<1>18. CASE ForkFence(o)
    BY <1>18, ForkFenceEffect DEF Reads, Mints
<1>19. CASE ForkHead(o)
    BY <1>19, ForkHeadEffect DEF Reads
<1>20. CASE AwaitMinted(o)
    BY <1>20, AwaitMintedEffect DEF Reads
<1>21. CASE Checkpoint(o)
    BY <1>21, CheckpointEffect DEF Reads
<1>22. CASE RequireSnapshot(o)
    BY <1>22, RequireSnapshotEffect DEF Reads
<1>23. CASE TagActor(o)
    BY <1>23, TagActorEffect DEF Reads
<1>24. CASE CreateChild(o)
    BY <1>24, CreateChildEffect DEF Reads
<1>25. CASE CopyLog(o)
    BY <1>25, CopyLogEffect DEF Reads
<1>26. CASE AbortFork(o)
    BY <1>26, AbortForkEffect DEF Reads
<1>27. CASE RollbackFork(o)
    BY <1>27, RollbackForkEffect DEF Reads
<1>28. CASE Repair(o)
    BY <1>28, <1>0, <1>00, RepairEffect DEF Reads, Appends, LiveInv, FencedInv, Checkpointing
<1>29. CASE RecordSuspend(o)
    BY <1>29, <1>0, <1>00, RecordSuspendEffect DEF Reads, Appends, LiveInv, FencedInv, Checkpointing
<1>30. CASE Decide(o)
    BY <1>30, <1>0, <1>00, DecideEffect DEF Reads, Appends, LiveInv, FencedInv, Checkpointing
<1>31. CASE ForkRecord(o)
    BY <1>31, <1>0, <1>00, ForkRecordEffect DEF Reads, Appends, LiveInv, FencedInv, Checkpointing
<1>32. CASE BeginCheckpoint(o)
    BY <1>32, BeginCheckpointEffect DEF Reads
<1>33. CASE EndHarnesses(o)
    BY <1>33, EndHarnessesEffect DEF Reads
<1>34. CASE TurnStep(o)
    <2>1. CASE UNCHANGED store
        BY <1>34, <2>1, TurnEffect DEF Reads
    <2>2. CASE \E kind \in TurnKindsWritten : Accepted(o, kind)
        BY <1>34, <1>0, <1>00, <2>2, TurnEffect DEF Appends, LiveInv, FencedInv, TurnPCs, Streaming
    <2> QED
        BY <1>34, <2>1, <2>2, TurnEffect
<1> QED
    BY <1>1, <1>2, <1>3, <1>4, <1>5, <1>6, <1>7, <1>8, <1>9, <1>10, <1>11, <1>12,
       <1>13, <1>14, <1>15, <1>16, <1>17, <1>18, <1>19, <1>20, <1>21, <1>22, <1>23,
       <1>24, <1>25, <1>26, <1>27, <1>28, <1>29, <1>30, <1>31, <1>32, <1>33, <1>34
    DEF OpStep, ForkStep

(* The records after a write.                                              *)
LEMMA WriteEffect ==
    ASSUME ShapeInv, NEW o \in Ops
    PROVE  /\ Mints(o) => /\ store'.fence = store.fence + 1 /\ store'.recs = store.recs
                          /\ store'.deletion = "ACTIVE" /\ op'[o].fence = store.fence + 1
           /\ \A kind \in EventKind : Accepted(o, kind) =>
                /\ store'.fence = store.fence /\ op[o].fence = store.fence
                /\ store'.recs = Append(store.recs, [kind |-> kind, fence |-> op[o].fence])
                /\ store'.deletion = "ACTIVE"
           /\ Deletes(o) => /\ store'.fence = store.fence + 1 /\ store'.deletion = "PENDING"
                            /\ store'.recs = Append(store.recs, [kind |-> "DELETE",
                                                                 fence |-> store.fence + 1])
<1>1. store \in Store
    BY DEF ShapeInv, Types
<1>2. Mints(o) => /\ store'.fence = store.fence + 1 /\ store'.recs = store.recs
                  /\ store'.deletion = "ACTIVE" /\ op'[o].fence = store.fence + 1
    BY <1>1, MintEffect DEF Mints
<1>3. Deletes(o) => /\ store'.fence = store.fence + 1 /\ store'.deletion = "PENDING"
                    /\ store'.recs = Append(store.recs, [kind |-> "DELETE", fence |-> store.fence + 1])
    BY <1>1, DeleteSessionEffect DEF Deletes
<1> QED
    BY <1>2, <1>3, AcceptedGrows

(* Fences are numbers.                                                     *)
LEMMA FenceNumbers ==
    ASSUME ShapeInv
    PROVE  /\ store.fence \in Nat /\ store.recs \in Seq(Record)
           /\ \A o \in Ops : op[o].fence \in Nat /\ op[o].fence <= store.fence
           /\ \A i \in DOMAIN store.recs : store.recs[i].fence \in Nat
<1>1. store.fence \in Nat /\ store.recs \in Seq(Record)
    BY DEF ShapeInv, Types, Store
<1>2. \A o \in Ops : op[o].fence \in Nat /\ op[o].fence <= store.fence
    BY Numbers DEF ShapeInv, Within
<1>3. \A i \in DOMAIN store.recs : store.recs[i] \in Record
    BY <1>1, ElementOfSeq
<1> QED
    BY <1>1, <1>2, <1>3 DEF Record

(* A step of a call keeps the fences apart.                                *)
LEMMA StepFences ==
    ASSUME ShapeInv, FenceInv, NEW o \in Ops, OpStep(o)
    PROVE  FenceInv'
<1>0. /\ \A t, u \in Ops : op[t].fence = op[u].fence => t = u \/ op[t].fence = 0
      /\ \A i \in DOMAIN store.recs : store.recs[i].fence <= store.fence
      /\ \A t \in Ops : op[t].late => \A i \in DOMAIN store.recs : store.recs[i].fence # op[t].fence
    BY DEF FenceInv, LateTurnWritesNothing
<1>1. \A t \in Ops \ {o} : op'[t].fence = op[t].fence /\ op'[t].late = op[t].late
    BY StepMoves DEF Moves, Same
<1>2. CASE Reads(o)
    <2>1. /\ store' = store
          /\ \A t \in Ops : op'[t].fence = op[t].fence /\ op'[t].late = op[t].late
        BY <1>1, <1>2 DEF Reads
    <2> QED
        BY <1>0, <2>1 DEF FenceInv, LateTurnWritesNothing
<1>3. CASE Mints(o)
    <2>1. /\ store'.fence = store.fence + 1 /\ store'.recs = store.recs
          /\ op'[o].fence = store.fence + 1
        BY <1>3, WriteEffect
    <2>2. /\ \A t \in Ops \ {o} : op'[t].fence # op'[o].fence
          /\ \A i \in DOMAIN store.recs : store.recs[i].fence # op'[o].fence
                                         /\ store.recs[i].fence <= store.fence + 1
        BY <1>0, <1>1, <2>1, FenceNumbers
    <2>3. \A t, u \in Ops : op'[t].fence = op'[u].fence => t = u \/ op'[t].fence = 0
        BY <1>0, <1>1, <2>2
    <2>4. \A t \in Ops : op'[t].late => \A i \in DOMAIN store.recs : store.recs[i].fence # op'[t].fence
        BY <1>0, <1>1, <2>2
    <2> QED
        BY <2>1, <2>2, <2>3, <2>4 DEF FenceInv, LateTurnWritesNothing
<1>4. CASE Appends(o)
    <2>1. PICK kind \in EventKind : Accepted(o, kind)
        BY <1>4 DEF Appends
    <2>2. /\ store'.fence = store.fence /\ op[o].fence = store.fence
          /\ store'.recs = Append(store.recs, [kind |-> kind, fence |-> op[o].fence])
        BY <2>1, WriteEffect
    <2>3. /\ op'[o].fence = op[o].fence /\ op[o].fence # 0 /\ ~op[o].late /\ ~op'[o].late
        BY <1>4 DEF Appends
    <2>4. \A i \in DOMAIN store'.recs :
            \/ i \in DOMAIN store.recs /\ store'.recs[i] = store.recs[i]
            \/ store'.recs[i].fence = op[o].fence
        BY <2>2, FenceNumbers
    <2>5. \A t, u \in Ops : op'[t].fence = op'[u].fence => t = u \/ op'[t].fence = 0
        BY <1>0, <1>1, <2>3
    <2>6. \A i \in DOMAIN store'.recs : store'.recs[i].fence <= store'.fence
        BY <1>0, <2>2, <2>4, FenceNumbers
    <2>7. ASSUME NEW t \in Ops, op'[t].late, NEW i \in DOMAIN store'.recs
          PROVE  store'.recs[i].fence # op'[t].fence
        BY <1>0, <1>1, <2>3, <2>4, <2>7
    <2> QED
        BY <2>5, <2>6, <2>7 DEF FenceInv, LateTurnWritesNothing
<1>5. CASE Deletes(o)
    <2>1. /\ store'.fence = store.fence + 1
          /\ store'.recs = Append(store.recs, [kind |-> "DELETE", fence |-> store.fence + 1])
        BY <1>5, WriteEffect
    <2>2. \A t \in Ops : op'[t].fence = op[t].fence /\ op'[t].late = op[t].late
        BY <1>1, <1>5 DEF Deletes
    <2>4. \A i \in DOMAIN store'.recs :
            \/ i \in DOMAIN store.recs /\ store'.recs[i] = store.recs[i]
            \/ store'.recs[i].fence = store.fence + 1
        BY <2>1, FenceNumbers
    <2>5. \A t, u \in Ops : op'[t].fence = op'[u].fence => t = u \/ op'[t].fence = 0
        BY <1>0, <2>2
    <2>6. \A i \in DOMAIN store'.recs : store'.recs[i].fence <= store'.fence
        BY <1>0, <2>1, <2>4, FenceNumbers
    <2>7. ASSUME NEW t \in Ops, op'[t].late, NEW i \in DOMAIN store'.recs
          PROVE  store'.recs[i].fence # op'[t].fence
        BY <1>0, <2>2, <2>4, <2>7, FenceNumbers
    <2> QED
        BY <2>5, <2>6, <2>7 DEF FenceInv, LateTurnWritesNothing
<1> QED
    BY <1>2, <1>3, <1>4, <1>5, StepWrites

(* A step that mints and writes nothing.                                   *)
LEMMA QuietFences ==
    ASSUME FenceInv, store' = store,
           \A t \in Ops : \/ op'[t].fence = op[t].fence /\ op'[t].late = op[t].late
                          \/ op'[t].fence = 0 /\ ~op'[t].late
    PROVE  FenceInv'
<1>0. /\ \A t, u \in Ops : op[t].fence = op[u].fence => t = u \/ op[t].fence = 0
      /\ \A i \in DOMAIN store.recs : store.recs[i].fence <= store.fence
      /\ \A t \in Ops : op[t].late => \A i \in DOMAIN store.recs : store.recs[i].fence # op[t].fence
    BY DEF FenceInv, LateTurnWritesNothing
<1>1. \A t, u \in Ops : op'[t].fence = op'[u].fence => t = u \/ op'[t].fence = 0
    BY <1>0
<1>2. \A t \in Ops : op'[t].late => \A i \in DOMAIN store.recs : store.recs[i].fence # op'[t].fence
    BY <1>0
<1> QED
    BY <1>0, <1>1, <1>2 DEF FenceInv, LateTurnWritesNothing

(* Every step keeps the fences apart.                                      *)
LEMMA NextFences == ShapeInv /\ FenceInv /\ [Next]_vars => FenceInv'
<1> SUFFICES ASSUME ShapeInv, FenceInv, [Next]_vars PROVE FenceInv'
    OBVIOUS
<1>1. ASSUME NEW o \in Ops, OpStep(o) PROVE FenceInv'
    BY <1>1, StepFences
<1>2. ASSUME NEW o \in Ops, NEW kind \in OpKinds, Begin(o, kind) PROVE FenceInv'
    <2>1. /\ store' = store /\ op'[o].fence = 0 /\ ~op'[o].late
          /\ \A t \in Ops \ {o} : op'[t] = op[t]
        BY <1>2, BeginEffect DEF Alone
    <2> QED
        BY <2>1, QuietFences
<1>3. ASSUME NEW c \in Hosts, Crash(c) PROVE FenceInv'
    <2>1. store' = store
        BY <1>3, CrashEffect
    <2>2. ASSUME NEW t \in Ops PROVE op'[t] = op[t] \/ (op'[t].fence = 0 /\ ~op'[t].late)
        <3>1. op'[t] = op[t] \/ Crashed(op[t], op'[t])
            BY <1>3, CrashEffect
        <3> QED
            BY <3>1 DEF Crashed
    <2> QED
        BY <2>1, <2>2, QuietFences
<1>4. CASE UNCHANGED vars
    BY <1>4, QuietFences DEF vars
<1> QED
    BY <1>1, <1>2, <1>3, <1>4 DEF Next, Quiescent

(* A turn that a checkpoint superseded before the turn minted its fence    *)
(* leaves no record under it, although the fence is newer than the one the *)
(* checkpoint minted first, on any number of hosts.                        *)
THEOREM LateTurnsAreSilent == Spec => []LateTurnWritesNothing
<1>1. Init => ShapeInv /\ FenceInv
    <2> SUFFICES ASSUME Init PROVE FenceInv
        BY InitShape
    <2>1. \A o \in Ops : op[o].fence = 0 /\ ~op[o].late
        BY DEF Init, IdleOp
    <2>2. store.recs = <<>>
        BY DEF Init, PutSession, EmptyStore
    <2> QED
        BY <2>1, <2>2 DEF FenceInv, LateTurnWritesNothing
<1>2. (ShapeInv /\ FenceInv) /\ [Next]_vars => (ShapeInv /\ FenceInv)'
    BY NextShape, NextFences
<1>3. FenceInv => LateTurnWritesNothing
    BY DEF FenceInv
<1> QED
    BY <1>1, <1>2, <1>3, PTL DEF Spec

-----------------------------------------------------------------------------
(* Clones *)

(* The log only grows.                                                     *)
LEMMA StepHead ==
    ASSUME ShapeInv, NEW o \in Ops, OpStep(o)
    PROVE  /\ HeadSeq(store) \in Nat /\ HeadSeq(store') \in Nat
           /\ HeadSeq(store) <= HeadSeq(store')
<1>1. store.recs \in Seq(Record) /\ HeadSeq(store) \in Nat
    BY Numbers DEF ShapeInv, Types, Store
<1>2. \A x : Len(Append(store.recs, x)) = Len(store.recs) + 1
    BY <1>1, AppendProperties
<1>3. store'.recs = store.recs \/ \E x : store'.recs = Append(store.recs, x)
    <2>1. CASE Appends(o)
        BY <2>1, WriteEffect DEF Appends
    <2> QED
        BY <2>1, WriteEffect, StepWrites DEF Reads
<1> QED
    BY <1>1, <1>2, <1>3 DEF HeadSeq

(* The steps of a fork from its checkpoint to its last clone.              *)
Copying == Cloning \union {"forkRecord"}

(* A call that keeps its snapshot and children and clones nothing.         *)
Aside(o) ==
    /\ op'[o].at = op[o].at /\ op'[o].snap = op[o].snap /\ op'[o].kids = op[o].kids
    /\ op'[o].pc \notin Copying
    /\ image' = image

(* Every other step of a call is such a step.                              *)
LEMMA StepClones ==
    ASSUME ShapeInv, Tier = "MEMORY", NEW o \in Ops, OpStep(o)
    PROVE  \/ Aside(o) \/ Snapshot(o) \/ Checkpoint(o) \/ ForkRecord(o) \/ RequireSnapshot(o)
           \/ TagActor(o) \/ CreateChild(o) \/ CopyLog(o) \/ RollbackFork(o)
<1>0. op[o].pc \in Fencing \union {"forkHead"} => op[o].then \notin Copying
    BY DEF ShapeInv, Good, ThenInv, KindInv, Fencing, Copying, Cloning
<1> USE DEF Keeping, Quits, Aside, Copying, Cloning
<1>1. CASE Unwind(o)
    BY <1>1, UnwindEffect
<1>2. CASE Mark(o)
    BY <1>2, MarkEffect
<1>3. CASE FenceMint(o)
    BY <1>3, <1>0, FenceMintEffect DEF Fencing
<1>4. CASE FenceHead(o)
    BY <1>4, <1>0, FenceHeadEffect DEF Fencing
<1>5. CASE ExecInspect(o)
    BY <1>5, ExecInspectEffect
<1>6. CASE ResumeInspect(o)
    BY <1>6, ResumeInspectEffect
<1>7. CASE Gate(o)
    BY <1>7, GateEffect
<1>8. CASE Create(o)
    BY <1>8, CreateEffect
<1>9. CASE OpenHarness(o)
    BY <1>9, OpenHarnessEffect
<1>10. CASE CheckSuperseded(o)
    BY <1>10, CheckSupersededEffect
<1>11. CASE HandoffInspect(o)
    BY <1>11, HandoffInspectEffect
<1>12. CASE CloseInvocation(o)
    BY <1>12, CloseInvocationEffect
<1>13. CASE SuspendInspect(o)
    BY <1>13, SuspendInspectEffect
<1>14. CASE Snapshot(o)
    BY <1>14
<1>15. CASE ApproveScan(o)
    BY <1>15, ApproveScanEffect
<1>16. CASE DeleteRow(o)
    BY <1>16, DeleteRowEffect
<1>17. CASE ForkInspect(o)
    BY <1>17, ForkInspectEffect
<1>18. CASE ForkFence(o)
    BY <1>18, ForkFenceEffect
<1>19. CASE ForkHead(o)
    BY <1>19, <1>0, ForkHeadEffect DEF Fencing
<1>20. CASE AwaitMinted(o)
    BY <1>20, AwaitMintedEffect
<1>21. CASE Checkpoint(o)
    BY <1>21
<1>22. CASE RequireSnapshot(o)
    BY <1>22
<1>23. CASE TagActor(o)
    BY <1>23
<1>24. CASE CreateChild(o)
    BY <1>24
<1>25. CASE CopyLog(o)
    BY <1>25
<1>26. CASE AbortFork(o)
    BY <1>26, AbortForkEffect
<1>27. CASE RollbackFork(o)
    BY <1>27
<1>28. CASE Repair(o)
    BY <1>28, RepairEffect
<1>29. CASE RecordSuspend(o)
    BY <1>29, RecordSuspendEffect
<1>30. CASE Decide(o)
    BY <1>30, DecideEffect
<1>31. CASE ForkRecord(o)
    BY <1>31
<1>32. CASE BeginCheckpoint(o)
    BY <1>32, BeginCheckpointEffect
<1>33. CASE EndHarnesses(o)
    BY <1>33, EndHarnessesEffect
<1>34. CASE TurnStep(o)
    BY <1>34, TurnEffect
<1> QED
    BY <1>1, <1>2, <1>3, <1>4, <1>5, <1>6, <1>7, <1>8, <1>9, <1>10, <1>11, <1>12,
       <1>13, <1>14, <1>15, <1>16, <1>17, <1>18, <1>19, <1>20, <1>21, <1>22, <1>23,
       <1>24, <1>25, <1>26, <1>27, <1>28, <1>29, <1>30, <1>31, <1>32, <1>33, <1>34
    DEF OpStep, ForkStep

(* What was true of a call's children stays true.                          *)
LEMMA ClonesStay ==
    ASSUME NEW im \in Seq(SUBSET Nat), NEW n \in Nat, NEW m \in Nat, n <= m, NEW im2,
           im2 = im \/ Remembers(im, im2),
           NEW q, NEW r, q.snap \in Nat, q.snap <= Len(im), q.at \in Nat, CloneOf(q, im, n),
           r.at = q.at, r.snap = q.snap, r.kids = q.kids,
           r.pc \notin Copying \/ (r.pc = q.pc /\ r.tag = q.tag)
    PROVE  CloneOf(r, im2, m)
<1>1. q.snap > 0 => im[q.snap] \subseteq im2[q.snap] /\ im[q.snap] \subseteq Nat
    <2>1. q.snap > 0 => q.snap \in 1 .. Len(im)
        OBVIOUS
    <2>2. q.snap > 0 => im[q.snap] \subseteq Nat
        BY <2>1, ElementOfSeq
    <2> QED
        BY <2>1, <2>2 DEF Remembers
<1>2. \A a \in Nat : a <= n => a <= m
    OBVIOUS
<1>3. \A i \in DOMAIN r.kids : r.snap > 0 /\ r.kids[i] = r.snap /\ r.at \in im2[r.snap]
    BY <1>1 DEF CloneOf
<1>4. r.pc \in Copying => CloneOf(r, im, n)
    BY DEF CloneOf, Copying, Cloning
<1>5. r.pc \in Cloning => r.snap > 0 /\ r.at \in im2[r.snap]
    BY <1>1, <1>4 DEF CloneOf, Copying
<1>6. r.pc = "forkRecord" => r.snap > 0 /\ \E h \in im2[r.snap] : r.at <= h /\ h <= m
    BY <1>1, <1>2, <1>4 DEF CloneOf, Copying
<1>7. (r.pc = "require2" => r.snap <= r.tag) /\ (r.pc = "child" => r.tag = r.snap)
    BY <1>4 DEF CloneOf, Copying, Cloning
<1> QED
    BY <1>3, <1>5, <1>6, <1>7 DEF CloneOf

(* What a call counts.                                                     *)
LEMMA CloneNumbers ==
    ASSUME ShapeInv, NEW o \in Ops
    PROVE  /\ image \in Seq(SUBSET Nat) /\ Len(image) \in Nat
           /\ op[o].snap \in Nat /\ op[o].snap <= Len(image)
           /\ op[o].at \in Nat /\ op[o].tag \in Nat /\ op[o].tag <= Len(image)
           /\ op[o].at <= HeadSeq(store) /\ HeadSeq(store) \in Nat
           /\ actor.snap = Len(image)
BY Numbers DEF ShapeInv, Types, Within

(* A step of a call keeps the children it and the others have.             *)
LEMMA StepKeepsClones ==
    ASSUME ShapeInv, CloneInv, Tier = "MEMORY", NEW o \in Ops, OpStep(o)
    PROVE  CloneInv'
<1>0. \A t \in Ops : CloneOf(op[t], image, HeadSeq(store))
    BY DEF CloneInv
<1>1. image' = image \/ Remembers(image, image')
    BY StepClones, SnapshotEffect, CheckpointEffect, ForkRecordEffect, RequireSnapshotEffect,
       TagActorEffect, CreateChildEffect, CopyLogEffect, RollbackForkEffect DEF Aside
<1>2. ASSUME NEW t \in Ops \ {o} PROVE CloneOf(op'[t], image', HeadSeq(store'))
    <2>1. Same(op[t], op'[t])
        BY <1>2, StepMoves DEF Moves
    <2>2. CloneOf(op[t], image, HeadSeq(store))
        BY <1>0
    <2> QED
        BY <1>1, <2>1, <2>2, CloneNumbers, StepHead, ClonesStay DEF Same
<1> DEFINE Goal == CloneOf(op'[o], image', HeadSeq(store'))
<1>3. CASE /\ op'[o].at = op[o].at /\ op'[o].snap = op[o].snap /\ op'[o].kids = op[o].kids
           /\ op'[o].pc \notin Copying
    <2>1. CloneOf(op[o], image, HeadSeq(store))
        BY <1>0
    <2>2. Goal
        BY <1>1, <1>3, <2>1, CloneNumbers, StepHead, ClonesStay
    <2> QED
        BY <1>2, <2>2 DEF CloneInv
<1>p. Goal => CloneInv'
    BY <1>2 DEF CloneInv
<1> HIDE DEF Goal
<1>4. CASE Aside(o)
    BY <1>3, <1>4 DEF Aside
<1>5. CASE Snapshot(o)
    <2>1. op'[o].kind # "Fork" /\ op'[o].pc \in {"fenceMint", "record", "unwind"}
        BY <1>5, SnapshotEffect DEF ShapeInv, Good, KindInv, Turns, Keeping, Quits
    <2>2. op[o].kids = <<>> /\ op'[o].kids = op[o].kids
        BY <1>5, <2>1, SnapshotEffect DEF ShapeInv, Good, KidsInv, Keeping, Quits
    <2>3. Goal
        BY <2>1, <2>2 DEF Goal, CloneOf, Copying, Cloning
    <2> QED
        BY <1>p, <2>3
<1>6. CASE Checkpoint(o)
    <2>1. op[o].kids = <<>> /\ op'[o].kids = op[o].kids /\ op'[o].at = op[o].at
        BY <1>6, CheckpointEffect DEF ShapeInv, Good, KidsInv, Checkpointing, Keeping, Quits
    <2>2. CASE Quits(o)
        BY <1>3, <2>2 DEF Quits, Keeping, Copying, Cloning
    <2>3. CASE /\ op'[o].pc = "forkRecord" /\ op'[o].snap = Len(image')
               /\ 0 < Len(image') /\ HeadSeq(store) \in image'[Len(image')] /\ store' = store
        <3>1. Goal
            BY <2>1, <2>3, CloneNumbers DEF Goal, CloneOf, Cloning
        <3> QED
            BY <1>p, <3>1
    <2> QED
        BY <1>6, <2>2, <2>3, CheckpointEffect
<1>7. CASE ForkRecord(o)
    <2>1. CASE Quits(o)
        BY <1>3, <2>1 DEF Quits, Keeping, Copying, Cloning
    <2>2. CASE /\ op[o].at = HeadSeq(store) /\ Keeping(op[o], op'[o], {}) /\ op'[o].pc = "require"
        <3>1. PICK h \in image[op[o].snap] : op[o].snap > 0 /\ op[o].at <= h /\ h <= HeadSeq(store)
            BY <1>0, <1>7, ForkRecordEffect DEF CloneOf
        <3>2. h \in Nat
            BY <3>1, CloneNumbers, ElementOfSeq
        <3>3. op[o].at \in image[op[o].snap] /\ image' = image
            BY <1>7, <2>2, <3>1, <3>2, CloneNumbers, ForkRecordEffect
        <3>4. \A i \in DOMAIN op[o].kids : op[o].kids[i] = op[o].snap
            BY <1>0 DEF CloneOf
        <3>5. Goal
            BY <2>2, <3>1, <3>3, <3>4 DEF Goal, CloneOf, Keeping
        <3> QED
            BY <1>p, <3>5
    <2> QED
        BY <1>7, <2>1, <2>2, ForkRecordEffect
<1>8. CASE RequireSnapshot(o)
    <2>1. /\ Keeping(op[o], op'[o], {}) /\ image' = image /\ op[o].pc \in {"require", "require2"}
          /\ op'[o].pc \in {"abort", "tag", "child"}
          /\ op'[o].pc = "child" => op[o].pc = "require2" /\ HoldsSnapshot(op[o].snap)
        BY <1>8, RequireSnapshotEffect
    <2>2. op'[o].pc = "child" => op[o].tag = op[o].snap
        BY <1>0, <2>1, CloneNumbers DEF HoldsSnapshot, CloneOf
    <2>3. /\ op[o].snap > 0 /\ op[o].at \in image[op[o].snap]
          /\ \A i \in DOMAIN op[o].kids : op[o].kids[i] = op[o].snap
        BY <1>0, <2>1 DEF CloneOf, Cloning
    <2>4. Goal
        BY <2>1, <2>2, <2>3 DEF Goal, CloneOf, Keeping
    <2> QED
        BY <1>p, <2>4
<1>9. CASE TagActor(o)
    <2>1. /\ Keeping(op[o], op'[o], {"tag"}) /\ image' = image /\ op[o].pc = "tag"
          /\ op'[o].pc \in {"abort", "require2"}
          /\ op'[o].pc = "require2" => op'[o].tag = actor.snap
        BY <1>9, TagActorEffect DEF Keeping
    <2>3. /\ op[o].snap > 0 /\ op[o].at \in image[op[o].snap]
          /\ \A i \in DOMAIN op[o].kids : op[o].kids[i] = op[o].snap
        BY <1>0, <2>1 DEF CloneOf, Cloning
    <2>4. Goal
        BY <2>1, <2>3, CloneNumbers DEF Goal, CloneOf, Keeping
    <2> QED
        BY <1>p, <2>4
<1>10. CASE CreateChild(o)
    <2>1. /\ image' = image /\ op[o].pc = "child"
        BY <1>10, CreateChildEffect
    <2>3. /\ op[o].snap > 0 /\ op[o].at \in image[op[o].snap] /\ op[o].tag = op[o].snap
          /\ \A i \in DOMAIN op[o].kids : op[o].kids[i] = op[o].snap
        BY <1>0, <2>1 DEF CloneOf, Cloning
    <2>4. CASE Keeping(op[o], op'[o], {}) /\ op'[o].pc = "abort"
        BY <1>3, <2>4 DEF Keeping, Copying, Cloning
    <2>5. CASE /\ Keeping(op[o], op'[o], {"kids"}) /\ op'[o].pc = "copy"
               /\ op'[o].kids = Append(op[o].kids, op[o].tag)
        <3>1. op[o].kids \in Seq(Nat)
            BY Numbers DEF OpType
        <3>2. \A i \in DOMAIN op'[o].kids :
                (i \in DOMAIN op[o].kids /\ op'[o].kids[i] = op[o].kids[i]) \/ op'[o].kids[i] = op[o].tag
            BY <2>5, <3>1
        <3>3. /\ op'[o].snap = op[o].snap /\ op'[o].at = op[o].at
            BY <2>5 DEF Keeping
        <3>4. Goal
            BY <2>1, <2>3, <2>5, <3>2, <3>3 DEF Goal, CloneOf
        <3> QED
            BY <1>p, <3>4
    <2> QED
        BY <1>10, <2>4, <2>5, CreateChildEffect
<1>11. CASE CopyLog(o)
    <2>1. /\ Keeping(op[o], op'[o], {"result"}) /\ image' = image /\ op[o].pc = "copy"
          /\ op'[o].pc \in {"abort", "require", "unwind"}
        BY <1>11, CopyLogEffect DEF Keeping
    <2>3. /\ op[o].snap > 0 /\ op[o].at \in image[op[o].snap]
          /\ \A i \in DOMAIN op[o].kids : op[o].kids[i] = op[o].snap
        BY <1>0, <2>1 DEF CloneOf, Cloning
    <2>4. Goal
        BY <2>1, <2>3 DEF Goal, CloneOf, Keeping
    <2> QED
        BY <1>p, <2>4
<1>12. CASE RollbackFork(o)
    <2>1. op'[o].kids = <<>> /\ op'[o].pc = "unwind"
        BY <1>12, RollbackForkEffect
    <2>2. Goal
        BY <2>1 DEF Goal, CloneOf, Cloning
    <2> QED
        BY <1>p, <2>2
<1> QED
    BY <1>4, <1>5, <1>6, <1>7, <1>8, <1>9, <1>10, <1>11, <1>12, StepClones

(* Every step keeps them.                                                  *)
LEMMA NextClones == ShapeInv /\ CloneInv /\ [Next]_vars => CloneInv'
<1> SUFFICES ASSUME ShapeInv, CloneInv, [Next]_vars, Tier = "MEMORY" PROVE CloneInv'
    BY DEF CloneInv
<1>0. \A t \in Ops : CloneOf(op[t], image, HeadSeq(store))
    BY DEF CloneInv
<1>1. ASSUME NEW o \in Ops, OpStep(o) PROVE CloneInv'
    BY <1>1, StepKeepsClones
<1>2. ASSUME NEW o \in Ops, NEW kind \in OpKinds, Begin(o, kind) PROVE CloneInv'
    <2>1. /\ store' = store /\ image' = image /\ op'[o].kids = <<>>
          /\ op'[o].pc \in {"mark", "delete", "inspect", "done"}
          /\ \A t \in Ops \ {o} : op'[t] = op[t]
        BY <1>2, BeginEffect DEF Alone
    <2>2. CloneOf(op'[o], image, HeadSeq(store))
        BY <2>1 DEF CloneOf, Cloning
    <2> QED
        BY <1>0, <2>1, <2>2 DEF CloneInv
<1>3. ASSUME NEW c \in Hosts, Crash(c) PROVE CloneInv'
    <2>1. store' = store /\ image' = image
        BY <1>3, CrashEffect
    <2>2. ASSUME NEW t \in Ops PROVE CloneOf(op'[t], image, HeadSeq(store))
        <3>1. op'[t] = op[t] \/ Crashed(op[t], op'[t])
            BY <1>3, CrashEffect
        <3> QED
            BY <1>0, <3>1 DEF Crashed, CloneOf, Cloning
    <2> QED
        BY <2>1, <2>2 DEF CloneInv
<1>4. CASE UNCHANGED vars
    BY <1>0, <1>4 DEF vars, CloneInv
<1> QED
    BY <1>1, <1>2, <1>3, <1>4 DEF Next, Quiescent

(* Every child of a stateful fork holds the one checkpoint of its fork, on *)
(* which the parent slept at the head up to which the child's log is       *)
(* copied, whatever other calls and hosts do to the parent between the     *)
(* checkpoint and the last clone.                                          *)
THEOREM ClonesHoldTheirCheckpoint == Spec => []ClonesMatchTheirLog
<1>1. Init => ShapeInv /\ CloneInv
    <2> SUFFICES ASSUME Init PROVE CloneInv
        BY InitShape
    <2>1. \A o \in Ops : op[o].pc = "idle" /\ op[o].kids = <<>>
        BY DEF Init, IdleOp
    <2> QED
        BY <2>1 DEF CloneInv, CloneOf, Cloning
<1>2. (ShapeInv /\ CloneInv) /\ [Next]_vars => (ShapeInv /\ CloneInv)'
    BY NextShape, NextClones
<1>3. CloneInv => ClonesMatchTheirLog
    BY DEF CloneInv, CloneOf, ClonesMatchTheirLog
<1> QED
    BY <1>1, <1>2, <1>3, PTL DEF Spec

-----------------------------------------------------------------------------
(* Streams *)

(* A connection is opened beside no checkpoint, and an open one forgets    *)
(* nothing it was told.                                                    *)
Streams(o) ==
    op'[o].live =>
        /\ op[o].live \/ mark[Host(o)] = None
        /\ op[o].live /\ op[o].superseded => op'[o].superseded
        /\ op[o].live /\ op[o].ended => op'[o].ended
        /\ op[o].live /\ op[o].minted => op'[o].minted

(* Every step of a call treats its connection so.                          *)
LEMMA StepStreams ==
    ASSUME ShapeInv, NEW o \in Ops, OpStep(o)
    PROVE  Streams(o)
<1>0. LiveInv(op[o]) /\ KindInv(op[o])
    BY DEF ShapeInv, Good
<1> USE DEF Keeping, Quits, Streams
<1>1. CASE Unwind(o)
    BY <1>1, UnwindEffect
<1>2. CASE Mark(o)
    BY <1>2, MarkEffect
<1>3. CASE FenceMint(o)
    <2>1. op[o].live => op[o].kind \in Turns
        BY <1>0 DEF LiveInv
    <2>2. op[o].live => ~op[o].minted
        BY <1>3, <1>0, <2>1, FenceMintEffect DEF LiveInv, Streaming
    <2> QED
        BY <1>3, <2>2, FenceMintEffect
<1>4. CASE FenceHead(o)
    BY <1>4, FenceHeadEffect
<1>5. CASE ExecInspect(o)
    BY <1>5, ExecInspectEffect
<1>6. CASE ResumeInspect(o)
    BY <1>6, ResumeInspectEffect
<1>7. CASE Gate(o)
    BY <1>7, GateEffect
<1>8. CASE Create(o)
    BY <1>8, CreateEffect
<1>9. CASE OpenHarness(o)
    BY <1>9, OpenHarnessEffect
<1>10. CASE CheckSuperseded(o)
    BY <1>10, CheckSupersededEffect
<1>11. CASE HandoffInspect(o)
    BY <1>11, HandoffInspectEffect
<1>12. CASE CloseInvocation(o)
    BY <1>12, CloseInvocationEffect
<1>13. CASE SuspendInspect(o)
    BY <1>13, SuspendInspectEffect
<1>14. CASE Snapshot(o)
    BY <1>14, SnapshotEffect
<1>15. CASE ApproveScan(o)
    BY <1>15, ApproveScanEffect
<1>16. CASE DeleteRow(o)
    BY <1>16, DeleteRowEffect
<1>17. CASE ForkInspect(o)
    BY <1>17, ForkInspectEffect
<1>18. CASE ForkFence(o)
    BY <1>18, ForkFenceEffect
<1>19. CASE ForkHead(o)
    BY <1>19, ForkHeadEffect
<1>20. CASE AwaitMinted(o)
    BY <1>20, AwaitMintedEffect
<1>21. CASE Checkpoint(o)
    BY <1>21, CheckpointEffect
<1>22. CASE RequireSnapshot(o)
    BY <1>22, RequireSnapshotEffect
<1>23. CASE TagActor(o)
    BY <1>23, TagActorEffect
<1>24. CASE CreateChild(o)
    BY <1>24, CreateChildEffect
<1>25. CASE CopyLog(o)
    BY <1>25, CopyLogEffect
<1>26. CASE AbortFork(o)
    BY <1>26, AbortForkEffect
<1>27. CASE RollbackFork(o)
    BY <1>27, RollbackForkEffect
<1>28. CASE Repair(o)
    BY <1>28, RepairEffect
<1>29. CASE RecordSuspend(o)
    BY <1>29, RecordSuspendEffect
<1>30. CASE Decide(o)
    BY <1>30, DecideEffect
<1>31. CASE ForkRecord(o)
    BY <1>31, ForkRecordEffect
<1>32. CASE BeginCheckpoint(o)
    BY <1>32, BeginCheckpointEffect
<1>33. CASE EndHarnesses(o)
    BY <1>33, EndHarnessesEffect
<1>34. CASE TurnStep(o)
    BY SMTT(30), <1>34, TurnEffect
<1> QED
    BY <1>1, <1>2, <1>3, <1>4, <1>5, <1>6, <1>7, <1>8, <1>9, <1>10, <1>11, <1>12,
       <1>13, <1>14, <1>15, <1>16, <1>17, <1>18, <1>19, <1>20, <1>21, <1>22, <1>23,
       <1>24, <1>25, <1>26, <1>27, <1>28, <1>29, <1>30, <1>31, <1>32, <1>33, <1>34
    DEF OpStep, ForkStep

(* How a fork gets on with the turns it superseded.                        *)
Ending == Checkpointing \ {"begin"}

Ends(o) ==
    op'[o].pc \in Ending =>
        \/ BeginCheckpoint(o) /\ ~Ended(op'[o])
        \/ /\ op[o].pc \in Ending
           /\ op'[o].open = op[o].open
           /\ Ended(op'[o]) => Ended(op[o]) \/ EndHarnesses(o)
           /\ Awaited(op'[o]) => Awaited(op[o]) \/ (Ended(op[o]) /\ AwaitMinted(o))

(* Every step of a fork gets on so.                                        *)
LEMMA StepEnds ==
    ASSUME ShapeInv, NEW o \in Ops, OpStep(o)
    PROVE  Ends(o)
<1>0. KindInv(op[o]) /\ ThenInv(op[o])
    BY DEF ShapeInv, Good
<1> USE DEF Keeping, Quits, Ends, Ending, Checkpointing, Ended, Awaited
<1>1. CASE Unwind(o)
    BY <1>1, UnwindEffect
<1>2. CASE Mark(o)
    BY <1>2, MarkEffect
<1>3. CASE FenceMint(o)
    <2>1. op[o].then \in {"repair", "create", "check", "record", "decide"}
        BY <1>3, <1>0, FenceMintEffect DEF KindInv, ThenInv, Fencing, Turns
    <2> QED
        BY <1>3, <2>1, FenceMintEffect
<1>4. CASE FenceHead(o)
    <2>1. op[o].then \in {"repair", "create", "check", "record", "decide"}
        BY <1>4, <1>0, FenceHeadEffect DEF KindInv, ThenInv, Fencing, Turns
    <2> QED
        BY <1>4, <2>1, FenceHeadEffect
<1>5. CASE ExecInspect(o)
    BY <1>5, ExecInspectEffect
<1>6. CASE ResumeInspect(o)
    BY <1>6, ResumeInspectEffect
<1>7. CASE Gate(o)
    BY <1>7, GateEffect
<1>8. CASE Create(o)
    BY <1>8, CreateEffect
<1>9. CASE OpenHarness(o)
    BY <1>9, OpenHarnessEffect
<1>10. CASE CheckSuperseded(o)
    BY <1>10, CheckSupersededEffect
<1>11. CASE HandoffInspect(o)
    BY <1>11, HandoffInspectEffect
<1>12. CASE CloseInvocation(o)
    BY <1>12, CloseInvocationEffect
<1>13. CASE SuspendInspect(o)
    BY <1>13, SuspendInspectEffect
<1>14. CASE Snapshot(o)
    BY <1>14, SnapshotEffect
<1>15. CASE ApproveScan(o)
    BY <1>15, ApproveScanEffect
<1>16. CASE DeleteRow(o)
    BY <1>16, DeleteRowEffect
<1>17. CASE ForkInspect(o)
    BY <1>17, ForkInspectEffect
<1>18. CASE ForkFence(o)
    BY <1>18, ForkFenceEffect
<1>19. CASE ForkHead(o)
    BY <1>19, <1>0, ForkHeadEffect DEF ThenInv
<1>20. CASE AwaitMinted(o)
    BY <1>20, AwaitMintedEffect
<1>21. CASE Checkpoint(o)
    BY <1>21, CheckpointEffect
<1>22. CASE RequireSnapshot(o)
    BY <1>22, RequireSnapshotEffect
<1>23. CASE TagActor(o)
    BY <1>23, TagActorEffect
<1>24. CASE CreateChild(o)
    BY <1>24, CreateChildEffect
<1>25. CASE CopyLog(o)
    BY <1>25, CopyLogEffect
<1>26. CASE AbortFork(o)
    BY <1>26, AbortForkEffect
<1>27. CASE RollbackFork(o)
    BY <1>27, RollbackForkEffect
<1>28. CASE Repair(o)
    BY <1>28, RepairEffect
<1>29. CASE RecordSuspend(o)
    BY <1>29, RecordSuspendEffect
<1>30. CASE Decide(o)
    BY <1>30, DecideEffect
<1>31. CASE ForkRecord(o)
    BY <1>31, ForkRecordEffect
<1>32. CASE BeginCheckpoint(o)
    BY <1>32, BeginCheckpointEffect
<1>33. CASE EndHarnesses(o)
    BY <1>33, EndHarnessesEffect
<1>34. CASE TurnStep(o)
    BY <1>34, TurnEffect
<1> QED
    BY <1>1, <1>2, <1>3, <1>4, <1>5, <1>6, <1>7, <1>8, <1>9, <1>10, <1>11, <1>12,
       <1>13, <1>14, <1>15, <1>16, <1>17, <1>18, <1>19, <1>20, <1>21, <1>22, <1>23,
       <1>24, <1>25, <1>26, <1>27, <1>28, <1>29, <1>30, <1>31, <1>32, <1>33, <1>34
    DEF OpStep, ForkStep

(* A step of a call keeps what forks know of the streams.                  *)
LEMMA StepKeepsStreams ==
    ASSUME ShapeInv, HoldsInv, StreamInv, NEW u \in Ops, OpStep(u)
    PROVE  StreamInv'
<1> SUFFICES ASSUME NEW o \in Ops, NEW t \in Ops, op'[o].pc \in Ending, Host(t) = Host(o),
                    op'[t].live
             PROVE  /\ t \in op'[o].open /\ op'[t].superseded
                    /\ Ended(op'[o]) => op'[t].ended
                    /\ Awaited(op'[o]) => op'[t].minted
    BY DEF StreamInv, Ending, Host, Ended, Awaited
<1>0. Moves(u) /\ Streams(u) /\ Ends(u) /\ ShapeInv' /\ Host(o) \in Hosts /\ None \notin Ops
    BY StepMoves, StepStreams, StepEnds, OpStepShape, PlacementAssumption DEF Host
<1>1. op'[o].kind = "Fork" /\ o # t
    BY <1>0 DEF ShapeInv, Good, KindInv, LiveInv, Ending, Turns
<1>2. CASE op[o].pc \in Ending
    <2>1. mark[Host(o)] # None
        BY <1>0, <1>2 DEF HoldsInv, MarkInv, Marked, MarkedSteps, Ending, Checkpointing
    <2>2. op[t].live
        BY <1>0, <2>1 DEF Moves, Same, Streams
    <2>3. /\ t \in op[o].open /\ op[t].superseded
          /\ Ended(op[o]) => op[t].ended
          /\ Awaited(op[o]) => op[t].minted
        BY <1>2, <2>2 DEF StreamInv, Ending
    <2>4. /\ op[t].superseded => op'[t].superseded
          /\ op[t].ended => op'[t].ended
          /\ op[t].minted => op'[t].minted
        BY <1>0, <2>2 DEF Moves, Same, Streams
    <2>5. CASE u # o
        <3>1. Same(op[o], op'[o])
            BY <1>0, <2>5 DEF Moves
        <3>2. op'[o].open = op[o].open /\ (Ended(op'[o]) <=> Ended(op[o]))
                /\ (Awaited(op'[o]) <=> Awaited(op[o]))
            BY <3>1 DEF Same, Ended, Awaited
        <3> QED
            BY <2>3, <2>4, <3>2
    <2>6. CASE u = o
        <3>0. op[o].pc # "begin"
            BY <1>2 DEF Ending
        <3>1. ~BeginCheckpoint(o)
            BY <3>0 DEF BeginCheckpoint, At
        <3>2. /\ op'[o].open = op[o].open
              /\ Ended(op'[o]) => Ended(op[o]) \/ EndHarnesses(o)
              /\ Awaited(op'[o]) => Awaited(op[o]) \/ AwaitMinted(o)
            BY <1>0, <2>6, <3>1 DEF Ends
        <3>3. EndHarnesses(o) => op'[t].ended
            BY <1>1, <2>3, EndHarnessesEffect
        <3>4. AwaitMinted(o) /\ op'[o].pc \in Ending => op[t].minted
            BY <2>3, AwaitMintedEffect DEF Quits, Ending, Checkpointing
        <3> QED
            BY <2>3, <2>4, <3>2, <3>3, <3>4
    <2> QED
        BY <2>5, <2>6
<1>3. CASE op[o].pc \notin Ending
    <2>1. u = o /\ BeginCheckpoint(o) /\ ~Ended(op'[o])
        BY <1>0, <1>3 DEF Moves, Same, Ends
    <2>2. ~Awaited(op'[o])
        BY <2>1 DEF Awaited
    <2>3. op'[o].pc # "unwind"
        BY DEF Ending, Checkpointing
    <2>4. /\ op'[o].open = {s \in Ops : Host(s) = Host(o) /\ op[s].live}
          /\ op'[t].live = op[t].live
          /\ t \in op'[o].open => op'[t].superseded
        BY <1>1, <2>1, <2>3, BeginCheckpointEffect DEF Quits, Keeping
    <2> QED
        BY <2>1, <2>2, <2>4
<1> QED
    BY <1>2, <1>3

(* Every step keeps what forks know of the streams.                        *)
LEMMA NextStreams == ShapeInv /\ HoldsInv /\ StreamInv /\ [Next]_vars => StreamInv'
<1> SUFFICES ASSUME ShapeInv, HoldsInv, StreamInv, [Next]_vars PROVE StreamInv'
    OBVIOUS
<1>1. ASSUME NEW o \in Ops, OpStep(o) PROVE StreamInv'
    BY <1>1, StepKeepsStreams
<1>2. ASSUME \A o \in Ops : op'[o] = op[o] \/ (op'[o].pc \notin Ending /\ ~op'[o].live)
      PROVE  StreamInv'
    BY <1>2 DEF StreamInv, Ending, Host, Ended, Awaited
<1>3. ASSUME NEW o \in Ops, NEW kind \in OpKinds, Begin(o, kind) PROVE StreamInv'
    <2>1. op'[o].pc \notin Ending /\ ~op'[o].live /\ \A t \in Ops \ {o} : op'[t] = op[t]
        BY <1>3, BeginEffect DEF Alone, Ending, Checkpointing
    <2> QED
        BY <1>2, <2>1
<1>4. ASSUME NEW c \in Hosts, Crash(c) PROVE StreamInv'
    <2>1. ASSUME NEW t \in Ops PROVE op'[t] = op[t] \/ (op'[t].pc \notin Ending /\ ~op'[t].live)
        <3>1. op'[t] = op[t] \/ Crashed(op[t], op'[t])
            BY <1>4, CrashEffect
        <3> QED
            BY <3>1 DEF Crashed, Ending, Checkpointing
    <2> QED
        BY <1>2, <2>1
<1>5. CASE UNCHANGED vars
    BY <1>2, <1>5 DEF vars
<1> QED
    BY <1>1, <1>3, <1>4, <1>5 DEF Next, Quiescent

(* Two calls are two.                                                      *)
LEMMA PairCardinality ==
    ASSUME NEW a, NEW b, a # b
    PROVE  Cardinality({a, b}) = 2
<1> DEFINE A == {a}
<1>1. IsFiniteSet(A) /\ Cardinality(A) = 1
    BY FS_Singleton
<1>2. b \notin A
    OBVIOUS
<1>3. {a, b} = A \union {b}
    OBVIOUS
<1> HIDE DEF A
<1>4. Cardinality(A \union {b}) = IF b \in A THEN Cardinality(A) ELSE Cardinality(A) + 1
    BY <1>1, FS_AddElement
<1>5. Cardinality(A \union {b}) = Cardinality(A) + 1
    BY <1>2, <1>4
<1> QED
    BY <1>1, <1>3, <1>5

(* One turn or lifecycle operation of a host is in progress at a time.     *)
LEMMA OneOperation ==
    ASSUME ShapeInv, HoldsInv, NEW o \in Ops, NEW t \in Ops, Host(o) = Host(t),
           GuardKind(op[o].kind) = "operation", GuardKind(op[t].kind) = "operation",
           op[o].pc \notin {"idle", "done"}, op[t].pc \notin {"idle", "done"}
    PROVE  o = t
<1> DEFINE S == Active(Host(o), "operation")
<1>1. o \in S /\ t \in S
    BY DEF Active
<1>2. IsFiniteSet(S) /\ Cardinality(S) \in Nat
    BY ActiveFinite
<1>3. Host(o) \in Hosts
    BY PlacementAssumption DEF Host
<1>4. Cardinality(S) <= 1
    <2>1. guard[Host(o)].operation \in BOOLEAN
        BY <1>3, GuardEntry
    <2>2. Cardinality(S) = IF guard[Host(o)].operation THEN 1 ELSE 0
        BY <1>3 DEF HoldsInv, GuardInv, EntryInv
    <2> QED
        BY <2>1, <2>2
<1> HIDE DEF S
<1>5. SUFFICES ASSUME o # t PROVE FALSE
    OBVIOUS
<1>6. Cardinality({o, t}) = 2
    BY <1>5, PairCardinality
<1>7. {o, t} \subseteq S
    BY <1>1
<1>8. Cardinality({o, t}) <= Cardinality(S)
    BY <1>2, <1>7, FS_Subset
<1> QED
    BY <1>2, <1>4, <1>6, <1>8

(* No snapshot is taken under an open harness stream of a turn that the    *)
(* same Registry drives: a fork has cancelled the turns it found and the   *)
(* mark let no other one begin, Suspend is alone with its host's guard,    *)
(* and a park has closed its own stream.                                   *)
THEOREM SnapshotsAreQuiet == Spec => []NoStreamUnderSnapshot
<1> DEFINE Inv == ShapeInv /\ HoldsInv /\ StreamInv
<1>1. Init => Inv
    <2> SUFFICES ASSUME Init PROVE StreamInv
        BY InitShape, InitHolds
    <2>1. \A o \in Ops : ~op[o].live
        BY DEF Init, IdleOp
    <2> QED
        BY <2>1 DEF StreamInv
<1>2. Inv /\ [Next]_vars => Inv'
    BY NextShape, NextHolds, NextStreams
<1>3. ASSUME Inv PROVE NoStreamUnderSnapshot
    <2> SUFFICES ASSUME NEW o \in Ops, NEW t \in Ops, op[o].pc \in {"snapshot", "checkpoint"},
                        Host(t) = Host(o), op[t].live
                 PROVE  op[t].ended
        BY DEF NoStreamUnderSnapshot
    <2>1. CASE op[o].pc = "checkpoint"
        BY <1>3, <2>1 DEF StreamInv, Ended, Checkpointing
    <2>2. CASE op[o].pc = "snapshot"
        <3>1. /\ op[o].kind \in Turns \union {"Suspend"} /\ op[t].kind \in Turns
              /\ op[t].pc \in Streaming \union {"unwind"} \union Fencing
            BY <1>3, <2>2 DEF ShapeInv, Good, KindInv, LiveInv
        <3>2. /\ GuardKind(op[o].kind) = "operation" /\ GuardKind(op[t].kind) = "operation"
              /\ op[o].pc \notin {"idle", "done"} /\ op[t].pc \notin {"idle", "done"}
              /\ op[t].pc # "snapshot"
            BY <2>2, <3>1 DEF GuardKind, Turns, Streaming, Fencing
        <3>3. o = t
            BY <1>3, <3>2, OneOperation
        <3> QED
            BY <2>2, <3>2, <3>3
    <2> QED
        BY <2>1, <2>2
<1> HIDE DEF Inv
<1> QED
    BY <1>1, <1>2, <1>3, PTL DEF Spec

-----------------------------------------------------------------------------
(* Gates *)

(* The gate that a record leaves.                                          *)
GateAfter(kind) ==
    CASE kind = "TOOL_CALL" -> "called"
      [] kind = "APPROVAL_REQUEST" -> "requested"
      [] kind = "APPROVAL_RESULT" -> "decided"
      [] OTHER -> "none"

(* A record of a gate is the last one, and the others are read over.       *)
LEMMA LastOfAppend ==
    ASSUME NEW recs \in Seq(Record), NEW r \in Record, NEW kind \in GateKinds
    PROVE  LastOf(Append(recs, r), GateKinds, kind) <=>
             IF r.kind \in GateKinds THEN r.kind = kind ELSE LastOf(recs, GateKinds, kind)
<1> DEFINE n == Len(recs)
           s == Append(recs, r)
<1>1. /\ n \in Nat /\ DOMAIN recs = 1 .. n /\ DOMAIN s = 1 .. n + 1 /\ s[n + 1] = r
      /\ \A i \in 1 .. n : s[i] = recs[i]
    BY AppendProperties
<1>2. LastOf(s, GateKinds, kind) <=>
        \E i \in DOMAIN s : s[i].kind = kind /\ \A j \in DOMAIN s : j > i => s[j].kind \notin GateKinds
    BY DEF LastOf
<1>3. LastOf(recs, GateKinds, kind) <=>
        \E i \in DOMAIN recs : recs[i].kind = kind /\
            \A j \in DOMAIN recs : j > i => recs[j].kind \notin GateKinds
    BY DEF LastOf
<1> HIDE DEF n, s
<1>4. CASE r.kind \in GateKinds
    <2>1. ASSUME r.kind = kind PROVE LastOf(s, GateKinds, kind)
        <3>1. n + 1 \in DOMAIN s /\ s[n + 1].kind = kind /\ \A j \in DOMAIN s : ~(j > n + 1)
            BY <1>1, <2>1
        <3> QED
            BY <1>2, <3>1
    <2>2. ASSUME LastOf(s, GateKinds, kind) PROVE r.kind = kind
        <3>1. PICK i \in DOMAIN s : /\ s[i].kind = kind
                                    /\ \A j \in DOMAIN s : j > i => s[j].kind \notin GateKinds
            BY <1>2, <2>2
        <3>2. ~(n + 1 > i)
            BY <1>1, <1>4, <3>1
        <3>3. i = n + 1
            BY <1>1, <3>2
        <3> QED
            BY <1>1, <3>1, <3>3
    <2> QED
        BY <1>4, <2>1, <2>2 DEF s
<1>5. CASE r.kind \notin GateKinds
    <2>1. ASSUME LastOf(s, GateKinds, kind) PROVE LastOf(recs, GateKinds, kind)
        <3>1. PICK i \in DOMAIN s : /\ s[i].kind = kind
                                    /\ \A j \in DOMAIN s : j > i => s[j].kind \notin GateKinds
            BY <1>2, <2>1
        <3>2. i # n + 1
            BY <1>1, <1>5, <3>1
        <3>3. i \in DOMAIN recs /\ recs[i] = s[i]
            BY <1>1, <3>2
        <3>4. \A j \in DOMAIN recs : j \in DOMAIN s /\ s[j] = recs[j]
            BY <1>1
        <3> QED
            BY <1>3, <3>1, <3>3, <3>4
    <2>2. ASSUME LastOf(recs, GateKinds, kind) PROVE LastOf(s, GateKinds, kind)
        <3>1. PICK i \in DOMAIN recs : /\ recs[i].kind = kind
                                       /\ \A j \in DOMAIN recs : j > i => recs[j].kind \notin GateKinds
            BY <1>3, <2>2
        <3>2. i \in DOMAIN s /\ s[i].kind = kind
            BY <1>1, <3>1
        <3>3. \A j \in DOMAIN s : j > i => s[j].kind \notin GateKinds
            BY <1>1, <1>5, <3>1
        <3> QED
            BY <1>2, <3>2, <3>3
    <2> QED
        BY <1>5, <2>1, <2>2 DEF s
<1> QED
    BY <1>4, <1>5

(* So the gate after an append is the record's own, or the old one.        *)
LEMMA GateAppend ==
    ASSUME NEW recs \in Seq(Record), NEW r \in Record
    PROVE  InspectApproval(Append(recs, r)) =
             IF r.kind \in GateKinds THEN GateAfter(r.kind) ELSE InspectApproval(recs)
<1>1. \A kind \in GateKinds : LastOf(Append(recs, r), GateKinds, kind) <=>
             IF r.kind \in GateKinds THEN r.kind = kind ELSE LastOf(recs, GateKinds, kind)
    BY LastOfAppend
<1>2. {"TOOL_CALL", "APPROVAL_REQUEST", "APPROVAL_RESULT"} \subseteq GateKinds
    BY DEF GateKinds
<1> HIDE DEF GateKinds
<1>3. CASE r.kind \in GateKinds
    BY <1>1, <1>2, <1>3 DEF InspectApproval, GateAfter
<1>4. CASE r.kind \notin GateKinds
    <2>1. /\ LastOf(Append(recs, r), GateKinds, "TOOL_CALL") <=> LastOf(recs, GateKinds, "TOOL_CALL")
          /\ LastOf(Append(recs, r), GateKinds, "APPROVAL_REQUEST") <=>
                LastOf(recs, GateKinds, "APPROVAL_REQUEST")
          /\ LastOf(Append(recs, r), GateKinds, "APPROVAL_RESULT") <=>
                LastOf(recs, GateKinds, "APPROVAL_RESULT")
        BY <1>1, <1>2, <1>4
    <2> QED
        BY <1>4, <2>1 DEF InspectApproval
<1> QED
    BY <1>3, <1>4

(* An append leaves the prefixes of the log alone.                         *)
LEMMA PrefixAppend ==
    ASSUME NEW recs \in Seq(Record), NEW r \in Record
    PROVE  /\ \A i \in DOMAIN recs : SubSeq(Append(recs, r), 1, i - 1) = SubSeq(recs, 1, i - 1)
           /\ SubSeq(Append(recs, r), 1, Len(recs)) = recs
<1> DEFINE s == Append(recs, r)
           n == Len(recs)
<1>1. /\ n \in Nat /\ DOMAIN recs = 1 .. n /\ s \in Seq(Record) /\ Len(s) = n + 1
      /\ \A i \in 1 .. n : s[i] = recs[i]
    BY AppendProperties
<1> HIDE DEF s
<1>2. \A q \in Seq(Record), m \in Nat : m <= Len(q) =>
            SubSeq(q, 1, m) = [j \in 1 .. m |-> q[j]]
    OBVIOUS
<1>3. ASSUME NEW m \in Nat, m <= n PROVE SubSeq(s, 1, m) = SubSeq(recs, 1, m)
    <2>1. SubSeq(s, 1, m) = [j \in 1 .. m |-> s[j]]
        BY <1>1, <1>2, <1>3
    <2>2. SubSeq(recs, 1, m) = [j \in 1 .. m |-> recs[j]]
        BY <1>1, <1>2, <1>3
    <2>3. \A j \in 1 .. m : s[j] = recs[j]
        BY <1>1, <1>3
    <2> QED
        BY <2>1, <2>2, <2>3
<1>4. \A i \in DOMAIN recs : i - 1 \in Nat /\ i - 1 <= n
    BY <1>1
<1>5. SubSeq(recs, 1, n) = recs
    OBVIOUS
<1> QED
    BY <1>1, <1>3, <1>4, <1>5 DEF s

(* The gate admits a record of this kind.                                  *)
Fits(kind) == kind \in LifecycleKinds \union {"ERROR"} \/ Gate0 = GateFor(kind)

(* A turn writes nothing, or a record that fits, and waits with a request  *)
(* only for its own call.                                                  *)
TurnWrote(o) ==
    \/ store' = store /\ op'[o].pc # "request"
    \/ \E kind \in EventKind :
        Accepted(o, kind) /\ Fits(kind) /\ (op'[o].pc = "request" => kind = "TOOL_CALL")

(* One append of a turn.                                                   *)
LEMMA TurnAppendFits ==
    ASSUME ShapeInv, NEW o \in Ops, NEW kind \in EventKind, NEW expected, NEW r,
           AppendAt(o, expected, kind, r),
           op[o].fence = store.fence => Fits(kind),
           r.pc = "request" => kind = "TOOL_CALL"
    PROVE  TurnWrote(o)
<1>1. op \in [Ops -> OpType]
    BY DEF ShapeInv, Types
<1>2. CASE Refused(o)
    BY <1>1, <1>2 DEF Refused, TurnWrote, OpType
<1>3. CASE Accepted(o, kind) /\ op' = [op EXCEPT ![o] = r]
    <2>1. op'[o] = r
        BY <1>1, <1>3
    <2>2. op[o].fence = store.fence
        BY <1>3, AcceptedGrows
    <2> QED
        BY <1>3, <2>1, <2>2 DEF TurnWrote
<1> QED
    BY <1>2, <1>3, AppendCases

(* A turn that moves on without writing.                                   *)
LEMMA TurnGotoFits ==
    ASSUME ShapeInv, NEW o \in Ops, NEW p, p # "request", Goto(o, p), OpOnly
    PROVE  TurnWrote(o)
<1>1. op \in [Ops -> OpType]
    BY DEF ShapeInv, Types
<1> QED
    BY <1>1 DEF TurnWrote, Goto, Become, OpOnly, OpType

(* Every step of a turn looks at the gate before it writes, or has just    *)
(* written the call that its request answers.                              *)
LEMMA TurnWrites ==
    ASSUME ShapeInv, OpenGateInv, NEW o \in Ops, TurnStep(o)
    PROVE  TurnWrote(o)
<1>0. op[o] \in OpType
    BY DEF ShapeInv, Types
<1>00. {"EXECUTION_START", "APPROVAL_REQUEST", "OUTPUT", "TOOL_RESULT", "TOOL_CALL", "END",
        "ERROR", "RESUME"} \subseteq EventKind
    BY DEF EventKind, LifecycleKinds, ApprovalKinds, TurnKinds
<1> USE DEF At
<1>1. CASE StartTurn(o)
    <2>1. CASE Fail(o) /\ OpOnly
        BY <2>1, TurnGotoFits DEF Fail
    <2>2. CASE /\ Gate0 = "none"
               /\ AppendAt(o, op[o].at, "EXECUTION_START", [op[o] EXCEPT !.pc = "run"])
        <3>1. Fits("EXECUTION_START") /\ [op[o] EXCEPT !.pc = "run"].pc # "request"
            BY <1>0, <2>2 DEF Fits, GateFor, OpType
        <3> QED
            BY <1>00, <2>2, <3>1, TurnAppendFits
    <2> QED
        BY <1>1, <2>1, <2>2 DEF StartTurn, Gate0
<1>2. CASE Effect(o)
    <2>1. /\ Gate0 = "none" /\ op[o].pc = "run" /\ AppendAt(o, HeadSeq(store), "OUTPUT", op[o])
        BY <1>2 DEF Effect, Gate0
    <2>2. Fits("OUTPUT")
        BY <2>1 DEF Fits, GateFor
    <2> QED
        BY <1>00, <2>1, <2>2, TurnAppendFits
<1>3. CASE CompleteApproval(o)
    <2>1. /\ Gate0 = "decided" /\ op[o].pc = "run"
          /\ AppendAt(o, HeadSeq(store), "TOOL_RESULT", op[o])
        BY <1>3 DEF CompleteApproval, Gate0
    <2>2. Fits("TOOL_RESULT")
        BY <2>1 DEF Fits, GateFor
    <2> QED
        BY <1>00, <2>1, <2>2, TurnAppendFits
<1>4. CASE ParkCall(o)
    <2>1. /\ Gate0 = "none"
          /\ AppendAt(o, HeadSeq(store), "TOOL_CALL", [op[o] EXCEPT !.pc = "request"])
        BY <1>4 DEF ParkCall, Gate0
    <2>2. Fits("TOOL_CALL")
        BY <2>1 DEF Fits, GateFor
    <2> QED
        BY <1>00, <2>1, <2>2, TurnAppendFits
<1>5. CASE ParkRequest(o)
    <2>1. /\ op[o].pc = "request"
          /\ AppendAt(o, HeadSeq(store), "APPROVAL_REQUEST", [op[o] EXCEPT !.pc = "mark"])
        BY <1>5 DEF ParkRequest
    <2>2. op[o].fence = store.fence => Fits("APPROVAL_REQUEST")
        BY <2>1 DEF OpenGateInv, OpenGate, Fits, GateFor
    <2>3. [op[o] EXCEPT !.pc = "mark"].pc # "request"
        BY <1>0 DEF OpType
    <2> QED
        BY <1>00, <2>1, <2>2, <2>3, TurnAppendFits
<1>6. CASE FailTurn(o)
    <2>1. AppendAt(o, HeadSeq(store), "ERROR", [op[o] EXCEPT !.pc = "unwind"])
        BY <1>6 DEF FailTurn
    <2>2. Fits("ERROR") /\ [op[o] EXCEPT !.pc = "unwind"].pc # "request"
        BY <1>0 DEF Fits, OpType
    <2> QED
        BY <1>00, <2>1, <2>2, TurnAppendFits
<1>7. CASE ResumeMarker(o)
    <2>1. AppendAt(o, HeadSeq(store), "RESUME", [op[o] EXCEPT !.pc = "unwind", !.result = "ok"])
        BY <1>7 DEF ResumeMarker
    <2>2. Fits("RESUME") /\ [op[o] EXCEPT !.pc = "unwind", !.result = "ok"].pc # "request"
        BY <1>0 DEF Fits, OpType, LifecycleKinds
    <2> QED
        BY <1>00, <2>1, <2>2, TurnAppendFits
<1>8. CASE StopTurn(o)
    BY <1>8, TurnGotoFits DEF StopTurn, Fail
<1>9. CASE EndTurn(o)
    <2>r. PICK r : r = IF Is(o, {"Exec"}) THEN [op[o] EXCEPT !.pc = "unwind", !.result = "ok"]
                                          ELSE [op[o] EXCEPT !.pc = "marker"]
        OBVIOUS
    <2>1. Gate0 = "none" /\ AppendAt(o, HeadSeq(store), "END", r)
        BY <1>9, <2>r DEF EndTurn, Gate0
    <2>2. Fits("END") /\ r.pc # "request"
        BY <1>0, <2>1, <2>r DEF Fits, GateFor, OpType
    <2> QED
        BY <1>00, <2>1, <2>2, TurnAppendFits
<1>10. CASE Redrive(o)
    <2>1. \/ \E p \in {"run", "marker", "mark", "unwind"} : Goto(o, p) /\ OpOnly
          \/ /\ Gate0 = "called"
             /\ AppendAt(o, HeadSeq(store), "APPROVAL_REQUEST", [op[o] EXCEPT !.pc = "mark"])
        BY <1>10 DEF Redrive, Fail, Gate0
    <2>2. CASE \E p \in {"run", "marker", "mark", "unwind"} : Goto(o, p) /\ OpOnly
        BY <2>2, TurnGotoFits
    <2>3. CASE /\ Gate0 = "called"
               /\ AppendAt(o, HeadSeq(store), "APPROVAL_REQUEST", [op[o] EXCEPT !.pc = "mark"])
        <3>1. Fits("APPROVAL_REQUEST") /\ [op[o] EXCEPT !.pc = "mark"].pc # "request"
            BY <1>0, <2>3 DEF Fits, GateFor, OpType
        <3> QED
            BY <1>00, <2>3, <3>1, TurnAppendFits
    <2> QED
        BY <2>1, <2>2, <2>3
<1> QED
    BY <1>1, <1>2, <1>3, <1>4, <1>5, <1>6, <1>7, <1>8, <1>9, <1>10 DEF TurnStep

(* A step that leaves the log alone sees what its call goes on to use ...  *)
Looks(o) ==
    /\ store'.recs = store.recs /\ store'.fence \in {store.fence, store.fence + 1}
    /\ OpenGate(op'[o], Gate0, store'.fence, HeadSeq(store))
    /\ op'[o].result = "parked" =>
            op[o].result = "parked" /\ op'[o].fence = op[o].fence /\ op'[o].pc \in {"unwind", "done"}

(* ... and one that writes adds a record that fits.                        *)
Adds(o) ==
    /\ \E kind \in EventKind :
        /\ Accepted(o, kind) /\ Fits(kind)
        /\ op'[o].pc = "request" => kind = "TOOL_CALL"
        /\ op'[o].result = "parked" => kind = "SUSPEND" /\ Gate0 = "requested"
    /\ op'[o].fence = op[o].fence /\ op[o].fence # 0
    /\ op'[o].pc \in {"run", "request", "marker", "mark", "unwind", "require"}
    /\ op'[o].result = "parked" => op'[o].pc = "unwind"

(* Every step of a call is one of these, or deletes the session.           *)
LEMMA StepGates ==
    ASSUME ShapeInv, GatesInv, NEW o \in Ops, OpStep(o)
    PROVE  Looks(o) \/ Adds(o) \/ Deletes(o)
<1>0. /\ KindInv(op[o]) /\ ThenInv(op[o]) /\ FencedInv(op[o])
      /\ OpenGate(op[o], Gate0, store.fence, HeadSeq(store))
      /\ op[o].result = "parked" => op[o].pc \in {"unwind", "done"}
    BY DEF ShapeInv, Good, GatesInv, OpenGateInv
<1>00. /\ TurnKindsWritten \subseteq EventKind
       /\ {"SUSPEND", "APPROVAL_REQUEST", "APPROVAL_RESULT"} \subseteq EventKind
    BY DEF TurnKindsWritten, EventKind, LifecycleKinds, ApprovalKinds
<1> USE DEF Keeping, Quits, OpenGate, Fencing, Turns
<1>1. CASE Unwind(o)
    BY <1>1, <1>0, UnwindEffect DEF Looks, KindInv
<1>2. CASE Mark(o)
    BY <1>2, <1>0, MarkEffect DEF Looks, KindInv
<1>3. CASE FenceMint(o)
    <2>1. /\ op[o].kind \in Turns \union {"Suspend", "Approve"}
          /\ op[o].kind \in Turns => op[o].then \in {"repair", "create", "check"}
          /\ op[o].kind = "Suspend" => op[o].then = "record"
          /\ op[o].kind = "Approve" => op[o].then = "decide"
        BY <1>3, <1>0, FenceMintEffect DEF ThenInv, KindInv
    <2>2. store' = store \/ (store'.recs = store.recs /\ store'.fence = store.fence + 1)
        BY <1>3, FenceMintEffect, MintEffect DEF ShapeInv, Types
    <2> QED
        BY <1>3, <1>0, <2>1, <2>2, FenceMintEffect DEF Looks
<1>4. CASE FenceHead(o)
    <2>1. op[o].kind = "CheckedResume" /\ op[o].then \in {"repair", "create", "check"}
        BY <1>4, <1>0, FenceHeadEffect DEF ThenInv, KindInv
    <2> QED
        BY <1>4, <1>0, <2>1, FenceHeadEffect DEF Looks
<1>5. CASE ExecInspect(o)
    BY <1>5, <1>0, ExecInspectEffect DEF Looks, KindInv
<1>6. CASE ResumeInspect(o)
    BY <1>6, <1>0, ResumeInspectEffect DEF Looks, KindInv, Gate0
<1>7. CASE Gate(o)
    BY <1>7, <1>0, GateEffect DEF Looks, KindInv
<1>8. CASE Create(o)
    BY <1>8, <1>0, CreateEffect DEF Looks, KindInv
<1>9. CASE OpenHarness(o)
    BY <1>9, <1>0, OpenHarnessEffect DEF Looks, KindInv
<1>10. CASE CheckSuperseded(o)
    BY <1>10, <1>0, CheckSupersededEffect DEF Looks, KindInv
<1>11. CASE HandoffInspect(o)
    BY <1>11, <1>0, HandoffInspectEffect DEF Looks, KindInv, Gate0
<1>12. CASE CloseInvocation(o)
    BY <1>12, <1>0, CloseInvocationEffect DEF Looks, KindInv
<1>13. CASE SuspendInspect(o)
    BY <1>13, <1>0, SuspendInspectEffect DEF Looks, KindInv
<1>14. CASE Snapshot(o)
    BY <1>14, <1>0, SnapshotEffect DEF Looks, KindInv
<1>15. CASE ApproveScan(o)
    BY <1>15, <1>0, ApproveScanEffect DEF Looks, KindInv, Gate0
<1>16. CASE DeleteRow(o)
    BY <1>16, <1>0, DeleteRowEffect DEF Looks, Deletes, KindInv
<1>17. CASE ForkInspect(o)
    BY <1>17, <1>0, ForkInspectEffect DEF Looks, KindInv
<1>18. CASE ForkFence(o)
    <2>1. store' = store \/ (store'.recs = store.recs /\ store'.fence = store.fence + 1)
        BY <1>18, ForkFenceEffect, MintEffect DEF ShapeInv, Types
    <2> QED
        BY <1>18, <1>0, <2>1, ForkFenceEffect DEF Looks, KindInv, Checkpointing
<1>19. CASE ForkHead(o)
    BY <1>19, <1>0, ForkHeadEffect DEF Looks, ThenInv, KindInv, Checkpointing
<1>20. CASE AwaitMinted(o)
    BY <1>20, <1>0, AwaitMintedEffect DEF Looks, KindInv
<1>21. CASE Checkpoint(o)
    BY <1>21, <1>0, CheckpointEffect DEF Looks, KindInv
<1>22. CASE RequireSnapshot(o)
    BY <1>22, <1>0, RequireSnapshotEffect DEF Looks, KindInv
<1>23. CASE TagActor(o)
    BY <1>23, <1>0, TagActorEffect DEF Looks, KindInv
<1>24. CASE CreateChild(o)
    BY <1>24, <1>0, CreateChildEffect DEF Looks, KindInv
<1>25. CASE CopyLog(o)
    BY <1>25, <1>0, CopyLogEffect DEF Looks, KindInv
<1>26. CASE AbortFork(o)
    BY <1>26, <1>0, AbortForkEffect DEF Looks, KindInv
<1>27. CASE RollbackFork(o)
    BY <1>27, <1>0, RollbackForkEffect DEF Looks, KindInv
<1>28. CASE Repair(o)
    <2>1. op[o].head = HeadSeq(store) => Fits("APPROVAL_REQUEST")
        BY <1>28, <1>0, RepairEffect DEF Fits, GateFor, ThenInv
    <2> QED
        BY <1>28, <1>0, <1>00, <2>1, RepairEffect DEF Looks, Adds, KindInv, FencedInv
<1>29. CASE RecordSuspend(o)
    <2>1. Fits("SUSPEND") /\ op[o].kind \in Turns \union {"Suspend"}
        BY <1>29, <1>0, RecordSuspendEffect DEF Fits, LifecycleKinds, KindInv
    <2> QED
        BY <1>29, <1>0, <1>00, <2>1, RecordSuspendEffect DEF Looks, Adds, FencedInv
<1>30. CASE Decide(o)
    <2>1. op[o].head = HeadSeq(store) => Fits("APPROVAL_RESULT")
        BY <1>30, <1>0, DecideEffect DEF Fits, GateFor, KindInv
    <2> QED
        BY <1>30, <1>0, <1>00, <2>1, DecideEffect DEF Looks, Adds, KindInv, FencedInv
<1>31. CASE ForkRecord(o)
    <2>1. Fits("SUSPEND")
        BY DEF Fits, LifecycleKinds
    <2> QED
        BY <1>31, <1>0, <1>00, <2>1, ForkRecordEffect DEF Looks, Adds, KindInv, FencedInv, Checkpointing
<1>32. CASE BeginCheckpoint(o)
    BY <1>32, <1>0, BeginCheckpointEffect DEF Looks, KindInv, Checkpointing
<1>33. CASE EndHarnesses(o)
    BY <1>33, <1>0, EndHarnessesEffect DEF Looks, KindInv, Checkpointing
<1>34. CASE TurnStep(o)
    <2>1. /\ op[o].pc \in TurnPCs /\ op[o].fence # 0 /\ op[o].result # "parked"
        BY <1>34, <1>0, TurnEffect DEF TurnPCs, FencedInv, Streaming
    <2>2. /\ op'[o].fence = op[o].fence /\ op'[o].result # "parked"
          /\ op'[o].pc \in {"run", "request", "marker", "mark", "unwind"}
        BY <1>34, <2>1, TurnEffect
    <2>3. CASE store' = store /\ op'[o].pc # "request"
        BY <2>2, <2>3 DEF Looks
    <2>4. CASE \E kind \in EventKind :
                Accepted(o, kind) /\ Fits(kind) /\ (op'[o].pc = "request" => kind = "TOOL_CALL")
        BY <2>1, <2>2, <2>4 DEF Adds
    <2> QED
        BY <1>34, <2>3, <2>4, TurnWrites DEF TurnWrote, GatesInv
<1> QED
    BY <1>1, <1>2, <1>3, <1>4, <1>5, <1>6, <1>7, <1>8, <1>9, <1>10, <1>11, <1>12,
       <1>13, <1>14, <1>15, <1>16, <1>17, <1>18, <1>19, <1>20, <1>21, <1>22, <1>23,
       <1>24, <1>25, <1>26, <1>27, <1>28, <1>29, <1>30, <1>31, <1>32, <1>33, <1>34
    DEF OpStep, ForkStep

(* The log with fence f shows a park.                                      *)
Parked(recs, f) ==
    \E i \in DOMAIN recs :
        /\ recs[i] = [kind |-> "SUSPEND", fence |-> f]
        /\ InspectApproval(SubSeq(recs, 1, i - 1)) = "requested"

(* A record that fits skips no gate, and hides no park.                    *)
LEMMA FittingAppend ==
    ASSUME ShapeInv, GatesAreNotSkipped, NEW r \in Record, Fits(r.kind),
           store'.recs = Append(store.recs, r)
    PROVE  /\ GatesAreNotSkipped'
           /\ \A f : Parked(store.recs, f) => Parked(store'.recs, f)
           /\ r.kind = "SUSPEND" /\ Gate0 = "requested" => Parked(store'.recs, r.fence)
           /\ HeadSeq(store') = HeadSeq(store) + 1
           /\ Gate0' = IF r.kind \in GateKinds THEN GateAfter(r.kind) ELSE Gate0
<1> DEFINE recs == store.recs
           n == Len(recs)
           s == store'.recs
<1>1. recs \in Seq(Record)
    BY FenceNumbers
<1>2. /\ n \in Nat /\ DOMAIN recs = 1 .. n /\ DOMAIN s = 1 .. n + 1 /\ s[n + 1] = r /\ Len(s) = n + 1
      /\ \A i \in 1 .. n : s[i] = recs[i]
    BY <1>1, AppendProperties
<1>3. /\ \A i \in DOMAIN recs : SubSeq(s, 1, i - 1) = SubSeq(recs, 1, i - 1)
      /\ SubSeq(s, 1, n) = recs
    BY <1>1, PrefixAppend
<1>4. Gate0' = IF r.kind \in GateKinds THEN GateAfter(r.kind) ELSE Gate0
    BY <1>1, GateAppend DEF Gate0
<1>5. GatesAreNotSkipped'
    <2> SUFFICES ASSUME NEW i \in DOMAIN s, s[i].kind \notin LifecycleKinds \union {"ERROR"}
                 PROVE  InspectApproval(SubSeq(s, 1, i - 1)) = GateFor(s[i].kind)
        BY DEF GatesAreNotSkipped
    <2>1. CASE i \in DOMAIN recs
        <3>1. s[i] = recs[i] /\ SubSeq(s, 1, i - 1) = SubSeq(recs, 1, i - 1)
            BY <1>2, <1>3, <2>1
        <3> QED
            BY <2>1, <3>1 DEF GatesAreNotSkipped
    <2>2. CASE i = n + 1
        <3>1. i - 1 = n /\ s[i] = r
            BY <1>2, <2>2
        <3>2. InspectApproval(recs) = GateFor(r.kind)
            BY <3>1 DEF Fits, Gate0
        <3> QED
            BY <1>3, <3>1, <3>2
    <2> QED
        BY <1>2, <2>1, <2>2
<1>6. ASSUME NEW f, Parked(recs, f) PROVE Parked(s, f)
    <2>1. PICK i \in DOMAIN recs : /\ recs[i] = [kind |-> "SUSPEND", fence |-> f]
                                   /\ InspectApproval(SubSeq(recs, 1, i - 1)) = "requested"
        BY <1>6 DEF Parked
    <2>2. i \in DOMAIN s /\ s[i] = recs[i]
        BY <1>2
    <2>3. SubSeq(s, 1, i - 1) = SubSeq(recs, 1, i - 1)
        BY <1>3
    <2>4. InspectApproval(SubSeq(s, 1, i - 1)) = "requested"
        BY <2>1, <2>3
    <2> QED
        BY <2>1, <2>2, <2>4 DEF Parked
<1>7. ASSUME r.kind = "SUSPEND", Gate0 = "requested" PROVE Parked(s, r.fence)
    <2>1. n + 1 \in DOMAIN s /\ (n + 1) - 1 = n
        BY <1>2
    <2>2. s[n + 1] = [kind |-> "SUSPEND", fence |-> r.fence]
        BY <1>2, <1>7 DEF Record
    <2>3. InspectApproval(SubSeq(s, 1, (n + 1) - 1)) = "requested"
        BY <1>3, <1>7, <2>1 DEF Gate0
    <2> QED
        BY <2>1, <2>2, <2>3 DEF Parked
<1> QED
    BY <1>2, <1>4, <1>5, <1>6, <1>7 DEF HeadSeq

(* The park of every call is in the log.                                   *)
LEMMA ParksAreLogged == ParkMeansSuspended <=>
    \A o \in Ops : op[o].result = "parked" => Parked(store.recs, op[o].fence)
BY DEF ParkMeansSuspended, Parked

(* A step of a call keeps what its host and the others know of the gate.   *)
LEMMA StepKeepsGates ==
    ASSUME ShapeInv, FenceInv, GatesInv, NEW u \in Ops, OpStep(u)
    PROVE  GatesInv'
<1>0. /\ \A t \in Ops \ {u} : Same(op[t], op'[t])
      /\ \A t \in Ops : OpenGate(op[t], Gate0, store.fence, HeadSeq(store))
      /\ \A t \in Ops : op[t].result = "parked" =>
            op[t].pc \in {"unwind", "done"} /\ Parked(store.recs, op[t].fence)
      /\ GatesAreNotSkipped
    BY StepMoves, ParksAreLogged DEF Moves, GatesInv, OpenGateInv
<1>1. /\ store.fence \in Nat /\ HeadSeq(store) \in Nat
      /\ \A t \in Ops : /\ op[t].fence \in Nat /\ op[t].fence <= store.fence
                        /\ op[t].head \in Nat /\ op[t].head <= HeadSeq(store)
    BY FenceNumbers, Numbers DEF ShapeInv, Within
<1>2. CASE Looks(u)
    <2>1. Gate0' = Gate0 /\ HeadSeq(store') = HeadSeq(store) /\ store'.recs = store.recs
        BY <1>2 DEF Looks, Gate0, HeadSeq
    <2>2. ASSUME NEW t \in Ops PROVE OpenGate(op'[t], Gate0, store'.fence, HeadSeq(store))
        <3>1. CASE t = u
            BY <1>2, <3>1 DEF Looks
        <3>2. CASE t # u
            <4>1. op[t].fence = store'.fence => op[t].fence = store.fence
                BY <1>1, <1>2 DEF Looks
            <4> QED
                BY <1>0, <3>2, <4>1 DEF Same, OpenGate
        <3> QED
            BY <3>1, <3>2
    <2>3. ASSUME NEW t \in Ops, op'[t].result = "parked"
          PROVE  op'[t].pc \in {"unwind", "done"} /\ Parked(store.recs, op'[t].fence)
        BY <1>0, <1>2, <2>3 DEF Looks, Same
    <2>4. GatesAreNotSkipped'
        BY <1>0, <2>1 DEF GatesAreNotSkipped
    <2>5. OpenGateInv'
        BY <2>1, <2>2 DEF OpenGateInv
    <2>6. ParkMeansSuspended'
        <3>1. \A t \in Ops : op'[t].result = "parked" => Parked(store'.recs, op'[t].fence)
            BY <2>1, <2>3
        <3> QED
            BY <3>1 DEF ParkMeansSuspended, Parked
    <2> QED
        BY <2>3, <2>4, <2>5, <2>6 DEF GatesInv
<1>3. ASSUME NEW r \in Record, Fits(r.kind), store'.recs = Append(store.recs, r),
             store'.fence >= store.fence,
             \A t \in Ops \ {u} : op[t].pc = "request" => op[t].fence # store'.fence,
             op'[u].pc \in {"run", "request", "marker", "mark", "unwind", "require"},
             op'[u].pc = "request" => r.kind = "TOOL_CALL",
             op'[u].result = "parked" =>
                op'[u].pc = "unwind" /\ r.kind = "SUSPEND" /\ Gate0 = "requested" /\ r.fence = op'[u].fence
      PROVE  GatesInv'
    <2>1. /\ GatesAreNotSkipped' /\ HeadSeq(store') = HeadSeq(store) + 1
          /\ Gate0' = IF r.kind \in GateKinds THEN GateAfter(r.kind) ELSE Gate0
          /\ \A f : Parked(store.recs, f) => Parked(store'.recs, f)
          /\ r.kind = "SUSPEND" /\ Gate0 = "requested" => Parked(store'.recs, r.fence)
        BY <1>0, <1>3, FittingAppend
    <2>2. ASSUME NEW t \in Ops PROVE OpenGate(op'[t], Gate0', store'.fence, HeadSeq(store'))
        <3>1. CASE t = u
            <4>1. r.kind = "TOOL_CALL" => Gate0' = "called"
                BY <2>1 DEF GateAfter, GateKinds
            <4> QED
                BY <1>3, <3>1, <4>1 DEF OpenGate, Fencing
        <3>2. CASE t # u
            <4>1. Same(op[t], op'[t])
                BY <1>0, <3>2
            <4>2. op'[t].head # HeadSeq(store')
                BY <1>1, <2>1, <4>1 DEF Same
            <4>3. op'[t].pc = "request" => op'[t].fence # store'.fence
                BY <1>3, <3>2, <4>1 DEF Same
            <4> QED
                BY <4>2, <4>3 DEF OpenGate
        <3> QED
            BY <3>1, <3>2
    <2>3. ASSUME NEW t \in Ops, op'[t].result = "parked"
          PROVE  op'[t].pc \in {"unwind", "done"} /\ Parked(store'.recs, op'[t].fence)
        <3>1. CASE t = u
            BY <1>3, <2>1, <2>3, <3>1
        <3>2. CASE t # u
            BY <1>0, <2>1, <2>3, <3>2 DEF Same
        <3> QED
            BY <3>1, <3>2
    <2>4. OpenGateInv'
        BY <2>2 DEF OpenGateInv
    <2>5. ParkMeansSuspended'
        BY <2>3 DEF ParkMeansSuspended, Parked
    <2> QED
        BY <2>1, <2>3, <2>4, <2>5 DEF GatesInv
<1>4. CASE Adds(u)
    <2>1. PICK kind \in EventKind :
            /\ Accepted(u, kind) /\ Fits(kind)
            /\ op'[u].pc = "request" => kind = "TOOL_CALL"
            /\ op'[u].result = "parked" => kind = "SUSPEND" /\ Gate0 = "requested"
        BY <1>4 DEF Adds
    <2>2. PICK r : r = [kind |-> kind, fence |-> op[u].fence]
        OBVIOUS
    <2>3. r \in Record /\ r.kind = kind /\ r.fence = op[u].fence
        BY <1>1, <2>2 DEF Record
    <2>4. store'.fence = store.fence /\ op[u].fence = store.fence /\ store'.recs = Append(store.recs, r)
        BY <2>1, <2>2, WriteEffect
    <2>5. /\ op'[u].fence = op[u].fence /\ op[u].fence # 0
          /\ op'[u].pc \in {"run", "request", "marker", "mark", "unwind", "require"}
          /\ op'[u].result = "parked" => op'[u].pc = "unwind"
        BY <1>4 DEF Adds
    <2>6. \A t \in Ops \ {u} : op[t].fence # store'.fence
        BY <2>4, <2>5 DEF FenceInv
    <2>7. store'.fence >= store.fence
        BY <1>1, <2>4
    <2> QED
        BY <1>3, <2>1, <2>3, <2>4, <2>5, <2>6, <2>7
<1>5. CASE Deletes(u)
    <2>1. PICK r : r = [kind |-> "DELETE", fence |-> store.fence + 1]
        OBVIOUS
    <2>2. r \in Record /\ Fits(r.kind)
        BY <1>1, <2>1 DEF Record, Fits, EventKind, LifecycleKinds
    <2>3. store'.fence = store.fence + 1 /\ store'.recs = Append(store.recs, r)
        BY <1>5, <2>1, WriteEffect
    <2>4. store'.fence >= store.fence /\ \A t \in Ops : op[t].fence # store'.fence
        BY <1>1, <2>3
    <2>5. op'[u].pc = "unwind" /\ op'[u].result = "ok"
        BY <1>5 DEF Deletes
    <2> QED
        BY <1>3, <2>2, <2>3, <2>4, <2>5
<1> QED
    BY <1>2, <1>4, <1>5, StepGates

(* Every step keeps what the calls know of the gate.                       *)
LEMMA NextGates == ShapeInv /\ FenceInv /\ GatesInv /\ [Next]_vars => GatesInv'
<1> SUFFICES ASSUME ShapeInv, FenceInv, GatesInv, [Next]_vars PROVE GatesInv'
    OBVIOUS
<1>1. ASSUME NEW o \in Ops, OpStep(o) PROVE GatesInv'
    BY <1>1, StepKeepsGates
<1>2. ASSUME store' = store,
             \A o \in Ops : \/ op'[o] = op[o]
                            \/ op'[o].pc \in {"mark", "delete", "inspect",
                                  "done"} /\ op'[o].result # "parked"
      PROVE  GatesInv'
    <2>1. Gate0' = Gate0 /\ HeadSeq(store') = HeadSeq(store)
        BY <1>2 DEF Gate0
    <2>2. ASSUME NEW o \in Ops PROVE OpenGate(op'[o], Gate0, store.fence, HeadSeq(store))
        BY <1>2 DEF GatesInv, OpenGateInv, OpenGate, Fencing
    <2>3. OpenGateInv'
        BY <1>2, <2>1, <2>2 DEF OpenGateInv
    <2>4. GatesAreNotSkipped'
        BY <1>2 DEF GatesInv, GatesAreNotSkipped
    <2>5. \A o \in Ops : op'[o].result = "parked" => op'[o] = op[o]
        BY <1>2
    <2>6. ParkMeansSuspended'
        BY <1>2, <2>5 DEF GatesInv, ParkMeansSuspended
    <2> QED
        BY <2>3, <2>4, <2>5, <2>6 DEF GatesInv
<1>3. ASSUME NEW o \in Ops, NEW kind \in OpKinds, Begin(o, kind) PROVE GatesInv'
    <2>1. /\ store' = store /\ op'[o].pc \in {"mark", "delete", "inspect", "done"}
          /\ op'[o].result # "parked" /\ \A t \in Ops \ {o} : op'[t] = op[t]
        BY <1>3, BeginEffect DEF Alone
    <2> QED
        BY <1>2, <2>1
<1>4. ASSUME NEW c \in Hosts, Crash(c) PROVE GatesInv'
    <2>1. ASSUME NEW t \in Ops PROVE op'[t] = op[t] \/ (op'[t].pc = "done" /\ op'[t].result # "parked")
        <3>1. op'[t] = op[t] \/ Crashed(op[t], op'[t])
            BY <1>4, CrashEffect
        <3> QED
            BY <3>1 DEF Crashed
    <2>2. store' = store
        BY <1>4, CrashEffect
    <2> QED
        BY <1>2, <2>1, <2>2
<1>5. CASE UNCHANGED vars
    BY <1>2, <1>5 DEF vars
<1> QED
    BY <1>1, <1>3, <1>4, <1>5 DEF Next, Quiescent

(* What the calls know of the gate is an invariant.                        *)
LEMMA GatesInvariant == Spec => []GatesInv
<1> DEFINE Inv == ShapeInv /\ FenceInv /\ GatesInv
<1>1. Init => Inv
    <2> SUFFICES ASSUME Init PROVE FenceInv /\ GatesInv
        BY InitShape
    <2>1. \A o \in Ops : op[o].fence = 0 /\ ~op[o].late /\ op[o].pc = "idle" /\ op[o].result = "none"
        BY DEF Init, IdleOp
    <2>2. store.recs = <<>>
        BY DEF Init, PutSession, EmptyStore
    <2>3. FenceInv
        BY <2>1, <2>2 DEF FenceInv, LateTurnWritesNothing
    <2>4. OpenGateInv
        BY <2>1 DEF OpenGateInv, OpenGate, Fencing
    <2>5. GatesAreNotSkipped /\ ParkMeansSuspended
        BY <2>1, <2>2 DEF GatesAreNotSkipped, ParkMeansSuspended
    <2> QED
        BY <2>1, <2>3, <2>4, <2>5 DEF GatesInv
<1>2. Inv /\ [Next]_vars => Inv'
    BY NextShape, NextFences, NextGates
<1>3. Inv => GatesInv
    OBVIOUS
<1> HIDE DEF Inv
<1> QED
    BY <1>1, <1>2, <1>3, PTL DEF Spec

(* No turn continues past an open approval, no new turn starts beside it,  *)
(* and each gated call gets one request, one decision and one receipt, in  *)
(* this order: whatever the other hosts repair, decide, resume or delete   *)
(* between the inspection of a call and its append, the fence or the head  *)
(* the call names refuses it.                                              *)
THEOREM GatesInOrder == Spec => []GatesAreNotSkipped
<1>1. GatesInv => GatesAreNotSkipped
    BY DEF GatesInv
<1> QED
    BY <1>1, GatesInvariant, PTL

(* A call that reports a park has committed SUSPEND under its own fence    *)
(* while the request was the open gate.                                    *)
THEOREM ParksAreSuspended == Spec => []ParkMeansSuspended
<1>1. GatesInv => ParkMeansSuspended
    BY DEF GatesInv
<1> QED
    BY <1>1, GatesInvariant, PTL

-----------------------------------------------------------------------------
(* One Registry *)

(* A session without gated calls has no call to repair.                    *)
LEMMA NothingCalled ==
    ASSUME UngatedInv, Tier = "MEMORY"
    PROVE  InspectApproval(store.recs) # "called"
<1>1. ~LastOf(store.recs, GateKinds, "TOOL_CALL")
    BY DEF UngatedInv, LastOf
<1> QED
    BY <1>1 DEF InspectApproval

(* A step of a call gates nothing of a memory harness.                     *)
LEMMA StepUngated ==
    ASSUME ShapeInv, UngatedInv, Tier = "MEMORY", NEW o \in Ops, OpStep(o)
    PROVE  /\ op'[o].then # "repair"
           /\ \/ store'.recs = store.recs
              \/ Deletes(o)
              \/ \E kind \in EventKind \ {"TOOL_CALL"} : Accepted(o, kind)
<1>0. op[o].then # "repair" /\ InspectApproval(store.recs) # "called" /\ Tier # "STATELESS"
    BY NothingCalled DEF UngatedInv
<1>00. /\ TurnKindsWritten \subseteq EventKind
       /\ {"SUSPEND", "APPROVAL_REQUEST", "APPROVAL_RESULT"} \subseteq EventKind \ {"TOOL_CALL"}
    BY DEF TurnKindsWritten, EventKind, LifecycleKinds, ApprovalKinds
<1> USE DEF Keeping, Quits
<1>1. CASE Unwind(o)
    BY <1>1, <1>0, UnwindEffect
<1>2. CASE Mark(o)
    BY <1>2, <1>0, MarkEffect
<1>3. CASE FenceMint(o)
    <2>1. store' = store \/ store'.recs = store.recs
        BY <1>3, FenceMintEffect, MintEffect DEF ShapeInv, Types
    <2> QED
        BY <1>3, <1>0, <2>1, FenceMintEffect
<1>4. CASE FenceHead(o)
    BY <1>4, <1>0, FenceHeadEffect
<1>5. CASE ExecInspect(o)
    BY <1>5, <1>0, ExecInspectEffect
<1>6. CASE ResumeInspect(o)
    BY <1>6, <1>0, ResumeInspectEffect
<1>7. CASE Gate(o)
    BY <1>7, <1>0, GateEffect
<1>8. CASE Create(o)
    BY <1>8, <1>0, CreateEffect
<1>9. CASE OpenHarness(o)
    BY <1>9, <1>0, OpenHarnessEffect
<1>10. CASE CheckSuperseded(o)
    BY <1>10, <1>0, CheckSupersededEffect
<1>11. CASE HandoffInspect(o)
    BY <1>11, <1>0, HandoffInspectEffect
<1>12. CASE CloseInvocation(o)
    BY <1>12, <1>0, CloseInvocationEffect
<1>13. CASE SuspendInspect(o)
    BY <1>13, <1>0, SuspendInspectEffect
<1>14. CASE Snapshot(o)
    BY <1>14, <1>0, SnapshotEffect
<1>15. CASE ApproveScan(o)
    BY <1>15, <1>0, ApproveScanEffect
<1>16. CASE DeleteRow(o)
    BY <1>16, <1>0, DeleteRowEffect DEF Deletes
<1>17. CASE ForkInspect(o)
    BY <1>17, <1>0, ForkInspectEffect
<1>18. CASE ForkFence(o)
    <2>1. store' = store \/ store'.recs = store.recs
        BY <1>18, ForkFenceEffect, MintEffect DEF ShapeInv, Types
    <2> QED
        BY <1>18, <1>0, <2>1, ForkFenceEffect
<1>19. CASE ForkHead(o)
    BY <1>19, <1>0, ForkHeadEffect
<1>20. CASE AwaitMinted(o)
    BY <1>20, <1>0, AwaitMintedEffect
<1>21. CASE Checkpoint(o)
    BY <1>21, <1>0, CheckpointEffect
<1>22. CASE RequireSnapshot(o)
    BY <1>22, <1>0, RequireSnapshotEffect
<1>23. CASE TagActor(o)
    BY <1>23, <1>0, TagActorEffect
<1>24. CASE CreateChild(o)
    BY <1>24, <1>0, CreateChildEffect
<1>25. CASE CopyLog(o)
    BY <1>25, <1>0, CopyLogEffect
<1>26. CASE AbortFork(o)
    BY <1>26, <1>0, AbortForkEffect
<1>27. CASE RollbackFork(o)
    BY <1>27, <1>0, RollbackForkEffect
<1>28. CASE Repair(o)
    BY <1>28, <1>0, <1>00, RepairEffect
<1>29. CASE RecordSuspend(o)
    BY <1>29, <1>0, <1>00, RecordSuspendEffect
<1>30. CASE Decide(o)
    BY <1>30, <1>0, <1>00, DecideEffect
<1>31. CASE ForkRecord(o)
    BY <1>31, <1>0, <1>00, ForkRecordEffect
<1>32. CASE BeginCheckpoint(o)
    BY <1>32, <1>0, BeginCheckpointEffect
<1>33. CASE EndHarnesses(o)
    BY <1>33, <1>0, EndHarnessesEffect
<1>34. CASE TurnStep(o)
    BY <1>34, <1>0, <1>00, TurnEffect
<1> QED
    BY <1>1, <1>2, <1>3, <1>4, <1>5, <1>6, <1>7, <1>8, <1>9, <1>10, <1>11, <1>12,
       <1>13, <1>14, <1>15, <1>16, <1>17, <1>18, <1>19, <1>20, <1>21, <1>22, <1>23,
       <1>24, <1>25, <1>26, <1>27, <1>28, <1>29, <1>30, <1>31, <1>32, <1>33, <1>34
    DEF OpStep, ForkStep

(* The log of a memory harness never has a gated call.                     *)
LEMMA NextUngated == ShapeInv /\ UngatedInv /\ [Next]_vars => UngatedInv'
<1> SUFFICES ASSUME ShapeInv, UngatedInv, [Next]_vars, Tier = "MEMORY"
             PROVE  /\ \A i \in DOMAIN store'.recs : store'.recs[i].kind # "TOOL_CALL"
                    /\ \A o \in Ops : op'[o].then # "repair"
    BY DEF UngatedInv
<1>0. /\ \A i \in DOMAIN store.recs : store.recs[i].kind # "TOOL_CALL"
      /\ \A o \in Ops : op[o].then # "repair"
      /\ store.recs \in Seq(Record)
    BY FenceNumbers DEF UngatedInv
<1>1. ASSUME NEW o \in Ops, OpStep(o)
      PROVE  /\ \A i \in DOMAIN store'.recs : store'.recs[i].kind # "TOOL_CALL"
             /\ \A t \in Ops : op'[t].then # "repair"
    <2>1. \A t \in Ops : op'[t].then # "repair"
        BY <1>0, <1>1, StepMoves, StepUngated DEF Moves, Same
    <2>2. CASE store'.recs = store.recs
        BY <1>0, <2>1, <2>2
    <2>3. ASSUME NEW kind, kind # "TOOL_CALL", NEW f,
                 store'.recs = Append(store.recs, [kind |-> kind, fence |-> f])
          PROVE  \A i \in DOMAIN store'.recs : store'.recs[i].kind # "TOOL_CALL"
        BY <1>0, <2>3
    <2>4. CASE Deletes(o)
        BY <2>1, <2>3, <2>4, WriteEffect
    <2>5. CASE \E kind \in EventKind \ {"TOOL_CALL"} : Accepted(o, kind)
        BY <2>1, <2>3, <2>5, WriteEffect
    <2> QED
        BY <1>1, <2>2, <2>1, <2>4, <2>5, StepUngated
<1>2. ASSUME NEW o \in Ops, NEW kind \in OpKinds, Begin(o, kind)
      PROVE  store' = store /\ \A t \in Ops : op'[t].then # "repair"
    BY <1>0, <1>2, BeginEffect DEF Alone
<1>3. ASSUME NEW c \in Hosts, Crash(c)
      PROVE  store' = store /\ \A t \in Ops : op'[t].then # "repair"
    <2>1. ASSUME NEW t \in Ops PROVE op'[t].then # "repair"
        <3>1. op'[t] = op[t] \/ Crashed(op[t], op'[t])
            BY <1>3, CrashEffect
        <3> QED
            BY <1>0, <3>1 DEF Crashed
    <2> QED
        BY <1>3, <2>1, CrashEffect
<1>4. CASE UNCHANGED vars
    BY <1>0, <1>4 DEF vars
<1> QED
    BY <1>0, <1>1, <1>2, <1>3, <1>4 DEF Next, Quiescent

(* Beside a deletion no call of its Registry is in progress.               *)
LEMMA DeleteIsAlone ==
    ASSUME ShapeInv, HoldsInv, NEW o \in Ops, NEW t \in Ops, Host(o) = Host(t),
           op[t].pc = "delete", op[o].pc \notin {"idle", "done"}
    PROVE  o = t
<1> DEFINE h == Host(o)
<1>1. h \in Hosts /\ op[t].kind = "Delete" /\ GuardKind(op[t].kind) = "delete"
    BY PlacementAssumption DEF ShapeInv, Good, KindInv, Host, GuardKind
<1>2. \A k : IsFiniteSet(Active(h, k)) /\ Cardinality(Active(h, k)) \in Nat
    BY ActiveFinite
<1>3. t \in Active(h, "delete")
    BY <1>1 DEF Active
<1> HIDE DEF h
<1>4. \A k : Cardinality(Active(h, k)) = 0 => Active(h, k) = {}
    BY <1>2, FS_EmptySet
<1>5. EntryInv(guard[h], Active(h, "operation"), Active(h, "read"), Active(h, "delete"))
    BY <1>1 DEF HoldsInv, GuardInv
<1>6. guard[h].deleting
    BY <1>3, <1>4, <1>5 DEF EntryInv
<1>7. Active(h, "operation") = {} /\ Active(h, "read") = {}
    BY <1>4, <1>5, <1>6 DEF EntryInv
<1>8. o \in Active(h, "delete")
    <2>1. o \in Active(h, GuardKind(op[o].kind))
        BY DEF Active, h
    <2> QED
        BY <1>7, <2>1, GuardKinds
<1>9. Cardinality(Active(h, "delete")) = 1
    BY <1>5, <1>6 DEF EntryInv
<1>10. PICK x : Active(h, "delete") = {x}
    BY <1>2, <1>9, FS_Singleton
<1> QED
    BY <1>3, <1>8, <1>10

(* Two calls do not have the mark.                                         *)
LEMMA OneMark ==
    ASSUME HoldsInv, NEW o \in Ops, NEW t \in Ops, Host(o) = Host(t), Marked(o), Marked(t)
    PROVE  o = t
BY DEF HoldsInv, MarkInv

(* What a call does that finds the tombstone: nothing.                     *)
LEMMA StepLate ==
    ASSUME ShapeInv, store.deletion = "PENDING", NEW o \in Ops, Late(op[o]), OpStep(o)
    PROVE  store' = store /\ actor' = actor /\ Late(op'[o])
<1>0. ~CheckWritable(store) /\ KindInv(op[o])
    BY DEF CheckWritable, ShapeInv, Good
<1> USE DEF Keeping, Quits, Late
<1>1. CASE Unwind(o)
    BY <1>1, <1>0, UnwindEffect
<1>2. CASE Mark(o)
    BY <1>2, <1>0, MarkEffect DEF KindInv
<1>3. CASE FenceMint(o)
    BY <1>3, <1>0, FenceMintEffect
<1>4. CASE FenceHead(o)
    BY <1>4, <1>0, FenceHeadEffect
<1>5. CASE ExecInspect(o)
    BY <1>5, <1>0, ExecInspectEffect
<1>6. CASE ResumeInspect(o)
    BY <1>6, <1>0, ResumeInspectEffect
<1>7. CASE Gate(o)
    BY <1>7, <1>0, GateEffect
<1>8. CASE Create(o)
    BY <1>8, <1>0, CreateEffect
<1>9. CASE OpenHarness(o)
    BY <1>9, <1>0, OpenHarnessEffect
<1>10. CASE CheckSuperseded(o)
    BY <1>10, <1>0, CheckSupersededEffect
<1>11. CASE HandoffInspect(o)
    BY <1>11, <1>0, HandoffInspectEffect
<1>12. CASE CloseInvocation(o)
    BY <1>12, <1>0, CloseInvocationEffect
<1>13. CASE SuspendInspect(o)
    BY <1>13, <1>0, SuspendInspectEffect
<1>14. CASE Snapshot(o)
    BY <1>14, <1>0, SnapshotEffect
<1>15. CASE ApproveScan(o)
    BY <1>15, <1>0, ApproveScanEffect
<1>16. CASE DeleteRow(o)
    BY <1>16, <1>0, DeleteRowEffect
<1>17. CASE ForkInspect(o)
    BY <1>17, <1>0, ForkInspectEffect
<1>18. CASE ForkFence(o)
    BY <1>18, <1>0, ForkFenceEffect
<1>19. CASE ForkHead(o)
    BY <1>19, <1>0, ForkHeadEffect
<1>20. CASE AwaitMinted(o)
    BY <1>20, <1>0, AwaitMintedEffect
<1>21. CASE Checkpoint(o)
    BY <1>21, <1>0, CheckpointEffect
<1>22. CASE RequireSnapshot(o)
    BY <1>22, <1>0, RequireSnapshotEffect
<1>23. CASE TagActor(o)
    BY <1>23, <1>0, TagActorEffect
<1>24. CASE CreateChild(o)
    BY <1>24, <1>0, CreateChildEffect
<1>25. CASE CopyLog(o)
    BY <1>25, <1>0, CopyLogEffect
<1>26. CASE AbortFork(o)
    BY <1>26, <1>0, AbortForkEffect
<1>27. CASE RollbackFork(o)
    BY <1>27, <1>0, RollbackForkEffect
<1>28. CASE Repair(o)
    BY <1>28, <1>0, RepairEffect
<1>29. CASE RecordSuspend(o)
    BY <1>29, <1>0, RecordSuspendEffect
<1>30. CASE Decide(o)
    BY <1>30, <1>0, DecideEffect
<1>31. CASE ForkRecord(o)
    BY <1>31, <1>0, ForkRecordEffect
<1>32. CASE BeginCheckpoint(o)
    BY <1>32, <1>0, BeginCheckpointEffect
<1>33. CASE EndHarnesses(o)
    BY <1>33, <1>0, EndHarnessesEffect
<1>34. CASE TurnStep(o)
    BY <1>34, <1>0, TurnEffect DEF TurnPCs
<1> QED
    BY <1>1, <1>2, <1>3, <1>4, <1>5, <1>6, <1>7, <1>8, <1>9, <1>10, <1>11, <1>12,
       <1>13, <1>14, <1>15, <1>16, <1>17, <1>18, <1>19, <1>20, <1>21, <1>22, <1>23,
       <1>24, <1>25, <1>26, <1>27, <1>28, <1>29, <1>30, <1>31, <1>32, <1>33, <1>34
    DEF OpStep, ForkStep

(* Once the session is deleted the calls of its Registry stay late, and a  *)
(* deletion is alone when it writes the tombstone.                         *)
LEMMA NextDeleted ==
    ASSUME OneRegistry, ShapeInv, HoldsInv, DeletedInv, [Next]_vars
    PROVE  DeletedInv' /\ (store.deletion = "PENDING" => UNCHANGED <<store, actor>>)
<1> DEFINE Goal == DeletedInv' /\ (store.deletion = "PENDING" => UNCHANGED <<store, actor>>)
<1>1. ASSUME NEW u \in Ops, OpStep(u) PROVE Goal
    <2>0. \A t \in Ops \ {u} : Same(op[t], op'[t])
        BY <1>1, StepMoves DEF Moves
    <2>1. CASE store.deletion = "PENDING"
        <3>1. store' = store /\ actor' = actor /\ Late(op'[u])
            BY <1>1, <2>1, StepLate DEF DeletedInv
        <3>2. \A t \in Ops \ {u} : Late(op'[t])
            BY <2>0, <2>1 DEF DeletedInv, Late, Same
        <3> QED
            BY <3>1, <3>2 DEF DeletedInv
    <2>2. CASE store.deletion # "PENDING" /\ store'.deletion = "PENDING"
        <3>1. ~Mints(u) /\ ~Appends(u) /\ ~Reads(u)
            <4>1. ~Mints(u) /\ ~Reads(u)
                BY <2>2, WriteEffect DEF Reads
            <4>2. \A kind \in EventKind : ~Accepted(u, kind)
                BY <2>2, WriteEffect
            <4> QED
                BY <4>1, <4>2 DEF Appends
        <3>2. Deletes(u)
            BY <1>1, <3>1, StepWrites
        <3>3. op[u].pc = "delete" /\ op'[u].pc = "unwind"
            BY <3>2 DEF Deletes
        <3>4. \A t \in Ops \ {u} : op[t].pc \in {"idle", "done"}
            BY <3>3, DeleteIsAlone DEF OneRegistry, Host
        <3>5. \A t \in Ops : Late(op'[t])
            BY <2>0, <3>3, <3>4 DEF Late, Same
        <3> QED
            BY <2>2, <3>5 DEF DeletedInv
    <2> QED
        BY <2>1, <2>2 DEF DeletedInv
<1>2. ASSUME store' = store, actor' = actor,
             \A t \in Ops : op'[t] = op[t] \/ Late(op'[t])
      PROVE  Goal
    BY <1>2 DEF DeletedInv
<1>3. ASSUME NEW o \in Ops, NEW kind \in OpKinds, Begin(o, kind) PROVE Goal
    <2>1. /\ store' = store /\ actor' = actor /\ Late(op'[o])
          /\ \A t \in Ops \ {o} : op'[t] = op[t]
        BY <1>3, BeginEffect DEF Alone, Late
    <2> QED
        BY <1>2, <2>1
<1>4. ASSUME NEW c \in Hosts, Crash(c) PROVE Goal
    <2>1. ASSUME NEW t \in Ops PROVE op'[t] = op[t] \/ Late(op'[t])
        <3>1. op'[t] = op[t] \/ Crashed(op[t], op'[t])
            BY <1>4, CrashEffect
        <3> QED
            BY <3>1 DEF Crashed, Late
    <2>2. store' = store /\ actor' = actor
        BY <1>4, CrashEffect
    <2> QED
        BY <1>2, <2>1, <2>2
<1>5. CASE UNCHANGED vars
    BY SMTT(30), <1>2, <1>5 DEF vars
<1> QED
    BY <1>1, <1>3, <1>4, <1>5 DEF Next, Quiescent

(* Where a call's own step takes it, its fence is the newest.              *)
LEMMA StepNewest ==
    ASSUME ShapeInv, NEW o \in Ops, Newest(op[o], store.fence, HeadSeq(store)), OpStep(o)
    PROVE  Newest(op'[o], store'.fence, HeadSeq(store'))
<1>0. KindInv(op[o]) /\ ThenInv(op[o]) /\ store \in Store
    BY DEF ShapeInv, Good, Types
<1>00. /\ TurnKindsWritten \subseteq EventKind
       /\ {"SUSPEND", "APPROVAL_REQUEST", "APPROVAL_RESULT"} \subseteq EventKind
    BY DEF TurnKindsWritten, EventKind, LifecycleKinds, ApprovalKinds
<1> USE DEF Keeping, Quits, Newest, Turns, Streaming
<1>1. CASE Unwind(o)
    BY <1>1, <1>0, UnwindEffect DEF KindInv
<1>2. CASE Mark(o)
    BY <1>2, <1>0, MarkEffect DEF KindInv
<1>3. CASE FenceMint(o)
    <2>1. /\ op[o].kind \in Turns \union {"Suspend", "Approve"}
          /\ op[o].kind \in Turns => op[o].then \in {"repair", "create", "check"}
          /\ op[o].kind = "Suspend" => op[o].then = "record"
          /\ op[o].kind = "Approve" => op[o].then = "decide"
        BY <1>3, <1>0, FenceMintEffect DEF ThenInv, KindInv, Fencing
    <2> QED
        BY <1>3, <2>1, FenceMintEffect
<1>4. CASE FenceHead(o)
    <2>1. op[o].kind = "CheckedResume" /\ op[o].then \in {"repair", "create", "check"}
        BY <1>4, <1>0, FenceHeadEffect DEF ThenInv, KindInv, Fencing
    <2> QED
        BY <1>4, <2>1, FenceHeadEffect
<1>5. CASE ExecInspect(o)
    BY <1>5, <1>0, ExecInspectEffect DEF KindInv
<1>6. CASE ResumeInspect(o)
    BY <1>6, <1>0, ResumeInspectEffect DEF KindInv
<1>7. CASE Gate(o)
    BY <1>7, <1>0, GateEffect DEF KindInv
<1>8. CASE Create(o)
    BY <1>8, <1>0, CreateEffect DEF KindInv
<1>9. CASE OpenHarness(o)
    BY <1>9, <1>0, OpenHarnessEffect DEF KindInv
<1>10. CASE CheckSuperseded(o)
    BY <1>10, <1>0, CheckSupersededEffect DEF KindInv
<1>11. CASE HandoffInspect(o)
    BY <1>11, <1>0, HandoffInspectEffect DEF KindInv
<1>12. CASE CloseInvocation(o)
    BY <1>12, <1>0, CloseInvocationEffect DEF KindInv
<1>13. CASE SuspendInspect(o)
    BY <1>13, <1>0, SuspendInspectEffect DEF KindInv
<1>14. CASE Snapshot(o)
    BY <1>14, <1>0, SnapshotEffect DEF KindInv
<1>15. CASE ApproveScan(o)
    BY <1>15, <1>0, ApproveScanEffect DEF KindInv
<1>16. CASE DeleteRow(o)
    BY <1>16, <1>0, DeleteRowEffect DEF KindInv
<1>17. CASE ForkInspect(o)
    BY <1>17, <1>0, ForkInspectEffect DEF KindInv
<1>18. CASE ForkFence(o)
    BY <1>18, <1>0, ForkFenceEffect DEF KindInv, Checkpointing
<1>19. CASE ForkHead(o)
    <2>1. op[o].kind = "Fork" /\ op[o].then \in {"end", "checkpoint"}
        BY <1>19, <1>0, ForkHeadEffect DEF ThenInv, KindInv, Checkpointing
    <2> QED
        BY <1>19, <2>1, ForkHeadEffect
<1>20. CASE AwaitMinted(o)
    BY <1>20, <1>0, AwaitMintedEffect DEF KindInv, Checkpointing
<1>21. CASE Checkpoint(o)
    BY <1>21, <1>0, CheckpointEffect DEF KindInv, Checkpointing
<1>22. CASE RequireSnapshot(o)
    BY <1>22, <1>0, RequireSnapshotEffect DEF KindInv, Cloning
<1>23. CASE TagActor(o)
    BY <1>23, <1>0, TagActorEffect DEF KindInv, Cloning
<1>24. CASE CreateChild(o)
    BY <1>24, <1>0, CreateChildEffect DEF KindInv, Cloning
<1>25. CASE CopyLog(o)
    BY <1>25, <1>0, CopyLogEffect DEF KindInv, Cloning
<1>26. CASE AbortFork(o)
    BY <1>26, <1>0, AbortForkEffect DEF KindInv
<1>27. CASE RollbackFork(o)
    BY <1>27, <1>0, RollbackForkEffect DEF KindInv
<1>28. CASE Repair(o)
    BY <1>28, <1>0, RepairEffect DEF KindInv
<1>29. CASE RecordSuspend(o)
    BY <1>29, <1>0, RecordSuspendEffect DEF KindInv
<1>30. CASE Decide(o)
    BY <1>30, <1>0, DecideEffect DEF KindInv
<1>31. CASE ForkRecord(o)
    BY <1>31, <1>0, ForkRecordEffect DEF KindInv
<1>32. CASE BeginCheckpoint(o)
    BY <1>32, <1>0, BeginCheckpointEffect DEF KindInv, Checkpointing
<1>33. CASE EndHarnesses(o)
    BY <1>33, <1>0, EndHarnessesEffect DEF KindInv, Checkpointing
<1>34. CASE TurnStep(o)
    <2>1. /\ op[o].kind \in Turns /\ op[o].pc \in Streaming
        BY <1>34, <1>0, TurnEffect DEF TurnPCs, KindInv, Resumes
    <2>2. store' = store \/ (op[o].fence = store.fence /\ store'.fence = store.fence)
        BY <1>34, <1>00, TurnEffect, WriteEffect
    <2> QED
        BY <1>34, <2>1, <2>2, TurnEffect
<1> QED
    BY <1>1, <1>2, <1>3, <1>4, <1>5, <1>6, <1>7, <1>8, <1>9, <1>10, <1>11, <1>12,
       <1>13, <1>14, <1>15, <1>16, <1>17, <1>18, <1>19, <1>20, <1>21, <1>22, <1>23,
       <1>24, <1>25, <1>26, <1>27, <1>28, <1>29, <1>30, <1>31, <1>32, <1>33, <1>34
    DEF OpStep, ForkStep

(* A mint, an append or a deletion of another call of the Registry makes   *)
(* nothing stale that a call relies on: the guard, the mark, or the wait   *)
(* for the superseded turns keeps it away.                                 *)
LEMMA StaysNewest ==
    ASSUME OneRegistry, ShapeInv, HoldsInv, FenceInv, StreamInv, UngatedInv,
           NEW u \in Ops, OpStep(u), NEW t \in Ops, t # u,
           Newest(op[t], store.fence, HeadSeq(store))
    PROVE  Newest(op[t], store'.fence, HeadSeq(store'))
<1>0. Host(t) = Host(u) /\ Host(t) \in Hosts
    BY PlacementAssumption DEF OneRegistry, Host
<1>1. /\ KindInv(op[t]) /\ KindInv(op[u]) /\ LiveInv(op[t]) /\ LiveInv(op[u]) /\ ThenInv(op[u])
      /\ FencedInv(op[t])
    BY DEF ShapeInv, Good
<1>2. GuardKind(op[t].kind) = "operation" /\ op[t].pc \notin {"idle", "done"} =>
        ~(GuardKind(op[u].kind) = "operation" /\ op[u].pc \notin {"idle", "done"})
    BY <1>0, OneOperation
<1>3. Marked(t) => ~Marked(u)
    BY <1>0, OneMark
<1>4. \A kind \in Turns \union {"Suspend", "Approve"} : GuardKind(kind) = "operation"
    BY DEF GuardKind, Turns
(* Where a call relies on its fence or its head it has guard or mark.      *)
<1>5. /\ op[t].kind \in Turns /\ op[t].pc \in Streaming =>
            GuardKind(op[t].kind) = "operation" /\ op[t].pc \notin {"idle", "done"} /\ op[t].live
      /\ op[t].pc \in {"fenceHead", "record"} \/ (op[t].pc = "snapshot" /\ op[t].kind \in Turns) =>
            Marked(t) /\ GuardKind(op[t].kind) = "operation" /\ op[t].pc \notin {"idle", "done"}
      /\ op[t].kind \in Turns /\ op[t].pc \in {"close", "snapshot", "record"} =>
            Marked(t) /\ GuardKind(op[t].kind) = "operation" /\ op[t].pc \notin {"idle", "done"}
      /\ op[t].pc \in {"checkpoint", "forkRecord", "forkHead"} => Marked(t) /\ Tier = "MEMORY"
    BY <1>1, <1>4 DEF KindInv, LiveInv, Streaming, Checkpointing, Marked, MarkedSteps, Turns
<1>6. CASE Reads(u)
    BY <1>6 DEF Reads
<1>7. CASE Mints(u)
    <2>1. HeadSeq(store') = HeadSeq(store)
        BY <1>7, WriteEffect DEF HeadSeq
    <2>2. CASE op[u].pc = "fenceMint"
        <3>1. /\ op[u].kind \in Turns \union {"Suspend", "Approve"}
              /\ GuardKind(op[u].kind) = "operation" /\ op[u].pc \notin {"idle", "done"}
            BY <1>1, <1>4, <2>2 DEF KindInv
        <3>2. CASE Marked(u)
            BY <1>2, <1>3, <1>5, <3>1, <3>2 DEF Newest
        <3>3. CASE ~Marked(u)
            <4>1. op[u].kind \in {"Exec", "Resume"} /\ op[u].then \in {"repair", "check"}
                BY <1>1, <2>2, <3>1, <3>3 DEF Marked, ThenInv, Fencing, Turns
            <4>2. ASSUME \/ op[t].pc \in {"checkpoint", "forkRecord"}
                         \/ op[t].pc = "forkHead" /\ op[t].then = "checkpoint"
                  PROVE  FALSE
                <5>1. Tier = "MEMORY" /\ op[t].pc \in Checkpointing \ {"begin"} /\ Awaited(op[t])
                    BY <1>5, <4>2 DEF Checkpointing, Awaited, Ended
                <5>2. op[u].then = "check"
                    BY <4>1, <5>1 DEF UngatedInv
                <5>3. op[u].live
                    BY <1>1, <2>2, <5>2 DEF LiveInv, Fencing
                <5>4. op[u].minted
                    BY <1>0, <5>1, <5>3 DEF StreamInv
                <5> QED
                    BY <1>1, <2>2, <4>1, <5>4 DEF LiveInv, Streaming, Turns
            <4> QED
                BY <1>2, <1>5, <3>1, <4>2 DEF Newest
        <3> QED
            BY <3>2, <3>3
    <2>3. CASE op[u].pc = "forkFence"
        <3>1. Marked(u)
            BY <2>3 DEF Marked, MarkedSteps
        <3>2. op[t].live => op[t].superseded
            BY <1>0, <2>3 DEF StreamInv, Checkpointing
        <3> QED
            BY <1>3, <1>5, <2>1, <3>1, <3>2 DEF Newest
    <2> QED
        BY <1>7, <2>2, <2>3 DEF Mints
<1>8. CASE Appends(u)
    <2>1. store'.fence = store.fence /\ op[u].fence = store.fence
        BY <1>8, WriteEffect DEF Appends
    <2>2. op[u].fence # 0 /\ op[u].pc \in TurnPCs \union {"repair", "decide", "record", "forkRecord"}
        BY <1>8 DEF Appends
    <2>3. op[t].pc \notin {"checkpoint", "forkRecord"}
        BY <2>1, <2>2 DEF FenceInv, Newest
    <2>4. ~(op[t].kind \in Turns /\ op[t].pc \in {"close", "snapshot", "record"})
        <3>1. CASE op[u].pc = "forkRecord"
            BY <1>3, <1>5, <3>1 DEF Marked, MarkedSteps
        <3>2. CASE op[u].pc # "forkRecord"
            <4>1. op[u].kind \in Turns \union {"Suspend", "Approve"} /\ op[u].pc \notin {"idle", "done"}
                BY <1>1, <2>2, <3>2 DEF KindInv, TurnPCs, Turns, Resumes
            <4> QED
                BY <1>2, <1>4, <1>5, <4>1
        <3> QED
            BY <3>1, <3>2
    <2> QED
        BY <2>1, <2>3, <2>4 DEF Newest
<1>9. CASE Deletes(u)
    <2>1. op[t].pc \in {"idle", "done"}
        BY <1>0, <1>9, DeleteIsAlone DEF Deletes
    <2> QED
        BY <2>1 DEF Newest, Streaming
<1> QED
    BY <1>6, <1>7, <1>8, <1>9, StepWrites

(* Every step of one Registry keeps the newest fence where it is needed.   *)
LEMMA NextNewest ==
    ASSUME OneRegistry, ShapeInv, HoldsInv, FenceInv, StreamInv, UngatedInv, NewestInv, [Next]_vars
    PROVE  NewestInv'
<1>1. ASSUME NEW u \in Ops, OpStep(u) PROVE NewestInv'
    <2>1. ASSUME NEW t \in Ops PROVE Newest(op'[t], store'.fence, HeadSeq(store'))
        <3>1. CASE t = u
            BY <1>1, <3>1, StepNewest DEF NewestInv
        <3>2. CASE t # u
            <4>1. Newest(op[t], store'.fence, HeadSeq(store'))
                BY <1>1, <3>2, StaysNewest DEF NewestInv
            <4>2. Same(op[t], op'[t])
                BY <1>1, <3>2, StepMoves DEF Moves
            <4> QED
                BY <4>1, <4>2 DEF Newest, Same
        <3> QED
            BY <3>1, <3>2
    <2> QED
        BY <2>1 DEF NewestInv
<1>2. ASSUME store' = store,
             \A t \in Ops : \/ op'[t] = op[t]
                            \/ op'[t].pc \in {"inspect", "delete", "done"}
                            \/ op'[t].pc = "mark" /\ op'[t].kind = "Approve"
      PROVE  NewestInv'
    BY <1>2 DEF NewestInv, Newest, Streaming, Turns
<1>3. ASSUME NEW o \in Ops, NEW kind \in OpKinds, Begin(o, kind) PROVE NewestInv'
    <2>1. /\ store' = store /\ \A t \in Ops \ {o} : op'[t] = op[t]
          /\ \/ op'[o].pc \in {"inspect", "delete", "done"}
             \/ op'[o].pc = "mark" /\ op'[o].kind = "Approve"
        BY <1>3, BeginEffect DEF Alone
    <2> QED
        BY <1>2, <2>1
<1>4. ASSUME NEW c \in Hosts, Crash(c) PROVE NewestInv'
    <2>1. ASSUME NEW t \in Ops PROVE op'[t] = op[t] \/ op'[t].pc = "done"
        <3>1. op'[t] = op[t] \/ Crashed(op[t], op'[t])
            BY <1>4, CrashEffect
        <3> QED
            BY <3>1 DEF Crashed
    <2>2. store' = store
        BY <1>4, CrashEffect
    <2> QED
        BY <1>2, <2>1, <2>2
<1>5. CASE UNCHANGED vars
    BY <1>2, <1>5 DEF vars
<1> QED
    BY <1>1, <1>3, <1>4, <1>5 DEF Next, Quiescent

(* Everything a session of one Registry relies on.                         *)
SerialInv ==
    /\ ShapeInv /\ HoldsInv /\ FenceInv /\ StreamInv
    /\ UngatedInv /\ DeletedInv /\ NewestInv

(* It is an invariant.                                                     *)
LEMMA SerialInvariant ==
    ASSUME OneRegistry
    PROVE  /\ Init => SerialInv
           /\ SerialInv /\ [Next]_vars => SerialInv'
<1>1. ASSUME Init PROVE SerialInv
    <2>1. /\ \A o \in Ops : /\ op[o].fence = 0 /\ ~op[o].late /\ op[o].pc = "idle"
                            /\ op[o].then = "none" /\ ~op[o].live
        BY <1>1 DEF Init, IdleOp
    <2>2. store.recs = <<>> /\ store.deletion = "ACTIVE"
        BY <1>1 DEF Init, PutSession, EmptyStore
    <2>3. FenceInv /\ StreamInv
        BY <2>1, <2>2 DEF FenceInv, LateTurnWritesNothing, StreamInv
    <2>4. UngatedInv /\ DeletedInv
        BY <2>1, <2>2 DEF UngatedInv, DeletedInv
    <2>5. NewestInv
        BY <2>1 DEF NewestInv, Newest, Streaming
    <2> QED
        BY <1>1, <2>3, <2>4, <2>5, InitShape, InitHolds DEF SerialInv
<1>2. ASSUME SerialInv, [Next]_vars PROVE SerialInv'
    BY <1>2, NextShape, NextHolds, NextFences, NextStreams, NextUngated, NextDeleted, NextNewest
    DEF SerialInv
<1> QED
    BY <1>1, <1>2

(* While one Registry runs the session, compute is only made cold when the *)
(* SUSPEND record of it is certain to be accepted: from the check before   *)
(* the snapshot to the record no other call moves the head, mints a newer  *)
(* fence or deletes the session.                                           *)
THEOREM CheckpointsAreRecorded ==
    ASSUME OneRegistry
    PROVE  Spec => []CheckpointIsRecorded
<1>1. (Init => SerialInv) /\ (SerialInv /\ [Next]_vars => SerialInv')
    BY SerialInvariant
<1>2. ASSUME SerialInv PROVE CheckpointIsRecorded
    <2> SUFFICES ASSUME NEW o \in Ops, op[o].pc \in {"checkpoint", "forkRecord", "record"}
                 PROVE  /\ CheckWritable(store)
                        /\ op[o].fence = store.fence
                        /\ Is(o, {"Fork"}) => HeadSeq(store) = op[o].at
                        /\ ~Is(o, {"Fork", "Suspend"}) => HeadSeq(store) = op[o].head
        BY DEF CheckpointIsRecorded
    <2>1. /\ Newest(op[o], store.fence, HeadSeq(store)) /\ KindInv(op[o])
          /\ store.deletion \in {"NOROW", "ACTIVE", "PENDING"}
        BY <1>2 DEF SerialInv, NewestInv, ShapeInv, Good, Types, Store
    <2>2. CheckWritable(store)
        BY <1>2, <2>1 DEF SerialInv, DeletedInv, Late, CheckWritable
    <2>3. op[o].pc = "record" => op[o].kind \in Turns \union {"Suspend"}
        BY <2>1 DEF KindInv
    <2>4. op[o].pc # "record" => op[o].kind = "Fork" /\ op[o].at = HeadSeq(store)
        BY <2>1 DEF KindInv, Newest, Checkpointing
    <2>5. op[o].pc = "record" /\ op[o].kind \in Turns => op[o].head = HeadSeq(store)
        BY <2>1 DEF Newest
    <2> QED
        BY <2>1, <2>2, <2>3, <2>4, <2>5 DEF Newest, Is, Turns
<1> QED
    BY <1>1, <1>2, PTL DEF Spec

(* While one Registry runs the session, a deletion excludes every call:    *)
(* once the session is deleted neither its log nor its compute changes.    *)
THEOREM DeletedSessionsRest ==
    ASSUME OneRegistry
    PROVE  Spec => DeletedIsLeftAlone
<1>1. (Init => SerialInv) /\ (SerialInv /\ [Next]_vars => SerialInv')
    BY SerialInvariant
<1>2. SerialInv /\ [Next]_vars => [store.deletion = "PENDING" => UNCHANGED <<store, actor>>]_vars
    BY NextDeleted DEF SerialInv
<1> QED
    BY <1>1, <1>2, PTL DEF Spec, DeletedIsLeftAlone
=============================================================================
