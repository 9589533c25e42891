---------------------------- MODULE LogOpsProofs ----------------------------
(***************************************************************************)
(* What the transactions of LogOps do to a session's durable state, for    *)
(* the proofs of the modules that are built from them.                     *)
(***************************************************************************)
EXTENDS LogOps, SequenceTheorems, TLAPS

(* What Append's expected head and fence check leave of a call that        *)
(* succeeds: an active session, and a fence no older than the stored one.  *)
LEMMA AcceptedAppend ==
    ASSUME NEW s, NEW expected, NEW fence, NEW kind,
           AppendOutcome(s, expected, fence, kind) = "ok"
    PROVE  /\ CheckWritable(s)
           /\ kind # "DELETE"
           /\ ~(fence < s.fence)
BY DEF AppendOutcome

(* The kinds of effect an accepted record has on the store, column by      *)
(* column.                                                                 *)
LEMMA AppendToEffect ==
    ASSUME NEW s \in Store, NEW fence \in Nat, NEW kind \in EventKind
    PROVE  /\ AppendTo(s, fence, kind) \in Store
           /\ AppendTo(s, fence, kind).recs =
                Append(s.recs, [kind |-> kind, fence |-> fence])
           /\ AppendTo(s, fence, kind).fence = s.fence
           /\ AppendTo(s, fence, kind).deletion = "ACTIVE"
           /\ AppendTo(s, fence, kind).deletionSeq = s.deletionSeq
           /\ AppendTo(s, fence, kind).compute =
                IF MovesCompute(kind) THEN EventComputeState(kind) ELSE s.compute
<1> DEFINE r == [kind |-> kind, fence |-> fence]
<1>1. r \in Record
    BY DEF Record
<1>2. Append(s.recs, r) \in Seq(Record)
    BY <1>1 DEF Store
<1>3. EventComputeState(kind) \in ComputeState
    BY DEF EventComputeState, ComputeState
<1> QED
    BY <1>2, <1>3 DEF AppendTo, TouchSession, AppendRecord, Store

(* What a deletion commits.                                                *)
LEMMA DeleteSessionEffect ==
    ASSUME NEW s \in Store
    PROVE  /\ DeleteSession(s) \in Store
           /\ DeleteSession(s).recs =
                Append(s.recs, [kind |-> "DELETE", fence |-> s.fence + 1])
           /\ DeleteSession(s).fence = s.fence + 1
           /\ DeleteSession(s).deletion = "PENDING"
           /\ DeleteSession(s).deletionSeq = Len(s.recs) + 1
           /\ DeleteSession(s).compute = s.compute
<1> DEFINE r == [kind |-> "DELETE", fence |-> s.fence + 1]
<1>1. r \in Record
    BY DEF Record, EventKind, LifecycleKinds, Store
<1>2. Append(s.recs, r) \in Seq(Record) /\ Len(s.recs) \in Nat
    BY <1>1 DEF Store
<1> DEFINE f == s.fence + 1
           n == Len(s.recs) + 1
           q == Append(s.recs, r)
<1>3. f \in Nat /\ n \in Nat /\ q \in Seq(Record)
    BY <1>2 DEF Store
<1>4. DeleteSession(s) = [[s EXCEPT !.recs = q] EXCEPT !.deletion = "PENDING",
                                                      !.deletionSeq = n, !.fence = f]
    BY DEF DeleteSession, AppendRecord, HeadSeq
<1> HIDE DEF f, n, q
<1>5. /\ DeleteSession(s) \in Store
      /\ DeleteSession(s).recs = q
      /\ DeleteSession(s).fence = f
      /\ DeleteSession(s).deletion = "PENDING"
      /\ DeleteSession(s).deletionSeq = n
      /\ DeleteSession(s).compute = s.compute
    BY <1>3, <1>4 DEF Store
<1> QED
    BY <1>5 DEF f, n, q

(* What a new fence commits.                                               *)
LEMMA MintEffect ==
    ASSUME NEW s \in Store
    PROVE  /\ NewFence(s) \in Store
           /\ NewFence(s).fence = s.fence + 1
           /\ NewFence(s).recs = s.recs
           /\ NewFence(s).deletion = "ACTIVE"
           /\ NewFence(s).deletionSeq = s.deletionSeq
           /\ NewFence(s).compute = s.compute
<1> DEFINE f == s.fence + 1
<1>1. f \in Nat
    BY DEF Store
<1>2. NewFence(s) = [s EXCEPT !.deletion = "ACTIVE", !.fence = f]
    BY DEF NewFence
<1> HIDE DEF f
<1>3. /\ NewFence(s) \in Store
      /\ NewFence(s).fence = f
      /\ NewFence(s).recs = s.recs
      /\ NewFence(s).deletion = "ACTIVE"
      /\ NewFence(s).deletionSeq = s.deletionSeq
      /\ NewFence(s).compute = s.compute
    BY <1>1, <1>2 DEF Store
<1> QED
    BY <1>3 DEF f

(* What a metadata write commits.                                          *)
LEMMA PutEffect ==
    ASSUME NEW s \in Store
    PROVE  /\ PutSession(s) \in Store
           /\ PutSession(s).fence = s.fence
           /\ PutSession(s).recs = s.recs
           /\ PutSession(s).deletion = "ACTIVE"
           /\ PutSession(s).deletionSeq = s.deletionSeq
           /\ PutSession(s).compute = s.compute
BY DEF PutSession, Store
=============================================================================
