-------------------------- MODULE SessionLogProofs --------------------------
(***************************************************************************)
(* The fencing, deletion and projection properties of SessionLog, for any  *)
(* set of incarnations and any bounds.                                     *)
(***************************************************************************)
EXTENDS SessionLog, LogOpsProofs, SequenceTheorems, TLAPS

-----------------------------------------------------------------------------
(* Every reachable state is well typed.                                    *)
THEOREM TypeCorrect == Spec => []TypeOK
<1>1. Init => TypeOK
    BY DEF Init, TypeOK, EmptyStore, Store, ComputeState, WriterState
<1>2. TypeOK /\ [Next]_vars => TypeOK'
  <2> SUFFICES ASSUME TypeOK, [Next]_vars PROVE TypeOK'
      OBVIOUS
  <2>1. ASSUME NEW w \in Writers, MintFence(w) PROVE TypeOK'
      BY <2>1, MintEffect DEF MintFence, TypeOK, WriterState, Store
  <2>2. ASSUME NEW w \in Writers, ReadHead(w) PROVE TypeOK'
    <3>1. HeadSeq(store) \in Nat
        BY DEF TypeOK, HeadSeq, Store
    <3> QED
        BY <2>2, <3>1 DEF ReadHead, TypeOK, WriterState
  <2>3. ASSUME NEW w \in Writers, NEW kind \in Kinds, AppendOk(w, kind) PROVE TypeOK'
    <3>1. kind \in EventKind /\ writer[w].fence \in Nat
        BY KindsAssumption DEF TypeOK, WriterState
    <3>2. store' \in Store
        BY <2>3, <3>1, AppendToEffect DEF AppendOk, TypeOK
    <3>3. by' \in Seq(Writers \union {Nobody})
        BY <2>3 DEF AppendOk, TypeOK
    <3>4. writer' \in [Writers -> WriterState]
        BY <2>3 DEF AppendOk, TypeOK, WriterState
    <3> QED
        BY <3>2, <3>3, <3>4 DEF TypeOK
  <2>4. ASSUME NEW w \in Writers, NEW kind \in Kinds, AppendRefused(w, kind)
        PROVE  TypeOK'
      BY <2>4 DEF AppendRefused, TypeOK, WriterState
  <2>5. CASE Put
      BY <2>5, PutEffect DEF Put, TypeOK
  <2>6. CASE Delete
    <3>1. by' \in Seq(Writers \union {Nobody})
        BY <2>6 DEF Delete, TypeOK
    <3> QED
        BY <2>6, <3>1, DeleteSessionEffect DEF Delete, TypeOK
  <2>7. CASE UNCHANGED vars
      BY <2>7 DEF vars, TypeOK
  <2> QED
      BY <2>1, <2>2, <2>3, <2>4, <2>5, <2>6, <2>7 DEF Next
<1> QED
    BY <1>1, <1>2, PTL DEF Spec
-----------------------------------------------------------------------------
(* The writers of the records are listed one for one.                      *)
HistoryInv == Len(by) = Len(store.recs)

(* Inductive: the fences of the log are ordered because a token names one  *)
(* incarnation and every accepted record carries the row's newest token.   *)
FencingInv ==
    /\ TypeOK
    /\ HistoryInv
    /\ TokensNameOneWriter
    /\ FencesNeverGoBack
    /\ TurnsAreContiguous

(* An accepted record is written under the row's own fence.                *)
LEMMA AcceptedUnderNewestFence ==
    ASSUME FencingInv, NEW w \in Writers, NEW kind \in Kinds, AppendOk(w, kind)
    PROVE  /\ writer[w].fence = store.fence
           /\ store.deletion # "PENDING"
           /\ kind # "DELETE"
<1>1. /\ CheckWritable(store)
      /\ kind # "DELETE"
      /\ ~(writer[w].fence < store.fence)
    BY AcceptedAppend DEF AppendOk
<1>2. writer[w].fence <= store.fence
    BY DEF FencingInv, TokensNameOneWriter
<1>3. writer[w].fence \in Nat /\ store.fence \in Nat
    BY DEF FencingInv, TypeOK, WriterState, Store
<1> QED
    BY <1>1, <1>2, <1>3 DEF CheckWritable

(* One more record at the end: the old positions keep their record and     *)
(* their writer.                                                           *)
LEMMA OneMoreRecord ==
    ASSUME TypeOK, HistoryInv, NEW r, NEW v, r \in Record,
           store'.recs = Append(store.recs, r), by' = Append(by, v)
    PROVE  /\ HistoryInv'
           /\ DOMAIN store'.recs = 1 .. (Len(store.recs) + 1)
           /\ DOMAIN store.recs = 1 .. Len(store.recs)
           /\ Len(store.recs) \in Nat
           /\ \A i \in DOMAIN store.recs :
                store'.recs[i] = store.recs[i] /\ by'[i] = by[i]
           /\ store'.recs[Len(store.recs) + 1] = r
           /\ by'[Len(store.recs) + 1] = v
<1>1. store.recs \in Seq(Record) /\ by \in Seq(Writers \union {Nobody})
    BY DEF TypeOK, Store
<1> QED
    BY <1>1 DEF HistoryInv

(* The fences of the records are numbers no larger than the row's.         *)
LEMMA RecordFences ==
    ASSUME TypeOK, TokensNameOneWriter, NEW i \in DOMAIN store.recs
    PROVE  store.recs[i].fence \in Nat /\ store.recs[i].fence <= store.fence
<1>1. store.recs \in Seq(Record)
    BY DEF TypeOK, Store
<1>2. store.recs[i] \in Record
    BY <1>1
<1>3. store.recs[i].fence \in Nat
    BY <1>2 DEF Record
<1>4. store.recs[i].fence <= store.fence
    BY DEF TokensNameOneWriter
<1> QED
    BY <1>3, <1>4

(* A mint: the new token is newer than any a writer or a record has.       *)
LEMMA MintKeepsFencing ==
    ASSUME FencingInv, NEW w \in Writers, MintFence(w)
    PROVE  TokensNameOneWriter' /\ FencesNeverGoBack' /\ TurnsAreContiguous'
<1>1. /\ store'.fence = store.fence + 1
      /\ store'.recs = store.recs
      /\ store'.deletion = "ACTIVE"
      /\ by' = by
    BY MintEffect DEF FencingInv, TypeOK, MintFence
<1>2. /\ writer' = [writer EXCEPT ![w].fence = store.fence + 1]
      /\ writer \in [Writers -> WriterState]
      /\ store.fence \in Nat
    BY <1>1 DEF FencingInv, TypeOK, MintFence, Store
<1>3. /\ writer'[w].fence = store.fence + 1
      /\ \A v \in Writers : v # w => writer'[v] = writer[v]
      /\ \A v \in Writers : writer[v].fence \in Nat /\ writer[v].fence <= store.fence
    BY <1>2 DEF WriterState, FencingInv, TokensNameOneWriter
<1>4. \A i \in DOMAIN store.recs :
        store.recs[i].fence \in Nat /\ store.recs[i].fence <= store.fence
    BY RecordFences DEF FencingInv
<1>5. TokensNameOneWriter'
  <2>1. \A v \in Writers : writer'[v].fence <= store'.fence
      BY <1>1, <1>2, <1>3
  <2>2. ASSUME NEW u \in Writers, NEW v \in Writers,
               writer'[u].fence = writer'[v].fence, writer'[u].fence > 0
        PROVE  u = v
    <3>1. CASE u # w /\ v # w
        BY <1>3, <2>2, <3>1 DEF FencingInv, TokensNameOneWriter
    <3>2. CASE u = w \/ v = w
        BY <1>2, <1>3, <2>2, <3>2
    <3> QED
        BY <3>1, <3>2
  <2>3. \A i \in DOMAIN store'.recs :
            /\ store'.recs[i].fence <= store'.fence
            /\ store'.recs[i].fence # store'.fence
      BY <1>1, <1>2, <1>4
  <2> QED
      BY <1>1, <2>1, <2>2, <2>3 DEF TokensNameOneWriter
<1>6. FencesNeverGoBack' /\ TurnsAreContiguous'
    BY <1>1 DEF FencingInv, FencesNeverGoBack, TurnsAreContiguous
<1> QED
    BY <1>5, <1>6

(* An append: the record carries the newest token, which only its writer   *)
(* holds, so the records since that writer's last one are its own.         *)
LEMMA AppendKeepsFencing ==
    ASSUME FencingInv, NEW w \in Writers, NEW kind \in Kinds, AppendOk(w, kind)
    PROVE  /\ HistoryInv'
           /\ TokensNameOneWriter'
           /\ FencesNeverGoBack'
           /\ TurnsAreContiguous'
<1> DEFINE f == writer[w].fence
           r == [kind |-> kind, fence |-> f]
           n == Len(store.recs)
<1>1. /\ f = store.fence
      /\ store.deletion # "PENDING"
      /\ f \in Nat
    BY AcceptedUnderNewestFence DEF FencingInv, TypeOK, WriterState
<1>2. r \in Record /\ kind \in EventKind
    BY <1>1, KindsAssumption DEF Record
<1>3. /\ store'.recs = Append(store.recs, r)
      /\ store'.fence = store.fence
      /\ store'.deletion = "ACTIVE"
      /\ by' = Append(by, w)
    BY <1>1, <1>2, AppendToEffect DEF AppendOk, FencingInv, TypeOK
<1>4. \A v \in Writers : writer'[v].fence = writer[v].fence
    BY DEF AppendOk, FencingInv, TypeOK, WriterState
<1>5. /\ HistoryInv'
      /\ DOMAIN store'.recs = 1 .. (n + 1)
      /\ DOMAIN store.recs = 1 .. n
      /\ n \in Nat
      /\ \A i \in DOMAIN store.recs :
            store'.recs[i] = store.recs[i] /\ by'[i] = by[i]
      /\ store'.recs[n + 1] = r
      /\ by'[n + 1] = w
    BY <1>2, <1>3, OneMoreRecord DEF FencingInv
<1> HIDE DEF n
<1>6. /\ store'.recs[n + 1].fence = store.fence
      /\ store.fence \in Nat
      /\ \A i \in 1 .. n : store.recs[i].fence \in Nat /\ store.recs[i].fence <= store.fence
  <2>1. \A i \in 1 .. n : store.recs[i].fence \in Nat /\ store.recs[i].fence <= store.fence
      BY <1>5, RecordFences DEF FencingInv
  <2>2. store'.recs[n + 1].fence = f
      BY <1>5
  <2> QED
      BY <1>1, <2>1, <2>2
<1>7. TokensNameOneWriter'
  <2>1. \A i \in 1 .. n : /\ store'.recs[i].fence = store.fence
                          /\ store.fence > 0
                          => by'[i] \in Writers /\ writer'[by'[i]].fence = store.fence
      BY SMTT(30), <1>1, <1>4, <1>5 DEF FencingInv, TokensNameOneWriter
  <2>2. by'[n + 1] \in Writers /\ writer'[by'[n + 1]].fence = store.fence
      BY <1>1, <1>4, <1>5
  <2>3. \A i \in 1 .. (n + 1) : i \in 1 .. n \/ i = n + 1
      BY <1>5
  <2>4. \A i \in DOMAIN store'.recs :
          /\ store'.recs[i].fence <= store'.fence
          /\ /\ store'.recs[i].fence = store'.fence
             /\ store'.fence > 0
             => by'[i] \in Writers /\ writer'[by'[i]].fence = store'.fence
    <3> SUFFICES ASSUME NEW i \in 1 .. (n + 1)
                 PROVE  /\ store'.recs[i].fence <= store.fence
                        /\ /\ store'.recs[i].fence = store.fence
                           /\ store.fence > 0
                           => /\ by'[i] \in Writers
                              /\ writer'[by'[i]].fence = store.fence
        BY <1>3, <1>5
    <3>1. CASE i \in 1 .. n
        BY <1>5, <1>6, <2>1, <3>1
    <3>2. CASE i = n + 1
        BY <1>6, <2>2, <3>2
    <3> QED
        BY <2>3, <3>1, <3>2
  <2>5. \A u, v \in Writers : writer'[u].fence = writer'[v].fence /\ writer'[u].fence > 0 => u = v
      BY <1>4 DEF FencingInv, TokensNameOneWriter
  <2>6. \A v \in Writers : writer'[v].fence <= store'.fence
      BY <1>3, <1>4 DEF FencingInv, TokensNameOneWriter
  <2> QED
      BY <1>3, <2>4, <2>5, <2>6 DEF TokensNameOneWriter
<1>8. FencesNeverGoBack'
  <2> SUFFICES ASSUME NEW i \in 1 .. (n + 1), NEW j \in 1 .. (n + 1), i <= j
               PROVE  store'.recs[i].fence <= store'.recs[j].fence
      BY <1>5 DEF FencesNeverGoBack
  <2>1. CASE j \in 1 .. n
    <3>1. i \in 1 .. n
        BY <1>5, <2>1
    <3> QED
        BY <1>5, <2>1, <3>1 DEF FencingInv, FencesNeverGoBack
  <2>2. CASE j = n + 1 /\ i \in 1 .. n
      BY <1>5, <1>6, <2>2
  <2>3. CASE j = n + 1 /\ i = n + 1
      BY <1>6, <2>3
  <2> QED
      BY <1>5, <2>1, <2>2, <2>3
<1>9. TurnsAreContiguous'
  <2> SUFFICES ASSUME NEW i \in 1 .. (n + 1), NEW j \in 1 .. (n + 1),
                      NEW k \in 1 .. (n + 1),
                      i < k, k < j, by'[i] = by'[j],
                      store'.recs[i].fence = store'.recs[j].fence,
                      store'.recs[i].fence > 0
               PROVE  by'[k] = by'[i]
      BY <1>5 DEF TurnsAreContiguous
  <2>1. i \in 1 .. n /\ k \in 1 .. n
      BY <1>5
  <2>2. CASE j \in 1 .. n
      BY SMTT(30), <1>5, <2>1, <2>2 DEF FencingInv, TurnsAreContiguous
  <2>3. CASE j = n + 1
    <3>1. by'[i] = w /\ by[i] = w /\ store.recs[i].fence = store.fence /\ store.fence > 0
        BY <1>5, <1>6, <2>1, <2>3
    <3>2. store.recs[i].fence <= store.recs[k].fence
        BY <1>5, <2>1 DEF FencingInv, FencesNeverGoBack
    <3>3. store.recs[k].fence = store.fence
        BY <1>6, <2>1, <3>1, <3>2
    <3>4. by[k] \in Writers /\ writer[by[k]].fence = store.fence
        BY <1>1, <1>5, <2>1, <3>1, <3>3 DEF FencingInv, TokensNameOneWriter
    <3>5. by[k] = w
        BY <1>1, <3>1, <3>4 DEF FencingInv, TokensNameOneWriter
    <3> QED
        BY <1>5, <2>1, <3>1, <3>5
  <2> QED
      BY <1>5, <2>2, <2>3
<1> QED
    BY <1>5, <1>7, <1>8, <1>9

(* A deletion: the DELETE record and the row get a token nobody was given. *)
LEMMA DeleteKeepsFencing ==
    ASSUME FencingInv, Delete
    PROVE  /\ HistoryInv'
           /\ TokensNameOneWriter'
           /\ FencesNeverGoBack'
           /\ TurnsAreContiguous'
<1> DEFINE f == store.fence + 1
           r == [kind |-> "DELETE", fence |-> f]
           n == Len(store.recs)
<1>1. store.fence \in Nat /\ f \in Nat
    BY DEF FencingInv, TypeOK, Store
<1>2. r \in Record
    BY <1>1 DEF Record, EventKind, LifecycleKinds
<1>3. /\ store'.recs = Append(store.recs, r)
      /\ store'.fence = f
      /\ store'.deletion = "PENDING"
      /\ by' = Append(by, Nobody)
      /\ writer' = writer
    BY DeleteSessionEffect DEF Delete, FencingInv, TypeOK
<1>4. /\ HistoryInv'
      /\ DOMAIN store'.recs = 1 .. (n + 1)
      /\ DOMAIN store.recs = 1 .. n
      /\ n \in Nat
      /\ \A i \in DOMAIN store.recs :
            store'.recs[i] = store.recs[i] /\ by'[i] = by[i]
      /\ store'.recs[n + 1] = r
    BY <1>2, <1>3, OneMoreRecord DEF FencingInv
<1>5. store'.recs[n + 1].fence = f
    BY <1>4
<1> HIDE DEF n, r
<1>6. \A i \in 1 .. n : store'.recs[i].fence \in Nat /\ store'.recs[i].fence < f
    BY <1>1, <1>4, RecordFences DEF FencingInv
<1>7. \A w \in Writers : writer'[w].fence < f
  <2>1. \A w \in Writers : writer[w].fence \in Nat /\ writer[w].fence <= store.fence
      BY DEF FencingInv, TypeOK, WriterState, TokensNameOneWriter
  <2> QED
      BY <1>1, <1>3, <2>1
<1>8. \A i \in 1 .. (n + 1) : i \in 1 .. n \/ i = n + 1
    BY <1>4
<1>9. TokensNameOneWriter'
  <2>1. \A w \in Writers : writer'[w].fence <= store'.fence
      BY <1>1, <1>3, <1>7 DEF FencingInv, TypeOK, WriterState
  <2>2. \A i \in DOMAIN store'.recs : store'.recs[i].fence <= store'.fence
      BY <1>1, <1>3, <1>4, <1>5, <1>6, <1>8
  <2>3. \A u, v \in Writers : writer'[u].fence = writer'[v].fence /\ writer'[u].fence > 0 => u = v
      BY <1>3 DEF FencingInv, TokensNameOneWriter
  <2> QED
      BY <1>3, <1>7, <2>1, <2>2, <2>3 DEF TokensNameOneWriter
<1>10. FencesNeverGoBack'
  <2> SUFFICES ASSUME NEW i \in 1 .. (n + 1), NEW j \in 1 .. (n + 1), i <= j
               PROVE  store'.recs[i].fence <= store'.recs[j].fence
      BY <1>4 DEF FencesNeverGoBack
  <2>1. CASE j \in 1 .. n
    <3>1. i \in 1 .. n
        BY <1>4, <2>1
    <3> QED
        BY <1>4, <2>1, <3>1 DEF FencingInv, FencesNeverGoBack
  <2>2. CASE j = n + 1
      BY <1>1, <1>5, <1>6, <1>8, <2>2
  <2> QED
      BY <1>8, <2>1, <2>2
<1>11. TurnsAreContiguous'
  <2> SUFFICES ASSUME NEW i \in DOMAIN store'.recs, NEW j \in DOMAIN store'.recs,
                      NEW k \in DOMAIN store'.recs,
                      i < k, k < j, by'[i] = by'[j],
                      store'.recs[i].fence = store'.recs[j].fence,
                      store'.recs[i].fence > 0
               PROVE  by'[k] = by'[i]
      BY DEF TurnsAreContiguous
  <2>1. i \in 1 .. n /\ k \in 1 .. n /\ (j \in 1 .. n \/ j = n + 1)
      BY <1>4, <1>8
  <2>2. j # n + 1
      BY <1>5, <1>6, <2>1
  <2>3. /\ i \in DOMAIN store.recs /\ j \in DOMAIN store.recs /\ k \in DOMAIN store.recs
        /\ by[i] = by[j] /\ by'[i] = by[i] /\ by'[k] = by[k]
        /\ store.recs[i].fence = store.recs[j].fence
        /\ store.recs[i].fence > 0
      BY <1>4, <2>1, <2>2
  <2> QED
      BY <2>3 DEF FencingInv, TurnsAreContiguous
<1> QED
    BY <1>4, <1>9, <1>10, <1>11

(* FencingInv is inductive.                                                *)
LEMMA FencingInvariant == Spec => []FencingInv
<1>1. Init => FencingInv
  <2> SUFFICES ASSUME Init PROVE FencingInv
      OBVIOUS
  <2>1. TypeOK
      BY DEF Init, TypeOK, EmptyStore, Store, ComputeState, WriterState
  <2>2. /\ store.recs = <<>>
        /\ by = <<>>
        /\ store.fence = 0
        /\ store.deletion = "NOROW"
        /\ \A w \in Writers : writer[w].fence = 0
      BY DEF Init, EmptyStore
  <2> QED
      BY <2>1, <2>2 DEF FencingInv, HistoryInv, TokensNameOneWriter, FencesNeverGoBack,
                        TurnsAreContiguous
<1>2. FencingInv /\ TypeOK' /\ [Next]_vars => FencingInv'
  <2> SUFFICES ASSUME FencingInv, TypeOK', [Next]_vars PROVE FencingInv'
      OBVIOUS
  <2>1. ASSUME NEW w \in Writers, MintFence(w) PROVE FencingInv'
    <3>1. HistoryInv'
        BY <2>1, MintEffect DEF MintFence, FencingInv, TypeOK, HistoryInv
    <3> QED
        BY <2>1, <3>1, MintKeepsFencing DEF FencingInv
  <2>2. ASSUME NEW w \in Writers, ReadHead(w) PROVE FencingInv'
    <3>1. \A v \in Writers : writer'[v].fence = writer[v].fence
        BY <2>2 DEF ReadHead, FencingInv, TypeOK, WriterState
    <3>2. store' = store /\ by' = by
        BY <2>2 DEF ReadHead
    <3> QED
        BY <3>1, <3>2 DEF FencingInv, HistoryInv, TokensNameOneWriter, FencesNeverGoBack,
                          TurnsAreContiguous
  <2>3. ASSUME NEW w \in Writers, NEW kind \in Kinds, AppendOk(w, kind)
        PROVE  FencingInv'
      BY <2>3, AppendKeepsFencing DEF FencingInv
  <2>4. ASSUME NEW w \in Writers, NEW kind \in Kinds, AppendRefused(w, kind)
        PROVE  FencingInv'
    <3>1. \A v \in Writers : writer'[v].fence = writer[v].fence
        BY <2>4 DEF AppendRefused, FencingInv, TypeOK, WriterState
    <3>2. store' = store /\ by' = by
        BY <2>4 DEF AppendRefused
    <3> QED
        BY <3>1, <3>2 DEF FencingInv, HistoryInv, TokensNameOneWriter, FencesNeverGoBack,
                          TurnsAreContiguous
  <2>5. CASE Put
    <3>1. /\ store'.recs = store.recs
          /\ store'.fence = store.fence
          /\ store'.deletion = "ACTIVE"
          /\ store.deletion # "PENDING"
          /\ by' = by
          /\ writer' = writer
        BY <2>5, PutEffect DEF Put, CheckWritable, FencingInv, TypeOK
    <3> QED
        BY <3>1 DEF FencingInv, HistoryInv, TokensNameOneWriter, FencesNeverGoBack,
                    TurnsAreContiguous
  <2>6. CASE Delete
      BY <2>6, DeleteKeepsFencing DEF FencingInv
  <2>7. CASE UNCHANGED vars
      BY <2>7 DEF vars, FencingInv, HistoryInv, TokensNameOneWriter, FencesNeverGoBack,
                  TurnsAreContiguous
  <2> QED
      BY <2>1, <2>2, <2>3, <2>4, <2>5, <2>6, <2>7 DEF Next
<1> QED
    BY <1>1, <1>2, TypeCorrect, PTL DEF Spec

(* The records of one incarnation under one fence are contiguous.          *)
THEOREM Fencing == Spec => []TurnsAreContiguous
<1>1. FencingInv => TurnsAreContiguous
    BY DEF FencingInv
<1> QED
    BY <1>1, FencingInvariant, PTL

(* A fencing token names one incarnation, and the records under the newest *)
(* token are those of the incarnation that holds it.                       *)
THEOREM TokensAreNotShared == Spec => []TokensNameOneWriter
<1>1. FencingInv => TokensNameOneWriter
    BY DEF FencingInv
<1> QED
    BY <1>1, FencingInvariant, PTL

(* The fences of the log's records never go back: a record of an owner     *)
(* that was superseded is never after one of its successor.                *)
THEOREM FencesAreOrdered == Spec => []FencesNeverGoBack
<1>1. FencingInv => FencesNeverGoBack
    BY DEF FencingInv
<1> QED
    BY <1>1, FencingInvariant, PTL
-----------------------------------------------------------------------------
(* Once a session is deleted no step changes its durable state.            *)
THEOREM Frozen == Spec => DeletedIsFrozen
<1>1. [Next]_vars => [store.deletion = "PENDING" => UNCHANGED store]_vars
  <2> SUFFICES ASSUME [Next]_vars, store.deletion = "PENDING" PROVE UNCHANGED store
      OBVIOUS
  <2>1. ~CheckWritable(store)
      BY DEF CheckWritable
  <2>2. ASSUME NEW w \in Writers, NEW kind \in Kinds, AppendOk(w, kind) PROVE FALSE
      BY <2>1, <2>2, AcceptedAppend DEF AppendOk
  <2> QED
      BY <2>1, <2>2 DEF Next, MintFence, ReadHead, AppendRefused, Put, Delete, vars
<1> QED
    BY <1>1, PTL DEF Spec, DeletedIsFrozen

(* The DELETE record is the last one of a deleted session and no other     *)
(* session has one: the log accepts DELETE from nobody but the host.       *)
THEOREM DeletionEndsTheLog == Spec => []DeleteEndsTheLog
<1>1. Init => DeleteEndsTheLog
    BY DEF Init, EmptyStore, DeleteEndsTheLog
<1>2. TypeOK /\ DeleteEndsTheLog /\ [Next]_vars => DeleteEndsTheLog'
  <2> SUFFICES ASSUME TypeOK, DeleteEndsTheLog, [Next]_vars PROVE DeleteEndsTheLog'
      OBVIOUS
  <2>1. ASSUME NEW w \in Writers, MintFence(w) PROVE DeleteEndsTheLog'
    <3>1. /\ store'.recs = store.recs
          /\ store.deletion # "PENDING"
          /\ store'.deletion = "ACTIVE"
        BY <2>1, MintEffect DEF MintFence, CheckWritable, TypeOK
    <3> QED
        BY <3>1 DEF DeleteEndsTheLog, HeadSeq
  <2>2. ASSUME NEW w \in Writers, ReadHead(w) PROVE DeleteEndsTheLog'
      BY <2>2 DEF ReadHead, DeleteEndsTheLog, HeadSeq
  <2>3. ASSUME NEW w \in Writers, NEW kind \in Kinds, AppendOk(w, kind)
        PROVE  DeleteEndsTheLog'
    <3> DEFINE r == [kind |-> kind, fence |-> writer[w].fence]
    <3>1. /\ store.deletion # "PENDING"
          /\ kind # "DELETE"
        BY <2>3, AcceptedAppend DEF AppendOk, CheckWritable
    <3>2. /\ store'.recs = Append(store.recs, r)
          /\ store'.deletion = "ACTIVE"
        BY <2>3, AppendToEffect, KindsAssumption DEF AppendOk, TypeOK, WriterState
    <3>3. store.recs \in Seq(Record)
        BY DEF TypeOK, Store
    <3>4. \A i \in DOMAIN store.recs : store.recs[i].kind # "DELETE"
        BY <3>1 DEF DeleteEndsTheLog
    <3>5. \A i \in DOMAIN store'.recs : store'.recs[i].kind # "DELETE"
        BY <3>1, <3>2, <3>3, <3>4
    <3> QED
        BY <3>2, <3>5 DEF DeleteEndsTheLog
  <2>4. ASSUME NEW w \in Writers, NEW kind \in Kinds, AppendRefused(w, kind)
        PROVE  DeleteEndsTheLog'
      BY <2>4 DEF AppendRefused, DeleteEndsTheLog, HeadSeq
  <2>5. CASE Put
    <3>1. /\ store'.recs = store.recs
          /\ store.deletion # "PENDING"
          /\ store'.deletion = "ACTIVE"
        BY <2>5, PutEffect DEF Put, CheckWritable, TypeOK
    <3> QED
        BY <3>1 DEF DeleteEndsTheLog, HeadSeq
  <2>6. CASE Delete
    <3> DEFINE r == [kind |-> "DELETE", fence |-> store.fence + 1]
    <3>1. /\ store.deletion = "ACTIVE"
          /\ store'.recs = Append(store.recs, r)
          /\ store'.deletion = "PENDING"
          /\ store'.deletionSeq = Len(store.recs) + 1
        BY <2>6, DeleteSessionEffect DEF Delete, TypeOK
    <3>2. store.recs \in Seq(Record)
        BY DEF TypeOK, Store
    <3>3. \A i \in DOMAIN store.recs : store.recs[i].kind # "DELETE"
        BY <3>1 DEF DeleteEndsTheLog
    <3>4. /\ Len(store'.recs) = Len(store.recs) + 1
          /\ DOMAIN store'.recs = 1 .. (Len(store.recs) + 1)
          /\ DOMAIN store.recs = 1 .. Len(store.recs)
          /\ Len(store.recs) \in Nat
          /\ store'.recs[Len(store.recs) + 1].kind = "DELETE"
          /\ \A i \in DOMAIN store.recs : store'.recs[i] = store.recs[i]
        BY <3>1, <3>2
    <3>5. \A i \in DOMAIN store'.recs :
              i \in DOMAIN store.recs \/ i = Len(store.recs) + 1
        BY <3>4
    <3> QED
        BY <3>1, <3>3, <3>4, <3>5 DEF DeleteEndsTheLog, HeadSeq
  <2>7. CASE UNCHANGED vars
      BY <2>7 DEF vars, DeleteEndsTheLog, HeadSeq
  <2> QED
      BY <2>1, <2>2, <2>3, <2>4, <2>5, <2>6, <2>7 DEF Next
<1> QED
    BY <1>1, <1>2, TypeCorrect, PTL DEF Spec

(* A record of sort C that no record of sort W follows.                    *)
Holds(s, C, W) ==
    \E i \in DOMAIN s : s[i].kind \in C /\ \A j \in DOMAIN s : j > i => ~(s[j].kind \in W)

(* Whether a log has one when it grows by one record.                      *)
LEMMA LastOfTwoSorts ==
    ASSUME NEW s \in Seq(Record), NEW r \in Record, NEW t, t = Append(s, r), NEW C, NEW W
    PROVE  Holds(t, C, W) <=> r.kind \in C \/ (~(r.kind \in W) /\ Holds(s, C, W))
<1> DEFINE n == Len(s)
<1>1. /\ n \in Nat /\ DOMAIN s = 1 .. n /\ DOMAIN t = 1 .. (n + 1)
      /\ t[n + 1] = r /\ \A i \in 1 .. n : t[i] = s[i]
    BY AppendProperties
<1> HIDE DEF n
<1>2. /\ \A i \in 1 .. (n + 1) : i \in 1 .. n \/ i = n + 1
      /\ \A i \in 1 .. n : i \in 1 .. (n + 1) /\ n + 1 > i
      /\ n + 1 \in 1 .. (n + 1)
      /\ \A i \in 1 .. (n + 1) : ~(i > n + 1)
    BY <1>1
<1>3. ASSUME r.kind \in C
      PROVE  Holds(t, C, W)
    BY <1>1, <1>2, <1>3 DEF Holds
<1>4. ASSUME ~(r.kind \in W),
             NEW i \in DOMAIN s, s[i].kind \in C,
             \A j \in DOMAIN s : j > i => ~(s[j].kind \in W)
      PROVE  /\ i \in DOMAIN t /\ t[i].kind \in C
             /\ \A j \in DOMAIN t : j > i => ~(t[j].kind \in W)
    BY <1>1, <1>2, <1>4
<1>5. ASSUME ~(r.kind \in C),
             NEW i \in DOMAIN t, t[i].kind \in C,
             \A j \in DOMAIN t : j > i => ~(t[j].kind \in W)
      PROVE  /\ ~(r.kind \in W) /\ i \in DOMAIN s /\ s[i].kind \in C
             /\ \A j \in DOMAIN s : j > i => ~(s[j].kind \in W)
  <2>1. i \in 1 .. n
      BY <1>1, <1>2, <1>5
  <2> QED
      BY <1>1, <1>2, <1>5, <2>1
<1> QED
    BY <1>3, <1>4, <1>5 DEF Holds

(* A record at the end of the log moves the projection the way the longer  *)
(* log says.                                                               *)
LEMMA ProjectionStep ==
    ASSUME TypeOK, ProjectionFollowsLog, NEW r \in Record,
           store'.recs = Append(store.recs, r),
           store'.compute = IF MovesCompute(r.kind) THEN EventComputeState(r.kind)
                            ELSE store.compute
    PROVE  ProjectionFollowsLog'
<1> DEFINE C == {"SUSPEND", "FORK"}
           W == TurnKinds \union {"RESUME"}
<1>1. store.recs \in Seq(Record)
    BY DEF TypeOK, Store
<1>2. /\ store.compute = "COLD" <=> Holds(store.recs, C, W)
      /\ store.compute = "LIVE" <=> Holds(store.recs, W, C)
    BY DEF ProjectionFollowsLog, Cools, Warms, Holds
<1>3. Holds(store'.recs, C, W) <=> r.kind \in C \/ (~(r.kind \in W) /\ Holds(store.recs, C, W))
  <2> HIDE DEF C, W
  <2> QED
      BY <1>1, LastOfTwoSorts
<1>4. Holds(store'.recs, W, C) <=> r.kind \in W \/ (~(r.kind \in C) /\ Holds(store.recs, W, C))
  <2> HIDE DEF C, W
  <2> QED
      BY <1>1, LastOfTwoSorts
<1>5. ~(r.kind \in C /\ r.kind \in W)
    BY DEF TurnKinds
<1>6. MovesCompute(r.kind) <=> r.kind \in C \/ r.kind \in W
  <2>1. r.kind \in EventKind
      BY DEF Record
  <2> QED
      BY <2>1 DEF MovesCompute, EventKind, LifecycleKinds, ApprovalKinds, TurnKinds
<1>7. EventComputeState(r.kind) = IF r.kind \in C THEN "COLD" ELSE "LIVE"
    BY DEF EventComputeState
<1>8. /\ store'.compute = "COLD" <=> Holds(store'.recs, C, W)
      /\ store'.compute = "LIVE" <=> Holds(store'.recs, W, C)
  <2> HIDE DEF C, W
  <2> QED
      BY <1>2, <1>3, <1>4, <1>5, <1>6, <1>7
<1> QED
    BY <1>8 DEF ProjectionFollowsLog, Cools, Warms, Holds

(* The compute_state column never drifts from the log.                     *)
THEOREM ProjectionNeverDrifts == Spec => []ProjectionFollowsLog
<1>1. Init => ProjectionFollowsLog
    BY DEF Init, EmptyStore, ProjectionFollowsLog
<1>2. TypeOK /\ ProjectionFollowsLog /\ [Next]_vars => ProjectionFollowsLog'
  <2> SUFFICES ASSUME TypeOK, ProjectionFollowsLog, [Next]_vars
               PROVE  ProjectionFollowsLog'
      OBVIOUS
  <2>1. ASSUME NEW w \in Writers, MintFence(w) PROVE ProjectionFollowsLog'
    <3>1. store'.recs = store.recs /\ store'.compute = store.compute
        BY <2>1, MintEffect DEF MintFence, TypeOK
    <3> QED
        BY <3>1 DEF ProjectionFollowsLog, Cools, Warms
  <2>2. ASSUME NEW w \in Writers, ReadHead(w) PROVE ProjectionFollowsLog'
      BY <2>2 DEF ReadHead, ProjectionFollowsLog, Cools, Warms
  <2>3. ASSUME NEW w \in Writers, NEW kind \in Kinds, AppendOk(w, kind)
        PROVE  ProjectionFollowsLog'
    <3> DEFINE r == [kind |-> kind, fence |-> writer[w].fence]
    <3>1. kind \in EventKind /\ writer[w].fence \in Nat /\ r \in Record
        BY KindsAssumption DEF TypeOK, WriterState, Record
    <3>2. /\ store'.recs = Append(store.recs, r)
          /\ store'.compute = IF MovesCompute(kind) THEN EventComputeState(kind)
                              ELSE store.compute
        BY <2>3, <3>1, AppendToEffect DEF AppendOk, TypeOK
    <3>3. r.kind = kind
        OBVIOUS
    <3> HIDE DEF r
    <3> QED
        BY <3>1, <3>2, <3>3, ProjectionStep
  <2>4. ASSUME NEW w \in Writers, NEW kind \in Kinds, AppendRefused(w, kind)
        PROVE  ProjectionFollowsLog'
      BY <2>4 DEF AppendRefused, ProjectionFollowsLog, Cools, Warms
  <2>5. CASE Put
    <3>1. store'.recs = store.recs /\ store'.compute = store.compute
        BY <2>5, PutEffect DEF Put, TypeOK
    <3> QED
        BY <3>1 DEF ProjectionFollowsLog, Cools, Warms
  <2>6. CASE Delete
    <3> DEFINE r == [kind |-> "DELETE", fence |-> store.fence + 1]
    <3>1. store.fence + 1 \in Nat
        BY DEF TypeOK, Store
    <3>2. r \in Record /\ r.kind = "DELETE"
        BY <3>1 DEF Record, EventKind, LifecycleKinds
    <3>3. store'.recs = Append(store.recs, r) /\ store'.compute = store.compute
        BY <2>6, DeleteSessionEffect DEF Delete, TypeOK
    <3>4. ~MovesCompute("DELETE")
        BY DEF MovesCompute
    <3> HIDE DEF r
    <3> QED
        BY <3>2, <3>3, <3>4, ProjectionStep
  <2>7. CASE UNCHANGED vars
      BY <2>7 DEF vars, ProjectionFollowsLog, Cools, Warms
  <2> QED
      BY <2>1, <2>2, <2>3, <2>4, <2>5, <2>6, <2>7 DEF Next
<1> QED
    BY <1>1, <1>2, TypeCorrect, PTL DEF Spec
-----------------------------------------------------------------------------
(* The refinement mapping's journal.                                       *)
JournalOf == [i \in DOMAIN store.recs |-> [by |-> by[i], kind |-> store.recs[i].kind]]

(* A token that a writer holds and that is the row's makes it the owner.   *)
LEMMA OwnerIsHolder ==
    ASSUME TokensNameOneWriter, NEW w \in Writers, store.fence > 0,
           writer[w].fence = store.fence
    PROVE  Owner = w
<1>1. \A v \in Writers : writer[v].fence = store.fence => v = w
    BY DEF TokensNameOneWriter
<1> QED
    BY <1>1 DEF Owner

(* Append, index by index.                                                 *)
LEMMA AppendAsFunction ==
    ASSUME NEW S, NEW q \in Seq(S), NEW e \in S
    PROVE  Append(q, e) =
            [i \in 1 .. (Len(q) + 1) |-> IF i = Len(q) + 1 THEN e ELSE q[i]]
<1> DEFINE t == [i \in 1 .. (Len(q) + 1) |-> IF i = Len(q) + 1 THEN e ELSE q[i]]
           p == Append(q, e)
<1>1. /\ p \in Seq(S)
      /\ Len(p) = Len(q) + 1
      /\ \A i \in 1 .. Len(q) : p[i] = q[i]
      /\ p[Len(q) + 1] = e
    BY AppendProperties
<1>2. Len(q) \in Nat
    OBVIOUS
<1> HIDE DEF p
<1>3. p = [i \in 1 .. (Len(q) + 1) |-> p[i]]
    BY <1>1
<1>4. ASSUME NEW i \in 1 .. (Len(q) + 1) PROVE p[i] = t[i]
    BY <1>1, <1>2
<1>5. p = t
    BY <1>3, <1>4
<1> QED
    BY <1>5 DEF p

(* An accepted append extends the journal by its record.                   *)
LEMMA JournalGrows ==
    ASSUME TypeOK, HistoryInv, NEW r \in Record, NEW v,
           store'.recs = Append(store.recs, r), by' = Append(by, v)
    PROVE  JournalOf' = Append(JournalOf, [by |-> v, kind |-> r.kind])
<1> DEFINE n == Len(store.recs)
           e == [by |-> v, kind |-> r.kind]
<1>1. /\ DOMAIN store'.recs = 1 .. (n + 1)
      /\ DOMAIN store.recs = 1 .. n
      /\ n \in Nat
      /\ \A i \in 1 .. n : store'.recs[i] = store.recs[i] /\ by'[i] = by[i]
      /\ store'.recs[n + 1] = r
      /\ by'[n + 1] = v
    BY OneMoreRecord
<1> HIDE DEF n
<1>2. /\ JournalOf = [i \in 1 .. n |-> [by |-> by[i], kind |-> store.recs[i].kind]]
      /\ JournalOf' = [i \in 1 .. (n + 1) |-> [by |-> by'[i], kind |-> store'.recs[i].kind]]
    BY <1>1 DEF JournalOf
<1> DEFINE S == {JournalOf[i] : i \in 1 .. n} \union {e}
           new == [i \in 1 .. (n + 1) |-> IF i = n + 1 THEN e ELSE JournalOf[i]]
<1>3. JournalOf \in [1 .. n -> S] /\ e \in S
    BY <1>2
<1>4. ASSUME NEW i \in 1 .. (n + 1)
      PROVE  JournalOf'[i] = IF i = n + 1 THEN e ELSE JournalOf[i]
  <2>1. JournalOf'[i] = [by |-> by'[i], kind |-> store'.recs[i].kind]
      BY <1>2
  <2>2. CASE i = n + 1
      BY <1>1, <2>1, <2>2
  <2>3. CASE i # n + 1
    <3>1. i \in 1 .. n
        BY <1>1, <2>3
    <3>2. JournalOf[i] = [by |-> by[i], kind |-> store.recs[i].kind]
        BY <1>2, <3>1
    <3> QED
        BY <1>1, <2>1, <2>3, <3>1, <3>2
  <2> QED
      BY <2>2, <2>3
<1>5. JournalOf' = new
    BY <1>2, <1>4
<1> HIDE DEF S, e
<1>6. JournalOf \in Seq(S) /\ Len(JournalOf) = n
    BY <1>1, <1>3
<1>7. Append(JournalOf, e) = new
    BY <1>3, <1>6, AppendAsFunction
<1> QED
    BY <1>5, <1>7 DEF e

(* The same of the next state.                                             *)
LEMMA NextOwnerIsHolder ==
    ASSUME TokensNameOneWriter', NEW w \in Writers, store'.fence > 0,
           writer'[w].fence = store'.fence
    PROVE  Owner' = w
<1>1. \A v \in Writers : writer'[v].fence = store'.fence => v = w
    BY DEF TokensNameOneWriter
<1> QED
    BY <1>1 DEF Owner

(* A step that moves no token keeps the owner.                             *)
LEMMA OwnerKept ==
    ASSUME TokensNameOneWriter, TokensNameOneWriter', store'.fence = store.fence,
           \A w \in Writers : writer'[w].fence = writer[w].fence
    PROVE  Owner' = Owner
<1>1. CASE \E w \in Writers : store.fence > 0 /\ writer[w].fence = store.fence
  <2>1. PICK w \in Writers : store.fence > 0 /\ writer[w].fence = store.fence
      BY <1>1
  <2> QED
      BY <2>1, OwnerIsHolder, NextOwnerIsHolder
<1>2. CASE ~ \E w \in Writers : store.fence > 0 /\ writer[w].fence = store.fence
    BY <1>2 DEF Owner
<1> QED
    BY <1>1, <1>2

(* A step that leaves the log, the deletion and the tokens alone is a      *)
(* stuttering step of the journal.                                         *)
LEMMA JournalStutters ==
    ASSUME FencingInv, FencingInv', store'.recs = store.recs, by' = by,
           store'.fence = store.fence,
           store'.deletion = "PENDING" <=> store.deletion = "PENDING",
           \A w \in Writers : writer'[w].fence = writer[w].fence
    PROVE  UNCHANGED Journal!journalVars
<1>1. Owner' = Owner
    BY OwnerKept DEF FencingInv
<1>2. JournalOf' = JournalOf
    BY DEF JournalOf
<1> QED
    BY <1>1, <1>2 DEF Journal!journalVars, JournalOf

(* The log implements the journal with one owner at a time: minting a      *)
(* fence is taking the journal over, an accepted Append is a write by the  *)
(* owner, DeleteSession closes it, and nothing else is visible.            *)
THEOREM LogImplementsJournal == Spec => ImplementsOwnedJournal
<1>1. Init => Journal!JournalInit
  <2> SUFFICES ASSUME Init PROVE Journal!JournalInit
      OBVIOUS
  <2>1. store.recs = <<>> /\ store.fence = 0 /\ store.deletion = "NOROW"
      BY DEF Init, EmptyStore
  <2>2. JournalOf = <<>>
      BY <2>1 DEF JournalOf
  <2>3. Owner = Nobody
      BY <2>1 DEF Owner
  <2> QED
      BY <2>1, <2>2, <2>3 DEF Journal!JournalInit, JournalOf
<1>2. FencingInv /\ FencingInv' /\ [Next]_vars => [Journal!JournalNext]_(Journal!journalVars)
  <2> SUFFICES ASSUME FencingInv, FencingInv', [Next]_vars
               PROVE  Journal!JournalNext \/ UNCHANGED Journal!journalVars
      OBVIOUS
  <2>1. ASSUME NEW w \in Writers, MintFence(w) PROVE Journal!TakeOver(w)
    <3>1. /\ store'.recs = store.recs
          /\ store'.fence = store.fence + 1
          /\ store.fence \in Nat
          /\ store'.deletion = "ACTIVE"
          /\ store.deletion # "PENDING"
          /\ by' = by
        BY <2>1, MintEffect DEF MintFence, CheckWritable, FencingInv, TypeOK, Store
    <3>2. writer'[w].fence = store'.fence
        BY <2>1 DEF MintFence, FencingInv, TypeOK, WriterState
    <3>3. Owner' = w
        BY <3>1, <3>2, NextOwnerIsHolder DEF FencingInv
    <3>4. JournalOf' = JournalOf
        BY <3>1 DEF JournalOf
    <3> QED
        BY <3>1, <3>3, <3>4 DEF Journal!TakeOver, JournalOf
  <2>2. ASSUME NEW w \in Writers, ReadHead(w) PROVE UNCHANGED Journal!journalVars
    <3>1. \A v \in Writers : writer'[v].fence = writer[v].fence
        BY <2>2 DEF ReadHead, FencingInv, TypeOK, WriterState
    <3> QED
        BY <2>2, <3>1, JournalStutters DEF ReadHead
  <2>3. ASSUME NEW w \in Writers, NEW kind \in Kinds, AppendOk(w, kind)
        PROVE  Journal!Write(w, kind)
    <3> DEFINE r == [kind |-> kind, fence |-> writer[w].fence]
    <3>1. kind \in EventKind /\ writer[w].fence \in Nat /\ r \in Record /\ r.kind = kind
        BY KindsAssumption DEF FencingInv, TypeOK, WriterState, Record
    <3>2. /\ store'.recs = Append(store.recs, r)
          /\ store'.fence = store.fence
          /\ store'.deletion = "ACTIVE"
          /\ by' = Append(by, w)
        BY <2>3, <3>1, AppendToEffect DEF AppendOk, FencingInv, TypeOK
    <3>3. writer[w].fence = store.fence /\ store.deletion # "PENDING"
        BY <2>3, AcceptedUnderNewestFence
    <3>4. \A v \in Writers : writer'[v].fence = writer[v].fence
        BY <2>3 DEF AppendOk, FencingInv, TypeOK, WriterState
    <3>5. Owner' = Owner
        BY <3>2, <3>4, OwnerKept DEF FencingInv
    <3>6. Owner \in {w, Nobody}
      <4>1. CASE store.fence > 0
          BY <3>3, <4>1, OwnerIsHolder DEF FencingInv
      <4>2. CASE ~(store.fence > 0)
          BY <4>2 DEF Owner
      <4> QED
          BY <4>1, <4>2
    <3> HIDE DEF r
    <3>7. JournalOf' = Append(JournalOf, [by |-> w, kind |-> kind])
        BY SMTT(30), <3>1, <3>2, JournalGrows DEF FencingInv
    <3> QED
        BY <3>2, <3>3, <3>5, <3>6, <3>7 DEF Journal!Write, JournalOf
  <2>4. ASSUME NEW w \in Writers, NEW kind \in Kinds, AppendRefused(w, kind)
        PROVE  UNCHANGED Journal!journalVars
    <3>1. \A v \in Writers : writer'[v].fence = writer[v].fence
        BY <2>4 DEF AppendRefused, FencingInv, TypeOK, WriterState
    <3> QED
        BY <2>4, <3>1, JournalStutters DEF AppendRefused
  <2>5. ASSUME Put PROVE UNCHANGED Journal!journalVars
    <3>1. /\ store'.recs = store.recs
          /\ store'.fence = store.fence
          /\ store'.deletion = "ACTIVE"
          /\ store.deletion # "PENDING"
          /\ by' = by
          /\ writer' = writer
        BY <2>5, PutEffect DEF Put, CheckWritable, FencingInv, TypeOK
    <3> QED
        BY <3>1, JournalStutters
  <2>6. ASSUME Delete PROVE Journal!Close
    <3> DEFINE r == [kind |-> "DELETE", fence |-> store.fence + 1]
    <3>1. store.fence + 1 \in Nat
        BY DEF FencingInv, TypeOK, Store
    <3>2. r \in Record /\ r.kind = "DELETE"
        BY <3>1 DEF Record, EventKind, LifecycleKinds
    <3>3. /\ store'.recs = Append(store.recs, r)
          /\ store'.deletion = "PENDING"
          /\ store.deletion = "ACTIVE"
          /\ by' = Append(by, Nobody)
        BY <2>6, DeleteSessionEffect DEF Delete, FencingInv, TypeOK
    <3>4. Owner' = Nobody
      <4>1. \A v \in Writers : writer'[v].fence # store'.fence
        <5>1. \A v \in Writers : writer'[v].fence < store'.fence
            BY <3>3 DEF FencingInv, TokensNameOneWriter
        <5>2. \A v \in Writers : writer'[v].fence \in Nat /\ store'.fence \in Nat
            BY DEF FencingInv, TypeOK, WriterState, Store
        <5> QED
            BY <5>1, <5>2
      <4> QED
          BY <4>1 DEF Owner
    <3> HIDE DEF r
    <3>5. JournalOf' = Append(JournalOf, [by |-> Nobody, kind |-> "DELETE"])
        BY <3>2, <3>3, JournalGrows DEF FencingInv
    <3> QED
        BY <3>3, <3>4, <3>5 DEF Journal!Close, JournalOf
  <2>7. ASSUME UNCHANGED vars PROVE UNCHANGED Journal!journalVars
      BY <2>7, JournalStutters DEF vars
  <2> QED
      BY <2>1, <2>2, <2>3, <2>4, <2>5, <2>6, <2>7 DEF Next, Journal!JournalNext
<1> QED
    BY <1>1, <1>2, FencingInvariant, PTL DEF Spec, ImplementsOwnedJournal, Journal!JournalSpec
=============================================================================
