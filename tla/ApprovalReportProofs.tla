------------------------ MODULE ApprovalReportProofs ------------------------
(***************************************************************************)
(* That the pending approval a session reports is the one its log shows,   *)
(* for every set of executions, calls, histories and events, every number  *)
(* of processes and whatever build each of them runs.                      *)
(*                                                                         *)
(* A row of the projection and the scan of the same records simulate each  *)
(* other, event by event; so the projection describes the log it was       *)
(* reduced from, and a row that may have missed a record says so.          *)
(***************************************************************************)
EXTENDS ApprovalReport, FiniteSetTheorems, SequenceTheorems, WellFoundedInduction, TLAPS

-----------------------------------------------------------------------------
(* Logs                                                                    *)

(* A set of naturals has a least member.                                   *)
LEMMA LeastOf ==
    ASSUME NEW S \in SUBSET Nat, S # {}
    PROVE  \E n \in S : \A m \in S : n <= m
<1>1. PICK n \in S : \A m \in S : <<m, n>> \notin OpToRel(<, Nat)
    BY NatLessThanWellFounded, WFMin
<1>2. \A m \in S : ~(m < n)
    BY <1>1 DEF OpToRel
<1> QED
    BY <1>2

-----------------------------------------------------------------------------
(* The scan, record by record                                              *)

IsLog(recs) == Len(recs) \in Nat /\ DOMAIN recs = 1 .. Len(recs)

ScanNext(recs, x, acc, n) ==
    IF n \in RecordsOf(recs, x) THEN InspectRecord(acc, FirstAt(recs, x), n, recs[n]) ELSE acc

ScanSteps(g, recs, x, N) ==
    g = [n \in 0 .. N |-> IF n = 0 THEN NewScan(x) ELSE ScanNext(recs, x, g[n - 1], n)]

(* The recursive function of Scan exists: by the least number of records   *)
(* for which it would not.                                                 *)
LEMMA ScanExists ==
    ASSUME NEW recs, NEW x, NEW N \in Nat
    PROVE  \E g : ScanSteps(g, recs, x, N)
<1> DEFINE B == {n \in Nat : ~ \E g : ScanSteps(g, recs, x, n)}
<1>1. ASSUME B # {} PROVE FALSE
  <2>1. PICK n \in B : \A m \in B : n <= m
    <3>1. B \in SUBSET Nat
        OBVIOUS
    <3> HIDE DEF B
    <3> QED
        BY <1>1, <3>1, LeastOf
  <2>2. n \in Nat /\ ~ \E g : ScanSteps(g, recs, x, n)
      BY <2>1
  <2>3. CASE n = 0
    <3> DEFINE g == [k \in 0 .. 0 |-> NewScan(x)]
    <3>1. ScanSteps(g, recs, x, 0)
      <4>1. \A k \in 0 .. 0 : k = 0
          OBVIOUS
      <4> QED
          BY <4>1 DEF ScanSteps
    <3> QED
        BY <2>2, <2>3, <3>1
  <2>4. CASE n # 0
    <3>1. n - 1 \in Nat /\ n - 1 \notin B
        BY <2>1, <2>2, <2>4
    <3>2. PICK g : ScanSteps(g, recs, x, n - 1)
        BY <3>1
    <3>3. \A k \in 0 .. n - 1 : g[k] = IF k = 0 THEN NewScan(x) ELSE ScanNext(recs, x, g[k - 1], k)
        BY <3>2 DEF ScanSteps
    <3> DEFINE h == [k \in 0 .. n |-> IF k = n THEN ScanNext(recs, x, g[n - 1], n) ELSE g[k]]
    <3>4. \A k \in 0 .. n : h[k] = IF k = 0 THEN NewScan(x) ELSE ScanNext(recs, x, h[k - 1], k)
      <4> SUFFICES ASSUME NEW k \in 0 .. n
                   PROVE  h[k] = IF k = 0 THEN NewScan(x) ELSE ScanNext(recs, x, h[k - 1], k)
          OBVIOUS
      <4>1. CASE k = n
        <5>1. h[n] = ScanNext(recs, x, g[n - 1], n) /\ h[n - 1] = g[n - 1]
            BY <2>2, <2>4
        <5> QED
            BY <2>4, <4>1, <5>1
      <4>2. CASE k # n
        <5>1. k \in 0 .. n - 1 /\ h[k] = g[k] /\ (k # 0 => h[k - 1] = g[k - 1])
            BY <2>2, <4>2
        <5> QED
            BY <3>3, <5>1
      <4> QED
          BY <4>1, <4>2
    <3>5. h = [k \in 0 .. n |-> h[k]]
        OBVIOUS
    <3>6. ScanSteps(h, recs, x, n)
      <4> HIDE DEF h
      <4> QED
          BY <3>4, <3>5 DEF ScanSteps
    <3> QED
        BY <2>2, <3>6
  <2> QED
      BY <2>3, <2>4
<1> QED
    BY <1>1

(* So the scan goes record by record.                                      *)
LEMMA ScanIs ==
    ASSUME NEW recs, IsLog(recs), NEW x
    PROVE  /\ Scan(recs, x)[0] = NewScan(x)
           /\ \A n \in 1 .. Len(recs) :
                Scan(recs, x)[n] = ScanNext(recs, x, Scan(recs, x)[n - 1], n)
<1> DEFINE N == Len(recs)
           F == CHOOSE g : g = [n \in 0 .. N |-> IF n = 0 THEN NewScan(x)
                    ELSE IF n \in RecordsOf(recs, x)
                         THEN InspectRecord(g[n - 1], FirstAt(recs, x), n, recs[n])
                         ELSE g[n - 1]]
<1>1. N \in Nat
    BY DEF IsLog
<1>2. ScanSteps(F, recs, x, N)
  <2>1. \E g : ScanSteps(g, recs, x, N)
      BY <1>1, ScanExists
  <2>2. F = CHOOSE g : ScanSteps(g, recs, x, N)
      BY DEF ScanSteps, ScanNext
  <2> HIDE DEF F
  <2> QED
      BY <2>1, <2>2
<1>3. Scan(recs, x) = F
    BY DEF Scan
<1>4. \A n \in 0 .. N : F[n] = IF n = 0 THEN NewScan(x) ELSE ScanNext(recs, x, F[n - 1], n)
    <2> HIDE DEF F
    <2> QED BY <1>2 DEF ScanSteps
<1> QED
    BY <1>1, <1>3, <1>4

(* Two logs with the same first n records.                                 *)
Alike(recs, more, n) == \A i \in 1 .. n : recs[i] = more[i]

(* The first record of an execution that has records.                      *)
LEMMA FirstIs ==
    ASSUME NEW recs, IsLog(recs), NEW x, RecordsOf(recs, x) # {}
    PROVE  /\ FirstAt(recs, x) \in RecordsOf(recs, x) /\ FirstAt(recs, x) \in Nat
           /\ \A j \in RecordsOf(recs, x) : FirstAt(recs, x) <= j
<1>1. RecordsOf(recs, x) \in SUBSET Nat
    BY DEF RecordsOf, IsLog
<1>2. \E i \in RecordsOf(recs, x) : \A j \in RecordsOf(recs, x) : i <= j
    BY <1>1, LeastOf
<1> QED
    BY <1>1, <1>2 DEF FirstAt

(* They have the same records of an execution up to there.                 *)
LEMMA RecordsAgree ==
    ASSUME NEW recs, NEW more, IsLog(recs), IsLog(more), NEW x, NEW n \in Nat,
           n <= Len(recs), n <= Len(more), Alike(recs, more, n), NEW i \in 1 .. n
    PROVE  /\ i \in RecordsOf(recs, x) <=> i \in RecordsOf(more, x)
           /\ i \in RecordsOf(recs, x) => FirstAt(recs, x) = FirstAt(more, x)
<1>1. \A j \in 1 .. n : j \in RecordsOf(recs, x) <=> j \in RecordsOf(more, x)
    BY DEF RecordsOf, IsLog, Alike
<1>2. ASSUME i \in RecordsOf(recs, x) PROVE FirstAt(recs, x) = FirstAt(more, x)
  <2> DEFINE a == FirstAt(recs, x)
             b == FirstAt(more, x)
  <2>1. i \in RecordsOf(more, x)
      BY <1>1, <1>2
  <2>2. /\ a \in RecordsOf(recs, x) /\ a \in Nat /\ \A j \in RecordsOf(recs, x) : a <= j
        /\ b \in RecordsOf(more, x) /\ b \in Nat /\ \A j \in RecordsOf(more, x) : b <= j
      BY <1>2, <2>1, FirstIs
  <2>3. a \in 1 .. n /\ b \in 1 .. n
    <3>1. a <= i /\ b <= i /\ a > 0 /\ b > 0
        BY <1>2, <2>1, <2>2 DEF RecordsOf, IsLog
    <3> QED
        BY <2>2, <3>1
  <2>4. a <= b /\ b <= a
    <3> HIDE DEF a, b
    <3> QED BY <1>1, <2>2, <2>3
  <2> QED
      BY <2>2, <2>4
<1> QED
    BY <1>1, <1>2

(* And are scanned alike.                                                  *)
LEMMA ScansAgree ==
    ASSUME NEW recs, NEW more, IsLog(recs), IsLog(more), NEW x, NEW n \in Nat,
           n <= Len(recs), n <= Len(more), Alike(recs, more, n)
    PROVE  \A k \in 0 .. n : Scan(recs, x)[k] = Scan(more, x)[k]
<1> DEFINE f == Scan(recs, x)
           g == Scan(more, x)
           D == {k \in 0 .. n : f[k] # g[k]}
<1>1. ASSUME D # {} PROVE FALSE
  <2>1. PICK k \in D : \A m \in D : k <= m
    <3>1. D \in SUBSET Nat
        OBVIOUS
    <3> HIDE DEF D
    <3> QED
        BY <1>1, <3>1, LeastOf
  <2>2. k \in 0 .. n /\ f[k] # g[k]
      BY <2>1
  <2>3. f[0] = NewScan(x) /\ g[0] = NewScan(x)
      BY ScanIs
  <2>4. k \in 1 .. n /\ k \in 1 .. Len(recs) /\ k \in 1 .. Len(more)
      BY <2>2, <2>3 DEF IsLog
  <2>5. f[k] = ScanNext(recs, x, f[k - 1], k) /\ g[k] = ScanNext(more, x, g[k - 1], k)
      BY <2>4, ScanIs
  <2>6. f[k - 1] = g[k - 1]
    <3>1. k - 1 \in 0 .. n /\ ~(k <= k - 1)
        BY <2>4
    <3> QED
        BY <2>1, <3>1
  <2>7. recs[k] = more[k]
      BY <2>4 DEF Alike
  <2>8. \A acc : ScanNext(recs, x, acc, k) = ScanNext(more, x, acc, k)
      BY <2>4, <2>7, RecordsAgree DEF ScanNext
  <2> QED
      BY <2>2, <2>5, <2>6, <2>8
<1> QED
    BY <1>1

-----------------------------------------------------------------------------
(* A row of the projection and the scan of the same records                *)

(* The shapes of the two.                                                  *)
IsRow(s) ==
    /\ DOMAIN s = DOMAIN NewExecution(0) /\ DOMAIN s.calls = CallIDs
    /\ s.invalid \in BOOLEAN /\ s.gated \in BOOLEAN /\ s.receipt \in BOOLEAN /\ s.completed \in BOOLEAN
    /\ s.inputs \in Nat /\ s.messages \in Nat

IsScan(acc) ==
    /\ DOMAIN acc = DOMAIN NewScan(NoID) /\ DOMAIN acc.last = DOMAIN NewState(None, 0)
    /\ acc.ok \in BOOLEAN

(* What row and scan both know, while the records are those of an          *)
(* execution.                                                              *)
SameStart(s, acc) == s.start = acc.start /\ s.expected = acc.expected

SameInputs(s, acc) == s.inputs = acc.inputs /\ s.messages = acc.messages

SameEnd(s, acc) == s.completed = acc.completed

SameCalls(s, acc) == s.calls = acc.calls

SameGate(s, acc) ==
    /\ s.call = acc.last.call /\ s.callSeq = acc.last.seq
    /\ s.request = acc.last.request /\ s.decision = acc.last.decision
    /\ s.approved = acc.last.approved
    /\ s.receipt = (acc.last.receipt # 0)
    /\ (s.call # None) = (s.callSeq # 0)

Same(s, acc) ==
    /\ SameStart(s, acc) /\ SameInputs(s, acc) /\ SameEnd(s, acc) /\ SameCalls(s, acc)
    /\ SameGate(s, acc)

(* An invalid row keeps its mark, and a scan that failed its failure.      *)
Sim(s, acc) ==
    IsRow(s) /\ IsScan(acc) /\ acc.ok = ~s.invalid /\ (acc.ok => Same(s, acc))

(* What belongs to an execution.                                           *)
Evidence(e) == IsEvent(e) /\ e.what \notin Lifecycles

(* They start alike, but for records without an execution ID, which no     *)
(* scan accepts.                                                           *)
LEMMA SimInit ==
    ASSUME NEW seq, NEW x, x # NoID
    PROVE  Sim(NewExecution(seq), NewScan(x))
<1>1. IsRow(NewExecution(seq)) /\ ~NewExecution(seq).invalid
    BY DEF IsRow, NewExecution
<1>2. IsScan(NewScan(x)) /\ NewScan(x).ok = TRUE
    BY DEF IsScan, NewScan, NewState
<1>3. SameGate(NewExecution(seq), NewScan(x))
    BY DEF SameGate, NewExecution, NewScan, NewState
<1>4. Same(NewExecution(seq), NewScan(x))
    BY <1>3 DEF Same, SameStart, SameInputs, SameEnd, SameCalls, NewExecution, NewScan
<1> QED
    BY <1>1, <1>2, <1>4 DEF Sim, IsRow

(* Both refuse an event.                                                   *)
LEMMA SimRefused ==
    ASSUME NEW s, NEW acc, Sim(s, acc), acc.ok, NEW i, NEW e, Invalidates(s, i, e),
           InspectRecord(acc, s.first, i, e) = [acc EXCEPT !.ok = FALSE]
    PROVE  Sim(Reduce(s, i, e), InspectRecord(acc, s.first, i, e))
<1>1. ~s.invalid
    BY DEF Sim, IsRow
<1>2. Reduce(s, i, e) = [s EXCEPT !.invalid = TRUE, !.completed = @ \/ e.what = "End"]
    BY <1>1 DEF Reduce
<1> QED
    BY <1>2 DEF Sim, IsRow, IsScan, NewExecution, NewScan

(* Both take it, and know the same afterwards.                             *)
LEMMA SimTaken ==
    ASSUME NEW s, NEW acc, Sim(s, acc), acc.ok, NEW i, NEW e, ~Invalidates(s, i, e),
           NEW u, Advances(s, i, e) = u, IsRow(u), ~u.invalid,
           NEW t, InspectRecord(acc, s.first, i, e) = t, IsScan(t), t.ok, Same(u, t)
    PROVE  Sim(Reduce(s, i, e), InspectRecord(acc, s.first, i, e))
<1>1. ~s.invalid
    BY DEF Sim, IsRow
<1>2. Reduce(s, i, e) = u
    BY <1>1 DEF Reduce
<1> QED
    BY <1>2 DEF Sim, IsRow, IsScan

(* An event without its body.                                              *)
LEMMA SimBare ==
    ASSUME NEW s, NEW acc, Sim(s, acc), acc.ok, NEW i \in Nat \ {0}, NEW e, Evidence(e), ~e.body
    PROVE  Sim(Reduce(s, i, e), InspectRecord(acc, s.first, i, e))
<1> DEFINE open == acc.last.seq # 0 /\ acc.last.receipt = 0
           bad == NeedsBody(e.what, open) \/ (open /\ e.what # "Error")
           t == [acc EXCEPT !.inputs = IF e.what = "Input" THEN @ + 1 ELSE @,
                            !.completed = @ \/ e.what = "End"]
<1>1. /\ IsRow(s) /\ IsScan(acc) /\ Same(s, acc) /\ ~s.invalid
      /\ Unresolved(s) = open /\ acc.completed \in BOOLEAN
    BY DEF Sim, Same, SameGate, SameEnd, Unresolved, IsRow
<1>2. Invalidates(s, i, e) = bad
    BY <1>1 DEF Invalidates
<1>3. InspectRecord(acc, s.first, i, e) = IF bad THEN [acc EXCEPT !.ok = FALSE] ELSE t
    BY DEF InspectRecord
<1>4. CASE bad
    BY <1>2, <1>3, <1>4, SimRefused
<1>5. CASE ~bad
  <2>1. e.what \notin {"Start", "Call", "Request", "Decision"} /\ (e.what = "Result" => ~Unresolved(s))
      BY <1>1, <1>5 DEF NeedsBody
  <2>2. CASE e.what = "Input"
    <3> DEFINE u == [s EXCEPT !.inputs = @ + 1, !.messages = @]
    <3>1. Advances(s, i, e) = u
        BY <2>2 DEF Advances
    <3>2. IsRow(u) /\ ~u.invalid
      <4>1. s.inputs + 1 \in Nat
          BY <1>1 DEF IsRow
      <4> QED
          BY <1>1, <4>1 DEF IsRow, NewExecution
    <3>3. IsScan(t) /\ t.ok
        BY <1>1 DEF IsScan, NewScan
    <3>4. SameInputs(u, t)
        BY <1>1, <2>2 DEF Same, SameInputs, IsRow, IsScan, NewExecution, NewScan
    <3>5. SameStart(u, t) /\ SameCalls(u, t)
        BY <1>1 DEF Same, SameStart, SameCalls, IsRow, IsScan, NewExecution, NewScan
    <3>6. SameEnd(u, t)
        BY <1>1, <2>2 DEF Same, SameEnd, IsRow, IsScan, NewExecution, NewScan
    <3>7. SameGate(u, t)
        BY <1>1 DEF Same, SameGate, IsRow, IsScan, NewExecution, NewScan
    <3> QED
        BY <1>2, <1>3, <1>5, <3>1, <3>2, <3>3, <3>4, <3>5, <3>6, <3>7, SimTaken DEF Same
  <2>3. CASE e.what = "End"
    <3> DEFINE u == [s EXCEPT !.completed = TRUE]
    <3>1. Advances(s, i, e) = u
        BY <2>3 DEF Advances
    <3>2. IsRow(u) /\ ~u.invalid
        BY <1>1 DEF IsRow, NewExecution
    <3>3. IsScan(t) /\ t.ok
        BY <1>1 DEF IsScan, NewScan
    <3>4. SameInputs(u, t)
        BY <1>1, <2>3 DEF Same, SameInputs, IsRow, IsScan, NewExecution, NewScan
    <3>5. SameStart(u, t) /\ SameCalls(u, t)
        BY <1>1 DEF Same, SameStart, SameCalls, IsRow, IsScan, NewExecution, NewScan
    <3>6. SameEnd(u, t)
        BY <1>1, <2>3 DEF Same, SameEnd, IsRow, IsScan, NewExecution, NewScan
    <3>7. SameGate(u, t)
        BY <1>1 DEF Same, SameGate, IsRow, IsScan, NewExecution, NewScan
    <3> QED
        BY <1>2, <1>3, <1>5, <3>1, <3>2, <3>3, <3>4, <3>5, <3>6, <3>7, SimTaken DEF Same
  <2>4. CASE e.what \notin {"Input", "End"}
    <3>1. Advances(s, i, e) = s
        BY <2>1, <2>4 DEF Advances
    <3>2. IsScan(t) /\ t.ok
        BY <1>1 DEF IsScan, NewScan
    <3>3. SameInputs(s, t)
        BY <1>1, <2>4 DEF Same, SameInputs, IsRow, IsScan, NewExecution, NewScan
    <3>4. SameStart(s, t) /\ SameCalls(s, t)
        BY <1>1 DEF Same, SameStart, SameCalls, IsRow, IsScan, NewExecution, NewScan
    <3>5. SameEnd(s, t)
        BY <1>1, <2>4 DEF Same, SameEnd, IsRow, IsScan, NewExecution, NewScan
    <3>6. SameGate(s, t)
        BY <1>1 DEF Same, SameGate, IsRow, IsScan, NewExecution, NewScan
    <3> QED
        BY <1>1, <1>2, <1>3, <1>5, <3>1, <3>2, <3>3, <3>4, <3>5, <3>6, SimTaken DEF Same
  <2> QED
      BY <2>2, <2>3, <2>4
<1> QED
    BY <1>4, <1>5

(* The first record of an execution says how many inputs follow.           *)
LEMMA SimStart ==
    ASSUME NEW s, NEW acc, Sim(s, acc), acc.ok, NEW i \in Nat \ {0}, NEW e, Evidence(e), e.body,
           e.what = "Start"
    PROVE  Sim(Reduce(s, i, e), InspectRecord(acc, s.first, i, e))
<1> DEFINE u == [s EXCEPT !.start = TRUE, !.expected = e.count]
           t == [acc EXCEPT !.start = TRUE, !.expected = e.count]
<1>1. IsRow(s) /\ IsScan(acc) /\ Same(s, acc) /\ ~s.invalid
    BY DEF Sim, IsRow
<1>2. Invalidates(s, i, e) = (i # s.first)
    BY DEF Invalidates
<1>3. InspectRecord(acc, s.first, i, e) = IF i = s.first THEN t ELSE [acc EXCEPT !.ok = FALSE]
    BY DEF InspectRecord
<1>4. CASE i # s.first
    BY <1>2, <1>3, <1>4, SimRefused
<1>5. CASE i = s.first
  <2>1. Advances(s, i, e) = u
      BY DEF Advances
  <2>2. IsRow(u) /\ ~u.invalid
      BY <1>1 DEF IsRow, NewExecution
  <2>3. IsScan(t) /\ t.ok
      BY <1>1 DEF IsScan, NewScan
  <2>4. SameStart(u, t)
      BY <1>1 DEF SameStart, IsRow, IsScan, NewExecution, NewScan
  <2>5. SameInputs(u, t) /\ SameCalls(u, t)
      BY <1>1 DEF Same, SameInputs, SameCalls, IsRow, IsScan, NewExecution, NewScan
  <2>6. SameEnd(u, t)
      BY <1>1 DEF Same, SameEnd, IsRow, IsScan, NewExecution, NewScan
  <2>7. SameGate(u, t)
      BY <1>1 DEF Same, SameGate, IsRow, IsScan, NewExecution, NewScan
  <2> QED
      BY <1>2, <1>3, <1>5, <2>1, <2>2, <2>3, <2>4, <2>5, <2>6, <2>7, SimTaken DEF Same
<1> QED
    BY <1>4, <1>5

(* An open call: one that is gated and has no receipt.                     *)
Open(acc) == acc.last.seq # 0 /\ acc.last.receipt = 0

(* Row and scan agree on whether a gated call is open.                     *)
LEMMA OpenSame ==
    ASSUME NEW s, NEW acc, Sim(s, acc), acc.ok
    PROVE  /\ IsRow(s) /\ IsScan(acc) /\ Same(s, acc) /\ ~s.invalid
           /\ Unresolved(s) = Open(acc) /\ acc.completed \in BOOLEAN
BY DEF Sim, Same, SameGate, SameEnd, Unresolved, IsRow, Open

(* An input: both count it, and refuse it beside an open call.             *)
LEMMA SimInput ==
    ASSUME NEW s, NEW acc, Sim(s, acc), acc.ok, NEW i \in Nat \ {0}, NEW e, Evidence(e), e.body,
           e.what = "Input"
    PROVE  Sim(Reduce(s, i, e), InspectRecord(acc, s.first, i, e))
<1> DEFINE u == [s EXCEPT !.inputs = @ + 1, !.messages = @ + 1]
           t == [acc EXCEPT !.inputs = @ + 1, !.messages = @ + 1]
<1>1. IsRow(s) /\ IsScan(acc) /\ Same(s, acc) /\ ~s.invalid /\ Unresolved(s) = Open(acc)
    BY OpenSame
<1>2. Invalidates(s, i, e) = Open(acc)
    BY <1>1 DEF Invalidates
<1>3. InspectRecord(acc, s.first, i, e) = IF ~Open(acc) THEN t ELSE [acc EXCEPT !.ok = FALSE]
    BY DEF InspectRecord, Open
<1>4. CASE Open(acc)
    BY <1>2, <1>3, <1>4, SimRefused
<1>5. CASE ~Open(acc)
  <2>1. Advances(s, i, e) = u
      BY DEF Advances
  <2>2. IsRow(u) /\ ~u.invalid
    <3>1. s.inputs + 1 \in Nat /\ s.messages + 1 \in Nat
        BY <1>1 DEF IsRow
    <3> QED
        BY <1>1, <3>1 DEF IsRow, NewExecution
  <2>3. IsScan(t) /\ t.ok
      BY <1>1 DEF IsScan, NewScan
  <2>4. SameInputs(u, t)
      BY <1>1 DEF Same, SameInputs, IsRow, IsScan, NewExecution, NewScan
  <2>5. SameStart(u, t) /\ SameCalls(u, t)
      BY <1>1 DEF Same, SameStart, SameCalls, IsRow, IsScan, NewExecution, NewScan
  <2>6. SameEnd(u, t)
      BY <1>1 DEF Same, SameEnd, IsRow, IsScan, NewExecution, NewScan
  <2>7. SameGate(u, t)
      BY <1>1 DEF Same, SameGate, IsRow, IsScan, NewExecution, NewScan
  <2> QED
      BY <1>2, <1>3, <1>5, <2>1, <2>2, <2>3, <2>4, <2>5, <2>6, <2>7, SimTaken DEF Same
<1> QED
    BY <1>4, <1>5

(* A call joins those that are known; a gated one is open.                 *)
LEMMA SimCall ==
    ASSUME NEW s, NEW acc, Sim(s, acc), acc.ok, NEW i \in Nat \ {0}, NEW e, Evidence(e), e.body,
           e.what = "Call"
    PROVE  Sim(Reduce(s, i, e), InspectRecord(acc, s.first, i, e))
<1> DEFINE bad == \/ Open(acc)
                  \/ acc.calls[e.call] = TRUE \/ (acc.calls[e.call] = FALSE /\ e.gated)
                  \/ e.gated /\ (acc.completed \/ ~e.keyed)
           t == [acc EXCEPT !.calls[e.call] = e.gated,
                            !.last = IF e.gated THEN NewState(e.call, i) ELSE @]
<1>1. /\ IsRow(s) /\ IsScan(acc) /\ Same(s, acc) /\ ~s.invalid /\ Unresolved(s) = Open(acc)
      /\ s.calls = acc.calls /\ s.completed = acc.completed
    BY OpenSame DEF Same, SameCalls, SameEnd
<1>2. Invalidates(s, i, e) = bad
    BY <1>1 DEF Invalidates
<1>3. InspectRecord(acc, s.first, i, e) = IF ~bad THEN t ELSE [acc EXCEPT !.ok = FALSE]
    BY DEF InspectRecord, Open
<1>4. CASE bad
    BY <1>2, <1>3, <1>4, SimRefused
<1>5. CASE ~bad /\ e.gated
  <2> DEFINE u == [s EXCEPT !.calls[e.call] = TRUE, !.call = e.call, !.callSeq = i, !.request = 0,
                            !.decision = 0, !.receipt = FALSE, !.approved = FALSE]
  <2>1. e.call \in CallIDs /\ e.call # None
      BY ReportAssumption DEF Evidence, IsEvent
  <2>2. Advances(s, i, e) = u
      BY <1>5 DEF Advances
  <2>3. IsRow(u) /\ ~u.invalid
      BY <1>1 DEF IsRow, NewExecution
  <2>4. t = [acc EXCEPT !.calls[e.call] = TRUE, !.last = NewState(e.call, i)]
      BY <1>5
  <2>5. IsScan(t) /\ t.ok
      BY <1>1, <2>4 DEF IsScan, NewScan, NewState
  <2>6. SameCalls(u, t)
      BY <1>1, <2>1, <2>4 DEF Same, SameCalls, IsRow, IsScan, NewExecution, NewScan
  <2>7. SameStart(u, t) /\ SameInputs(u, t)
      BY <1>1, <2>4 DEF Same, SameStart, SameInputs, IsRow, IsScan, NewExecution, NewScan
  <2>8. SameEnd(u, t)
      BY <1>1, <2>4 DEF Same, SameEnd, IsRow, IsScan, NewExecution, NewScan
  <2>9. SameGate(u, t)
    <3>1. t.last = NewState(e.call, i)
        BY <1>1, <2>4 DEF IsScan, NewScan
    <3>2. /\ u.call = e.call /\ u.callSeq = i /\ u.request = 0 /\ u.decision = 0
          /\ u.receipt = FALSE /\ u.approved = FALSE
        BY <1>1 DEF IsRow, NewExecution
    <3>3. /\ t.last.call = e.call /\ t.last.seq = i /\ t.last.request = 0
          /\ t.last.decision = 0 /\ t.last.receipt = 0 /\ t.last.approved = FALSE
        BY <3>1 DEF NewState
    <3> HIDE DEF u, t
    <3> QED
        BY <2>1, <3>2, <3>3 DEF SameGate
  <2> QED
      BY <1>2, <1>3, <1>5, <2>2, <2>3, <2>5, <2>6, <2>7, <2>8, <2>9, SimTaken DEF Same
<1>6. CASE ~bad /\ ~e.gated
  <2> DEFINE u == [s EXCEPT !.calls[e.call] = FALSE]
  <2>1. Advances(s, i, e) = u
      BY <1>6 DEF Advances
  <2>2. IsRow(u) /\ ~u.invalid
      BY <1>1 DEF IsRow, NewExecution
  <2>3. t = [acc EXCEPT !.calls[e.call] = FALSE, !.last = @]
      BY <1>6 DEF Evidence, IsEvent
  <2>4. IsScan(t) /\ t.ok
      BY <1>1, <2>3 DEF IsScan, NewScan, NewState
  <2>5. SameCalls(u, t)
      BY <1>1, <2>3 DEF Same, SameCalls, IsRow, IsScan, NewExecution, NewScan
  <2>6. SameStart(u, t) /\ SameInputs(u, t)
      BY <1>1, <2>3 DEF Same, SameStart, SameInputs, IsRow, IsScan, NewExecution, NewScan
  <2>7. SameEnd(u, t)
      BY <1>1, <2>3 DEF Same, SameEnd, IsRow, IsScan, NewExecution, NewScan
  <2>8. SameGate(u, t)
      BY <1>1, <2>3 DEF Same, SameGate, IsRow, IsScan, NewExecution, NewScan, NewState
  <2> QED
      BY <1>2, <1>3, <1>6, <2>1, <2>2, <2>4, <2>5, <2>6, <2>7, <2>8, SimTaken DEF Same
<1> QED
    BY <1>4, <1>5, <1>6

(* A request: of the open call, once.                                      *)
LEMMA SimRequest ==
    ASSUME NEW s, NEW acc, Sim(s, acc), acc.ok, NEW i \in Nat \ {0}, NEW e, Evidence(e), e.body,
           e.what = "Request"
    PROVE  Sim(Reduce(s, i, e), InspectRecord(acc, s.first, i, e))
<1> DEFINE u == [s EXCEPT !.request = i]
           t == [acc EXCEPT !.last.request = i]
           bad == ~Open(acc) \/ acc.last.request # 0 \/ e.call # acc.last.call
<1>1. IsRow(s) /\ IsScan(acc) /\ Same(s, acc) /\ ~s.invalid /\ Unresolved(s) = Open(acc)
    BY OpenSame
<1>2. Invalidates(s, i, e) = bad
    BY <1>1 DEF Invalidates, Same, SameGate
<1>3. InspectRecord(acc, s.first, i, e) = IF ~bad THEN t ELSE [acc EXCEPT !.ok = FALSE]
    BY DEF InspectRecord, Open
<1>4. CASE bad
    BY <1>2, <1>3, <1>4, SimRefused
<1>5. CASE ~bad
  <2>1. Advances(s, i, e) = u
      BY DEF Advances
  <2>2. IsRow(u) /\ ~u.invalid
      BY <1>1 DEF IsRow, NewExecution
  <2>3. IsScan(t) /\ t.ok /\ t.last = [acc.last EXCEPT !.request = i]
      BY <1>1 DEF IsScan, NewScan, NewState
  <2>4. SameStart(u, t) /\ SameInputs(u, t)
      BY <1>1 DEF Same, SameStart, SameInputs, IsRow, IsScan, NewExecution, NewScan
  <2>5. SameCalls(u, t)
      BY <1>1 DEF Same, SameCalls, IsRow, IsScan, NewExecution, NewScan
  <2>6. SameEnd(u, t)
      BY <1>1 DEF Same, SameEnd, IsRow, IsScan, NewExecution, NewScan
  <2>7. SameGate(u, t)
    <3>1. t.last.request = i /\ \A f \in DOMAIN acc.last \ {"request"} : t.last[f] = acc.last[f]
        BY <1>1, <2>3 DEF IsScan, NewState
    <3>2. u.request = i /\ \A f \in DOMAIN s \ {"request"} : u[f] = s[f]
        BY <1>1 DEF IsRow, NewExecution
    <3> HIDE DEF u, t
    <3> QED
        BY <1>1, <3>1, <3>2 DEF Same, SameGate, IsRow, IsScan, NewExecution, NewState
  <2> QED
      BY <1>2, <1>3, <1>5, <2>1, <2>2, <2>3, <2>4, <2>5, <2>6, <2>7, SimTaken DEF Same
<1> QED
    BY <1>4, <1>5

(* A decision: of the request of the open call, once.                      *)
LEMMA SimDecision ==
    ASSUME NEW s, NEW acc, Sim(s, acc), acc.ok, NEW i \in Nat \ {0}, NEW e, Evidence(e), e.body,
           e.what = "Decision"
    PROVE  Sim(Reduce(s, i, e), InspectRecord(acc, s.first, i, e))
<1> DEFINE u == [s EXCEPT !.decision = i, !.approved = e.approved]
           t == [acc EXCEPT !.last.decision = i, !.last.approved = e.approved]
           bad == \/ ~Open(acc) \/ acc.last.request = 0 \/ acc.last.decision # 0
                  \/ e.call # acc.last.call \/ e.request # acc.last.request
<1>1. IsRow(s) /\ IsScan(acc) /\ Same(s, acc) /\ ~s.invalid /\ Unresolved(s) = Open(acc)
    BY OpenSame
<1>2. Invalidates(s, i, e) = bad
    BY <1>1 DEF Invalidates, Same, SameGate
<1>3. InspectRecord(acc, s.first, i, e) = IF ~bad THEN t ELSE [acc EXCEPT !.ok = FALSE]
    BY DEF InspectRecord, Open
<1>4. CASE bad
    BY <1>2, <1>3, <1>4, SimRefused
<1>5. CASE ~bad
  <2>1. Advances(s, i, e) = u
      BY DEF Advances
  <2>2. IsRow(u) /\ ~u.invalid
      BY <1>1 DEF IsRow, NewExecution
  <2>3. IsScan(t) /\ t.ok /\ t.last = [acc.last EXCEPT !.decision = i, !.approved = e.approved]
      BY <1>1 DEF IsScan, NewScan, NewState
  <2>4. SameStart(u, t) /\ SameInputs(u, t)
      BY <1>1 DEF Same, SameStart, SameInputs, IsRow, IsScan, NewExecution, NewScan
  <2>5. SameCalls(u, t)
      BY <1>1 DEF Same, SameCalls, IsRow, IsScan, NewExecution, NewScan
  <2>6. SameEnd(u, t)
      BY <1>1 DEF Same, SameEnd, IsRow, IsScan, NewExecution, NewScan
  <2>7. SameGate(u, t)
    <3>1. /\ t.last.decision = i /\ t.last.approved = e.approved
          /\ \A f \in DOMAIN acc.last \ {"decision", "approved"} : t.last[f] = acc.last[f]
        BY <1>1, <2>3 DEF IsScan, NewState
    <3>2. /\ u.decision = i /\ u.approved = e.approved
          /\ \A f \in DOMAIN s \ {"decision", "approved"} : u[f] = s[f]
        BY <1>1 DEF IsRow, NewExecution
    <3> HIDE DEF u, t
    <3> QED
        BY <1>1, <3>1, <3>2 DEF Same, SameGate, IsRow, IsScan, NewExecution, NewState
  <2> QED
      BY <1>2, <1>3, <1>5, <2>1, <2>2, <2>3, <2>4, <2>5, <2>6, <2>7, SimTaken DEF Same
<1> QED
    BY <1>4, <1>5

(* A receipt closes the open call; without one a result changes nothing.   *)
LEMMA SimResult ==
    ASSUME NEW s, NEW acc, Sim(s, acc), acc.ok, NEW i \in Nat \ {0}, NEW e, Evidence(e), e.body,
           e.what = "Result"
    PROVE  Sim(Reduce(s, i, e), InspectRecord(acc, s.first, i, e))
<1> DEFINE u == [s EXCEPT !.receipt = TRUE]
           t == [acc EXCEPT !.last.receipt = i]
           bad == \/ acc.last.request = 0 \/ acc.last.decision = 0 \/ e.call # acc.last.call
                  \/ e.request # acc.last.request \/ e.decision # acc.last.decision
                  \/ ~ReceiptAgrees(e, acc.last.approved)
           stray == acc.calls[e.call] = TRUE \/ e.request # 0 \/ e.decision # 0
<1>1. /\ IsRow(s) /\ IsScan(acc) /\ Same(s, acc) /\ ~s.invalid /\ Unresolved(s) = Open(acc)
      /\ s.calls = acc.calls
    BY OpenSame DEF Same, SameCalls
<1>2. Invalidates(s, i, e) = IF Open(acc) THEN bad ELSE stray
    BY <1>1 DEF Invalidates, Same, SameGate
<1>3. InspectRecord(acc, s.first, i, e) =
          IF Open(acc) THEN IF ~bad THEN t ELSE [acc EXCEPT !.ok = FALSE]
          ELSE IF ~stray THEN acc ELSE [acc EXCEPT !.ok = FALSE]
    BY DEF InspectRecord, Open
<1>4. CASE Invalidates(s, i, e)
    BY <1>2, <1>3, <1>4, SimRefused
<1>5. CASE ~Invalidates(s, i, e) /\ ~Open(acc)
  <2>1. Advances(s, i, e) = s
      BY <1>1, <1>5 DEF Advances
  <2> QED
      BY <1>1, <1>2, <1>3, <1>5, <2>1, SimTaken
<1>6. CASE ~Invalidates(s, i, e) /\ Open(acc)
  <2>1. Advances(s, i, e) = u
      BY <1>1, <1>6 DEF Advances
  <2>2. IsRow(u) /\ ~u.invalid
      BY <1>1 DEF IsRow, NewExecution
  <2>3. IsScan(t) /\ t.ok /\ t.last = [acc.last EXCEPT !.receipt = i]
      BY <1>1 DEF IsScan, NewScan, NewState
  <2>4. SameStart(u, t) /\ SameInputs(u, t)
      BY <1>1 DEF Same, SameStart, SameInputs, IsRow, IsScan, NewExecution, NewScan
  <2>5. SameCalls(u, t)
      BY <1>1 DEF Same, SameCalls, IsRow, IsScan, NewExecution, NewScan
  <2>6. SameEnd(u, t)
      BY <1>1 DEF Same, SameEnd, IsRow, IsScan, NewExecution, NewScan
  <2>7. SameGate(u, t)
    <3>1. t.last.receipt = i /\ \A f \in DOMAIN acc.last \ {"receipt"} : t.last[f] = acc.last[f]
        BY <1>1, <2>3 DEF IsScan, NewState
    <3>2. u.receipt = TRUE /\ \A f \in DOMAIN s \ {"receipt"} : u[f] = s[f]
        BY <1>1 DEF IsRow, NewExecution
    <3>3. u.receipt = (t.last.receipt # 0)
        BY <3>1, <3>2
    <3>4. /\ u.call = s.call /\ u.callSeq = s.callSeq /\ u.request = s.request
          /\ u.decision = s.decision /\ u.approved = s.approved
        BY <1>1, <3>2 DEF IsRow, NewExecution
    <3>5. /\ t.last.call = acc.last.call /\ t.last.seq = acc.last.seq
          /\ t.last.request = acc.last.request /\ t.last.decision = acc.last.decision
          /\ t.last.approved = acc.last.approved
        BY <1>1, <3>1 DEF IsScan, NewState
    <3> HIDE DEF u, t
    <3> QED
        BY <1>1, <3>3, <3>4, <3>5 DEF Same, SameGate
  <2> QED
      BY <1>2, <1>3, <1>6, <2>1, <2>2, <2>3, <2>4, <2>5, <2>6, <2>7, SimTaken DEF Same
<1> QED
    BY <1>4, <1>5, <1>6

(* The end of a turn, an error, an output.                                 *)
LEMMA SimOther ==
    ASSUME NEW s, NEW acc, Sim(s, acc), acc.ok, NEW i \in Nat \ {0}, NEW e, Evidence(e), e.body,
           e.what \in {"End", "Error", "Output"}
    PROVE  Sim(Reduce(s, i, e), InspectRecord(acc, s.first, i, e))
<1> DEFINE u == [s EXCEPT !.completed = TRUE]
           t == [acc EXCEPT !.completed = TRUE]
<1>1. IsRow(s) /\ IsScan(acc) /\ Same(s, acc) /\ ~s.invalid /\ Unresolved(s) = Open(acc)
    BY OpenSame
<1>2. Invalidates(s, i, e) = (Open(acc) /\ e.what # "Error")
  <2>1. CASE e.what = "End"
    <3>1. Invalidates(s, i, e) = Unresolved(s)
        BY <2>1 DEF Invalidates
    <3> QED
        BY <1>1, <2>1, <3>1 DEF Open
  <2>2. CASE e.what = "Error"
      BY <1>1, <2>2 DEF Invalidates
  <2>3. CASE e.what = "Output"
    <3>1. Invalidates(s, i, e) = Unresolved(s)
        BY <2>3 DEF Invalidates
    <3> QED
        BY <1>1, <2>3, <3>1 DEF Open
  <2> QED
      BY <2>1, <2>2, <2>3
<1>3. InspectRecord(acc, s.first, i, e) =
          IF Open(acc) /\ e.what # "Error" THEN [acc EXCEPT !.ok = FALSE]
          ELSE IF e.what = "End" THEN t ELSE acc
    BY DEF InspectRecord, Open
<1>4. CASE Open(acc) /\ e.what # "Error"
    BY <1>2, <1>3, <1>4, SimRefused
<1>5. CASE ~(Open(acc) /\ e.what # "Error") /\ e.what # "End"
  <2>1. Advances(s, i, e) = s
      BY <1>5 DEF Advances
  <2> QED
      BY <1>1, <1>2, <1>3, <1>5, <2>1, SimTaken
<1>6. CASE ~(Open(acc) /\ e.what # "Error") /\ e.what = "End"
  <2>1. Advances(s, i, e) = u
      BY <1>6 DEF Advances
  <2>2. IsRow(u) /\ ~u.invalid
      BY <1>1 DEF IsRow, NewExecution
  <2>3. IsScan(t) /\ t.ok
      BY <1>1 DEF IsScan, NewScan
  <2>4. SameStart(u, t) /\ SameInputs(u, t)
      BY <1>1 DEF Same, SameStart, SameInputs, IsRow, IsScan, NewExecution, NewScan
  <2>5. SameCalls(u, t)
      BY <1>1 DEF Same, SameCalls, IsRow, IsScan, NewExecution, NewScan
  <2>6. SameEnd(u, t)
      BY <1>1 DEF SameEnd, IsRow, IsScan, NewExecution, NewScan
  <2>7. SameGate(u, t)
      BY <1>1 DEF Same, SameGate, IsRow, IsScan, NewExecution, NewScan
  <2> QED
      BY <1>2, <1>3, <1>6, <2>1, <2>2, <2>3, <2>4, <2>5, <2>6, <2>7, SimTaken DEF Same
<1> QED
    BY <1>4, <1>5, <1>6

(* Row and scan agree on what an event makes of an execution.              *)
LEMMA SimStep ==
    ASSUME NEW s, NEW acc, Sim(s, acc), NEW i \in Nat \ {0}, NEW e, Evidence(e)
    PROVE  Sim(Reduce(s, i, e), InspectRecord(acc, s.first, i, e))
<1>1. CASE ~acc.ok
  <2>1. InspectRecord(acc, s.first, i, e) = acc
      BY <1>1 DEF InspectRecord
  <2>2. Reduce(s, i, e) = s
      BY <1>1 DEF Reduce, Sim, IsRow
  <2> QED
      BY <2>1, <2>2
<1>2. CASE acc.ok /\ ~e.body
    BY <1>2, SimBare
<1>3. CASE acc.ok /\ e.body
  <2>1. e.what \in {"Start", "Input", "Output", "Call", "Request", "Decision", "Result", "End", "Error"}
      BY DEF Evidence, IsEvent
  <2> QED
      BY <1>3, <2>1, SimStart, SimInput, SimCall, SimRequest, SimDecision, SimResult, SimOther
<1> QED
    BY <1>1, <1>2, <1>3

-----------------------------------------------------------------------------
(* A row of the projection, event by event                                 *)

(* What an event leaves of an execution's row.                             *)
Keeps(s, u, i, e) ==
    /\ IsRow(u) /\ u.first = s.first /\ u.gated = s.gated
    /\ u.callSeq = s.callSeq \/ u.callSeq = i
    /\ u.request = s.request \/ u.request = 0 \/ (u.request = i /\ Gates(e))

(* A row takes its request from evidence and the place of its call from    *)
(* the log.                                                                *)
LEMMA ReduceKeeps ==
    ASSUME NEW s, IsRow(s), NEW i, NEW e, Evidence(e)
    PROVE  Keeps(s, Reduce(s, i, e), i, e)
<1>1. Keeps(s, s, i, e)
    BY DEF Keeps
<1>2. Keeps(s, [s EXCEPT !.invalid = TRUE, !.completed = @ \/ e.what = "End"], i, e)
    BY DEF Keeps, IsRow, NewExecution
<1>3. Keeps(s, Advances(s, i, e), i, e)
  <2>1. CASE e.what = "Start"
    <3>1. Advances(s, i, e) = [s EXCEPT !.start = TRUE, !.expected = e.count]
        BY <2>1 DEF Advances
    <3> QED
        BY <3>1 DEF Keeps, IsRow, NewExecution
  <2>2. CASE e.what = "Input"
    <3>1. Advances(s, i, e) = [s EXCEPT !.inputs = @ + 1, !.messages = IF e.body THEN @ + 1 ELSE @]
        BY <2>2 DEF Advances
    <3>2. s.inputs + 1 \in Nat /\ s.messages + 1 \in Nat
        BY DEF IsRow
    <3> QED
        BY <3>1, <3>2 DEF Keeps, IsRow, NewExecution
  <2>3. CASE e.what = "Call"
    <3>1. CASE e.gated
      <4>1. Advances(s, i, e) =
              [s EXCEPT !.calls[e.call] = TRUE, !.call = e.call, !.callSeq = i, !.request = 0,
                        !.decision = 0, !.receipt = FALSE, !.approved = FALSE]
          BY <2>3, <3>1 DEF Advances
      <4> QED
          BY <4>1 DEF Keeps, IsRow, NewExecution
    <3>2. CASE ~e.gated
      <4>1. Advances(s, i, e) = [s EXCEPT !.calls[e.call] = FALSE]
          BY <2>3, <3>2 DEF Advances
      <4> QED
          BY <4>1 DEF Keeps, IsRow, NewExecution
    <3> QED
        BY <3>1, <3>2
  <2>4. CASE e.what = "Request"
    <3>1. Advances(s, i, e) = [s EXCEPT !.request = i]
        BY <2>4 DEF Advances
    <3> QED
        BY <2>4, <3>1 DEF Keeps, IsRow, NewExecution, Gates
  <2>5. CASE e.what = "Decision"
    <3>1. Advances(s, i, e) = [s EXCEPT !.decision = i, !.approved = e.approved]
        BY <2>5 DEF Advances
    <3> QED
        BY <3>1 DEF Keeps, IsRow, NewExecution
  <2>6. CASE e.what = "Result"
    <3>1. Advances(s, i, e) = [s EXCEPT !.receipt = TRUE] \/ Advances(s, i, e) = s
        BY <2>6 DEF Advances
    <3> QED
        BY <1>1, <3>1 DEF Keeps, IsRow, NewExecution
  <2>7. CASE e.what \in {"End", "Error", "Output"}
    <3>1. Advances(s, i, e) = [s EXCEPT !.completed = TRUE] \/ Advances(s, i, e) = s
        BY <2>7 DEF Advances
    <3> QED
        BY <1>1, <3>1 DEF Keeps, IsRow, NewExecution
  <2> QED
      BY <2>1, <2>2, <2>3, <2>4, <2>5, <2>6, <2>7 DEF Evidence, IsEvent
<1> QED
    BY <1>1, <1>2, <1>3 DEF Reduce

(* Whether there is evidence, and where the first record is, is nothing    *)
(* that the scan asks of a row.                                            *)
LEMMA SimGated ==
    ASSUME NEW s, NEW acc, Sim(s, acc), NEW g \in BOOLEAN
    PROVE  Sim([s EXCEPT !.gated = g], acc)
<1> DEFINE u == [s EXCEPT !.gated = g]
<1>1. IsRow(u) /\ u.invalid = s.invalid
    BY DEF Sim, IsRow, NewExecution
<1>2. ASSUME acc.ok PROVE Same(u, acc)
  <2>1. Same(s, acc) /\ IsRow(s)
      BY <1>2 DEF Sim
  <2>2. SameStart(u, acc) /\ SameInputs(u, acc) /\ SameCalls(u, acc) /\ SameEnd(u, acc)
      BY <2>1 DEF Same, SameStart, SameInputs, SameCalls, SameEnd, IsRow, NewExecution
  <2>3. SameGate(u, acc)
      BY <2>1 DEF Same, SameGate, IsRow, NewExecution
  <2> QED
      BY <2>2, <2>3 DEF Same
<1> QED
    BY <1>1, <1>2 DEF Sim

(* Nor where the first record will be.                                     *)
LEMMA SimFirst ==
    ASSUME NEW acc, Sim(NewExecution(0), acc), NEW i
    PROVE  Sim(NewExecution(i), acc)
<1>1. IsRow(NewExecution(i)) /\ NewExecution(i).invalid = NewExecution(0).invalid
    BY DEF IsRow, NewExecution
<1>2. ASSUME acc.ok PROVE Same(NewExecution(i), acc)
    BY <1>2 DEF Sim, Same, SameStart, SameInputs, SameCalls, SameEnd, SameGate, NewExecution
<1> QED
    BY <1>1, <1>2 DEF Sim

(* The row of an execution before its first event.                         *)
LEMMA NewIsRow ==
    ASSUME NEW i
    PROVE  /\ IsRow(NewExecution(i)) /\ NewExecution(i).first = i
           /\ NewExecution(i).gated = FALSE /\ NewExecution(i).callSeq = 0
           /\ NewExecution(i).request = 0
BY DEF IsRow, NewExecution

-----------------------------------------------------------------------------
(* What a row says of the first n records of a log                         *)

Upto(recs, x, n) == {i \in RecordsOf(recs, x) : i <= n}

(* The row is the scan's; evidence, gated call and request are in the log. *)
Told(s, recs, x, n) ==
    /\ IsRow(s)
    /\ IF Upto(recs, x, n) = {} THEN s = NewExecution(0)
       ELSE s.first = FirstAt(recs, x) /\ s.first \in Upto(recs, x, n)
    /\ s.gated = \E i \in Upto(recs, x, n) : Gates(recs[i])
    /\ s.callSeq = 0 \/ s.callSeq \in Upto(recs, x, n)
    /\ s.request = 0 \/ (s.request \in Upto(recs, x, n) /\ s.gated)
    /\ IF x # NoID THEN Sim(s, Scan(recs, x)[n]) ELSE ~Scan(recs, x)[n].ok

(* The records and the scan with one more record of the log.               *)
LEMMA UptoNext ==
    ASSUME NEW recs, IsLog(recs), NEW x, NEW n \in Nat, n < Len(recs)
    PROVE  /\ n + 1 \in RecordsOf(recs, x) => Upto(recs, x, n + 1) = Upto(recs, x, n) \union {n + 1}
           /\ n + 1 \notin RecordsOf(recs, x) => Upto(recs, x, n + 1) = Upto(recs, x, n)
           /\ n + 1 \notin Upto(recs, x, n)
           /\ Scan(recs, x)[n + 1] = ScanNext(recs, x, Scan(recs, x)[n], n + 1)
<1>1. RecordsOf(recs, x) \in SUBSET Nat
    BY DEF RecordsOf, IsLog
<1>2. n + 1 \in 1 .. Len(recs) /\ (n + 1) - 1 = n
    BY DEF IsLog
<1>3. Scan(recs, x)[n + 1] = ScanNext(recs, x, Scan(recs, x)[n], n + 1)
    BY <1>2, ScanIs
<1> QED
    BY <1>1, <1>3 DEF Upto

(* Before the first record there is nothing to tell.                       *)
LEMMA ToldInit ==
    ASSUME NEW recs, IsLog(recs), NEW x
    PROVE  Told(NewExecution(0), recs, x, 0)
<1>1. Upto(recs, x, 0) = {}
    BY DEF Upto, RecordsOf, IsLog
<1>2. /\ IsRow(NewExecution(0)) /\ NewExecution(0).gated = FALSE /\ NewExecution(0).callSeq = 0
      /\ NewExecution(0).request = 0
    BY NewIsRow
<1>3. x # NoID => Sim(NewExecution(0), Scan(recs, x)[0])
    BY SimInit, ScanIs
<1>4. x = NoID => ~Scan(recs, x)[0].ok
  <2>1. Scan(recs, x)[0] = NewScan(x)
      BY ScanIs
  <2>2. x = NoID => NewScan(x).ok = FALSE
      BY DEF NewScan
  <2> QED
      BY <2>1, <2>2
<1> QED
    BY <1>1, <1>2, <1>3, <1>4 DEF Told

(* A record that is not of an execution says nothing of it.                *)
LEMMA ToldStill ==
    ASSUME NEW recs, IsLog(recs), NEW x, NEW n \in Nat, n < Len(recs),
           n + 1 \notin RecordsOf(recs, x), NEW s, Told(s, recs, x, n)
    PROVE  Told(s, recs, x, n + 1)
<1>1. /\ Upto(recs, x, n + 1) = Upto(recs, x, n)
      /\ Scan(recs, x)[n + 1] = Scan(recs, x)[n]
    BY UptoNext DEF ScanNext
<1> QED
    BY <1>1 DEF Told

(* What projectApproval makes of an execution's row.                       *)
RowFor(s, i) == IF s.first # 0 THEN s ELSE NewExecution(i)

NextRow(s, i, e) ==
    Reduce([RowFor(s, i) EXCEPT !.gated = @ \/ Gates(e)], i, e)

(* A record of the execution is told by what projectApproval makes of it.  *)
LEMMA ToldNext ==
    ASSUME NEW recs, IsLog(recs), NEW x, NEW n \in Nat, n < Len(recs),
           n + 1 \in RecordsOf(recs, x), IsEvent(recs[n + 1]), NEW s, Told(s, recs, x, n)
    PROVE  Told(NextRow(s, n + 1, recs[n + 1]), recs, x, n + 1)
<1> DEFINE i == n + 1
           e == recs[i]
           U == Upto(recs, x, n)
           old == RowFor(s, i)
           base == [old EXCEPT !.gated = @ \/ Gates(e)]
           new == Reduce(base, i, e)
<1>1. /\ Upto(recs, x, i) = U \union {i} /\ i \notin U
      /\ Scan(recs, x)[i] = InspectRecord(Scan(recs, x)[n], FirstAt(recs, x), i, e)
      /\ U \in SUBSET Nat /\ i \in Nat \ {0}
  <2>1. RecordsOf(recs, x) \in SUBSET Nat
      BY DEF RecordsOf, IsLog
  <2> QED
      BY <2>1, UptoNext DEF ScanNext, Upto
<1>2. Evidence(e)
    BY DEF Evidence, RecordsOf
<1>3. /\ FirstAt(recs, x) \in RecordsOf(recs, x) /\ FirstAt(recs, x) \in Nat
      /\ \A j \in RecordsOf(recs, x) : FirstAt(recs, x) <= j
    BY FirstIs
<1>4. /\ IsRow(old) /\ old.first = FirstAt(recs, x) /\ old.first \in Upto(recs, x, i)
      /\ old.gated = s.gated /\ old.callSeq = s.callSeq /\ old.request = s.request
      /\ x # NoID => Sim(old, Scan(recs, x)[n])
  <2>1. CASE U = {}
    <3>1. s = NewExecution(0) /\ s.first = 0 /\ s.gated = FALSE /\ s.callSeq = 0 /\ s.request = 0
        BY <2>1 DEF Told, NewExecution
    <3>2. old = NewExecution(i)
        BY <3>1 DEF RowFor
    <3>3. IsRow(old) /\ old.first = i /\ old.gated = FALSE /\ old.callSeq = 0 /\ old.request = 0
        BY <3>2, NewIsRow
    <3>4. FirstAt(recs, x) = i
      <4>1. FirstAt(recs, x) <= i
          BY <1>3
      <4>2. FirstAt(recs, x) \notin U
          BY <2>1
      <4> QED
          BY <1>1, <1>3, <4>1, <4>2 DEF Upto
    <3>5. x # NoID => Sim(old, Scan(recs, x)[n])
        BY <3>1, <3>2, SimFirst DEF Told
    <3> QED
        BY <1>1, <3>1, <3>3, <3>4, <3>5
  <2>2. CASE U # {}
    <3>1. s.first = FirstAt(recs, x) /\ s.first \in U
        BY <2>2 DEF Told
    <3>2. s.first # 0
        BY <3>1 DEF Upto, RecordsOf, IsLog
    <3>3. old = s
        BY <3>2 DEF RowFor
    <3> QED
        BY <1>1, <3>1, <3>3 DEF Told
  <2> QED
      BY <2>1, <2>2
<1>5. /\ IsRow(base) /\ base.first = old.first /\ base.callSeq = old.callSeq
      /\ base.request = old.request /\ base.gated = (old.gated \/ Gates(e))
    BY <1>4 DEF IsRow, NewExecution
<1>6. Keeps(base, new, i, e)
    BY <1>2, <1>5, ReduceKeeps
<1>7. new.gated = \E j \in Upto(recs, x, i) : Gates(recs[j])
  <2>1. old.gated = \E j \in U : Gates(recs[j])
      BY <1>4 DEF Told
  <2>2. new.gated = (old.gated \/ Gates(e))
      BY <1>5, <1>6 DEF Keeps
  <2>3. (\E j \in Upto(recs, x, i) : Gates(recs[j])) = ((\E j \in U : Gates(recs[j])) \/ Gates(recs[i]))
      BY <1>1
  <2> QED
      BY <2>1, <2>2, <2>3
<1>8. x # NoID => Sim(new, Scan(recs, x)[i])
  <2> SUFFICES ASSUME x # NoID PROVE Sim(new, Scan(recs, x)[i])
      OBVIOUS
  <2>1. (old.gated \/ Gates(e)) \in BOOLEAN
      BY <1>4 DEF IsRow
  <2>2. Sim(base, Scan(recs, x)[n])
      BY <1>4, <2>1, SimGated
  <2>3. Sim(new, InspectRecord(Scan(recs, x)[n], base.first, i, e))
      BY <1>1, <1>2, <2>2, SimStep
  <2> QED
      BY <1>1, <1>4, <1>5, <2>3
<1>9. new.callSeq = 0 \/ new.callSeq \in Upto(recs, x, i)
    BY <1>1, <1>4, <1>5, <1>6 DEF Keeps, Told
<1>10. new.request = 0 \/ (new.request \in Upto(recs, x, i) /\ new.gated)
  <2>1. new.request = s.request \/ new.request = 0 \/ (new.request = i /\ Gates(e))
      BY <1>4, <1>5, <1>6 DEF Keeps
  <2>2. s.request = 0 \/ (s.request \in U /\ s.gated)
      BY DEF Told
  <2>3. new.gated = (s.gated \/ Gates(e))
      BY <1>4, <1>5, <1>6 DEF Keeps
  <2> QED
      BY <1>1, <2>1, <2>2, <2>3
<1>11. IsRow(new) /\ new.first = FirstAt(recs, x) /\ new.first \in Upto(recs, x, i)
    BY <1>4, <1>5, <1>6 DEF Keeps
<1>12. x = NoID => ~Scan(recs, x)[i].ok
    BY <1>1 DEF Told, InspectRecord
<1>13. Told(new, recs, x, i)
  <2> HIDE DEF new, i
  <2> QED
      BY <1>7, <1>8, <1>9, <1>10, <1>11, <1>12 DEF Told
<1> QED
    BY <1>13 DEF NextRow

-----------------------------------------------------------------------------
(* What the projection says of the first n records of a log                *)

ForksUpto(recs, n) == {i \in 1 .. n : recs[i].what = "Fork" /\ recs[i].body}

ForkTold(fork, recs, n) ==
    IF ForksUpto(recs, n) = {} THEN fork = 0
    ELSE fork \in ForksUpto(recs, n) /\ \A j \in ForksUpto(recs, n) : j <= fork

LatestTold(r) ==
    \A x \in Execs : Found(r, x) => Found(r, r.latest) /\ r.exec[x].first <= r.exec[r.latest].first

InvalidOf(exec) == {x \in Execs : InvalidApproval(exec[x], x)}

Shape(r) == DOMAIN r = DOMAIN NewProjection /\ DOMAIN r.exec = Execs

(* The cursor is at n without a gap, every row is told, and the columns    *)
(* that sum them up are right.                                             *)
Describes(r, recs, n) ==
    /\ Shape(r) /\ r.last = n /\ r.corrupt = FALSE
    /\ \A i \in 1 .. n : IsEvent(recs[i])
    /\ ForkTold(r.fork, recs, n)
    /\ \A x \in Execs : Told(r.exec[x], recs, x, n)
    /\ r.latest \in Execs /\ LatestTold(r)
    /\ r.invalid = Cardinality(InvalidOf(r.exec))

(* The empty projection describes nothing.                                 *)
LEMMA DescribesInit ==
    ASSUME NEW recs, IsLog(recs)
    PROVE  Describes(NewProjection, recs, 0)
<1> DEFINE r == NewProjection
<1>1. /\ Shape(r) /\ r.last = 0 /\ r.corrupt = FALSE /\ r.fork = 0 /\ r.invalid = 0 /\ r.latest = NoID
      /\ \A x \in Execs : r.exec[x] = NewExecution(0)
    BY DEF Shape, NewProjection
<1>2. \A x \in Execs : r.exec[x].first = 0 /\ r.exec[x].gated = FALSE
    BY <1>1, NewIsRow
<1>3. InvalidOf(r.exec) = {}
    BY <1>2 DEF InvalidOf, InvalidApproval
<1>4. \A x \in Execs : Told(r.exec[x], recs, x, 0)
    BY <1>1, ToldInit
<1>5. NoID \in Execs
    BY ReportAssumption
<1>6. ForkTold(0, recs, 0)
    BY DEF ForkTold, ForksUpto
<1>7. LatestTold(r)
  <2> HIDE DEF r
  <2> QED
      BY <1>2 DEF LatestTold, Found
<1>8. Cardinality({}) = 0
    BY FS_EmptySet
<1>9. \A i \in 1 .. 0 : IsEvent(recs[i])
    OBVIOUS
<1> HIDE DEF r
<1>10. Describes(r, recs, 0)
    BY <1>1, <1>3, <1>4, <1>5, <1>6, <1>7, <1>8, <1>9 DEF Describes
<1> QED
    BY <1>10 DEF r

(* The first record of an execution, and whether there is one.             *)
LEMMA ToldFound ==
    ASSUME NEW recs, IsLog(recs), NEW x, NEW n \in Nat, NEW s, Told(s, recs, x, n)
    PROVE  /\ s.first \in 0 .. n
           /\ s.first # 0 <=> Upto(recs, x, n) # {}
           /\ s.first # 0 => s.first = FirstAt(recs, x)
<1>1. CASE Upto(recs, x, n) = {}
  <2>1. s.first = 0
      BY <1>1, NewIsRow DEF Told
  <2> QED
      BY <1>1, <2>1
<1>2. CASE Upto(recs, x, n) # {}
  <2>1. s.first \in Upto(recs, x, n) /\ s.first = FirstAt(recs, x)
      BY <1>2 DEF Told
  <2>2. s.first \in Nat \ {0} /\ s.first <= n
      BY <2>1 DEF Upto, RecordsOf, IsLog
  <2> QED
      BY <1>2, <2>1, <2>2
<1> QED
    BY <1>1, <1>2

(* The last fork with one more record.                                     *)
LEMMA ForkNext ==
    ASSUME NEW recs, NEW n \in Nat, NEW fork, ForkTold(fork, recs, n)
    PROVE  IF recs[n + 1].what = "Fork" /\ recs[n + 1].body
           THEN ForkTold(n + 1, recs, n + 1) ELSE ForkTold(fork, recs, n + 1)
<1>1. CASE recs[n + 1].what = "Fork" /\ recs[n + 1].body
  <2>1. n + 1 \in ForksUpto(recs, n + 1) /\ \A j \in ForksUpto(recs, n + 1) : j <= n + 1
      BY <1>1 DEF ForksUpto
  <2> QED
      BY <1>1, <2>1 DEF ForkTold
<1>2. CASE ~(recs[n + 1].what = "Fork" /\ recs[n + 1].body)
  <2>1. ForksUpto(recs, n + 1) = ForksUpto(recs, n)
      BY <1>2 DEF ForksUpto
  <2> QED
      BY <1>2, <2>1 DEF ForkTold
<1> QED
    BY <1>1, <1>2

(* A fork, a suspension or a deletion leaves the executions alone.         *)
LEMMA DescribesLifecycle ==
    ASSUME NEW recs, IsLog(recs), NEW n \in Nat, n < Len(recs), NEW r, Describes(r, recs, n),
           IsEvent(recs[n + 1]), recs[n + 1].what \in Lifecycles
    PROVE  Describes(ProjectApproval(r, n + 1, recs[n + 1]), recs, n + 1)
<1> DEFINE i == n + 1
           e == recs[n + 1]
           moved == MoveCursor(r, i)
           q == ProjectApproval(r, i, e)
<1>1. Shape(r) /\ r.last = n /\ r.corrupt = FALSE
    BY DEF Describes
<1>2. /\ Shape(moved) /\ moved.last = i /\ moved.corrupt = FALSE /\ moved.fork = r.fork
      /\ moved.latest = r.latest /\ moved.invalid = r.invalid /\ moved.exec = r.exec
  <2>1. i - 1 = n
      OBVIOUS
  <2> QED
      BY <1>1, <2>1 DEF MoveCursor, Shape, NewProjection
<1>3. q = IF e.what = "Fork" /\ e.body THEN [moved EXCEPT !.fork = i] ELSE moved
    BY DEF ProjectApproval
<1>4. /\ Shape(q) /\ q.last = i /\ q.corrupt = FALSE
      /\ q.fork = (IF e.what = "Fork" /\ e.body THEN i ELSE r.fork)
      /\ q.latest = r.latest /\ q.invalid = r.invalid /\ q.exec = r.exec
  <2> HIDE DEF q, moved, i, e
  <2> QED
      BY <1>2, <1>3 DEF Shape, NewProjection
<1>5. ForkTold(q.fork, recs, i)
  <2>1. ForkTold(r.fork, recs, n)
      BY DEF Describes
  <2> HIDE DEF q
  <2> QED
      BY <1>4, <2>1, ForkNext
<1>6. \A x \in Execs : Told(q.exec[x], recs, x, i)
  <2> TAKE x \in Execs
  <2>1. i \notin RecordsOf(recs, x)
      BY DEF RecordsOf
  <2>2. Told(r.exec[x], recs, x, n)
      BY DEF Describes
  <2>3. Told(r.exec[x], recs, x, i)
      BY <2>1, <2>2, ToldStill
  <2> HIDE DEF q
  <2> QED
      BY <1>4, <2>3
<1>7. \A j \in 1 .. i : IsEvent(recs[j])
  <2>1. \A j \in 1 .. i : j \in 1 .. n \/ j = i
      OBVIOUS
  <2> QED
      BY <2>1 DEF Describes
<1>8. q.latest \in Execs /\ LatestTold(q) /\ q.invalid = Cardinality(InvalidOf(q.exec))
  <2>1. r.latest \in Execs /\ LatestTold(r) /\ r.invalid = Cardinality(InvalidOf(r.exec))
      BY DEF Describes
  <2> HIDE DEF q
  <2> QED
      BY <1>4, <2>1 DEF LatestTold, Found
<1>9. Describes(q, recs, i)
  <2> HIDE DEF q, i, e
  <2> QED
      BY <1>4, <1>5, <1>6, <1>7, <1>8 DEF Describes
<1> QED
    BY <1>9

(* Counting the invalid executions, when one row changes.                  *)
LEMMA InvalidNext ==
    ASSUME NEW exec, DOMAIN exec = Execs, NEW x \in Execs, NEW new,
           NEW old, InvalidApproval(old, x) = InvalidApproval(exec[x], x),
           NEW count, count = Cardinality(InvalidOf(exec))
    PROVE  count + (IF InvalidApproval(new, x) THEN 1 ELSE 0) - (IF InvalidApproval(old, x) THEN 1 ELSE 0)
              = Cardinality(InvalidOf([exec EXCEPT ![x] = new]))
<1> DEFINE S == InvalidOf(exec)
           T == InvalidOf([exec EXCEPT ![x] = new])
<1>1. IsFiniteSet(S) /\ Cardinality(S) \in Nat
  <2>1. S \in SUBSET Execs
      BY DEF InvalidOf
  <2>2. IsFiniteSet(Execs)
      BY ReportAssumption
  <2> HIDE DEF S
  <2> QED
      BY <2>1, <2>2, FS_Subset, FS_CardinalityType
<1>2. count = Cardinality(S)
    OBVIOUS
<1>3. /\ T \ {x} = S \ {x}
      /\ x \in S <=> InvalidApproval(old, x)
      /\ x \in T <=> InvalidApproval(new, x)
    BY DEF InvalidOf
<1>4. /\ IsFiniteSet(S \ {x})
      /\ Cardinality(S \ {x}) = IF x \in S THEN Cardinality(S) - 1 ELSE Cardinality(S)
  <2> HIDE DEF S, T
  <2> QED
      BY <1>1, FS_RemoveElement
<1> DEFINE before == IF InvalidApproval(old, x) THEN 1 ELSE 0
           after == IF InvalidApproval(new, x) THEN 1 ELSE 0
<1>5. before \in 0 .. 1 /\ Cardinality(S \ {x}) = Cardinality(S) - before
  <2> HIDE DEF S, T
  <2>1. CASE InvalidApproval(old, x)
      BY <1>1, <1>3, <1>4, <2>1
  <2>2. CASE ~InvalidApproval(old, x)
      BY <1>1, <1>3, <1>4, <2>2
  <2> QED
      BY <2>1, <2>2
<1>6. after \in 0 .. 1 /\ Cardinality(T) = Cardinality(S \ {x}) + after
  <2> HIDE DEF S, T
  <2>1. CASE InvalidApproval(new, x)
    <3>1. T = (S \ {x}) \union {x} /\ x \notin S \ {x} /\ after = 1
        BY <1>3, <2>1
    <3>2. Cardinality((S \ {x}) \union {x}) = Cardinality(S \ {x}) + 1
        BY <1>4, <3>1, FS_AddElement
    <3> QED
        BY <3>1, <3>2
  <2>2. CASE ~InvalidApproval(new, x)
    <3>1. T = S \ {x} /\ after = 0
        BY <1>3, <2>2
    <3>2. Cardinality(S \ {x}) \in Nat
        BY <1>4, FS_CardinalityType
    <3> QED
        BY <3>1, <3>2
  <2> QED
      BY <2>1, <2>2
<1>7. count + after - before = Cardinality(T)
  <2> HIDE DEF S, T, before, after
  <2> QED
      BY <1>1, <1>2, <1>5, <1>6
<1> QED
    BY <1>7

(* Any other event changes the row of its execution, and that alone.       *)
LEMMA DescribesEvidence ==
    ASSUME NEW recs, IsLog(recs), NEW n \in Nat, n < Len(recs), NEW r, Describes(r, recs, n),
           IsEvent(recs[n + 1]), recs[n + 1].what \notin Lifecycles
    PROVE  Describes(ProjectApproval(r, n + 1, recs[n + 1]), recs, n + 1)
<1> DEFINE i == n + 1
           e == recs[n + 1]
           x0 == e.x
           s == r.exec[x0]
           old == RowFor(s, i)
           new == NextRow(s, i, e)
           moved == MoveCursor(r, i)
           q == ProjectApproval(r, i, e)
           latest == IF Found(r, x0) THEN r.latest ELSE x0
           count(t) == IF InvalidApproval(t, x0) THEN 1 ELSE 0
           exec == [r.exec EXCEPT ![x0] = new]
<1>1. Shape(r) /\ r.last = n /\ r.corrupt = FALSE /\ x0 \in Execs /\ i \in Nat \ {0} /\ i - 1 = n
    BY DEF Describes, IsEvent
<1>2. /\ Shape(moved) /\ moved.last = i /\ moved.corrupt = FALSE /\ moved.fork = r.fork
      /\ moved.latest = r.latest /\ moved.invalid = r.invalid /\ moved.exec = r.exec
    BY <1>1 DEF MoveCursor, Shape, NewProjection
<1>3. q = [moved EXCEPT !.latest = IF Found(r, x0) THEN @ ELSE x0,
                        !.invalid = @ + count(new) - count(old), !.exec[x0] = new]
    BY DEF ProjectApproval, NextRow, RowFor, Found
<1>4. /\ Shape(q) /\ q.last = i /\ q.corrupt = FALSE /\ q.fork = r.fork
      /\ q.latest = latest
      /\ q.invalid = r.invalid + count(new) - count(old)
      /\ q.exec = exec
  <2>1. DOMAIN exec = Execs
      BY <1>1 DEF Shape
  <2>2. latest = IF Found(r, x0) THEN moved.latest ELSE x0
      BY <1>2
  <2>3. exec = [moved.exec EXCEPT ![x0] = new]
      BY <1>2
  <2> HIDE DEF q, moved, i, e, new, old, exec, latest, x0, count
  <2> QED
      BY <1>1, <1>2, <1>3, <2>1, <2>2, <2>3 DEF Shape, NewProjection
<1>5. ForkTold(q.fork, recs, i)
  <2>1. ForkTold(r.fork, recs, n) /\ e.what # "Fork"
      BY DEF Describes, Lifecycles
  <2> HIDE DEF q
  <2> QED
      BY <1>4, <2>1, ForkNext
<1>6. i \in RecordsOf(recs, x0) /\ \A x : x # x0 => i \notin RecordsOf(recs, x)
    BY DEF RecordsOf, IsLog
<1>7. \A x \in Execs : Told(r.exec[x], recs, x, n)
    BY DEF Describes
<1>8. \A x \in Execs : Told(exec[x], recs, x, i)
  <2> TAKE x \in Execs
  <2>1. CASE x = x0
    <3>1. exec[x] = new
        BY <1>1, <2>1 DEF Shape
    <3>2. Told(new, recs, x0, i)
        BY <1>1, <1>6, <1>7, ToldNext
    <3> QED
        BY <2>1, <3>1, <3>2
  <2>2. CASE x # x0
    <3>1. exec[x] = r.exec[x]
        BY <1>1, <2>2 DEF Shape
    <3>2. Told(r.exec[x], recs, x, i)
        BY <1>6, <1>7, <2>2, ToldStill
    <3> QED
        BY <3>1, <3>2
  <2> QED
      BY <2>1, <2>2
<1>9. \A j \in 1 .. i : IsEvent(recs[j])
  <2>1. \A j \in 1 .. i : j \in 1 .. n \/ j = i
      OBVIOUS
  <2> QED
      BY <2>1 DEF Describes
<1>10. r.latest \in Execs /\ LatestTold(r)
    BY DEF Describes
<1>11. \A x \in Execs : r.exec[x].first \in 0 .. n
    BY <1>7, ToldFound
<1>12. new.first \in 1 .. i /\ (s.first # 0 => new.first = s.first) /\ (s.first = 0 => new.first = i)
  <2>1. Told(new, recs, x0, i) /\ exec[x0] = new
      BY <1>1, <1>8 DEF Shape
  <2>2. /\ new.first \in 0 .. i /\ (new.first # 0 <=> Upto(recs, x0, i) # {})
        /\ new.first # 0 => new.first = FirstAt(recs, x0)
    <3>1. i \in Nat /\ Told(new, recs, x0, i)
        BY <1>1, <2>1
    <3> HIDE DEF i, new, exec, x0, e
    <3> QED
        BY <3>1, ToldFound
  <2>3. Upto(recs, x0, i) = Upto(recs, x0, n) \union {i} /\ i \notin Upto(recs, x0, n)
      BY <1>6, UptoNext
  <2>4. new.first # 0 /\ new.first = FirstAt(recs, x0)
      BY <2>2, <2>3
  <2>5. (s.first # 0 <=> Upto(recs, x0, n) # {}) /\ (s.first # 0 => s.first = FirstAt(recs, x0))
    <3>1. Told(s, recs, x0, n)
        BY <1>1, <1>7
    <3> HIDE DEF s, x0
    <3> QED
        BY <3>1, ToldFound
  <2>6. ASSUME s.first = 0 PROVE new.first = i
    <3>1. Upto(recs, x0, n) = {}
        BY <2>5, <2>6
    <3>2. new.first \in Upto(recs, x0, i)
        BY <2>1, <2>3 DEF Told
    <3> QED
        BY <2>3, <3>1, <3>2
  <2> QED
      BY <2>2, <2>4, <2>5, <2>6
<1>13. latest \in Execs /\ LatestTold(q)
  <2>1. latest \in Execs
      BY <1>1, <1>10
  <2>2. \A x \in Execs : exec[x] = IF x = x0 THEN new ELSE r.exec[x]
      BY <1>1 DEF Shape
  <2>3. CASE s.first = 0
    <3>1. latest = x0
        BY <2>3 DEF Found
    <3>2. exec[latest].first = i
        BY <1>1, <1>12, <2>2, <2>3, <3>1
    <3>3. \A x \in Execs : exec[x].first <= i
        BY <1>1, <1>11, <1>12, <2>2
    <3>4. i # 0 /\ q.latest = latest /\ q.exec = exec
        BY <1>1, <1>4
    <3> HIDE DEF q, exec, latest, new, i, e, x0
    <3> QED
        BY <2>1, <3>2, <3>3, <3>4 DEF LatestTold, Found
  <2>4. CASE s.first # 0
    <3>1. latest = r.latest
        BY <2>4 DEF Found
    <3>2. \A x \in Execs : exec[x].first = r.exec[x].first
        BY <1>12, <2>2, <2>4
    <3> HIDE DEF q, exec, latest, new, i
    <3> QED
        BY <1>4, <1>10, <3>1, <3>2 DEF LatestTold, Found
  <2> QED
      BY <2>3, <2>4
<1>14. q.invalid = Cardinality(InvalidOf(q.exec))
  <2>1. InvalidApproval(old, x0) = InvalidApproval(s, x0)
    <3>1. CASE s.first # 0
        BY <3>1 DEF RowFor
    <3>2. CASE s.first = 0
      <4>1. Told(s, recs, x0, n)
          BY <1>1, <1>7
      <4>2. s = NewExecution(0)
          BY <3>2, <4>1, ToldFound DEF Told
      <4>3. s.gated = FALSE /\ old.gated = FALSE
          BY <3>2, <4>2, NewIsRow DEF RowFor
      <4> QED
          BY <4>3 DEF InvalidApproval
    <3> QED
        BY <3>1, <3>2
  <2>2. r.invalid = Cardinality(InvalidOf(r.exec)) /\ DOMAIN r.exec = Execs
      BY <1>1 DEF Describes, Shape
  <2> HIDE DEF new, old, q, x0
  <2> QED
      BY <1>1, <1>4, <2>1, <2>2, InvalidNext
<1>15. Describes(q, recs, i)
  <2> HIDE DEF q, i, e, exec, latest, x0
  <2> QED
      BY <1>4, <1>5, <1>8, <1>9, <1>13, <1>14 DEF Describes
<1> QED
    BY <1>15

(* projectApproval describes one record more.                              *)
LEMMA DescribesNext ==
    ASSUME NEW recs, IsLog(recs), NEW n \in Nat, n < Len(recs), NEW r, Describes(r, recs, n),
           IsEvent(recs[n + 1])
    PROVE  Describes(ProjectApproval(r, n + 1, recs[n + 1]), recs, n + 1)
BY DescribesLifecycle, DescribesEvidence

(* The same records at the front of another log are described alike.       *)
LEMMA DescribesAlike ==
    ASSUME NEW recs, NEW more, IsLog(recs), IsLog(more), NEW n \in Nat,
           n <= Len(recs), n <= Len(more), Alike(recs, more, n), NEW r, Describes(r, recs, n)
    PROVE  Describes(r, more, n)
<1>1. \A i \in 1 .. n : recs[i] = more[i]
    BY DEF Alike
<1>2. ForksUpto(more, n) = ForksUpto(recs, n)
    BY <1>1 DEF ForksUpto
<1>3. \A x \in Execs : Told(r.exec[x], more, x, n)
  <2> TAKE x \in Execs
  <2>1. Told(r.exec[x], recs, x, n)
      BY DEF Describes
  <2>2. \A i : i \in Upto(recs, x, n) => i \in 1 .. n
      BY DEF Upto, RecordsOf, IsLog
  <2>3. \A i : i \in Upto(more, x, n) => i \in 1 .. n
      BY DEF Upto, RecordsOf, IsLog
  <2>4. \A i \in 1 .. n : i \in Upto(recs, x, n) <=> i \in Upto(more, x, n)
      BY RecordsAgree DEF Upto
  <2>5. Upto(recs, x, n) = Upto(more, x, n)
      BY <2>2, <2>3, <2>4
  <2>6. \A i \in Upto(recs, x, n) : FirstAt(recs, x) = FirstAt(more, x) /\ recs[i] = more[i]
      BY <1>1, <2>2, RecordsAgree DEF Upto
  <2>7. Scan(recs, x)[n] = Scan(more, x)[n]
      BY ScansAgree
  <2> QED
      BY <2>1, <2>5, <2>6, <2>7 DEF Told
<1> QED
    BY <1>1, <1>2, <1>3 DEF Describes, ForkTold

-----------------------------------------------------------------------------
(* The migration's reduction of a whole log                                *)

BackfillNext(events, r, n) ==
    IF r.corrupt THEN r
    ELSE IF events[n] = Undecodable THEN [r EXCEPT !.corrupt = TRUE, !.last = Len(events)]
    ELSE ProjectApproval(r, n, events[n])

BackfillSteps(g, events, N) ==
    g = [n \in 0 .. N |-> IF n = 0 THEN NewProjection ELSE BackfillNext(events, g[n - 1], n)]

(* The recursive function of Backfill exists, as that of Scan does.        *)
LEMMA BackfillExists ==
    ASSUME NEW events, NEW N \in Nat
    PROVE  \E g : BackfillSteps(g, events, N)
<1> DEFINE B == {n \in Nat : ~ \E g : BackfillSteps(g, events, n)}
<1>1. ASSUME B # {} PROVE FALSE
  <2>1. PICK n \in B : \A m \in B : n <= m
    <3>1. B \in SUBSET Nat
        OBVIOUS
    <3> HIDE DEF B
    <3> QED
        BY <1>1, <3>1, LeastOf
  <2>2. n \in Nat /\ ~ \E g : BackfillSteps(g, events, n)
      BY <2>1
  <2>3. CASE n = 0
    <3> DEFINE g == [k \in 0 .. 0 |-> NewProjection]
    <3>1. BackfillSteps(g, events, 0)
      <4>1. \A k \in 0 .. 0 : k = 0
          OBVIOUS
      <4> QED
          BY <4>1 DEF BackfillSteps
    <3> QED
        BY <2>2, <2>3, <3>1
  <2>4. CASE n # 0
    <3>1. n - 1 \in Nat /\ n - 1 \notin B
        BY <2>1, <2>2, <2>4
    <3>2. PICK g : BackfillSteps(g, events, n - 1)
        BY <3>1
    <3>3. \A k \in 0 .. n - 1 : g[k] = IF k = 0 THEN NewProjection ELSE BackfillNext(events, g[k - 1], k)
        BY <3>2 DEF BackfillSteps
    <3> DEFINE h == [k \in 0 .. n |-> IF k = n THEN BackfillNext(events, g[n - 1], n) ELSE g[k]]
    <3>4. \A k \in 0 .. n : h[k] = IF k = 0 THEN NewProjection ELSE BackfillNext(events, h[k - 1], k)
      <4> SUFFICES ASSUME NEW k \in 0 .. n
                   PROVE  h[k] = IF k = 0 THEN NewProjection ELSE BackfillNext(events, h[k - 1], k)
          OBVIOUS
      <4>1. CASE k = n
        <5>1. h[n] = BackfillNext(events, g[n - 1], n) /\ h[n - 1] = g[n - 1]
            BY <2>2, <2>4
        <5> QED
            BY <2>4, <4>1, <5>1
      <4>2. CASE k # n
        <5>1. k \in 0 .. n - 1 /\ h[k] = g[k] /\ (k # 0 => h[k - 1] = g[k - 1])
            BY <2>2, <4>2
        <5> QED
            BY <3>3, <5>1
      <4> QED
          BY <4>1, <4>2
    <3>5. h = [k \in 0 .. n |-> h[k]]
        OBVIOUS
    <3>6. BackfillSteps(h, events, n)
      <4> HIDE DEF h
      <4> QED
          BY <3>4, <3>5 DEF BackfillSteps
    <3> QED
        BY <2>2, <3>6
  <2> QED
      BY <2>3, <2>4
<1> QED
    BY <1>1

(* So the reduction goes record by record.                                 *)
LEMMA BackfillIs ==
    ASSUME NEW events, IsLog(events)
    PROVE  \E g : /\ g[0] = NewProjection
                  /\ \A n \in 1 .. Len(events) : g[n] = BackfillNext(events, g[n - 1], n)
                  /\ Backfill(events) = g[Len(events)]
<1> DEFINE N == Len(events)
           F == CHOOSE g : g = [n \in 0 .. N |-> IF n = 0 THEN NewProjection
                    ELSE LET r == g[n - 1] IN
                         IF r.corrupt THEN r
                         ELSE IF events[n] = Undecodable
                         THEN [r EXCEPT !.corrupt = TRUE, !.last = Len(events)]
                         ELSE ProjectApproval(r, n, events[n])]
<1>1. N \in Nat
    BY DEF IsLog
<1>2. BackfillSteps(F, events, N)
  <2>1. \E g : BackfillSteps(g, events, N)
      BY <1>1, BackfillExists
  <2>2. F = CHOOSE g : BackfillSteps(g, events, N)
      BY DEF BackfillSteps, BackfillNext
  <2> HIDE DEF F
  <2> QED
      BY <2>1, <2>2
<1>3. Backfill(events) = F[N]
    BY DEF Backfill
<1>4. \A n \in 0 .. N : F[n] = IF n = 0 THEN NewProjection ELSE BackfillNext(events, F[n - 1], n)
    <2> HIDE DEF F
    <2> QED BY <1>2 DEF BackfillSteps
<1>5. F[0] = NewProjection /\ \A n \in 1 .. N : F[n] = BackfillNext(events, F[n - 1], n)
  <2> HIDE DEF F
  <2> QED
      BY <1>1, <1>4
<1> HIDE DEF F
<1> QED
    BY <1>3, <1>5

IsRecord(e) == IsEvent(e) \/ e = Undecodable

(* A damaged record is not read as an event.                               *)
LEMMA NeitherBoth ==
    ~IsEvent(Undecodable)
<1>1. Undecodable.what = "Undecodable"
    BY DEF Undecodable, Of
<1> QED
    BY <1>1 DEF IsEvent, Lifecycles

(* A session that cannot be reported again.                                *)
Spoilt(r, recs) == Shape(r) /\ r.corrupt = TRUE /\ r.last = Len(recs)

(* The migration leaves what appends to a database with a projection would *)
(* have, or a session that cannot be reported if a record is damaged.      *)
LEMMA BackfillDescribes ==
    ASSUME NEW events, IsLog(events), \A i \in 1 .. Len(events) : IsRecord(events[i])
    PROVE  IF Damaged(events) THEN Spoilt(Backfill(events), events)
           ELSE Describes(Backfill(events), events, Len(events))
<1>1. PICK g : /\ g[0] = NewProjection
               /\ \A n \in 1 .. Len(events) : g[n] = BackfillNext(events, g[n - 1], n)
               /\ Backfill(events) = g[Len(events)]
    BY BackfillIs
<1> DEFINE N == Len(events)
           Hit(n) == \E i \in 1 .. n : events[i] = Undecodable
           Good(n) == IF Hit(n) THEN Spoilt(g[n], events) ELSE Describes(g[n], events, n)
           D == {n \in 0 .. N : ~Good(n)}
<1>2. N \in Nat
    BY DEF IsLog
<1>3. ASSUME D # {} PROVE FALSE
  <2>1. PICK n \in D : \A m \in D : n <= m
    <3>1. D \in SUBSET Nat
        BY <1>2
    <3> HIDE DEF D
    <3> QED
        BY <1>3, <3>1, LeastOf
  <2>2. n \in 0 .. N /\ ~Good(n)
      BY <2>1
  <2>3. CASE n = 0
    <3>1. ~Hit(0) /\ Describes(g[0], events, 0)
        BY <1>1, DescribesInit
    <3> QED
        BY <2>2, <2>3, <3>1
  <2>4. CASE n # 0
    <3> DEFINE k == n - 1
    <3>1. k \in Nat /\ k < N /\ k + 1 = n /\ n \in 1 .. N /\ k \in 0 .. N /\ ~(n <= k)
        BY <1>2, <2>2, <2>4
    <3>2. Good(k)
        BY <2>1, <3>1
    <3>3. g[n] = BackfillNext(events, g[k], n) /\ IsRecord(events[n])
        BY <1>1, <3>1
    <3>4. Hit(n) <=> Hit(k) \/ events[n] = Undecodable
        BY <3>1
    <3> HIDE DEF k
    <3>5. CASE Hit(k)
      <4>1. Spoilt(g[k], events)
          BY <3>2, <3>5
      <4>2. g[n] = g[k]
          BY <3>3, <4>1 DEF BackfillNext, Spoilt
      <4> QED
          BY <2>2, <3>4, <3>5, <4>1, <4>2
    <3>6. CASE ~Hit(k)
      <4>1. Describes(g[k], events, k)
          BY <3>2, <3>6
      <4>2. Shape(g[k]) /\ g[k].corrupt = FALSE
          BY <4>1 DEF Describes
      <4>3. CASE events[n] = Undecodable
        <5>1. g[n] = [g[k] EXCEPT !.corrupt = TRUE, !.last = Len(events)]
            BY <3>3, <4>2, <4>3 DEF BackfillNext
        <5>2. Spoilt(g[n], events)
            BY <4>2, <5>1 DEF Spoilt, Shape, NewProjection
        <5> QED
            BY <2>2, <3>4, <4>3, <5>2
      <4>4. CASE events[n] # Undecodable
        <5>1. g[n] = ProjectApproval(g[k], n, events[n]) /\ IsEvent(events[n])
            BY <3>3, <4>2, <4>4 DEF BackfillNext, IsRecord
        <5>2. Describes(ProjectApproval(g[k], k + 1, events[k + 1]), events, k + 1)
            BY <3>1, <4>1, <5>1, DescribesNext
        <5> QED
            BY <2>2, <3>1, <3>4, <3>6, <4>4, <5>1, <5>2
      <4> QED
          BY <4>3, <4>4
    <3> QED
        BY <3>5, <3>6
  <2> QED
      BY <2>3, <2>4
<1>4. Good(N)
    BY <1>2, <1>3
<1>5. Damaged(events) <=> Hit(N)
    BY DEF Damaged, IsLog
<1> QED
    BY <1>1, <1>4, <1>5

-----------------------------------------------------------------------------
(* A row that describes the whole log reports what the log shows           *)

(* All of a log's records are its first Len(recs).                         *)
LEMMA UptoAll ==
    ASSUME NEW recs, IsLog(recs), NEW x
    PROVE  Upto(recs, x, Len(recs)) = RecordsOf(recs, x) /\ RecordsOf(recs, x) \in SUBSET (1 .. Len(recs))
BY DEF Upto, RecordsOf, IsLog

(* An execution counted as invalid is one whose evidence is.               *)
LEMMA InvalidIs ==
    ASSUME NEW recs, IsLog(recs), NEW x \in Execs, NEW s, Told(s, recs, x, Len(recs))
    PROVE  /\ s.first # 0 <=> x \in Recorded(recs)
           /\ s.first # 0 => s.first = FirstAt(recs, x)
           /\ s.gated = Bearing(recs, x)
           /\ InvalidApproval(s, x) <=> Bearing(recs, x) /\ ~ValidEvidence(recs, x)
<1> DEFINE acc == Scan(recs, x)[Len(recs)]
<1>1. Upto(recs, x, Len(recs)) = RecordsOf(recs, x)
    BY UptoAll
<1>2. (s.first # 0 <=> x \in Recorded(recs)) /\ (s.first # 0 => s.first = FirstAt(recs, x))
  <2>1. Len(recs) \in Nat
      BY DEF IsLog
  <2> QED
      BY <1>1, <2>1, ToldFound DEF Recorded
<1>3. s.gated = Bearing(recs, x)
    BY <1>1 DEF Told, Bearing
<1>4. ValidEvidence(recs, x) = (acc.ok /\ InputsComplete(acc))
    BY DEF ValidEvidence, InspectExecution
<1>5. (s.invalid \/ x = NoID \/ ~InputsComplete(s)) <=> ~(acc.ok /\ InputsComplete(acc))
  <2>1. CASE x = NoID
      BY <2>1 DEF Told
  <2>2. CASE x # NoID /\ acc.ok
    <3>1. Same(s, acc) /\ ~s.invalid
        BY <2>2 DEF Told, Sim, IsRow
    <3>2. InputsComplete(s) <=> InputsComplete(acc)
        BY <3>1 DEF InputsComplete, Same, SameStart, SameInputs
    <3> QED
        BY <2>2, <3>1, <3>2
  <2>3. CASE x # NoID /\ ~acc.ok
      BY <2>3 DEF Told, Sim, IsRow
  <2> QED
      BY <2>1, <2>2, <2>3
<1> QED
    BY <1>2, <1>3, <1>4, <1>5 DEF InvalidApproval

(* The execution started last is the one whose first record is the latest. *)
LEMMA LatestIs ==
    ASSUME NEW recs, IsLog(recs), NEW r, Describes(r, recs, Len(recs)), Recorded(recs) # {}
    PROVE  Found(r, r.latest) /\ Latest(recs) = r.latest
<1> DEFINE l == r.latest
<1>1. \A x \in Execs : /\ r.exec[x].first # 0 <=> x \in Recorded(recs)
                       /\ r.exec[x].first # 0 => r.exec[x].first = FirstAt(recs, x)
    BY InvalidIs DEF Describes
<1>2. l \in Execs /\ LatestTold(r) /\ Recorded(recs) \subseteq Execs
    BY DEF Describes, Recorded
<1>3. Found(r, l) /\ l \in Recorded(recs) /\ \A y \in Recorded(recs) : FirstAt(recs, y) <= FirstAt(recs, l)
    BY <1>1, <1>2 DEF LatestTold, Found
<1>4. ASSUME NEW x \in Recorded(recs), \A y \in Recorded(recs) : FirstAt(recs, y) <= FirstAt(recs, x)
      PROVE  x = l
  <2>1. /\ FirstAt(recs, x) \in RecordsOf(recs, x) /\ FirstAt(recs, x) \in Nat
        /\ FirstAt(recs, l) \in RecordsOf(recs, l) /\ FirstAt(recs, l) \in Nat
      BY <1>3, FirstIs DEF Recorded
  <2>2. FirstAt(recs, x) = FirstAt(recs, l)
    <3>1. FirstAt(recs, x) <= FirstAt(recs, l) /\ FirstAt(recs, l) <= FirstAt(recs, x)
        BY <1>3, <1>4
    <3> QED
        BY <2>1, <3>1
  <2>3. recs[FirstAt(recs, x)].x = x /\ recs[FirstAt(recs, l)].x = l
      BY <2>1 DEF RecordsOf
  <2> QED
      BY <2>2, <2>3
<1>5. Latest(recs) = l
  <2>1. \E x \in Recorded(recs) : \A y \in Recorded(recs) : FirstAt(recs, y) <= FirstAt(recs, x)
      BY <1>3
  <2>2. /\ Latest(recs) \in Recorded(recs)
        /\ \A y \in Recorded(recs) : FirstAt(recs, y) <= FirstAt(recs, Latest(recs))
      BY <2>1 DEF Latest
  <2> QED
      BY <1>4, <2>2
<1> QED
    BY <1>3, <1>5

(* The row's last fork is the log's.                                       *)
LEMMA ForkIs ==
    ASSUME NEW recs, IsLog(recs), NEW fork, ForkTold(fork, recs, Len(recs))
    PROVE  /\ ForkAt(recs) = fork /\ fork \in 0 .. Len(recs)
           /\ fork # 0 => recs[fork].what \in Lifecycles
<1> DEFINE F == {i \in DOMAIN recs : recs[i].what = "Fork" /\ recs[i].body}
<1>1. ForksUpto(recs, Len(recs)) = F
    BY DEF ForksUpto, IsLog
<1>2. F \in SUBSET (1 .. Len(recs)) /\ Len(recs) \in Nat /\ \A i \in F : recs[i].what \in Lifecycles
    BY DEF IsLog, Lifecycles
<1>3. ForkAt(recs) = IF F = {} THEN 0 ELSE CHOOSE i \in F : \A j \in F : j <= i
    BY DEF ForkAt
<1>4. IF F = {} THEN fork = 0 ELSE fork \in F /\ \A j \in F : j <= fork
  <2> HIDE DEF F
  <2> QED
      BY <1>1 DEF ForkTold
<1>5. CASE F = {}
    BY <1>2, <1>3, <1>4, <1>5
<1>6. CASE F # {}
  <2> DEFINE c == CHOOSE i \in F : \A j \in F : j <= i
  <2>1. c \in F /\ \A j \in F : j <= c
    <3>1. \E i \in F : \A j \in F : j <= i
        BY <1>4, <1>6
    <3> HIDE DEF F
    <3> QED
        BY <3>1
  <2>2. c <= fork /\ fork <= c /\ c \in Nat /\ fork \in Nat
    <3>1. fork \in F /\ \A j \in F : j <= fork
        BY <1>4, <1>6
    <3>2. F \in SUBSET Nat
        BY <1>2
    <3> HIDE DEF F, c
    <3> QED
        BY <2>1, <3>1, <3>2
  <2>3. c = fork
    <3> HIDE DEF c
    <3> QED
        BY <2>2
  <2>4. ForkAt(recs) = fork
      BY <1>3, <1>6, <2>3
  <2>5. fork \in F
      BY <1>4, <1>6
  <2> HIDE DEF F
  <2> QED
      BY <1>2, <2>4, <2>5
<1> QED
    BY <1>5, <1>6

(* The query of the listing finds what InspectApproval finds in the log: an*)
(* invalid execution withholds both; the latest execution, its open request*)
(* and whether it was inherited through a fork are the same.               *)
LEMMA ReportIs ==
    ASSUME IsLog(log), Describes(row, log, Len(log))
    PROVE  PendingApproval = InspectApproval(log)
<1> DEFINE n == Len(log)
           l == row.latest
           a == row.exec[l]
           s == InspectExecution(log, Latest(log))
<1>1. /\ row.last = n /\ row.corrupt = FALSE /\ l \in Execs /\ n \in Nat
      /\ \A x \in Execs : Told(row.exec[x], log, x, n)
      /\ row.invalid = Cardinality(InvalidOf(row.exec))
    BY DEF Describes, IsLog
<1>2. ~Damaged(log)
    BY NeitherBoth DEF Damaged, Describes, IsLog
<1>3. (\E x \in Recorded(log) : Bearing(log, x) /\ ~ValidEvidence(log, x)) <=> row.invalid # 0
  <2>1. IsFiniteSet(InvalidOf(row.exec))
    <3>1. InvalidOf(row.exec) \in SUBSET Execs /\ IsFiniteSet(Execs)
        BY ReportAssumption DEF InvalidOf
    <3> QED
        BY <3>1, FS_Subset
  <2>2. row.invalid = 0 <=> InvalidOf(row.exec) = {}
      BY <1>1, <2>1, FS_EmptySet
  <2>3. \A x \in Execs : /\ Bearing(log, x) => x \in Recorded(log)
                         /\ InvalidApproval(row.exec[x], x) <=> Bearing(log, x) /\ ~ValidEvidence(log, x)
    <3>1. \A x \in Execs : Bearing(log, x) => x \in Recorded(log)
        BY DEF Bearing, Recorded
    <3> QED
        BY <1>1, <3>1, InvalidIs
  <2>4. Recorded(log) \subseteq Execs
      BY DEF Recorded
  <2> QED
      BY <2>2, <2>3, <2>4 DEF InvalidOf
<1>4. CASE row.invalid # 0
  <2>1. PendingApproval = 0
      BY <1>4 DEF PendingApproval
  <2>2. InspectApproval(log) = 0
      BY <1>3, <1>4 DEF InspectApproval
  <2> QED
      BY <2>1, <2>2
<1>5. CASE Recorded(log) = {}
  <2>1. ~Found(row, l)
      BY <1>1, <1>5, InvalidIs DEF Found
  <2>2. PendingApproval = 0
      BY <2>1 DEF PendingApproval
  <2>3. InspectApproval(log) = 0
      BY <1>5 DEF InspectApproval
  <2> QED
      BY <2>2, <2>3
<1>6. CASE row.invalid = 0 /\ Recorded(log) # {}
  <2>1. Found(row, l) /\ Latest(log) = l
      BY <1>6, LatestIs
  <2>2. InspectApproval(log) =
          IF /\ Bearing(log, l) /\ s.last.seq # 0 /\ ~(s.last.seq < ForkAt(log)) /\ ~s.completed
             /\ s.last.receipt = 0 /\ s.last.decision = 0
          THEN s.last.request ELSE 0
      BY <1>2, <1>3, <1>6, <2>1 DEF InspectApproval
  <2>3. Told(a, log, l, n) /\ a.gated = Bearing(log, l)
      BY <1>1, InvalidIs
  <2>4. a.request = 0 \/ (a.request \in Nat \ {0} /\ a.gated)
    <3>1. Upto(log, l, n) \subseteq Nat \ {0}
        BY UptoAll DEF IsLog
    <3> QED
        BY <2>3, <3>1 DEF Told
  <2>5. CASE ~a.gated
    <3>1. PendingApproval = 0
        BY <2>4, <2>5 DEF PendingApproval
    <3> QED
        BY <2>2, <2>3, <2>5, <3>1
  <2>6. CASE a.gated
    <3>1. ~InvalidApproval(a, l)
      <4>1. Bearing(log, l) /\ l \in Recorded(log)
          BY <1>1, <2>1, <2>3, <2>6, InvalidIs DEF Found
      <4>2. ValidEvidence(log, l)
          BY <1>3, <1>6, <4>1
      <4> QED
          BY <1>1, <2>3, <4>2, InvalidIs
    <3>2. ~a.invalid /\ l # NoID /\ InputsComplete(a)
        BY <2>6, <3>1 DEF InvalidApproval
    <3>3. s = Scan(log, l)[n] /\ Sim(a, s)
        BY <2>1, <2>3, <3>2 DEF InspectExecution, Told
    <3>4. SameEnd(a, s) /\ SameGate(a, s) /\ IsRow(a)
        BY <3>2, <3>3 DEF Sim, Same
    <3>5. PendingApproval =
            IF /\ a.callSeq > row.fork /\ ~a.completed /\ ~a.receipt
               /\ a.request > 0 /\ a.decision = 0
            THEN a.request ELSE 0
        BY <1>1, <1>6, <2>1, <3>2 DEF PendingApproval
    <3>6. /\ ForkAt(log) = row.fork /\ row.fork \in 0 .. n
          /\ row.fork # 0 => log[row.fork].what \in Lifecycles
        BY ForkIs DEF Describes
    <3>7. a.callSeq = 0 \/ (a.callSeq \in 1 .. n /\ log[a.callSeq].what \notin Lifecycles)
      <4>1. a.callSeq = 0 \/ a.callSeq \in RecordsOf(log, l)
          BY <2>3, UptoAll DEF Told
      <4> QED
          BY <4>1 DEF RecordsOf, IsLog
    <3>8. a.callSeq > row.fork <=> a.callSeq # 0 /\ ~(a.callSeq < row.fork)
      <4>1. a.callSeq # 0 => a.callSeq # row.fork
          BY <3>6, <3>7
      <4> QED
          BY <3>6, <3>7, <4>1
    <3>9. /\ s.last.seq = a.callSeq /\ s.completed = a.completed /\ (s.last.receipt = 0 <=> ~a.receipt)
          /\ s.last.decision = a.decision /\ s.last.request = a.request
        BY <3>4 DEF SameEnd, SameGate, IsRow
    <3> HIDE DEF a, s, l
    <3> QED
        BY <2>2, <2>3, <2>4, <2>6, <3>5, <3>6, <3>8, <3>9
  <2> QED
      BY <2>5, <2>6
<1> QED
    BY <1>4, <1>5, <1>6

-----------------------------------------------------------------------------
(* The inductive invariant                                                 *)

Elements(s) == {s[k] : k \in DOMAIN s}

LogInv ==
    /\ log \in Seq(Elements(log))
    /\ \A i \in 1 .. Len(log) : IsRecord(log[i])

OpenInv ==
    /\ version \in Nat
    /\ DOMAIN proc = Procs
    /\ skipped \in BOOLEAN
    /\ \A p \in Procs : proc[p] = "open" => Build[p] <= version

(* The row describes the whole log, or says that it cannot be reported, or *)
(* lags behind an older build's append.                                    *)
RowInv ==
    IF Projecting
    THEN \/ Describes(row, log, Len(log))
         \/ Shape(row) /\ row.corrupt = TRUE /\ (skipped \/ Damaged(log))
         \/ Shape(row) /\ row.corrupt \in BOOLEAN /\ row.last \in Nat /\ row.last < Len(log) /\ skipped
    ELSE row = NewProjection /\ ~skipped

ReportInv == LogInv /\ OpenInv /\ RowInv

(* The log is a sequence.                                                  *)
LEMMA LogIs ==
    ASSUME LogInv
    PROVE  IsLog(log)
<1> DEFINE S == Elements(log)
<1>1. log \in Seq(S)
    BY DEF LogInv
<1> HIDE DEF S
<1> QED
    BY <1>1 DEF IsLog

(* A log after one more record.                                            *)
LEMMA LogNext ==
    ASSUME LogInv, NEW e, IsRecord(e), log' = Append(log, e)
    PROVE  /\ LogInv' /\ IsLog(log') /\ Len(log') = Len(log) + 1
           /\ Alike(log, log', Len(log)) /\ log'[Len(log) + 1] = e
           /\ Damaged(log) => Damaged(log')
<1> DEFINE S == Elements(log)
           T == S \union {e}
           U == Elements(log')
<1>1. log \in Seq(S) /\ \A i \in 1 .. Len(log) : IsRecord(log[i])
    BY DEF LogInv
<1>2. log \in Seq(T) /\ Len(log) \in Nat /\ DOMAIN log = 1 .. Len(log) /\ e \in T
  <2>1. S \subseteq T /\ e \in T
      OBVIOUS
  <2> HIDE DEF S, T
  <2> QED
      BY <1>1, <2>1
<1>3. /\ log' \in Seq(T) /\ Len(log') = Len(log) + 1 /\ DOMAIN log' = 1 .. Len(log) + 1
      /\ \A k \in 1 .. Len(log) : log'[k] = log[k]
      /\ log'[Len(log) + 1] = e
  <2> HIDE DEF T
  <2> QED
      BY <1>2
<1>4. log' \in Seq(U)
  <2>1. \A k \in 1 .. Len(log') : log'[k] \in U
      BY <1>3 DEF Elements
  <2> HIDE DEF U, T
  <2> QED
      BY <1>3, <2>1, IsASeq
<1>5. \A i \in 1 .. Len(log') : IsRecord(log'[i])
  <2>1. \A i \in 1 .. Len(log') : i \in 1 .. Len(log) \/ i = Len(log) + 1
      BY <1>2, <1>3
  <2> HIDE DEF T
  <2> QED
      BY <1>1, <1>3, <2>1
<1>6. Damaged(log) => Damaged(log')
  <2> HIDE DEF T
  <2> QED
      BY <1>2, <1>3 DEF Damaged
<1>7. LogInv'
    BY <1>4, <1>5 DEF LogInv
<1> HIDE DEF T
<1> QED
    BY <1>2, <1>3, <1>6, <1>7 DEF IsLog, Alike

(* The invariant holds of an empty file and of an older database.          *)
LEMMA InitReport ==
    ASSUME Init
    PROVE  ReportInv
<1>1. LogInv
  <2>1. CASE log = <<>>
      BY <2>1 DEF LogInv, Elements
  <2>2. CASE \E h \in Histories : \E n \in 0 .. Len(h) : log = SubSeq(h, 1, n)
    <3>1. PICK h \in Histories : \E n \in 0 .. Len(h) : log = SubSeq(h, 1, n)
        BY <2>2
    <3>2. PICK n \in 0 .. Len(h) : log = SubSeq(h, 1, n)
        BY <3>1
    <3> DEFINE S == {h[i] : i \in DOMAIN h}
               U == Elements(log)
    <3>3. h \in Seq(S) /\ \A i \in DOMAIN h : IsRecord(h[i])
        BY ReportAssumption DEF IsRecord
    <3>4. /\ log \in Seq(S) /\ Len(log) = n /\ DOMAIN log = 1 .. n /\ n \in Nat
          /\ \A i \in 1 .. n : log[i] = h[i] /\ i \in DOMAIN h
      <4>1. Len(h) \in Nat /\ DOMAIN h = 1 .. Len(h)
        <5> HIDE DEF S
        <5> QED
            BY <3>3
      <4> HIDE DEF S
      <4> QED
          BY <3>2, <3>3, <4>1, SubSeqProperties
    <3>5. log \in Seq(U)
      <4>1. \A k \in 1 .. Len(log) : log[k] \in U
          BY <3>4 DEF Elements
      <4> HIDE DEF U, S
      <4> QED
          BY <3>4, <4>1, IsASeq
    <3> HIDE DEF S
    <3> QED
        BY <3>3, <3>4, <3>5 DEF LogInv
  <2> QED
      BY <2>1, <2>2 DEF Init
<1>2. version < 3 /\ version \in Nat
    BY DEF Init
<1>3. OpenInv
  <2>1. DOMAIN proc = Procs /\ \A p \in Procs : proc[p] = "open" => Build[p] = version
      BY DEF Init
  <2>2. skipped \in BOOLEAN
      BY DEF Init
  <2> QED
      BY <1>2, <2>1, <2>2 DEF OpenInv
<1>4. RowInv
    BY <1>2 DEF RowInv, Projecting, Init
<1> QED
    BY <1>1, <1>3, <1>4 DEF ReportInv

(* An event stored is one, with or without its body.                       *)
LEMMA StoredIsEvent ==
    ASSUME NEW given \in Events
    PROVE  IsEvent(EventFromProto(given))
<1>1. IsEvent(given.e)
    BY ReportAssumption
<1>2. IsEvent(Bare(given.e))
    BY <1>1 DEF IsEvent, Bare
<1> QED
    BY <1>1, <1>2 DEF EventFromProto

(* A gap in the cursor marks the projection, whatever the event is.        *)
LEMMA ProjectShape ==
    ASSUME NEW r, Shape(r), NEW seq, NEW e
    PROVE  /\ Shape(ProjectApproval(r, seq, e))
           /\ ProjectApproval(r, seq, e).corrupt = (r.corrupt \/ r.last # seq - 1)
<1> DEFINE moved == MoveCursor(r, seq)
           old == IF Found(r, e.x) THEN r.exec[e.x] ELSE NewExecution(seq)
           new == Reduce([old EXCEPT !.gated = @ \/ Gates(e)], seq, e)
           count(s) == IF InvalidApproval(s, e.x) THEN 1 ELSE 0
           q == ProjectApproval(r, seq, e)
<1>1. Shape(moved) /\ moved.corrupt = (r.corrupt \/ r.last # seq - 1)
    BY DEF MoveCursor, Shape, NewProjection
<1>2. \/ q = [moved EXCEPT !.fork = seq]
      \/ q = moved
      \/ q = [moved EXCEPT !.latest = IF Found(r, e.x) THEN @ ELSE e.x,
                           !.invalid = @ + count(new) - count(old),
                           !.exec[e.x] = new]
    BY DEF ProjectApproval
<1> HIDE DEF moved, new, old, count, q
<1>3. Shape(q) /\ q.corrupt = moved.corrupt
    BY <1>1, <1>2 DEF Shape, NewProjection
<1> QED
    BY <1>1, <1>3 DEF q

(* What a projecting append keeps, of a log with or without a gap.         *)
LEMMA ProjectKeeps ==
    ASSUME ReportInv, Projecting, NEW e, IsEvent(e), log' = Append(log, e),
           row' = ProjectApproval(row, Len(log) + 1, e), skipped' = skipped, Projecting'
    PROVE  LogInv' /\ RowInv'
<1> DEFINE n == Len(log)
           q == ProjectApproval(row, n + 1, e)
<1>1. /\ LogInv' /\ IsLog(log') /\ Len(log') = n + 1 /\ Alike(log, log', n) /\ log'[n + 1] = e
      /\ Damaged(log) => Damaged(log')
    BY LogNext DEF ReportInv, IsRecord
<1>2. IsLog(log) /\ n \in Nat
    BY LogIs DEF ReportInv, IsLog
<1>3. n < Len(log') /\ n <= Len(log') /\ n <= Len(log) /\ IsEvent(log'[n + 1])
    BY <1>1, <1>2
<1>4. CASE Describes(row, log, n)
  <2>1. Describes(row, log', n)
      BY <1>1, <1>2, <1>3, <1>4, DescribesAlike
  <2>2. Describes(ProjectApproval(row, n + 1, log'[n + 1]), log', n + 1)
      BY <1>1, <1>2, <1>3, <2>1, DescribesNext
  <2>3. Describes(row', log', Len(log'))
      BY <1>1, <2>2
  <2> QED
      BY <1>1, <2>3 DEF RowInv
<1>5. CASE Shape(row) /\ row.corrupt = TRUE /\ (skipped \/ Damaged(log))
  <2>1. Shape(q) /\ q.corrupt = (row.corrupt \/ row.last # (n + 1) - 1)
      BY <1>5, ProjectShape
  <2>2. Shape(row') /\ row'.corrupt = TRUE
      BY <1>5, <2>1
  <2> QED
      BY <1>1, <1>5, <2>2 DEF RowInv
<1>6. CASE /\ Shape(row) /\ row.corrupt \in BOOLEAN /\ row.last \in Nat /\ row.last < n /\ skipped
  <2>1. Shape(q) /\ q.corrupt = (row.corrupt \/ row.last # (n + 1) - 1)
      BY <1>6, ProjectShape
  <2>2. row.last # (n + 1) - 1
      BY <1>2, <1>6
  <2>3. Shape(row') /\ row'.corrupt = TRUE
      BY <2>1, <2>2
  <2> QED
      BY <1>1, <1>6, <2>3 DEF RowInv
<1> QED
    BY <1>4, <1>5, <1>6 DEF ReportInv, RowInv

(* Opening a database changes none of it.                                  *)
LEMMA KeepsCheckVersion ==
    ASSUME ReportInv, NEW p \in Procs, CheckVersion(p)
    PROVE  ReportInv'
<1>1. UNCHANGED <<version, log, row, skipped>>
    BY DEF CheckVersion
<1>2. LogInv' /\ RowInv'
    BY <1>1 DEF ReportInv, LogInv, RowInv, Projecting
<1>3. OpenInv'
    BY DEF CheckVersion, ReportInv, OpenInv
<1> QED
    BY <1>2, <1>3 DEF ReportInv

(* Nor does closing it.                                                    *)
LEMMA KeepsClose ==
    ASSUME ReportInv, NEW p \in Procs, Close(p)
    PROVE  ReportInv'
<1>1. UNCHANGED <<version, log, row, skipped>>
    BY DEF Close
<1>2. LogInv' /\ RowInv'
    BY <1>1 DEF ReportInv, LogInv, RowInv, Projecting
<1>3. OpenInv'
    BY DEF Close, ReportInv, OpenInv
<1> QED
    BY <1>2, <1>3 DEF ReportInv

(* The rung to version 3 reduces the log it finds, which no one appended to*)
(* with a projection before.                                               *)
LEMMA KeepsMigrate ==
    ASSUME ReportInv, NEW p \in Procs, Migrate(p)
    PROVE  ReportInv'
<1>1. UNCHANGED <<log, skipped>> /\ LogInv'
    BY DEF Migrate, ReportInv, LogInv
<1>2. Build[p] \in Nat /\ version \in Nat
    BY ReportAssumption DEF ReportInv, OpenInv, SchemaVersion
<1>3. OpenInv'
  <2>1. version' \in Nat /\ version <= version' /\ DOMAIN proc' = Procs
      BY <1>2 DEF Migrate, ReportInv, OpenInv
  <2>2. \A o \in Procs : proc'[o] = "open" => Build[o] <= version'
    <3> TAKE o \in Procs
    <3>1. Build[o] \in Nat
        BY ReportAssumption DEF SchemaVersion
    <3>2. CASE o = p
        BY <1>2, <3>2 DEF Migrate, ReportInv, OpenInv
    <3>3. CASE o # p
        BY <1>2, <2>1, <3>1, <3>3 DEF Migrate, ReportInv, OpenInv
    <3> QED
        BY <3>2, <3>3
  <2>3. skipped' \in BOOLEAN
      BY <1>1 DEF ReportInv, OpenInv
  <2> QED
      BY <2>1, <2>2, <2>3 DEF OpenInv
<1>4. RowInv'
  <2>1. CASE version < 3 /\ version' >= 3
    <3>1. row' = Backfill(log) /\ ~skipped /\ Projecting'
        BY <1>2, <2>1 DEF Migrate, ReportInv, RowInv, Projecting
    <3>2. IsLog(log) /\ \A i \in 1 .. Len(log) : IsRecord(log[i])
        BY LogIs DEF ReportInv, LogInv
    <3>3. CASE Damaged(log)
      <4>1. Spoilt(Backfill(log), log)
          BY <3>2, <3>3, BackfillDescribes
      <4> QED
          BY <1>1, <3>1, <3>3, <4>1 DEF RowInv, Spoilt
    <3>4. CASE ~Damaged(log)
      <4>1. Describes(Backfill(log), log, Len(log))
          BY <3>2, <3>4, BackfillDescribes
      <4> QED
          BY <1>1, <3>1, <4>1 DEF RowInv
    <3> QED
        BY <3>3, <3>4
  <2>2. CASE ~(version < 3 /\ version' >= 3)
    <3>1. row' = row /\ Projecting' = Projecting
        BY <1>2, <2>2 DEF Migrate, Projecting
    <3> QED
        BY <1>1, <3>1 DEF ReportInv, RowInv
  <2> QED
      BY <2>1, <2>2
<1> QED
    BY <1>1, <1>3, <1>4 DEF ReportInv

(* A build that projects describes the record it appends or marks the gap  *)
(* it finds; one that does not leaves a gap.                               *)
LEMMA KeepsAppendEvent ==
    ASSUME ReportInv, NEW p \in Procs, AppendEvent(p)
    PROVE  ReportInv'
<1>1. PICK given \in Events : /\ log' = Append(log, EventFromProto(given))
                              /\ row' = Projected(p, EventFromProto(given))
    BY DEF AppendEvent
<1> DEFINE e == EventFromProto(given)
<1>2. IsEvent(e)
    BY StoredIsEvent
<1>3. OpenInv' /\ version' = version /\ proc[p] = "open" /\ Build[p] <= version
    BY DEF AppendEvent, ReportInv, OpenInv
<1>4. Build[p] \in Nat /\ version \in Nat
    BY ReportAssumption DEF ReportInv, OpenInv, SchemaVersion
<1>5. skipped' = (skipped \/ (Projecting /\ Build[p] < 3))
    BY DEF AppendEvent
<1> HIDE DEF e
<1>6. LogInv' /\ IsLog(log') /\ Len(log') = Len(log) + 1
    BY <1>1, <1>2, LogNext DEF ReportInv, IsRecord, e
<1>7. CASE ~Projecting
  <2>1. row' = row /\ ~Projecting'
      BY <1>1, <1>3, <1>7 DEF Projected, Projecting
  <2>2. RowInv'
      BY <1>5, <1>7, <2>1 DEF ReportInv, RowInv
  <2> QED
      BY <1>3, <1>6, <2>2 DEF ReportInv
<1>8. CASE Projecting /\ Build[p] < 3
  <2>1. row' = row
      BY <1>1, <1>4, <1>8 DEF Projected
  <2>2. row' = row /\ skipped' = TRUE /\ Projecting'
      BY <1>3, <1>5, <1>8, <2>1 DEF Projecting
  <2>3. Len(log) \in Nat
      BY LogIs DEF ReportInv, IsLog
  <2>4. RowInv'
    <3>1. CASE Describes(row, log, Len(log))
      <4>1. Shape(row) /\ row.corrupt = FALSE /\ row.last = Len(log)
          BY <3>1 DEF Describes
      <4>2. row.last \in Nat /\ row.last < Len(log')
          BY <1>6, <2>3, <4>1
      <4> QED
          BY <2>2, <4>1, <4>2 DEF RowInv
    <3>2. CASE Shape(row) /\ row.corrupt = TRUE
        BY <2>2, <3>2 DEF RowInv
    <3>3. CASE Shape(row) /\ row.corrupt \in BOOLEAN /\ row.last \in Nat /\ row.last < Len(log)
        BY <1>6, <2>2, <2>3, <3>3 DEF RowInv
    <3> QED
        BY <1>8, <3>1, <3>2, <3>3 DEF ReportInv, RowInv
  <2> QED
      BY <1>3, <1>6, <2>4 DEF ReportInv
<1>9. CASE Projecting /\ ~(Build[p] < 3)
  <2>1. /\ row' = ProjectApproval(row, Len(log) + 1, e) /\ skipped' = skipped /\ Projecting'
        /\ log' = Append(log, e)
    <3>1. Build[p] >= 3
        BY <1>4, <1>9
    <3>2. row' = ProjectApproval(row, Len(log) + 1, e) /\ log' = Append(log, e)
        BY <1>1, <1>9, <3>1 DEF Projected, e
    <3>3. skipped' = skipped
      <4>1. skipped \in BOOLEAN
          BY DEF ReportInv, OpenInv
      <4> QED
          BY <1>5, <1>9, <4>1
    <3> QED
        BY <1>3, <1>9, <3>2, <3>3 DEF Projecting
  <2>2. LogInv' /\ RowInv'
      BY <1>2, <1>9, <2>1, ProjectKeeps
  <2> QED
      BY <1>3, <2>2 DEF ReportInv
<1> QED
    BY <1>7, <1>8, <1>9

(* The deletion moves the cursor, as projectApproval does for its event.   *)
LEMMA KeepsDeleteSession ==
    ASSUME ReportInv, NEW p \in Procs, DeleteSession(p)
    PROVE  ReportInv'
<1> DEFINE e == Of(NoID, "Delete")
<1>1. OpenInv' /\ version' = version /\ Build[p] <= version /\ Build[p] >= 4 /\ skipped' = skipped
    BY DEF DeleteSession, ReportInv, OpenInv
<1>2. Build[p] \in Nat /\ version \in Nat
    BY ReportAssumption DEF ReportInv, OpenInv, SchemaVersion
<1>3. Projecting /\ Projecting'
    BY <1>1, <1>2 DEF Projecting
<1>4. /\ e.x = NoID /\ e.what = "Delete" /\ IsEvent(e)
  <2>1. NoID \in Execs
      BY ReportAssumption
  <2> QED
      BY <2>1 DEF Of, IsEvent, Lifecycles
<1>5. log' = Append(log, e) /\ row' = MoveCursor(row, Len(log) + 1)
    BY DEF DeleteSession
<1>6. ProjectApproval(row, Len(log) + 1, e) = MoveCursor(row, Len(log) + 1)
  <2> HIDE DEF e
  <2> QED
      BY <1>4 DEF ProjectApproval, Lifecycles
<1>7. LogInv' /\ RowInv'
  <2> HIDE DEF e
  <2> QED
      BY <1>1, <1>3, <1>4, <1>5, <1>6, ProjectKeeps
<1> QED
    BY <1>1, <1>7 DEF ReportInv

(* A database with a projection has, for the session, a row that describes *)
(* the whole log, or one that is marked, or one whose cursor lags behind an*)
(* older build's append (Log.Append, migrate, Store.DeleteSession).        *)
THEOREM ReportInvariant == Spec => []ReportInv
<1>1. Init => ReportInv
    BY InitReport
<1>2. ReportInv /\ [Next]_vars => ReportInv'
  <2> SUFFICES ASSUME ReportInv, [Next]_vars PROVE ReportInv'
      OBVIOUS
  <2>1. CASE UNCHANGED vars
      BY <2>1 DEF vars, ReportInv, LogInv, OpenInv, RowInv, Projecting
  <2>2. CASE Next
    <3>1. PICK p \in Procs :
            CheckVersion(p) \/ Migrate(p) \/ Close(p) \/ AppendEvent(p) \/ DeleteSession(p)
        BY <2>2 DEF Next
    <3> QED
        BY <3>1, KeepsCheckVersion, KeepsMigrate, KeepsClose, KeepsAppendEvent, KeepsDeleteSession
  <2> QED
      BY <2>1, <2>2
<1> QED
    BY <1>1, <1>2, PTL DEF Spec

(* What the invariant says of a report.                                    *)
LEMMA Agrees ==
    ASSUME ReportInv
    PROVE  ReportAgreesWithTheLog
<1>1. IsLog(log)
    BY LogIs DEF ReportInv
<1>2. (SessionProto.state = "AWAITING") <=> PendingApproval # 0
    BY DEF SessionProto, ExecState
<1>3. deleted = 0 => SessionProto.approval = PendingApproval
    BY DEF SessionProto
<1>4. CASE Projecting /\ Describes(row, log, Len(log))
  <2>1. PendingApproval = InspectApproval(log)
      BY <1>1, <1>4, ReportIs
  <2> QED
      BY <1>2, <1>3, <2>1 DEF ReportAgreesWithTheLog, ListSessions, Active
<1>5. CASE /\ Projecting /\ row.corrupt = TRUE /\ (skipped \/ Damaged(log))
  <2>1. PendingApproval = 0
      BY <1>5 DEF PendingApproval
  <2>2. ~skipped => InspectApproval(log) = 0
      BY <1>5 DEF InspectApproval
  <2> QED
      BY <1>2, <1>3, <2>1, <2>2 DEF ReportAgreesWithTheLog, ListSessions, Active
<1>6. CASE Projecting /\ row.last \in Nat /\ row.last < Len(log) /\ skipped
  <2>1. PendingApproval = 0
      BY <1>1, <1>6 DEF PendingApproval, IsLog
  <2> QED
      BY <1>2, <1>3, <1>6, <2>1 DEF ReportAgreesWithTheLog, ListSessions, Active
<1>7. CASE ~Projecting
  <2>1. row = NewProjection
      BY <1>7 DEF ReportInv, RowInv
  <2>2. row.latest = NoID
      BY <2>1 DEF NewProjection
  <2>3. PendingApproval = 0
      BY <2>2 DEF PendingApproval
  <2> QED
      BY <1>2, <1>3, <1>7, <2>3 DEF ReportAgreesWithTheLog, ListSessions, Active
<1> QED
    BY <1>4, <1>5, <1>6, <1>7 DEF ReportInv, RowInv

(* A report shows an approval only if InspectApproval finds it pending in  *)
(* the log, and shows all that it finds as long as no older build appended *)
(* to a database with a projection (sessionSelect, sessionProto).          *)
THEOREM ReportsAgree == Spec => []ReportAgreesWithTheLog
<1>1. ReportInv => ReportAgreesWithTheLog
    BY Agrees
<1> QED
    BY <1>1, ReportInvariant, PTL

=============================================================================
