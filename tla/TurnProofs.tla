----------------------------- MODULE TurnProofs -----------------------------
(***************************************************************************)
(* What every behaviour of Turn keeps, for every set of calls, every       *)
(* harness, every setting and every number of inputs and failures.         *)
(***************************************************************************)
EXTENDS Turn, LogOpsProofs, FiniteSetTheorems, WellFoundedInduction

-----------------------------------------------------------------------------
(* Sequences of values of no particular type *)

IsSeq(s) == s \in Seq({s[k] : k \in DOMAIN s})

(* What a sequence of any values is after one more has been appended.      *)
LEMMA AppendAny ==
    ASSUME NEW s, IsSeq(s), NEW e
    PROVE  /\ Len(s) \in Nat /\ DOMAIN s = 1 .. Len(s)
           /\ IsSeq(Append(s, e))
           /\ Len(Append(s, e)) = Len(s) + 1
           /\ DOMAIN Append(s, e) = 1 .. Len(s) + 1
           /\ \A k \in 1 .. Len(s) : Append(s, e)[k] = s[k]
           /\ Append(s, e)[Len(s) + 1] = e
<1> DEFINE S == {s[k] : k \in DOMAIN s}
           T == S \union {e}
           t == Append(s, e)
<1>1. s \in Seq(S)
    BY DEF IsSeq
<1>2. s \in Seq(T) /\ Len(s) \in Nat /\ DOMAIN s = 1 .. Len(s)
    <2> HIDE DEF S
    <2> QED BY <1>1
<1>3. /\ t \in Seq(T) /\ Len(t) = Len(s) + 1 /\ DOMAIN t = 1 .. Len(s) + 1
      /\ \A k \in 1 .. Len(s) : t[k] = s[k]
      /\ t[Len(s) + 1] = e
    <2> HIDE DEF T
    <2>1. e \in T
        BY DEF T
    <2> QED BY <1>2, <2>1
<1>4. \A k \in DOMAIN t : t[k] \in {t[j] : j \in DOMAIN t}
    OBVIOUS
<1>5. IsSeq(t)
    <2> DEFINE U == {t[j] : j \in DOMAIN t}
    <2>1. \A k \in 1 .. Len(t) : t[k] \in U
        BY <1>3
    <2> HIDE DEF U, T, t
    <2>2. t \in Seq(U)
        BY <1>3, <2>1, IsASeq
    <2> QED BY <2>2 DEF IsSeq, U
<1> QED
    BY <1>2, <1>3, <1>5

(* What such a sequence is after one of its elements has been replaced.    *)
LEMMA ReplaceAny ==
    ASSUME NEW s, IsSeq(s), NEW p, NEW e
    PROVE  LET t == [s EXCEPT ![p] = e]
           IN  /\ IsSeq(t) /\ Len(t) = Len(s) /\ DOMAIN t = DOMAIN s
               /\ \A k \in DOMAIN s : t[k] = IF k = p THEN e ELSE s[k]
<1> DEFINE t == [s EXCEPT ![p] = e]
           S == {s[k] : k \in DOMAIN s}
           U == {t[j] : j \in DOMAIN t}
<1>1. s \in Seq(S) /\ Len(s) \in Nat /\ DOMAIN s = 1 .. Len(s)
    BY DEF IsSeq
<1>2. DOMAIN t = DOMAIN s /\ \A k \in DOMAIN s : t[k] = IF k = p THEN e ELSE s[k]
    OBVIOUS
<1>3. t = [k \in 1 .. Len(s) |-> t[k]]
    BY <1>1, <1>2
<1>4. t \in Seq(U) /\ Len(t) = Len(s)
    <2>1. \A k \in 1 .. Len(s) : t[k] \in U
        BY <1>1, <1>2
    <2> HIDE DEF U, S, t
    <2> QED BY <1>1, <1>3, <2>1
<1> QED
    BY <1>2, <1>4 DEF IsSeq

-----------------------------------------------------------------------------
(* The inductive invariant *)

Calling == {"model", "output", "tool", "result"}

Running == {"run"} \union Calling

PCs == Running \union {"idle", "mint", "start", "input", "read", "done"}

StoreInv ==
    /\ store \in Store
    /\ store.deletion = "ACTIVE"
    /\ IsSeq(body) /\ calls \in Seq(Nat) /\ IsSeq(given)
    /\ Len(body) = Len(store.recs) /\ Len(calls) = Len(body) /\ Len(given) = Len(body)
    /\ DOMAIN run = Runs
    /\ setting \in Settings
    /\ failures \in 0 .. MaxFailures

Started(x) == \E s \in DOMAIN body : body[s].exec = x /\ store.recs[s].kind = "EXECUTION_START"

(* What a call remembers, in terms of the log.                             *)
Good(r) ==
    /\ DOMAIN run[r] = DOMAIN IdleRun
    /\ run[r].kind \in {"none", "Exec", "Resume"}
    /\ run[r].pc \in PCs
    /\ run[r].failure \in BOOLEAN
    /\ run[r].failure => run[r].pc = "run"
    /\ run[r].fence \in 0 .. store.fence
    /\ run[r].pc \in Running \union {"start", "input", "read"} => run[r].fence > 0
    /\ run[r].seen \in 0 .. Len(body)
    /\ run[r].i \in StreamOf(r) \union {0}
    /\ run[r].pos \in 0 .. Len(body)
    /\ run[r].pc \in {"idle", "mint", "start", "read"} => run[r].exec = "none"
    /\ run[r].pc \in {"idle", "mint", "start", "read", "input"} => run[r].seen = 0
    /\ run[r].pc = "input" => run[r].exec = r
    /\ run[r].pc \in Running => run[r].exec # "none"
    /\ run[r].exec # "none" => run[r].exec \in Runs /\ Started(run[r].exec)
    /\ run[r].pc \in Calling =>
          /\ run[r].pos # 0
          /\ body[run[r].pos].exec = run[r].exec
          /\ store.recs[run[r].pos].kind =
                IF run[r].pc \in {"model", "output"} THEN "MODEL_CALL" ELSE "TOOL_CALL"
          /\ Rest(StreamOf(r), run[r].i) = {}

AllGood == \A r \in Runs : Good(r)

(* A record belongs to an execution that a call has started.               *)
RecInv ==
    \A p \in DOMAIN body :
        /\ body[p].exec \in Runs
        /\ run[body[p].exec].exec = body[p].exec
        /\ \E s \in 1 .. p : body[s].exec = body[p].exec /\ store.recs[s].kind = "EXECUTION_START"

(* The records of an execution are not mixed with another's.               *)
SegInv ==
    \A s, p, q \in DOMAIN body :
        /\ store.recs[s].kind = "EXECUTION_START"
        /\ body[s].exec = body[q].exec
        /\ s <= p /\ p <= q
        => body[p].exec = body[q].exec

InputInv ==
    \A r \in Runs :
        /\ run[r].pc = "input" => Cardinality(RecordsOf(r, {"INPUT"})) < Inputs
        /\ run[r].pc \in Running => Cardinality(RecordsOf(run[r].exec, {"INPUT"})) = Inputs

(* The incarnation with the newest fence.                                  *)
Owns(r) == run[r].fence = store.fence /\ run[r].fence > 0

OneOwner == \A r, q \in Runs : run[r].fence = run[q].fence => r = q \/ run[r].fence = 0

(* The owner works on the last execution; while it serves, it has read all *)
(* of the log; and the intent it carries out is the last effect.           *)
OwnInv ==
    \A r \in Runs : Owns(r) =>
        /\ run[r].pc \in Running \union {"input"} =>
              Len(body) > 0 /\ body[Len(body)].exec = run[r].exec
        /\ run[r].pc = "run" /\ Rest(StreamOf(r), run[r].i) # {} => run[r].seen = Len(body)
        /\ run[r].pc \in Calling =>
              \A p \in DOMAIN body : store.recs[p].kind \in EffectKinds => p <= run[r].pos

CoreInv ==
    StoreInv /\ AllGood /\ RecInv /\ SegInv /\ InputInv /\ OneOwner /\ OwnInv

-----------------------------------------------------------------------------
(* The shapes of a step *)

LogSame == body' = body /\ store' = store

(* The log grows by a record of kind k and body b, appended by its owner.  *)
Grows(r, k, b) ==
    /\ run[r].fence = store.fence
    /\ store' \in Store /\ store'.fence = store.fence /\ store'.deletion = "ACTIVE"
    /\ IsSeq(body') /\ DOMAIN body' = 1 .. Len(body) + 1
    /\ Len(body') = Len(body) + 1 /\ Len(store'.recs) = Len(body) + 1
    /\ \A p \in 1 .. Len(body) : body'[p] = body[p] /\ store'.recs[p] = store.recs[p]
    /\ body'[Len(body) + 1] = b
    /\ store'.recs[Len(body) + 1].kind = k
    /\ calls' \in Seq(Nat) /\ Len(calls') = Len(body) + 1

(* Only r moves.                                                           *)
Moves(r) ==
    /\ DOMAIN run' = Runs
    /\ DOMAIN run'[r] = DOMAIN IdleRun
    /\ \A q \in Runs \ {r} : run'[q] = run[q]

Begins(r) ==
    /\ LogSame
    /\ run[r].pc = "idle" /\ run'[r].pc = "mint"
    /\ run'[r].kind \in {"Exec", "Resume"}
    /\ run'[r].exec = run[r].exec /\ run'[r].fence = run[r].fence
    /\ run'[r].seen = run[r].seen /\ run'[r].i = run[r].i /\ run'[r].pos = run[r].pos
    /\ run'[r].failure = run[r].failure

Mints(r) ==
    /\ body' = body /\ store' = NewFence(store)
    /\ run[r].pc = "mint" /\ run'[r].pc \in {"start", "read"}
    /\ run'[r].fence = store.fence + 1
    /\ run'[r].kind = run[r].kind /\ run'[r].exec = run[r].exec
    /\ run'[r].seen = run[r].seen /\ run'[r].i = run[r].i /\ run'[r].pos = run[r].pos
    /\ run'[r].failure = run[r].failure

Sent(r) == Cardinality(RecordsOf(r, {"INPUT"})) + IF At(r, "input") THEN 1 ELSE 0

Records(r) ==
    /\ run[r].pc \in {"start", "input"}
    /\ Grows(r, IF At(r, "start") THEN "EXECUTION_START" ELSE "INPUT", Body(r, "", 0))
    /\ run'[r].pc = IF Sent(r) = Inputs THEN "run" ELSE "input"
    /\ run'[r].exec = r
    /\ run'[r].kind = run[r].kind /\ run'[r].fence = run[r].fence
    /\ run'[r].seen = run[r].seen /\ run'[r].i = run[r].i /\ run'[r].pos = run[r].pos
    /\ run'[r].failure = run[r].failure

Departs(r) ==
    /\ run'[r].pc = "done"
    /\ run'[r].kind = run[r].kind /\ run'[r].exec = run[r].exec
    /\ run'[r].fence = 0 /\ run'[r].seen = 0 /\ run'[r].i = 0 /\ run'[r].pos = 0
    /\ run'[r].failure = FALSE
    /\ \/ LogSame
       \/ run[r].pc = "run" /\ Grows(r, "END", Body(run[r].exec, "", 0))
       \/ run[r].pc = "run" /\ Grows(r, "ERROR", Body(run[r].exec, "", 0))

Reads(r) ==
    /\ LogSame
    /\ run[r].pc = "read" /\ run'[r].pc = "run"
    /\ Executions # {} /\ ~Completed(LastExecution) /\ ValidInputs(LastExecution)
    /\ run'[r].exec = LastExecution
    /\ run'[r].seen = Len(store.recs)
    /\ run'[r].kind = run[r].kind /\ run'[r].fence = run[r].fence
    /\ run'[r].i = run[r].i /\ run'[r].pos = run[r].pos
    /\ run'[r].failure = run[r].failure

Serves(r) ==
    /\ LogSame
    /\ run[r].pc = "run" /\ ~run[r].failure
    /\ Rest(StreamOf(r), run[r].i) # {}
    /\ run'[r].kind = run[r].kind /\ run'[r].fence = run[r].fence
    /\ run'[r].exec = run[r].exec /\ run'[r].seen = run[r].seen
    /\ \/ /\ run'[r].pc = "run" /\ run'[r].pos = run[r].pos
          /\ run'[r].failure \in BOOLEAN
          /\ run'[r].i = run[r].i \/ run'[r].i \in StreamOf(r)
       \/ /\ run'[r].pc \in {"model", "tool"} /\ run'[r].pos = run'[r].i
          /\ run'[r].failure = FALSE
          /\ run'[r].i \in StreamOf(r)
          /\ Rest(StreamOf(r), run'[r].i) = {}
          /\ store.recs[run'[r].i].kind =
                IF run'[r].pc = "model" THEN "MODEL_CALL" ELSE "TOOL_CALL"

Answers(r) ==
    /\ LogSame
    /\ run[r].pc \in Running /\ run'[r].pc = "run"
    /\ run'[r].kind = run[r].kind /\ run'[r].fence = run[r].fence
    /\ run'[r].exec = run[r].exec /\ run'[r].seen = run[r].seen
    /\ run'[r].i = run[r].i /\ run'[r].pos = run[r].pos
    /\ run'[r].failure = run[r].failure

Invokes(r) ==
    /\ LogSame
    /\ \/ run[r].pc = "model" /\ run'[r].pc = "output"
       \/ run[r].pc = "tool" /\ run'[r].pc = "result"
    /\ run'[r].kind = run[r].kind /\ run'[r].fence = run[r].fence
    /\ run'[r].exec = run[r].exec /\ run'[r].seen = run[r].seen
    /\ run'[r].i = run[r].i /\ run'[r].pos = run[r].pos
    /\ run'[r].failure = run[r].failure

Appends(r) ==
    /\ \E k \in EffectKinds : \E arg, usage :
        /\ Grows(r, k, Body(run[r].exec, arg, usage))
        /\ \/ run'[r].pc = "run" /\ run'[r].pos = run[r].pos
           \/ /\ run'[r].pos = Len(body) + 1
              /\ \/ run'[r].pc = "model" /\ k = "MODEL_CALL"
                 \/ run'[r].pc = "tool" /\ k = "TOOL_CALL"
    /\ run[r].pc \in Running /\ ~run[r].failure
    /\ Rest(StreamOf(r), run[r].i) = {}
    /\ run'[r].kind = run[r].kind /\ run'[r].fence = run[r].fence
    /\ run'[r].exec = run[r].exec /\ run'[r].seen = run[r].seen
    /\ run'[r].i = run[r].i
    /\ run'[r].failure = run[r].failure

Shape(r) ==
    \/ Begins(r) \/ Mints(r) \/ Records(r) \/ Departs(r) \/ Reads(r)
    \/ Serves(r) \/ Answers(r) \/ Invokes(r) \/ Appends(r)

(* An append that the log accepts makes it grow.                           *)
LEMMA CommitGrows ==
    ASSUME StoreInv, NEW r \in Runs, Good(r), NEW at, NEW kind \in EventKind, NEW b,
           CanAppend(r, at, kind), Commit(r, kind, b)
    PROVE  Grows(r, kind, b)
<1>1. run[r].fence \in Nat /\ run[r].fence <= store.fence /\ store.fence \in Nat
    BY DEF StoreInv, Good, Store
<1>2. ~(run[r].fence < store.fence)
    BY AcceptedAppend DEF CanAppend
<1>3. run[r].fence = store.fence
    BY <1>1, <1>2
<1>4. /\ store' \in Store /\ store'.fence = store.fence /\ store'.deletion = "ACTIVE"
      /\ store'.recs = Append(store.recs, [kind |-> kind, fence |-> run[r].fence])
    BY <1>1, AppendToEffect DEF Commit, StoreInv
<1>5. /\ IsSeq(body') /\ DOMAIN body' = 1 .. Len(body) + 1 /\ Len(body') = Len(body) + 1
      /\ \A p \in 1 .. Len(body) : body'[p] = body[p]
      /\ body'[Len(body) + 1] = b
    BY AppendAny DEF Commit, StoreInv
<1>6. /\ Len(store'.recs) = Len(body) + 1
      /\ \A p \in 1 .. Len(body) : store'.recs[p] = store.recs[p]
      /\ store'.recs[Len(body) + 1] = [kind |-> kind, fence |-> run[r].fence]
    <2> DEFINE e == [kind |-> kind, fence |-> run[r].fence]
    <2>1. e \in Record
        BY <1>1 DEF Record
    <2>2. store.recs \in Seq(Record) /\ Len(store.recs) = Len(body)
        BY DEF StoreInv, Store
    <2> HIDE DEF e
    <2>3. /\ Len(Append(store.recs, e)) = Len(body) + 1
          /\ \A p \in 1 .. Len(body) : Append(store.recs, e)[p] = store.recs[p]
          /\ Append(store.recs, e)[Len(body) + 1] = e
        BY <2>1, <2>2
    <2> QED BY <2>3, <1>4 DEF e
<1>7. calls' \in Seq(Nat) /\ Len(calls') = Len(body) + 1
    BY DEF Commit, StoreInv
<1> QED
    BY <1>3, <1>4, <1>5, <1>6, <1>7 DEF Grows

-----------------------------------------------------------------------------
(* Places *)

(* A set of numbers has a least one.                                       *)
LEMMA LeastPlace ==
    ASSUME NEW S \in SUBSET Nat, S # {}
    PROVE  \E p \in S : \A q \in S : p <= q
<1>1. PICK p \in S : \A q \in S : <<q, p>> \notin OpToRel(<, Nat)
    BY NatLessThanWellFounded, WFMin
<1>2. \A q \in S : ~(q < p)
    BY <1>1 DEF OpToRel
<1> QED
    BY <1>2

(* What follows a place in a stream is the least of what is left of it.    *)
LEMMA FollowingPlace ==
    ASSUME NEW S \in SUBSET Nat, NEW i \in Nat, Rest(S, i) # {}
    PROVE  /\ Following(S, i) \in S /\ Following(S, i) \in Nat
           /\ Following(S, i) > i
           /\ \A q \in Rest(S, i) : Following(S, i) <= q
<1>1. \E p \in Rest(S, i) : \A q \in Rest(S, i) : p <= q
    BY LeastPlace DEF Rest
<1>2. Following(S, i) \in Rest(S, i) /\ \A q \in Rest(S, i) : Following(S, i) <= q
    BY <1>1 DEF Following
<1> QED
    BY <1>2 DEF Rest

(* Nothing is left where no record's kind is asked for.                    *)
LEMMA KindAtPlace ==
    ASSUME NEW S \in SUBSET Nat, NEW i \in Nat, KindAt(S, i) # "none"
    PROVE  /\ Rest(S, i) # {}
           /\ KindAt(S, i) = store.recs[Following(S, i)].kind
           /\ Following(S, i) \in S /\ Following(S, i) \in Nat
           /\ Following(S, i) > i
<1>1. Rest(S, i) # {} /\ KindAt(S, i) = store.recs[Following(S, i)].kind
    BY DEF KindAt
<1> QED
    BY <1>1, FollowingPlace

(* What serving an operation may come to.                                  *)
LEMMA ServeOutcome ==
    ASSUME NEW S \in SUBSET Nat, NEW i \in Nat, NEW e
    PROVE  LET got == Serve(S, i, e)
           IN  /\ got.open \in BOOLEAN /\ got.failure \in BOOLEAN
               /\ got.i = i \/ (got.i \in S /\ got.i > i)
               /\ got.open =>
                    /\ ~got.failure
                    /\ got.i \in S /\ got.i > i /\ Rest(S, got.i) = {}
                    /\ \/ e.op = "Model" /\ store.recs[got.i].kind = "MODEL_CALL"
                       \/ e.op = "ToolCall" /\ store.recs[got.i].kind = "TOOL_CALL"
<1> DEFINE got == Serve(S, i, e)
           f == Following(S, i)
           g == Following(S, f)
<1>1. ASSUME KindAt(S, i) # "none"
      PROVE  f \in S /\ f \in Nat /\ f > i /\ KindAt(S, i) = store.recs[f].kind
    BY <1>1, KindAtPlace
<1>2. ASSUME KindAt(S, i) # "none", KindAt(S, f) # "none"
      PROVE  g \in S /\ g \in Nat /\ g > f
    BY <1>1, <1>2, KindAtPlace
<1> HIDE DEF f, g
<1> DEFINE Fine(a) ==
               /\ a.open \in BOOLEAN /\ a.failure \in BOOLEAN
               /\ a.i = i \/ (a.i \in S /\ a.i > i)
               /\ a.open =>
                    /\ ~a.failure
                    /\ a.i \in S /\ a.i > i /\ Rest(S, a.i) = {}
                    /\ \/ e.op = "Model" /\ store.recs[a.i].kind = "MODEL_CALL"
                       \/ e.op = "ToolCall" /\ store.recs[a.i].kind = "TOOL_CALL"
<1>8. \A n, a : n = i \/ (n \in S /\ n > i) => Fine(Served(n, a))
    BY DEF Served
<1>9. \A n : n = i \/ (n \in S /\ n > i) => Fine(Diverged(n))
    BY DEF Diverged
<1>10. ASSUME e.op = "Model", KindAt(S, i) = "MODEL_CALL"
       PROVE  Fine(Unanswered(S, f))
    BY <1>1, <1>10 DEF Unanswered
<1>11. ASSUME e.op = "ToolCall", KindAt(S, i) = "TOOL_CALL"
       PROVE  Fine(Unanswered(S, f))
    BY <1>1, <1>11 DEF Unanswered
<1>12. ASSUME KindAt(S, i) # "none", KindAt(S, f) # "none"
       PROVE  g \in S /\ g > i
    BY <1>1, <1>2, <1>12
<1> HIDE DEF Fine
<1>3. ASSUME e.op = "Model" PROVE Fine(got)
  <2>1. got = ServeModel(S, i, e)
      BY <1>3 DEF Serve
  <2> QED
      BY <1>1, <1>3, <1>8, <1>9, <1>10, <1>12, <2>1 DEF ServeModel, f, g
<1>4. ASSUME e.op = "Output" PROVE Fine(got)
  <2>1. got = ServeOutput(S, i, e)
      BY <1>4 DEF Serve
  <2> QED
      BY <1>1, <1>8, <1>9, <2>1 DEF ServeOutput, f
<1>5. ASSUME e.op = "ToolCall" PROVE Fine(got)
  <2>1. got = ServeToolCall(S, i, e)
      BY <1>5 DEF Serve
  <2> QED
      BY <1>1, <1>5, <1>8, <1>9, <1>11, <1>12, <2>1 DEF ServeToolCall, f, g
<1>6. ASSUME e.op = "Report" PROVE Fine(got)
  <2>1. got = ServeReport(S, i, e)
      BY <1>6 DEF Serve
  <2> QED
      BY <1>1, <1>8, <1>9, <2>1 DEF ServeReport, f
<1>7. ASSUME e.op \notin {"Model", "Output", "ToolCall", "Report"} PROVE Fine(got)
  <2>1. got = ServeUsage(S, i, e)
      BY <1>7 DEF Serve
  <2> QED
      BY <1>1, <1>8, <1>9, <2>1 DEF ServeUsage, f
<1>13. Fine(got)
    BY <1>3, <1>4, <1>5, <1>6, <1>7
<1> QED
    BY <1>13 DEF Fine

(* A stream is made of places of the log.                                  *)
LEMMA StreamPlaces ==
    ASSUME NEW x, NEW n \in Nat
    PROVE  Stream(x, n) \in SUBSET Nat /\ Stream(x, n) \subseteq 1 .. n
BY DEF Stream

-----------------------------------------------------------------------------
(* Every step has one of the shapes *)

(* The histories keep their types and keep step with the log.              *)
Histories ==
    /\ IsSeq(given') /\ Len(given') = Len(body')
    /\ calls' \in Seq(Nat) /\ Len(calls') = Len(body')
    /\ failures' \in 0 .. MaxFailures
    /\ setting' = setting

Moved(r) == Moves(r) /\ Shape(r) /\ Histories

(* What a call becomes.                                                    *)
LEMMA BecomeMoves ==
    ASSUME StoreInv, NEW r \in Runs, NEW s, DOMAIN s = DOMAIN IdleRun, Become(r, s)
    PROVE  Moves(r) /\ run'[r] = s
BY DEF StoreInv, Become, Moves

(* What a call becomes that leaves.                                        *)
LEMMA LeaveDeparts ==
    ASSUME StoreInv, NEW r \in Runs, NEW result, Leave(r, result)
    PROVE  /\ Moves(r)
           /\ run'[r].pc = "done" /\ run'[r].result = result
           /\ run'[r].kind = run[r].kind /\ run'[r].exec = run[r].exec
           /\ run'[r].harness = run[r].harness
           /\ run'[r].fence = 0 /\ run'[r].seen = 0 /\ run'[r].i = 0 /\ run'[r].pos = 0
           /\ run'[r].failure = FALSE
<1> DEFINE s == [IdleRun EXCEPT !.kind = run[r].kind, !.pc = "done", !.result = result,
                              !.harness = run[r].harness, !.exec = run[r].exec]
<1>1. DOMAIN s = DOMAIN IdleRun
    OBVIOUS
<1>2. Moves(r) /\ run'[r] = s
    BY <1>1, BecomeMoves DEF Leave
<1> QED
    BY <1>2 DEF IdleRun

(* Histories that a step leaves alone.                                     *)
LEMMA HistoriesStay ==
    ASSUME StoreInv, LogUnchanged, UNCHANGED <<failures, setting>>
    PROVE  Histories /\ LogSame
BY DEF StoreInv, LogUnchanged, Histories, LogSame

(* Histories of a step that appends a record.                              *)
LEMMA HistoriesGrow ==
    ASSUME StoreInv, NEW r, NEW k, NEW b, Grows(r, k, b), NEW g, IsSeq(g), Len(g) = Len(body),
           NEW e, given' = Append(g, e), UNCHANGED <<failures, setting>>
    PROVE  Histories
BY AppendAny DEF StoreInv, Grows, Histories

(* Begin.                                                                  *)
LEMMA BeginMoved ==
    ASSUME StoreInv, AllGood, NEW r \in Runs, NEW kind \in {"Exec", "Resume"}, NEW h,
           Begin(r, kind, h)
    PROVE  Moved(r)
<1> DEFINE s == [run[r] EXCEPT !.kind = kind, !.pc = "mint", !.harness = h,
                                !.last = HeadSeq(store)]
<1>0. DOMAIN run[r] = DOMAIN IdleRun
    BY DEF AllGood, Good
<1>1. DOMAIN s = DOMAIN IdleRun
    BY <1>0
<1>2. Moves(r) /\ run'[r] = s
    BY <1>1, BecomeMoves DEF Begin
<1>3. Histories /\ LogSame
    BY HistoriesStay DEF Begin
<1>4. Begins(r)
    BY <1>0, <1>2, <1>3 DEF Begins, Begin, IdleRun, At
<1> QED
    BY <1>2, <1>3, <1>4 DEF Moved, Shape

(* Mint.                                                                   *)
LEMMA MintMoved ==
    ASSUME StoreInv, AllGood, NEW r \in Runs, Mint(r)
    PROVE  Moved(r)
<1> DEFINE s == [run[r] EXCEPT !.fence = store'.fence,
                    !.pc = IF run[r].kind = "Exec" THEN "start" ELSE "read"]
<1>0. DOMAIN run[r] = DOMAIN IdleRun
    BY DEF AllGood, Good
<1>1. DOMAIN s = DOMAIN IdleRun
    BY <1>0
<1>2. Moves(r) /\ run'[r] = s
    BY <1>1, BecomeMoves DEF Mint
<1>3. Histories /\ body' = body
    BY DEF Mint, Histories, StoreInv
<1>4. store'.fence = store.fence + 1
    BY MintEffect DEF Mint, StoreInv
<1>5. Mints(r)
    BY <1>0, <1>2, <1>3, <1>4 DEF Mints, Mint, IdleRun, At
<1> QED
    BY <1>2, <1>3, <1>5 DEF Moved, Shape

(* EXECUTION_START and INPUT.                                              *)
LEMMA AppendInvocationMoved ==
    ASSUME StoreInv, AllGood, NEW r \in Runs, AppendInvocation(r)
    PROVE  Moved(r)
<1> DEFINE kind == IF At(r, "start") THEN "EXECUTION_START" ELSE "INPUT"
           s == [run[r] EXCEPT !.exec = r, !.last = @ + 1,
                              !.pc = IF Sent(r) = Inputs THEN "run" ELSE "input"]
<1>0. DOMAIN run[r] = DOMAIN IdleRun /\ Good(r)
    BY DEF AllGood, Good
<1>1. CASE CanAppend(r, run[r].last, kind) /\ Commit(r, kind, Body(r, "", 0))
           /\ given' = Append(given, Error) /\ Become(r, s)
  <2>1. DOMAIN s = DOMAIN IdleRun
      BY <1>0
  <2>2. Moves(r) /\ run'[r] = s
      BY <1>1, <2>1, BecomeMoves
  <2>3. kind \in EventKind
      BY DEF EventKind, TurnKinds
  <2>4. Grows(r, kind, Body(r, "", 0))
      BY <1>0, <1>1, <2>3, CommitGrows
  <2>5. Histories
      BY <1>1, <2>4, HistoriesGrow DEF AppendInvocation, StoreInv
  <2>6. Records(r)
      BY <1>0, <2>2, <2>4 DEF Records, AppendInvocation, IdleRun
  <2> QED
      BY <2>2, <2>5, <2>6 DEF Moved, Shape
<1>2. CASE Leave(r, "refused") /\ LogUnchanged
  <2>1. Histories /\ LogSame
      BY <1>2, HistoriesStay DEF AppendInvocation
  <2>2. Moves(r) /\ Departs(r)
      BY <1>2, <2>1, LeaveDeparts DEF Departs
  <2> QED
      BY <2>1, <2>2 DEF Moved, Shape
<1> QED
    BY <1>1, <1>2 DEF AppendInvocation, Sent

(* What Resume makes of the log.                                           *)
LEMMA ReadLogMoved ==
    ASSUME StoreInv, AllGood, NEW r \in Runs, ReadLog(r)
    PROVE  Moved(r)
<1> DEFINE s == [run[r] EXCEPT !.pc = "run", !.exec = LastExecution,
                                              !.seen = HeadSeq(store)]
<1>0. DOMAIN run[r] = DOMAIN IdleRun /\ Good(r)
    BY DEF AllGood, Good
<1>3. Histories /\ LogSame
    BY HistoriesStay DEF ReadLog
<1>1. ASSUME NEW result, Leave(r, result) PROVE Moved(r)
  <2>2. Moves(r) /\ Departs(r)
      BY <1>1, <1>3, LeaveDeparts DEF Departs
  <2> QED
      BY <1>3, <2>2 DEF Moved, Shape
<1>2. CASE /\ Executions # {} /\ ~Completed(LastExecution) /\ ValidInputs(LastExecution)
           /\ Become(r, s)
  <2>1. DOMAIN s = DOMAIN IdleRun
      BY <1>0
  <2>2. Moves(r) /\ run'[r] = s
      BY <1>2, <2>1, BecomeMoves
  <2>3. Reads(r)
      BY <1>0, <1>2, <1>3, <2>2 DEF Reads, ReadLog, IdleRun, At, HeadSeq
  <2> QED
      BY <1>3, <2>2, <2>3 DEF Moved, Shape
<1> QED
    BY <1>1, <1>2 DEF ReadLog

(* The places a Resume serves from.                                        *)
LEMMA StreamOfPlaces ==
    ASSUME StoreInv, NEW r \in Runs, Good(r)
    PROVE  /\ StreamOf(r) \in SUBSET Nat /\ StreamOf(r) \subseteq 1 .. Len(body)
           /\ run[r].i \in Nat
<1>1. Len(body) \in Nat
    BY AppendAny DEF StoreInv
<1>2. run[r].seen \in Nat /\ run[r].seen <= Len(body)
    BY <1>1 DEF Good
<1>3. StreamOf(r) \in SUBSET Nat /\ StreamOf(r) \subseteq 1 .. run[r].seen
    BY <1>2, StreamPlaces DEF StreamOf
<1> QED
    BY <1>1, <1>2, <1>3 DEF Good

(* What a recorded operation makes of a Resume.                            *)
LEMMA ServeRecordedMoved ==
    ASSUME StoreInv, AllGood, NEW r \in Runs, ServeRecorded(r)
    PROVE  Moved(r)
<1> DEFINE got == Serve(StreamOf(r), run[r].i, Asked(r))
           s == [run[r] EXCEPT !.i = got.i, !.pos = got.i,
                              !.pc = IF Asked(r).op = "Model" THEN "model" ELSE "tool"]
           t == [Answered(r, got.answer) EXCEPT !.i = got.i,
                              !.failure = got.failure]
<1>0. DOMAIN run[r] = DOMAIN IdleRun /\ Good(r)
    BY DEF AllGood, Good
<1>1. Histories /\ LogSame
    BY HistoriesStay DEF ServeRecorded
<1>2. StreamOf(r) \in SUBSET Nat /\ run[r].i \in Nat
    BY <1>0, StreamOfPlaces
<1>3. /\ got.open \in BOOLEAN /\ got.failure \in BOOLEAN
      /\ got.i = run[r].i \/ got.i \in StreamOf(r)
      /\ got.open =>
            /\ got.i \in StreamOf(r) /\ Rest(StreamOf(r), got.i) = {}
            /\ \/ Asked(r).op = "Model" /\ store.recs[got.i].kind = "MODEL_CALL"
               \/ Asked(r).op = "ToolCall" /\ store.recs[got.i].kind = "TOOL_CALL"
    BY <1>2, ServeOutcome
<1>4. Become(r, IF got.open THEN s ELSE t)
    BY DEF ServeRecorded
<1>7. /\ run[r].pc = "run" /\ ~run[r].failure
      /\ Rest(StreamOf(r), run[r].i) # {}
    BY DEF ServeRecorded, At
<1> HIDE DEF got
<1>5. CASE got.open
  <2>1. DOMAIN s = DOMAIN IdleRun
      BY <1>0
  <2>2. Moves(r) /\ run'[r] = s
      BY <1>4, <1>5, <2>1, BecomeMoves
  <2>4. run[r].failure = FALSE
      BY <1>0, <1>7 DEF Good
  <2>3. Serves(r)
      BY <1>0, <1>1, <1>3, <1>5, <1>7, <2>2, <2>4 DEF Serves, IdleRun
  <2> QED
      BY <1>1, <2>2, <2>3 DEF Moved, Shape
<1>6. CASE ~got.open
  <2>1. DOMAIN t = DOMAIN IdleRun
      BY <1>0 DEF Answered
  <2>2. Moves(r) /\ run'[r] = t
      BY <1>4, <1>6, <2>1, BecomeMoves
  <2>3. Serves(r)
      BY <1>0, <1>1, <1>3, <1>7, <2>2 DEF Serves, IdleRun, Answered
  <2> QED
      BY <1>1, <2>2, <2>3 DEF Moved, Shape
<1> QED
    BY <1>3, <1>5, <1>6

(* What an answer that is not recorded makes of a call.                    *)
LEMMA AnsweredMoves ==
    ASSUME StoreInv, AllGood, NEW r \in Runs, run[r].pc \in Running, NEW a,
           Become(r, Answered(r, a)) \/ Become(r, [Answered(r, a) EXCEPT !.reply = Error])
    PROVE  Moves(r) /\ (LogSame => Answers(r))
<1> DEFINE t == [Answered(r, a) EXCEPT !.reply = Error]
<1>0. DOMAIN run[r] = DOMAIN IdleRun /\ Good(r)
    BY DEF AllGood, Good
<1>1. CASE Become(r, Answered(r, a))
  <2>1. DOMAIN Answered(r, a) = DOMAIN IdleRun
      BY <1>0 DEF Answered
  <2>2. Moves(r) /\ run'[r] = Answered(r, a)
      BY <1>1, <2>1, BecomeMoves
  <2> QED
      BY <1>0, <2>2 DEF Answers, Answered, IdleRun
<1>2. CASE Become(r, t)
  <2>1. DOMAIN t = DOMAIN IdleRun
      BY <1>0 DEF Answered
  <2>2. Moves(r) /\ run'[r] = t
      BY <1>2, <2>1, BecomeMoves
  <2> QED
      BY <1>0, <2>2 DEF Answers, Answered, IdleRun
<1> QED
    BY <1>1, <1>2

(* A divergence that is answered.                                          *)
LEMMA AnswerDivergedMoved ==
    ASSUME StoreInv, AllGood, NEW r \in Runs, AnswerDiverged(r)
    PROVE  Moved(r)
<1>1. Histories /\ LogSame
    BY HistoriesStay DEF AnswerDiverged
<1>2. run[r].pc \in Running
    BY DEF AnswerDiverged, At, Running
<1> QED
    BY <1>1, <1>2, AnsweredMoves DEF AnswerDiverged, Moved, Shape

(* A call without a key.                                                   *)
LEMMA RejectToolMoved ==
    ASSUME StoreInv, AllGood, NEW r \in Runs, RejectTool(r)
    PROVE  Moved(r)
<1>1. Histories /\ LogSame
    BY HistoriesStay DEF RejectTool
<1>2. run[r].pc \in Running
    BY DEF RejectTool, Live, At, Running
<1> QED
    BY <1>1, <1>2, AnsweredMoves DEF RejectTool, Moved, Shape

(* An append of the live sink that leaves the call where an answer would,  *)
(* or carrying out the intent it has recorded.                             *)
LEMMA SinkAppendMoved ==
    ASSUME StoreInv, AllGood, NEW r \in Runs, Live(r), NEW kind \in EffectKinds,
           NEW arg, NEW usage, NEW s, DOMAIN s = DOMAIN IdleRun,
           SinkAppend(r, kind, Body(run[r].exec, arg, usage), s),
           \/ s.pc = "run" /\ s.pos = run[r].pos
           \/ /\ s.pos = Len(body) + 1
              /\ \/ s.pc = "model" /\ kind = "MODEL_CALL"
                 \/ s.pc = "tool" /\ kind = "TOOL_CALL",
           s.kind = run[r].kind, s.fence = run[r].fence, s.exec = run[r].exec,
           s.seen = run[r].seen, s.i = run[r].i, s.failure = run[r].failure
    PROVE  Moved(r)
<1>1. Good(r)
    BY DEF AllGood
<1>2. run[r].pc \in Running /\ ~run[r].failure /\ Rest(StreamOf(r), run[r].i) = {}
    BY DEF Live, At, Running
<1>3. CASE /\ CanAppend(r, HeadSeq(store), kind)
           /\ Commit(r, kind, Body(run[r].exec, arg, usage))
           /\ given' = Append(given, Error)
           /\ Become(r, s)
  <2>1. Moves(r) /\ run'[r] = s
      BY <1>3, BecomeMoves
  <2>2. kind \in EventKind
      BY DEF EventKind, TurnKinds, EffectKinds
  <2>3. Grows(r, kind, Body(run[r].exec, arg, usage))
      BY <1>1, <1>3, <2>2, CommitGrows
  <2>4. Histories
      BY <1>3, <2>3, HistoriesGrow DEF SinkAppend, StoreInv
  <2>5. Appends(r)
      BY <1>2, <2>1, <2>3 DEF Appends
  <2> QED
      BY <2>1, <2>4, <2>5 DEF Moved, Shape
<1>4. CASE Become(r, Answered(r, Error)) /\ LogUnchanged
  <2>1. Histories /\ LogSame
      BY <1>4, HistoriesStay DEF SinkAppend
  <2> QED
      BY <1>2, <1>4, <2>1, AnsweredMoves DEF Moved, Shape
<1> QED
    BY <1>3, <1>4 DEF SinkAppend

(* The operations of the live sink.                                        *)
LEMMA LiveSinkMoved ==
    ASSUME StoreInv, AllGood, NEW r \in Runs,
           CallModel(r) \/ CallTool(r) \/ LiveOutput(r) \/ LiveReport(r) \/ LiveUsage(r)
    PROVE  Moved(r)
<1>0. DOMAIN run[r] = DOMAIN IdleRun
    BY DEF AllGood, Good
<1>1. CASE CallModel(r)
  <2> DEFINE s == [run[r] EXCEPT !.pc = "model", !.pos = HeadSeq(store) + 1]
  <2>1. /\ DOMAIN s = DOMAIN IdleRun
        /\ s.pos = Len(body) + 1 /\ s.pc = "model"
        /\ s.kind = run[r].kind /\ s.fence = run[r].fence /\ s.exec = run[r].exec
        /\ s.seen = run[r].seen /\ s.i = run[r].i /\ s.failure = run[r].failure
      BY <1>0 DEF IdleRun, HeadSeq, StoreInv
  <2>2. Live(r) /\ SinkAppend(r, "MODEL_CALL", Body(run[r].exec, Asked(r).arg, 0), s)
      BY <1>1 DEF CallModel
  <2>3. "MODEL_CALL" \in EffectKinds
      BY DEF EffectKinds
  <2> HIDE DEF s
  <2> QED
      BY <2>1, <2>2, <2>3, SinkAppendMoved
<1>2. CASE CallTool(r)
  <2> DEFINE s == [run[r] EXCEPT !.pc = "tool", !.pos = HeadSeq(store) + 1]
  <2>1. /\ DOMAIN s = DOMAIN IdleRun
        /\ s.pos = Len(body) + 1 /\ s.pc = "tool"
        /\ s.kind = run[r].kind /\ s.fence = run[r].fence /\ s.exec = run[r].exec
        /\ s.seen = run[r].seen /\ s.i = run[r].i /\ s.failure = run[r].failure
      BY <1>0 DEF IdleRun, HeadSeq, StoreInv
  <2>2. Live(r) /\ SinkAppend(r, "TOOL_CALL", Body(run[r].exec, Asked(r).arg, 0), s)
      BY <1>2 DEF CallTool
  <2>3. "TOOL_CALL" \in EffectKinds
      BY DEF EffectKinds
  <2> HIDE DEF s
  <2> QED
      BY <2>1, <2>2, <2>3, SinkAppendMoved
<1>3. ASSUME NEW kind \in EffectKinds, NEW arg, NEW usage, Live(r),
             SinkAppend(r, kind, Body(run[r].exec, arg, usage), Answered(r, Done))
      PROVE  Moved(r)
  <2> DEFINE s == Answered(r, Done)
  <2>1. /\ DOMAIN s = DOMAIN IdleRun
        /\ s.pos = run[r].pos /\ s.pc = "run"
        /\ s.kind = run[r].kind /\ s.fence = run[r].fence /\ s.exec = run[r].exec
        /\ s.seen = run[r].seen /\ s.i = run[r].i /\ s.failure = run[r].failure
      BY <1>0 DEF IdleRun, Answered
  <2> HIDE DEF s
  <2>2. SinkAppend(r, kind, Body(run[r].exec, arg, usage), s)
      BY <1>3 DEF s
  <2> QED
      BY <1>3, <2>1, <2>2, SinkAppendMoved
<1>4. "OUTPUT" \in EffectKinds /\ "TOOL_RESULT" \in EffectKinds /\ "USAGE" \in EffectKinds
    BY DEF EffectKinds
<1> QED
    BY <1>1, <1>2, <1>3, <1>4 DEF LiveOutput, LiveReport, LiveUsage

(* Histories of a step that calls the model or a tool.                     *)
LEMMA HistoriesCall ==
    ASSUME StoreInv, NEW r \in Runs, NEW p \in 1 .. Len(calls),
           calls' = [calls EXCEPT ![p] = @ + 1],
           \/ UNCHANGED <<given, failures>>
           \/ /\ failures < MaxFailures /\ failures' = failures + 1
              /\ Give(r, p, Error),
           UNCHANGED <<store, body, setting>>
    PROVE  Histories /\ LogSame
<1>1. calls' \in Seq(Nat) /\ Len(calls') = Len(calls)
    BY DEF StoreInv
<1>2. IsSeq(given') /\ Len(given') = Len(given)
  <2>1. IsSeq(given)
      BY DEF StoreInv
  <2> DEFINE t == [given EXCEPT ![p] = Error]
  <2>2. IsSeq(t) /\ Len(t) = Len(given)
      BY <2>1, ReplaceAny
  <2> HIDE DEF t
  <2>3. given' = given \/ given' = t
      BY DEF Give, t
  <2> QED
      BY <2>1, <2>2, <2>3
<1>3. failures' \in 0 .. MaxFailures
    BY TurnAssumption DEF StoreInv
<1> QED
    BY <1>1, <1>2, <1>3 DEF StoreInv, Histories, LogSame

(* The model or a tool is called.                                          *)
LEMMA InvokeMoved ==
    ASSUME StoreInv, AllGood, NEW r \in Runs, InvokeModel(r) \/ ExecTool(r)
    PROVE  Moved(r)
<1>0. DOMAIN run[r] = DOMAIN IdleRun
    BY DEF AllGood, Good
<1>6. run[r].pos \in 1 .. Len(calls)
  <2>1. Len(body) \in Nat /\ Len(calls) = Len(body)
      BY AppendAny DEF StoreInv
  <2>2. run[r].pc \in Calling
      BY DEF InvokeModel, ExecTool, At, Calling
  <2>3. run[r].pos \in 0 .. Len(body) /\ run[r].pos # 0
      BY <2>2 DEF AllGood, Good
  <2> QED
      BY <2>1, <2>3
<1>1. Histories /\ LogSame
    BY <1>6, HistoriesCall DEF InvokeModel, ExecTool
<1>2. run[r].pc \in Running
    BY DEF InvokeModel, ExecTool, At, Running, Calling
<1>3. ASSUME Become(r, Answered(r, Error)) PROVE Moved(r)
    BY <1>1, <1>2, <1>3, AnsweredMoves DEF Moved, Shape
<1>4. ASSUME NEW c, Become(r, [run[r] EXCEPT !.pc = "output", !.reply = c]), At(r, "model")
      PROVE  Moved(r)
  <2> DEFINE s == [run[r] EXCEPT !.pc = "output", !.reply = c]
  <2>1. DOMAIN s = DOMAIN IdleRun
      BY <1>0
  <2>2. Moves(r) /\ run'[r] = s
      BY <1>4, <2>1, BecomeMoves
  <2>3. Invokes(r)
      BY <1>0, <1>1, <1>4, <2>2 DEF Invokes, IdleRun, At
  <2> QED
      BY <1>1, <2>2, <2>3 DEF Moved, Shape
<1>5. ASSUME NEW c, Become(r, [run[r] EXCEPT !.pc = "result", !.reply = c]), At(r, "tool")
      PROVE  Moved(r)
  <2> DEFINE s == [run[r] EXCEPT !.pc = "result", !.reply = c]
  <2>1. DOMAIN s = DOMAIN IdleRun
      BY <1>0
  <2>2. Moves(r) /\ run'[r] = s
      BY <1>5, <2>1, BecomeMoves
  <2>3. Invokes(r)
      BY <1>0, <1>1, <1>5, <2>2 DEF Invokes, IdleRun, At
  <2> QED
      BY <1>1, <2>2, <2>3 DEF Moved, Shape
<1> QED
    BY <1>3, <1>4, <1>5 DEF InvokeModel, ExecTool

(* The answer of the model or of a tool is recorded.                       *)
LEMMA RecordAnswerMoved ==
    ASSUME StoreInv, AllGood, NEW r \in Runs, RecordCompletion(r) \/ RecordResult(r)
    PROVE  Moved(r)
<1>0. DOMAIN run[r] = DOMAIN IdleRun /\ Good(r)
    BY DEF AllGood, Good
<1>1. PICK kind \in {"OUTPUT", "TOOL_RESULT"} : RecordAnswer(r, kind)
    BY DEF RecordCompletion, RecordResult
<1>2. /\ run[r].pc \in Running /\ Rest(StreamOf(r), run[r].i) = {}
      /\ ~run[r].failure
    BY <1>0 DEF RecordCompletion, RecordResult, At, Good, Running, Calling
<1> DEFINE told == [Answered(r, run[r].reply) EXCEPT !.reply = Error]
<1>3. CASE /\ CanAppend(r, HeadSeq(store), kind)
           /\ Commit(r, kind, Body(run[r].exec, run[r].reply.val, 0))
           /\ given' = Append([given EXCEPT ![run[r].pos] = run[r].reply], Error)
           /\ Become(r, told)
  <2>1. DOMAIN told = DOMAIN IdleRun
      BY <1>0 DEF Answered
  <2>2. Moves(r) /\ run'[r] = told
      BY <1>3, <2>1, BecomeMoves
  <2>3. kind \in EffectKinds /\ kind \in EventKind
      BY DEF EffectKinds, EventKind, TurnKinds
  <2>4. Grows(r, kind, Body(run[r].exec, run[r].reply.val, 0))
      BY <1>0, <1>3, <2>3, CommitGrows
  <2> DEFINE g == [given EXCEPT ![run[r].pos] = run[r].reply]
  <2>8. IsSeq(given) /\ Len(given) = Len(body)
      BY DEF StoreInv
  <2>9. \A q, e : IsSeq([given EXCEPT ![q] = e]) /\ Len([given EXCEPT ![q] = e]) = Len(given)
      BY <2>8, ReplaceAny
  <2>5. IsSeq(g) /\ Len(g) = Len(body)
      BY <2>8, <2>9
  <2>6. Histories
    <3> HIDE DEF g
    <3>1. given' = Append(g, Error) /\ UNCHANGED <<failures, setting>>
        BY <1>1, <1>3 DEF g, RecordAnswer
    <3> QED
        BY <2>4, <2>5, <3>1, HistoriesGrow
  <2>7. Appends(r)
      BY <1>0, <1>2, <2>2, <2>3, <2>4 DEF Appends, Answered, IdleRun
  <2> QED
      BY <2>2, <2>6, <2>7 DEF Moved, Shape
<1>4. CASE Become(r, [Answered(r, Error) EXCEPT !.reply = Error]) /\ LogUnchanged
  <2>1. Histories /\ LogSame
      BY <1>1, <1>4, HistoriesStay DEF RecordAnswer
  <2> QED
      BY <1>2, <1>4, <2>1, AnsweredMoves DEF Moved, Shape
<1> QED
    BY <1>1, <1>3, <1>4 DEF RecordAnswer

(* A call that ends.                                                       *)
LEMMA FinishMoved ==
    ASSUME StoreInv, AllGood, NEW r \in Runs, Finish(r) \/ Crash(r)
    PROVE  Moved(r)
<1>0. Good(r)
    BY DEF AllGood
<1>1. CASE Crash(r)
  <2>1. Histories /\ LogSame
      BY <1>1, HistoriesStay DEF Crash
  <2>2. Moves(r) /\ Departs(r)
      BY <1>1, <2>1, LeaveDeparts DEF Crash, Departs
  <2> QED
      BY <2>1, <2>2 DEF Moved, Shape
<1>2. CASE Finish(r)
  <2> DEFINE kind == IF Outcome(r) = "completed" THEN "END" ELSE "ERROR"
  <2>1. CASE /\ CanAppend(r, HeadSeq(store), kind)
             /\ Commit(r, kind, Body(run[r].exec, "", 0))
             /\ given' = Append(given, Error)
             /\ Leave(r, Outcome(r))
    <3>1. kind \in {"END", "ERROR"} /\ kind \in EventKind
        BY DEF EventKind, TurnKinds
    <3>2. Grows(r, kind, Body(run[r].exec, "", 0))
        BY <1>0, <2>1, <3>1, CommitGrows
    <3>3. Histories
        BY <1>2, <2>1, <3>2, HistoriesGrow DEF Finish, StoreInv
    <3>4. Moves(r) /\ Departs(r)
        BY <1>2, <2>1, <3>1, <3>2, LeaveDeparts DEF Departs, Finish, At
    <3> QED
        BY <3>3, <3>4 DEF Moved, Shape
  <2>2. CASE LogUnchanged
             /\ Leave(r, IF Outcome(r) = "completed" THEN "refused" ELSE Outcome(r))
    <3>1. Histories /\ LogSame
        BY <1>2, <2>2, HistoriesStay DEF Finish
    <3>2. Moves(r) /\ Departs(r)
        BY <2>2, <3>1, LeaveDeparts DEF Departs
    <3> QED
        BY <3>1, <3>2 DEF Moved, Shape
  <2> QED
      BY <1>2, <2>1, <2>2 DEF Finish
<1> QED
    BY <1>1, <1>2

(* Every step of a call has one of the shapes.                             *)
LEMMA StepMoved ==
    ASSUME StoreInv, AllGood, NEW r \in Runs,
           \/ RunStep(r)
           \/ \E kind \in {"Exec", "Resume"}, h \in setting.harnesses : Begin(r, kind, h)
    PROVE  Moved(r)
BY BeginMoved, MintMoved, AppendInvocationMoved, ReadLogMoved, ServeRecordedMoved,
   AnswerDivergedMoved, RejectToolMoved, LiveSinkMoved, InvokeMoved, RecordAnswerMoved,
   FinishMoved
   DEF RunStep

-----------------------------------------------------------------------------
(* The log and what calls remember of it *)

(* The log after the step extends the log before it.                       *)
Extended ==
    /\ Len(body) \in Nat /\ Len(body') \in Nat /\ Len(body) <= Len(body')
    /\ DOMAIN body = 1 .. Len(body) /\ DOMAIN body' = 1 .. Len(body')
    /\ store.fence \in Nat /\ store'.fence \in Nat /\ store.fence <= store'.fence
    /\ \A p \in 1 .. Len(body) : body'[p] = body[p] /\ store'.recs[p] = store.recs[p]

(* The log in numbers.                                                     *)
LEMMA LogFacts ==
    ASSUME StoreInv
    PROVE  /\ Len(body) \in Nat /\ DOMAIN body = 1 .. Len(body)
           /\ store.fence \in Nat /\ Len(store.recs) = Len(body)
           /\ DOMAIN store.recs = 1 .. Len(body)
BY AppendAny DEF StoreInv, Store

(* Every step extends the log.                                             *)
LEMMA ShapeExtends ==
    ASSUME StoreInv, NEW r, Shape(r)
    PROVE  Extended
<1>1. ASSUME LogSame PROVE Extended
    BY <1>1, LogFacts DEF LogSame, Extended
<1>2. ASSUME NEW k, NEW b, Grows(r, k, b) PROVE Extended
    BY <1>2, LogFacts DEF Grows, Extended, Store
<1>3. ASSUME Mints(r) PROVE Extended
    BY <1>3, LogFacts, MintEffect DEF Mints, Extended, StoreInv
<1> QED
    BY <1>1, <1>2, <1>3
       DEF Shape, Begins, Records, Departs, Reads, Serves, Answers, Invokes, Appends

(* The log keeps its type.                                                 *)
LEMMA StoreInvStep ==
    ASSUME StoreInv, NEW r \in Runs, Moved(r)
    PROVE  StoreInv'
<1>0. DOMAIN run' = Runs /\ setting' \in Settings /\ failures' \in 0 .. MaxFailures
    BY DEF Moved, Moves, Histories, StoreInv
<1>1. ASSUME LogSame PROVE StoreInv'
    BY <1>0, <1>1 DEF LogSame, StoreInv, Moved, Histories
<1>2. ASSUME NEW k, NEW b, Grows(r, k, b) PROVE StoreInv'
    BY <1>0, <1>2 DEF Grows, StoreInv, Moved, Histories
<1>3. ASSUME Mints(r) PROVE StoreInv'
  <2>1. store' \in Store /\ store'.deletion = "ACTIVE" /\ store'.recs = store.recs
      BY <1>3, MintEffect DEF Mints, StoreInv
  <2> QED
      BY <1>0, <1>3, <2>1 DEF Mints, StoreInv, Moved, Histories
<1> QED
    BY <1>1, <1>2, <1>3
       DEF Moved, Shape, Begins, Records, Departs, Reads, Serves, Answers, Invokes, Appends

(* What has been read of an execution does not change.                     *)
LEMMA StreamStays ==
    ASSUME Extended, NEW x, NEW n \in 0 .. Len(body)
    PROVE  Stream(x, n)' = Stream(x, n)
BY DEF Extended, Stream

(* An execution that has started has started.                              *)
LEMMA StartedStays ==
    ASSUME Extended, NEW x, Started(x)
    PROVE  Started(x)'
BY DEF Extended, Started

(* A call that does not move keeps what it remembers.                      *)
LEMMA GoodStays ==
    ASSUME Extended, NEW q \in Runs, Good(q), run'[q] = run[q]
    PROVE  Good(q)'
<1>1. run[q].seen \in 0 .. Len(body) /\ run[q].pos \in 0 .. Len(body)
    BY DEF Good
<1>2. StreamOf(q)' = StreamOf(q)
    BY <1>1, StreamStays DEF StreamOf
<1>3. run[q].exec # "none" => Started(run[q].exec)'
    BY StartedStays DEF Good
<1>4. Rest(StreamOf(q)', run'[q].i) = Rest(StreamOf(q), run[q].i)
    BY <1>2
<1>5. run[q].pos # 0 => /\ body'[run[q].pos] = body[run[q].pos]
                        /\ store'.recs[run[q].pos] = store.recs[run[q].pos]
    BY <1>1 DEF Extended
<1>6. run'[q].seen \in 0 .. Len(body') /\ run'[q].pos \in 0 .. Len(body')
    BY <1>1 DEF Extended
<1>7. run'[q].fence \in 0 .. store'.fence
    BY DEF Extended, Good
<1> QED
    BY <1>2, <1>3, <1>4, <1>5, <1>6, <1>7 DEF Good, Rest

(* The record that a growing log has grown by.                             *)
LEMMA NewRecord ==
    ASSUME Len(body) \in Nat, NEW r, NEW k, NEW x, NEW arg, NEW usage,
           Grows(r, k, Body(x, arg, usage))
    PROVE  /\ Len(body) + 1 \in DOMAIN body' /\ Len(body') = Len(body) + 1
           /\ DOMAIN body' = 1 .. Len(body) + 1
           /\ body'[Len(body) + 1].exec = x /\ body'[Len(body) + 1].arg = arg
           /\ body'[Len(body) + 1].usage = usage
           /\ store'.recs[Len(body) + 1].kind = k
<1>1. /\ Body(x, arg, usage).exec = x /\ Body(x, arg, usage).arg = arg
      /\ Body(x, arg, usage).usage = usage
    BY DEF Body
<1>2. DOMAIN body' = 1 .. Len(body) + 1 /\ Len(body') = Len(body) + 1
    BY DEF Grows
<1>3. body'[Len(body) + 1] = Body(x, arg, usage)
    BY DEF Grows
<1>4. store'.recs[Len(body) + 1].kind = k
    BY DEF Grows
<1>5. Len(body) + 1 \in DOMAIN body'
    BY <1>2
<1>6. /\ body'[Len(body) + 1].exec = x /\ body'[Len(body) + 1].arg = arg
      /\ body'[Len(body) + 1].usage = usage
    BY <1>1, <1>3
<1> QED
    BY <1>2, <1>4, <1>5, <1>6

(* The last execution is that of the last record: executions are not       *)
(* mixed.                                                                  *)
LEMMA LastExecutionIs ==
    ASSUME StoreInv, RecInv, SegInv, Executions # {}
    PROVE  /\ Len(body) > 0
           /\ LastExecution = body[Len(body)].exec
           /\ LastExecution \in Runs /\ Started(LastExecution)
<1> DEFINE n == Len(body)
           z == body[n].exec
           Latest(x) ==
               \A y \in Executions : \A p \in RecordsOf(y, {"EXECUTION_START"}) :
                   \E q \in RecordsOf(x, {"EXECUTION_START"}) : p <= q
<1>1. n \in Nat /\ DOMAIN body = 1 .. n
    BY LogFacts
<1>2. n > 0
    BY <1>1 DEF Executions, RecordsOf
<1>3. n \in DOMAIN body
    BY <1>1, <1>2
<1>4. PICK s \in 1 .. n : body[s].exec = z /\ store.recs[s].kind = "EXECUTION_START"
    BY <1>3 DEF RecInv
<1>5. s \in DOMAIN body /\ z \in Runs /\ s \in RecordsOf(z, {"EXECUTION_START"})
    BY <1>1, <1>3, <1>4 DEF RecInv, RecordsOf
<1>6. z \in Executions /\ Started(z)
    BY <1>4, <1>5 DEF Executions, Started
<1>7. Latest(z)
  <2> SUFFICES ASSUME NEW y \in Executions, NEW p \in RecordsOf(y, {"EXECUTION_START"})
               PROVE  \E q \in RecordsOf(z, {"EXECUTION_START"}) : p <= q
      OBVIOUS
  <2>1. p \in 1 .. n /\ store.recs[p].kind = "EXECUTION_START"
      BY <1>1 DEF RecordsOf
  <2>2. CASE p <= s
      BY <1>5, <2>2
  <2>3. CASE s <= p
    <3>1. body[p].exec = z
        BY <1>1, <1>3, <1>4, <1>5, <2>1, <2>3 DEF SegInv
    <3>2. p \in RecordsOf(z, {"EXECUTION_START"})
        BY <1>1, <2>1, <3>1 DEF RecordsOf
    <3> QED
        BY <2>1, <3>2
  <2> QED
      BY <1>1, <1>4, <2>1, <2>2, <2>3
<1>8. LastExecution \in Executions /\ Latest(LastExecution)
    BY <1>6, <1>7 DEF LastExecution
<1>9. LastExecution = z
  <2>1. PICK q \in RecordsOf(LastExecution, {"EXECUTION_START"}) : s <= q
      BY <1>5, <1>6, <1>8
  <2>2. q \in 1 .. n /\ body[q].exec = LastExecution
      BY <1>1, <2>1 DEF RecordsOf
  <2>3. body[q].exec = z
      BY <1>1, <1>3, <1>4, <1>5, <2>1, <2>2 DEF SegInv
  <2> QED
      BY <2>2, <2>3
<1> QED
    BY <1>2, <1>5, <1>6, <1>9

(* A call that moves remembers what its step says.                         *)
LEMMA GoodStep ==
    ASSUME StoreInv, AllGood, RecInv, SegInv, NEW r \in Runs, Moved(r)
    PROVE  Good(r)'
<1>0. Extended /\ Good(r) /\ DOMAIN run'[r] = DOMAIN IdleRun
    BY ShapeExtends DEF Moved, Moves, AllGood
<1>00. r # "none"
    BY TurnAssumption
<1>n. Len(body) \in Nat /\ Len(body') \in Nat /\ Len(body) <= Len(body')
    BY <1>0 DEF Extended
<1>a. \A x, n : n \in 0 .. Len(body) => Stream(x, n)' = Stream(x, n)
    BY <1>0, StreamStays
<1>b. \A x : Started(x) => Started(x)'
    BY <1>0, StartedStays
<1>c. \A n : n \in 0 .. Len(body) => n \in 0 .. Len(body')
    BY <1>n
<1>d. \A f : f \in 0 .. store.fence => f \in 0 .. store'.fence
    BY <1>0 DEF Extended
<1>e. run[r].seen \in 0 .. Len(body) /\ StreamOf(r) = Stream(run[r].exec, run[r].seen)
    BY <1>0 DEF Good, StreamOf
<1>f. ASSUME run'[r].exec = run[r].exec, run'[r].seen = run[r].seen
      PROVE  StreamOf(r)' = StreamOf(r) /\ run'[r].seen \in 0 .. Len(body')
    BY <1>a, <1>c, <1>e, <1>f DEF StreamOf
<1>1. CASE Begins(r)
    BY <1>0, <1>1, <1>b, <1>c, <1>d, <1>f
       DEF Begins, Good, PCs, Running, Calling, Extended
<1>2. CASE Mints(r)
  <2>1. store'.fence = store.fence + 1 /\ store.fence \in Nat
      BY <1>2, MintEffect, LogFacts DEF Mints, StoreInv
  <2> QED
      BY <1>0, <1>2, <1>b, <1>c, <1>f, <2>1
         DEF Mints, Good, PCs, Running, Calling, Extended
<1>3. CASE Records(r)
  <2>1. run[r].seen = 0 /\ run[r].i = 0 /\ ~run[r].failure
    <3>1. run[r].seen = 0
        BY <1>0, <1>3 DEF Records, Good
    <3>2. StreamOf(r) = {}
        BY <3>1 DEF StreamOf, Stream
    <3> QED
        BY <1>0, <1>3, <3>1, <3>2 DEF Records, Good
  <2>2. Started(r)'
    <3>1. CASE At(r, "start")
      <4>2. Grows(r, "EXECUTION_START", Body(r, "", 0))
          BY <1>3, <3>1 DEF Records
      <4>1. /\ Len(body) + 1 \in DOMAIN body' /\ body'[Len(body) + 1].exec = r
            /\ store'.recs[Len(body) + 1].kind = "EXECUTION_START"
          BY <1>n, <4>2, NewRecord
      <4> QED
          BY <4>1 DEF Started
    <3>2. CASE run[r].pc = "input"
        BY <1>0, <1>00, <1>b, <3>2 DEF Good
    <3> QED
        BY <1>3, <3>1, <3>2 DEF Records, At
  <2>3. run'[r].fence \in 0 .. store'.fence /\ run'[r].fence > 0
      BY <1>0, <1>3, <1>d DEF Records, Good
  <2>4. run'[r].pc \in {"run", "input"} /\ run'[r].exec = r
      BY <1>3 DEF Records
  <2> QED
      BY <1>0, <1>00, <1>3, <1>c, <2>1, <2>2, <2>3, <2>4
         DEF Records, Good, PCs, Running, Calling
<1>4. CASE Departs(r)
  <2>1. /\ run'[r].exec = run[r].exec /\ run'[r].pc = "done" /\ run'[r].kind = run[r].kind
        /\ run'[r].fence = 0 /\ run'[r].seen = 0 /\ run'[r].i = 0 /\ run'[r].pos = 0
        /\ run'[r].failure = FALSE
      BY <1>4 DEF Departs
  <2>2. run'[r].exec # "none" => run'[r].exec \in Runs /\ Started(run[r].exec)'
      BY <1>0, <1>b, <2>1 DEF Good
  <2>3. 0 \in 0 .. Len(body') /\ 0 \in 0 .. store'.fence
      BY <1>0 DEF Extended
  <2> QED
      BY <1>0, <2>1, <2>2, <2>3 DEF Good, PCs, Running, Calling
<1>5. CASE Reads(r)
  <2>1. run[r].seen = 0 /\ run[r].i = 0 /\ ~run[r].failure /\ run[r].fence > 0
    <3>1. run[r].seen = 0
        BY <1>0, <1>5 DEF Reads, Good
    <3>2. StreamOf(r) = {}
        BY <3>1 DEF StreamOf, Stream
    <3> QED
        BY <1>0, <1>5, <3>1, <3>2 DEF Reads, Good
  <2>2. LastExecution \in Runs /\ Started(LastExecution)
      BY <1>5, LastExecutionIs DEF Reads
  <2>3. LastExecution # "none"
      BY <2>2, TurnAssumption
  <2>4. run'[r].seen = Len(body') /\ Len(body') \in Nat
      BY <1>5, <1>n, LogFacts DEF Reads, LogSame
  <2> QED
      BY <1>0, <1>5, <1>b, <1>c, <1>d, <2>1, <2>2, <2>3, <2>4
         DEF Reads, Good, PCs, Running, Calling
<1>6. CASE Serves(r)
  <2>1. StreamOf(r)' = StreamOf(r) /\ run'[r].seen \in 0 .. Len(body')
      BY <1>6, <1>f DEF Serves
  <2>2. body' = body /\ store' = store
      BY <1>6 DEF Serves, LogSame
  <2>3. \A p \in StreamOf(r) : p \in 1 .. Len(body) /\ p # 0 /\ body[p].exec = run[r].exec
      BY <1>0, <1>n, <1>e, StreamOfPlaces DEF Stream
  <2>4. /\ run'[r].exec = run[r].exec /\ run'[r].fence = run[r].fence
        /\ run'[r].kind = run[r].kind
        /\ run'[r].fence \in 0 .. store'.fence /\ run'[r].fence > 0
        /\ run'[r].exec # "none" /\ run'[r].exec \in Runs /\ Started(run[r].exec)'
      BY <1>0, <1>6, <1>b, <1>d DEF Serves, Good, Running
  <2>5. CASE run'[r].pc = "run"
      BY <1>0, <1>6, <2>1, <2>2, <2>4, <2>5 DEF Serves, Good, PCs, Running, Calling
  <2>6. CASE run'[r].pc \in {"model", "tool"}
    <3>1. /\ run'[r].pos = run'[r].i /\ run'[r].i \in StreamOf(r) /\ ~run'[r].failure
          /\ Rest(StreamOf(r), run'[r].i) = {}
          /\ store.recs[run'[r].i].kind =
                IF run'[r].pc = "model" THEN "MODEL_CALL" ELSE "TOOL_CALL"
        BY <1>6, <2>6 DEF Serves
    <3>2. /\ run'[r].pos \in 0 .. Len(body') /\ run'[r].pos # 0
          /\ body'[run'[r].pos].exec = run'[r].exec
        BY <1>n, <2>2, <2>3, <2>4, <3>1
    <3>3. Rest(StreamOf(r)', run'[r].i) = {}
        BY <2>1, <3>1
    <3>4. run'[r].failure \in BOOLEAN
        BY <1>6, <2>6 DEF Serves
    <3> QED
        BY <1>0, <2>1, <2>2, <2>4, <2>6, <3>1, <3>2, <3>3, <3>4
           DEF Good, PCs, Running, Calling, Rest
  <2> QED
      BY <1>6, <2>5, <2>6 DEF Serves
<1>7. CASE Answers(r)
  <2>1. StreamOf(r)' = StreamOf(r) /\ run'[r].seen \in 0 .. Len(body')
      BY <1>7, <1>f DEF Answers
  <2> QED
      BY <1>0, <1>7, <1>b, <1>c, <1>d, <2>1 DEF Answers, Good, PCs, Running, Calling
<1>8. CASE Invokes(r)
  <2>1. StreamOf(r)' = StreamOf(r) /\ run'[r].seen \in 0 .. Len(body')
      BY <1>8, <1>f DEF Invokes
  <2>2. body' = body /\ store' = store /\ Rest(StreamOf(r), run[r].i)' = Rest(StreamOf(r), run[r].i)
      BY <1>8, <2>1 DEF Invokes, LogSame, Rest
  <2> QED
      BY <1>0, <1>8, <1>b, <1>c, <1>d, <2>1, <2>2
         DEF Invokes, Good, PCs, Running, Calling, Rest
<1>9. CASE Appends(r)
  <2>1. StreamOf(r)' = StreamOf(r) /\ run'[r].seen \in 0 .. Len(body')
      BY <1>9, <1>f DEF Appends
  <2>2. Rest(StreamOf(r)', run'[r].i) = {}
      BY <1>9, <2>1 DEF Appends
  <2>3. /\ run'[r].exec = run[r].exec /\ run'[r].fence = run[r].fence
        /\ run'[r].kind = run[r].kind /\ run'[r].i = run[r].i
        /\ run'[r].failure = run[r].failure /\ run[r].failure = FALSE
        /\ run'[r].fence \in 0 .. store'.fence /\ run'[r].fence > 0
        /\ run'[r].exec # "none" /\ run'[r].exec \in Runs /\ Started(run[r].exec)'
      BY <1>0, <1>9, <1>b, <1>d DEF Appends, Good, Running
  <2>4. PICK k \in EffectKinds : \E arg, usage :
            /\ Grows(r, k, Body(run[r].exec, arg, usage))
            /\ \/ run'[r].pc = "run" /\ run'[r].pos = run[r].pos
               \/ /\ run'[r].pos = Len(body) + 1
                  /\ \/ run'[r].pc = "model" /\ k = "MODEL_CALL"
                     \/ run'[r].pc = "tool" /\ k = "TOOL_CALL"
      BY <1>9 DEF Appends
  <2>5. /\ body'[Len(body) + 1].exec = run[r].exec
        /\ store'.recs[Len(body) + 1].kind = k
        /\ Len(body) + 1 \in 0 .. Len(body') /\ Len(body) + 1 # 0
      BY <1>n, <2>4 DEF Grows, Body
  <2>6. run[r].pos \in 0 .. Len(body')
      BY <1>0, <1>c DEF Good
  <2>7. CASE run'[r].pc = "run"
      BY <1>0, <2>1, <2>3, <2>4, <2>5, <2>6, <2>7 DEF Good, PCs, Running, Calling
  <2>8. CASE run'[r].pc # "run"
      BY <1>0, <2>1, <2>2, <2>3, <2>4, <2>5, <2>8 DEF Good, PCs, Running, Calling, Rest
  <2> QED
      BY <2>7, <2>8
<1> QED
    BY <1>1, <1>2, <1>3, <1>4, <1>5, <1>6, <1>7, <1>8, <1>9 DEF Moved, Shape

-----------------------------------------------------------------------------
(* Whose record is appended *)

(* A step of r that leaves the records alone, or appends one of kind k to  *)
(* execution x.                                                            *)
Keeps == body' = body /\ store'.recs = store.recs

AppendsTo(r, k, x) ==
    /\ \E arg, usage : Grows(r, k, Body(x, arg, usage))
    /\ x \in Runs /\ run'[r].exec = x /\ run'[r].fence \in {0, run[r].fence}
    /\ run[r].fence = store.fence /\ run[r].fence > 0 /\ store'.fence = store.fence
    /\ \/ k = "EXECUTION_START" /\ run[r].pc = "start" /\ x = r
       \/ k = "INPUT" /\ run[r].pc = "input" /\ x = r /\ run[r].exec = x
       \/ k \in EffectKinds \union {"END", "ERROR"} /\ run[r].pc \in Running /\ run[r].exec = x

(* Every step does one or the other.                                       *)
LEMMA ShapeAppends ==
    ASSUME StoreInv, AllGood, NEW r \in Runs, Moved(r)
    PROVE  Keeps \/ \E k, x : AppendsTo(r, k, x)
<1>0. Good(r)
    BY DEF AllGood
<1>1. ASSUME LogSame PROVE Keeps
    BY <1>1 DEF LogSame, Keeps
<1>2. ASSUME Mints(r) PROVE Keeps
    BY <1>2, MintEffect DEF Mints, StoreInv, Keeps
<1>3. ASSUME Records(r) PROVE \E k, x : AppendsTo(r, k, x)
  <2>1. run[r].fence > 0 /\ (run[r].pc = "input" => run[r].exec = r)
      BY <1>0, <1>3 DEF Records, Good
  <2> DEFINE k == IF At(r, "start") THEN "EXECUTION_START" ELSE "INPUT"
  <2>2. Grows(r, k, Body(r, "", 0)) /\ run'[r].exec = r /\ run'[r].fence = run[r].fence
      BY <1>3 DEF Records
  <2>3. store'.fence = store.fence /\ run[r].fence = store.fence
      BY <2>2 DEF Grows
  <2>4. AppendsTo(r, k, r)
      BY <1>3, <2>1, <2>2, <2>3 DEF AppendsTo, Records, At
  <2> QED
      BY <2>4
<1>4. ASSUME NEW k, NEW arg, NEW usage, Grows(r, k, Body(run[r].exec, arg, usage)),
             k \in EffectKinds \union {"END", "ERROR"}, run[r].pc \in Running,
             run'[r].exec = run[r].exec, run'[r].fence \in {0, run[r].fence}
      PROVE  AppendsTo(r, k, run[r].exec)
  <2>1. run[r].exec \in Runs /\ run[r].fence > 0
      BY <1>0, <1>4 DEF Good
  <2>2. store'.fence = store.fence /\ run[r].fence = store.fence
      BY <1>4 DEF Grows
  <2> QED
      BY <1>4, <2>1, <2>2 DEF AppendsTo
<1>5. ASSUME Departs(r) PROVE Keeps \/ \E k, x : AppendsTo(r, k, x)
    BY <1>1, <1>4, <1>5 DEF Departs, Running
<1>6. ASSUME Appends(r) PROVE \E k, x : AppendsTo(r, k, x)
    BY <1>4, <1>6 DEF Appends
<1> QED
    BY <1>1, <1>2, <1>3, <1>5, <1>6
       DEF Moved, Shape, Begins, Reads, Serves, Answers, Invokes

(* A call goes on with the execution it has.                               *)
LEMMA ExecStays ==
    ASSUME AllGood, NEW r \in Runs, Moved(r), NEW q \in Runs, run[q].exec # "none"
    PROVE  run'[q].exec = run[q].exec
<1>1. CASE q # r
    BY <1>1 DEF Moved, Moves
<1>2. CASE q = r
  <2>1. Good(r)
      BY DEF AllGood
  <2> QED
      BY <1>2, <2>1
         DEF Good, Moved, Shape, Begins, Mints, Records, Departs, Reads, Serves, Answers,
             Invokes, Appends
<1> QED
    BY <1>1, <1>2

(* The records of a new invocation are the first with its name.            *)
LEMMA NoRecordsBefore ==
    ASSUME AllGood, RecInv, NEW r \in Runs, run[r].pc = "start"
    PROVE  \A p \in DOMAIN body : body[p].exec # r
<1>1. run[r].exec = "none" /\ r # "none"
    BY TurnAssumption DEF AllGood, Good
<1> QED
    BY <1>1 DEF RecInv

(* Every record belongs to a started execution.                            *)
LEMMA RecInvStep ==
    ASSUME StoreInv, AllGood, RecInv, NEW r \in Runs, Moved(r)
    PROVE  RecInv'
<1>0. /\ Extended /\ Len(body) \in Nat /\ DOMAIN body = 1 .. Len(body)
      /\ \A p \in 1 .. Len(body) : body'[p] = body[p] /\ store'.recs[p] = store.recs[p]
    BY ShapeExtends DEF Moved, Extended
<1>1. ASSUME NEW p \in 1 .. Len(body)
      PROVE  /\ body'[p].exec \in Runs
             /\ run'[body'[p].exec].exec = body'[p].exec
             /\ \E s \in 1 .. p : body'[s].exec = body'[p].exec
                                  /\ store'.recs[s].kind = "EXECUTION_START"
  <2>1. /\ body[p].exec \in Runs /\ run[body[p].exec].exec = body[p].exec
        /\ \E s \in 1 .. p : body[s].exec = body[p].exec
                             /\ store.recs[s].kind = "EXECUTION_START"
      BY <1>0 DEF RecInv
  <2>2. body[p].exec # "none"
      BY <2>1, TurnAssumption
  <2>3. run'[body[p].exec].exec = body[p].exec
      BY <2>1, <2>2, ExecStays
  <2> QED
      BY <1>0, <2>1, <2>3
<1>2. CASE Keeps
    BY <1>0, <1>1, <1>2 DEF Keeps, RecInv
<1>3. ASSUME NEW k, NEW x, AppendsTo(r, k, x) PROVE RecInv'
  <2> DEFINE n == Len(body) + 1
  <2>1. /\ n \in DOMAIN body' /\ DOMAIN body' = 1 .. n
        /\ body'[n].exec = x /\ store'.recs[n].kind = k
      BY <1>0, <1>3, NewRecord DEF AppendsTo
  <2>2. x \in Runs /\ x # "none"
      BY <1>3, TurnAssumption DEF AppendsTo
  <2>3. run'[x].exec = x
    <3>1. CASE x = r
        BY <1>3, <3>1 DEF AppendsTo
    <3>2. CASE x # r
      <4>1. run[r].exec = x /\ Started(x)
          BY <1>3, <2>2, <3>2 DEF AppendsTo, AllGood, Good
      <4>2. run[x].exec = x
          BY <4>1 DEF Started, RecInv
      <4> QED
          BY <2>2, <4>2, ExecStays
    <3> QED
        BY <3>1, <3>2
  <2>4. \E s \in 1 .. n : body'[s].exec = x /\ store'.recs[s].kind = "EXECUTION_START"
    <3>1. CASE k = "EXECUTION_START"
        BY <1>0, <2>1, <3>1
    <3>2. CASE k # "EXECUTION_START"
      <4>1. Started(x)
          BY <1>3, <2>2, <3>2 DEF AppendsTo, AllGood, Good
      <4> QED
          BY <1>0, <4>1 DEF Started
    <3> QED
        BY <3>1, <3>2
  <2>5. \A p \in 1 .. n : p \in 1 .. Len(body) \/ p = n
      BY <1>0
  <2> HIDE DEF n
  <2> QED
      BY <1>1, <2>1, <2>2, <2>3, <2>4, <2>5 DEF RecInv
<1> QED
    BY <1>2, <1>3, ShapeAppends

(* An append to the last execution does not mix executions.                *)
LEMMA SegInvStep ==
    ASSUME StoreInv, AllGood, RecInv, SegInv, OwnInv, NEW r \in Runs, Moved(r)
    PROVE  SegInv'
<1>0. /\ Len(body) \in Nat /\ DOMAIN body = 1 .. Len(body)
      /\ \A p \in 1 .. Len(body) : body'[p] = body[p] /\ store'.recs[p] = store.recs[p]
    BY ShapeExtends DEF Moved, Extended
<1>1. CASE Keeps
    BY <1>0, <1>1 DEF Keeps, SegInv
<1>2. ASSUME NEW k, NEW x, AppendsTo(r, k, x) PROVE SegInv'
  <2> DEFINE n == Len(body) + 1
  <2>1. /\ DOMAIN body' = 1 .. n /\ body'[n].exec = x /\ store'.recs[n].kind = k
      BY <1>0, <1>2, NewRecord DEF AppendsTo
  <2>2. SUFFICES ASSUME NEW s \in 1 .. n, NEW p \in 1 .. n, NEW q \in 1 .. n,
                        store'.recs[s].kind = "EXECUTION_START",
                        body'[s].exec = body'[q].exec, s <= p, p <= q
                 PROVE  body'[p].exec = body'[q].exec
      BY <2>1 DEF SegInv
  <2>3. CASE q # n
    <3>1. s \in 1 .. Len(body) /\ p \in 1 .. Len(body) /\ q \in 1 .. Len(body)
        BY <1>0, <2>2, <2>3
    <3> QED
        BY <1>0, <2>2, <3>1 DEF SegInv
  <2>4. CASE q = n /\ p # n
    <3>1. s \in 1 .. Len(body) /\ p \in 1 .. Len(body) /\ Len(body) \in 1 .. Len(body)
        BY <1>0, <2>2, <2>4
    <3>2. body[s].exec = x /\ store.recs[s].kind = "EXECUTION_START"
        BY <1>0, <2>1, <2>2, <2>4, <3>1
    <3>3. run[r].pc # "start"
      <4>1. run[r].pc = "start" => x = r
          BY <1>2 DEF AppendsTo, Running, Calling
      <4> QED
          BY <1>0, <3>1, <3>2, <4>1, NoRecordsBefore
    <3>4. run[r].pc \in Running \union {"input"} /\ run[r].exec = x /\ Owns(r)
        BY <1>2, <3>3 DEF AppendsTo, Owns
    <3>5. body[Len(body)].exec = x
        BY <3>4 DEF OwnInv
    <3>6. body[p].exec = x
        BY <1>0, <2>2, <3>1, <3>2, <3>5 DEF SegInv
    <3> QED
        BY <1>0, <2>1, <2>4, <3>1, <3>6
  <2>5. CASE q = n /\ p = n
      BY <2>5
  <2> QED
      BY <2>3, <2>4, <2>5
<1> QED
    BY <1>1, <1>2, ShapeAppends

(* What a step does to a fence.                                            *)
LEMMA FenceStep ==
    ASSUME StoreInv, NEW r \in Runs, Moved(r)
    PROVE  \/ store'.fence = store.fence /\ run'[r].fence \in {0, run[r].fence}
           \/ Mints(r) /\ store'.fence = store.fence + 1 /\ run'[r].fence = store'.fence
<1>1. ASSUME Mints(r)
      PROVE  store'.fence = store.fence + 1 /\ run'[r].fence = store'.fence
    BY <1>1, MintEffect DEF Mints, StoreInv
<1>2. ASSUME LogSame PROVE store'.fence = store.fence
    BY <1>2 DEF LogSame
<1>3. ASSUME NEW k, NEW b, Grows(r, k, b) PROVE store'.fence = store.fence
    BY <1>3 DEF Grows
<1> QED
    BY <1>1, <1>2, <1>3
       DEF Moved, Shape, Begins, Records, Departs, Reads, Serves, Answers, Invokes, Appends

(* A fence is given to one call only.                                      *)
LEMMA OneOwnerStep ==
    ASSUME StoreInv, AllGood, OneOwner, NEW r \in Runs, Moved(r)
    PROVE  OneOwner'
<1>0. /\ store.fence \in Nat
      /\ \A q \in Runs : run[q].fence \in 0 .. store.fence
      /\ \A q \in Runs \ {r} : run'[q] = run[q]
    BY LogFacts DEF AllGood, Good, Moved, Moves
<1>1. CASE store'.fence = store.fence /\ run'[r].fence \in {0, run[r].fence}
    BY <1>0, <1>1 DEF OneOwner
<1>2. CASE store'.fence = store.fence + 1 /\ run'[r].fence = store'.fence
    BY <1>0, <1>2 DEF OneOwner
<1> QED
    BY <1>1, <1>2, FenceStep

(* What follows an intent of the last execution is an effect of it.        *)
LEMMA LastEffect ==
    ASSUME StoreInv, RecInv, SegInv, NEW x, Len(body) > 0, body[Len(body)].exec = x,
           NEW p \in DOMAIN body, body[p].exec = x, Rest(Stream(x, Len(body)), p) = {}
    PROVE  \A q \in DOMAIN body : store.recs[q].kind \in EffectKinds => q <= p
<1> SUFFICES ASSUME NEW q \in DOMAIN body, store.recs[q].kind \in EffectKinds, ~(q <= p)
             PROVE  FALSE
    OBVIOUS
<1>1. Len(body) \in Nat /\ DOMAIN body = 1 .. Len(body)
    BY LogFacts
<1>2. PICK s \in 1 .. p : body[s].exec = x /\ store.recs[s].kind = "EXECUTION_START"
    BY DEF RecInv
<1>3. s \in DOMAIN body /\ Len(body) \in DOMAIN body /\ s <= q /\ q <= Len(body) /\ q > p
    BY <1>1, <1>2
<1>4. body[q].exec = x
    BY <1>2, <1>3 DEF SegInv
<1>5. q \in Rest(Stream(x, Len(body)), p)
    BY <1>1, <1>3, <1>4 DEF Rest, Stream
<1> QED
    BY <1>5

(* The owner's place in the log.                                           *)
LEMMA OwnInvStep ==
    ASSUME CoreInv, NEW r \in Runs, Moved(r)
    PROVE  OwnInv'
<1>0. StoreInv /\ AllGood /\ RecInv /\ SegInv /\ OneOwner /\ OwnInv
    BY DEF CoreInv
<1>1. /\ Extended /\ Len(body) \in Nat /\ DOMAIN body = 1 .. Len(body)
      /\ \A p \in 1 .. Len(body) : body'[p] = body[p] /\ store'.recs[p] = store.recs[p]
      /\ store.fence \in Nat
    BY <1>0, ShapeExtends DEF Moved, Extended
<1>2. \A q \in Runs : /\ run[q].fence \in 0 .. store.fence
                      /\ run[q].seen \in 0 .. Len(body)
                      /\ q # r => run'[q] = run[q]
    BY <1>0 DEF AllGood, Good, Moved, Moves
<1> SUFFICES ASSUME NEW q \in Runs, Owns(q)'
             PROVE  /\ run'[q].pc \in Running \union {"input"} =>
                          Len(body') > 0 /\ body'[Len(body')].exec = run'[q].exec
                    /\ run'[q].pc = "run" /\ Rest(StreamOf(q)', run'[q].i) # {} =>
                          run'[q].seen = Len(body')
                    /\ run'[q].pc \in Calling =>
                          \A p \in DOMAIN body' :
                              store'.recs[p].kind \in EffectKinds => p <= run'[q].pos
    BY DEF OwnInv, Rest
<1>3. CASE Mints(r)
  <2>1. store'.fence = store.fence + 1
      BY <1>0, <1>3, MintEffect DEF Mints, StoreInv
  <2>2. q = r
      BY <1>1, <1>2, <2>1 DEF Owns
  <2> QED
      BY <1>3, <2>2 DEF Mints, Running, Calling
<1>4. CASE q # r /\ store'.fence = store.fence
  <2>1. run'[q] = run[q] /\ Owns(q)
      BY <1>2, <1>4 DEF Owns
  <2>2. CASE Keeps
    <3>1. StreamOf(q)' = StreamOf(q)
        BY <1>1, <1>2, <2>1, StreamStays DEF StreamOf
    <3> QED
        BY <1>0, <2>1, <2>2, <3>1 DEF OwnInv, Keeps
  <2>3. ASSUME NEW k, NEW x, AppendsTo(r, k, x) PROVE FALSE
      BY <1>0, <1>4, <2>1, <2>3 DEF AppendsTo, Owns, OneOwner
  <2> QED
      BY <1>0, <2>2, <2>3, ShapeAppends
<1>5. CASE q = r /\ store'.fence = store.fence
  <2>1. run'[r].fence = run[r].fence /\ Owns(r) /\ ~Departs(r)
    <3>1. run'[r].fence > 0 /\ run'[r].fence = store.fence
        BY <1>5 DEF Owns
    <3>2. run'[r].fence \in {0, run[r].fence}
        BY <1>0, <1>1, <1>5, FenceStep
    <3>3. run'[r].fence # 0
        BY <1>1, <3>1
    <3>4. run'[r].fence = run[r].fence
        BY <3>2, <3>3
    <3>5. ~Departs(r)
        BY <3>3 DEF Departs
    <3> QED
        BY <3>1, <3>4, <3>5 DEF Owns
  <2>2. CASE Begins(r)
      BY <1>5, <2>2 DEF Begins, Running, Calling
  <2>3. CASE Records(r)
    <3>1. run[r].seen = 0 /\ run'[r].seen = 0 /\ run'[r].exec = r
        BY <1>0, <2>3 DEF AllGood, Good, Records
    <3>2. Rest(StreamOf(r)', run'[r].i) = {}
        BY <3>1 DEF Rest, StreamOf, Stream
    <3>3. run'[r].pc \in {"run", "input"}
        BY <2>3 DEF Records
    <3>4. body'[Len(body')].exec = r /\ Len(body') > 0
      <4>1. PICK k : Grows(r, k, Body(r, "", 0))
          BY <2>3 DEF Records
      <4>3. Len(body) \in Nat
          BY <1>1
      <4>2. body'[Len(body) + 1].exec = r /\ Len(body') = Len(body) + 1
          BY <4>1, <4>3, NewRecord
      <4> QED
          BY <1>1, <4>2
    <3> QED
        BY <1>5, <3>1, <3>2, <3>3, <3>4 DEF Calling
  <2>4. CASE Reads(r)
    <3>1. Len(body) > 0 /\ LastExecution = body[Len(body)].exec
        BY <1>0, <2>4, LastExecutionIs DEF Reads
    <3>2. body' = body /\ run'[r].seen = Len(body) /\ run'[r].pc = "run"
        BY <1>0, <2>4, LogFacts DEF Reads, LogSame
    <3> QED
        BY <1>5, <2>4, <3>1, <3>2 DEF Reads, Calling
  <2>5. CASE Serves(r)
    <3>1. body' = body /\ store' = store /\ run'[r].exec = run[r].exec
        BY <2>5 DEF Serves, LogSame
    <3>2. /\ Len(body) > 0 /\ body[Len(body)].exec = run[r].exec
          /\ run[r].seen = Len(body) /\ run'[r].seen = Len(body)
        BY <1>0, <2>1, <2>5 DEF OwnInv, Serves, Running
    <3>3. ASSUME run'[r].pc \in Calling
          PROVE  \A p \in DOMAIN body' : store'.recs[p].kind \in EffectKinds => p <= run'[r].pos
      <4>1. /\ run'[r].pos \in StreamOf(r) /\ Rest(StreamOf(r), run'[r].pos) = {}
          BY <2>5, <3>3 DEF Serves, Calling
      <4>2. StreamOf(r) = Stream(run[r].exec, Len(body))
          BY <3>2 DEF StreamOf
      <4>3. run'[r].pos \in DOMAIN body /\ body[run'[r].pos].exec = run[r].exec
          BY <1>1, <4>1, <4>2 DEF Stream
      <4> QED
          BY <1>0, <3>1, <3>2, <4>1, <4>2, <4>3, LastEffect
    <3> QED
        BY <1>5, <3>1, <3>2, <3>3
  <2>6. CASE Answers(r)
    <3>1. StreamOf(r)' = StreamOf(r)
        BY <1>1, <1>2, <2>6, StreamStays DEF StreamOf, Answers
    <3>2. run[r].pc # "run" => Rest(StreamOf(r), run[r].i) = {}
        BY <1>0, <2>6 DEF Answers, Running, AllGood, Good
    <3>3. body' = body /\ store' = store
        BY <2>6 DEF Answers, LogSame
    <3> QED
        BY <1>0, <1>5, <2>1, <2>6, <3>1, <3>2, <3>3 DEF Answers, OwnInv, Calling
  <2>7. CASE Invokes(r)
    <3>1. body' = body /\ store' = store
        BY <2>7 DEF Invokes, LogSame
    <3>2. run[r].pc \in Calling /\ run'[r].pc \in Calling /\ run'[r].pc # "run"
        BY <2>7 DEF Invokes, Calling
    <3>3. run'[r].exec = run[r].exec /\ run'[r].pos = run[r].pos
        BY <2>7 DEF Invokes
    <3> QED
        BY <1>0, <1>5, <2>1, <3>1, <3>2, <3>3 DEF OwnInv, Running
  <2>8. CASE Appends(r)
    <3>1. StreamOf(r)' = StreamOf(r) /\ run'[r].i = run[r].i /\ run'[r].exec = run[r].exec
        BY <1>1, <1>2, <2>8, StreamStays DEF StreamOf, Appends
    <3>2. Rest(StreamOf(r)', run'[r].i) = {}
        BY <2>8, <3>1 DEF Appends
    <3>3. Len(body') = Len(body) + 1 /\ body'[Len(body')].exec = run[r].exec
          /\ DOMAIN body' = 1 .. Len(body) + 1
        BY <1>1, <2>8, NewRecord DEF Appends
    <3>4. run'[r].pc \in Calling => run'[r].pos = Len(body) + 1
        BY <2>8 DEF Appends, Calling
    <3>5. Len(body') > 0 /\ \A p \in DOMAIN body' : p <= Len(body) + 1
        BY <1>1, <3>3
    <3> QED
        BY <1>5, <3>1, <3>2, <3>3, <3>4, <3>5
  <2> QED
      BY <1>3, <2>1, <2>2, <2>3, <2>4, <2>5, <2>6, <2>7, <2>8 DEF Moved, Shape
<1> QED
    BY <1>0, <1>3, <1>4, <1>5, FenceStep

-----------------------------------------------------------------------------
(* Inputs *)

(* The records of an execution after a step.                               *)
LEMMA RecordsStay ==
    ASSUME StoreInv, AllGood, NEW r \in Runs, Moved(r), NEW y, NEW K,
           \A k, x : AppendsTo(r, k, x) => x # y \/ k \notin K
    PROVE  RecordsOf(y, K)' = RecordsOf(y, K)
<1>0. /\ Len(body) \in Nat /\ DOMAIN body = 1 .. Len(body)
      /\ \A p \in 1 .. Len(body) : body'[p] = body[p] /\ store'.recs[p] = store.recs[p]
    BY ShapeExtends DEF Moved, Extended
<1>1. CASE Keeps
    BY <1>0, <1>1 DEF Keeps, RecordsOf
<1>2. ASSUME NEW k, NEW x, AppendsTo(r, k, x) PROVE RecordsOf(y, K)' = RecordsOf(y, K)
  <2> DEFINE n == Len(body) + 1
  <2>1. /\ DOMAIN body' = 1 .. n /\ body'[n].exec = x /\ store'.recs[n].kind = k
      BY <1>0, <1>2, NewRecord DEF AppendsTo
  <2>2. x # y \/ k \notin K
      BY <1>2
  <2>3. \A p \in 1 .. n : p \in 1 .. Len(body) \/ p = n
      BY <1>0
  <2>4. 1 .. Len(body) \subseteq 1 .. n
      BY <1>0
  <2> HIDE DEF n
  <2> QED
      BY <1>0, <2>1, <2>2, <2>3, <2>4 DEF RecordsOf
<1> QED
    BY <1>1, <1>2, ShapeAppends

(* An INPUT that is appended is one more.                                  *)
LEMMA RecordsGrow ==
    ASSUME StoreInv, AllGood, NEW r \in Runs, Moved(r), NEW k, NEW x, AppendsTo(r, k, x)
    PROVE  /\ Cardinality(RecordsOf(x, {k})) \in Nat
           /\ Cardinality(RecordsOf(x, {k})') = Cardinality(RecordsOf(x, {k})) + 1
<1> DEFINE n == Len(body) + 1
           R == RecordsOf(x, {k})
<1>0. /\ Len(body) \in Nat /\ DOMAIN body = 1 .. Len(body)
      /\ \A p \in 1 .. Len(body) : body'[p] = body[p] /\ store'.recs[p] = store.recs[p]
    BY ShapeExtends DEF Moved, Extended
<1>1. DOMAIN body' = 1 .. n /\ body'[n].exec = x /\ store'.recs[n].kind = k
    BY <1>0, NewRecord DEF AppendsTo
<1>2. (1 .. n) = (1 .. Len(body)) \union {n} /\ n \notin 1 .. Len(body)
    BY <1>0
<1>3. R \subseteq 1 .. Len(body)
    BY <1>0 DEF RecordsOf
<1>4. R' = R \union {n}
  <2> HIDE DEF n
  <2> QED
      BY <1>0, <1>1, <1>2 DEF RecordsOf
<1>5. IsFiniteSet(R) /\ n \notin R
  <2>1. IsFiniteSet(1 .. Len(body))
      BY <1>0, FS_Interval
  <2> HIDE DEF R, n
  <2> QED
      BY <1>2, <1>3, <2>1, FS_Subset
<1> HIDE DEF R, n
<1>6. Cardinality(R) \in Nat /\ Cardinality(R \union {n}) = Cardinality(R) + 1
    BY <1>5, FS_AddElement, FS_CardinalityType
<1> QED
    BY <1>4, <1>6 DEF R

(* A harness runs on all its inputs; while Exec records them, nobody does. *)
LEMMA InputInvStep ==
    ASSUME CoreInv, NEW r \in Runs, Moved(r)
    PROVE  InputInv'
<1>0. StoreInv /\ AllGood /\ RecInv /\ SegInv /\ InputInv
    BY DEF CoreInv
<1>1. \A q \in Runs : q # r => run'[q] = run[q]
    BY DEF Moved, Moves
<1>r. \A q \in Runs : q # "none"
    BY TurnAssumption
<1> SUFFICES ASSUME NEW q \in Runs
             PROVE  /\ run'[q].pc = "input" => Cardinality(RecordsOf(q, {"INPUT"})') < Inputs
                    /\ run'[q].pc \in Running =>
                          Cardinality(RecordsOf(run[q].exec, {"INPUT"})') = Inputs
    BY DEF InputInv
<1>g. ASSUME LogSame, NEW k, NEW x, AppendsTo(r, k, x) PROVE FALSE
  <2>1. Len(body) \in Nat /\ Len(body') = Len(body)
      BY <1>0, <1>g, LogFacts DEF LogSame
  <2>2. Len(body') = Len(body) + 1
      BY <1>g DEF AppendsTo, Grows
  <2> QED
      BY <2>1, <2>2
<1>2. CASE Records(r) /\ run[r].pc = "input"
  <2> DEFINE c == Cardinality(RecordsOf(r, {"INPUT"}))
  <2>1. run[r].exec = r /\ c < Inputs
      BY <1>0, <1>2 DEF AllGood, Good, InputInv
  <2>2. \A k, x : AppendsTo(r, k, x) => k = "INPUT" /\ x = r
      BY <1>2 DEF AppendsTo, Running, Calling
  <2>3. ~Keeps
    <3>1. PICK k : Grows(r, k, Body(r, "", 0))
        BY <1>2 DEF Records
    <3>2. Len(body') = Len(body) + 1 /\ Len(body) \in Nat
        BY <1>0, <3>1, LogFacts DEF Grows
    <3> QED
        BY <3>2 DEF Keeps
  <2>4. AppendsTo(r, "INPUT", r)
      BY <1>0, <2>2, <2>3, ShapeAppends
  <2>5. c \in Nat /\ Cardinality(RecordsOf(r, {"INPUT"})') = c + 1
      BY <1>0, <2>4, RecordsGrow
  <2>6. \A y : y # r => RecordsOf(y, {"INPUT"})' = RecordsOf(y, {"INPUT"})
      BY <1>0, <2>2, RecordsStay
  <2>7. CASE q = r
    <3>1. Sent(r) = c + 1
        BY <1>2 DEF Sent, At
    <3>2. run'[r].exec = r /\ run'[r].pc = IF c + 1 = Inputs THEN "run" ELSE "input"
        BY <1>2, <3>1 DEF Records
    <3> HIDE DEF c
    <3> QED
        BY <2>1, <2>5, <2>7, <3>2, TurnAssumption DEF Running, Calling
  <2>8. CASE q # r
    <3>1. run'[q] = run[q]
        BY <1>1, <2>8
    <3>2. run[q].pc \in Running => run[q].exec # r
        BY <1>0, <2>1, <2>5, TurnAssumption DEF InputInv
    <3> QED
        BY <1>0, <2>6, <2>8, <3>1, <3>2 DEF InputInv
  <2> QED
      BY <2>7, <2>8
<1>3. CASE Records(r) /\ run[r].pc = "start"
  <2>1. \A k, x : AppendsTo(r, k, x) => k \notin {"INPUT"}
      BY <1>3 DEF AppendsTo, Running, Calling
  <2>2. \A y : RecordsOf(y, {"INPUT"})' = RecordsOf(y, {"INPUT"})
      BY <1>0, <2>1, RecordsStay
  <2>3. CASE q = r
    <3>1. RecordsOf(r, {"INPUT"}) = {}
        BY <1>0, <1>3, NoRecordsBefore DEF RecordsOf
    <3>2. Cardinality(RecordsOf(r, {"INPUT"})) = 0
        BY <3>1, FS_EmptySet
    <3>3. Sent(r) = 0
        BY <1>3, <3>2 DEF Sent, At
    <3>4. run'[r].exec = r /\ run'[r].pc = IF 0 = Inputs THEN "run" ELSE "input"
        BY <1>3, <3>3 DEF Records
    <3> QED
        BY <2>2, <2>3, <3>2, <3>4, TurnAssumption DEF Running, Calling
  <2>4. CASE q # r
      BY <1>0, <1>1, <2>2, <2>4 DEF InputInv
  <2> QED
      BY <2>3, <2>4
<1>4. CASE ~Records(r)
  <2>1. \A k, x : AppendsTo(r, k, x) => k \notin {"INPUT"}
    <3> SUFFICES ASSUME NEW x, AppendsTo(r, "INPUT", x) PROVE FALSE
        OBVIOUS
    <3>1. run[r].pc = "input"
        BY DEF AppendsTo, EffectKinds
    <3>2. Departs(r) /\ LogSame
        BY <1>4, <3>1
           DEF Moved, Shape, Begins, Mints, Departs, Reads, Serves, Answers, Invokes, Appends,
               Running, Calling
    <3> QED
        BY <1>g, <3>2
  <2>2. \A y : RecordsOf(y, {"INPUT"})' = RecordsOf(y, {"INPUT"})
      BY <1>0, <2>1, RecordsStay
  <2>3. CASE q # r
      BY <1>0, <1>1, <2>2, <2>3 DEF InputInv
  <2>4. CASE q = r /\ Reads(r)
    <3>1. run'[r].exec = LastExecution /\ run'[r].pc = "run"
        BY <2>4 DEF Reads
    <3>2. Cardinality(RecordsOf(LastExecution, {"INPUT"})) = Inputs
        BY <2>4 DEF Reads, ValidInputs
    <3> QED
        BY <2>2, <2>4, <3>1, <3>2
  <2>5. CASE q = r /\ ~Reads(r)
    <3>1. run'[r].pc # "input"
        BY <1>4, <2>5
           DEF Moved, Shape, Begins, Mints, Departs, Serves, Answers, Invokes, Appends
    <3>2. run'[r].pc \in Running => run[r].pc \in Running /\ run'[r].exec = run[r].exec
        BY <1>4, <2>5
           DEF Moved, Shape, Begins, Mints, Departs, Serves, Answers, Invokes, Appends, Running,
               Calling
    <3> QED
        BY <1>0, <2>2, <2>5, <3>1, <3>2 DEF InputInv
  <2> QED
      BY <2>3, <2>4, <2>5
<1> QED
    BY <1>2, <1>3, <1>4 DEF Records

-----------------------------------------------------------------------------
(* What every behaviour keeps *)

(* A session nobody has called.                                            *)
LEMMA CoreInit ==
    ASSUME Init
    PROVE  CoreInv
<1>1. EmptyStore \in Store
    BY DEF EmptyStore, Store, ComputeState
<1>2. /\ store \in Store /\ store.deletion = "ACTIVE" /\ store.recs = <<>> /\ store.fence = 0
    BY <1>1, PutEffect DEF Init, EmptyStore
<1>3. body = <<>> /\ calls = <<>> /\ given = <<>> /\ Len(body) = 0 /\ DOMAIN body = {}
    BY DEF Init
<1>4. IsSeq(body) /\ IsSeq(given) /\ calls \in Seq(Nat)
  <2>1. \A S : <<>> \in Seq(S)
      OBVIOUS
  <2> QED
      BY <1>3, <2>1 DEF IsSeq
<1>5. StoreInv
    BY <1>2, <1>3, <1>4, TurnAssumption DEF Init, StoreInv
<1>6. \A r \in Runs : run[r] = IdleRun
    BY DEF Init
<1>7. AllGood
  <2> SUFFICES ASSUME NEW r \in Runs PROVE Good(r)
      BY DEF AllGood
  <2>1. run[r] = IdleRun
      BY <1>6
  <2> QED
      BY <1>2, <1>3, <2>1 DEF Good, IdleRun, PCs, Running, Calling
<1>8. RecInv /\ SegInv
    BY <1>3 DEF RecInv, SegInv
<1>9. InputInv /\ OneOwner /\ OwnInv
    BY <1>6 DEF InputInv, OneOwner, OwnInv, Owns, IdleRun, Running, Calling
<1> QED
    BY <1>5, <1>7, <1>8, <1>9 DEF CoreInv

(* Steps keep the invariant.                                               *)
LEMMA CoreStep ==
    ASSUME CoreInv, NEW r \in Runs, Moved(r)
    PROVE  CoreInv'
<1>0. StoreInv /\ AllGood /\ RecInv /\ SegInv /\ InputInv /\ OneOwner /\ OwnInv
    BY DEF CoreInv
<1>1. AllGood'
  <2>1. Extended
      BY <1>0, ShapeExtends DEF Moved
  <2>2. ASSUME NEW q \in Runs PROVE Good(q)'
    <3>1. CASE q = r
        BY <1>0, <3>1, GoodStep
    <3>2. CASE q # r
      <4>1. run'[q] = run[q]
          BY <3>2 DEF Moved, Moves
      <4> QED
          BY <1>0, <2>1, <4>1, GoodStays DEF AllGood
    <3> QED
        BY <3>1, <3>2
  <2> QED
      BY <2>2 DEF AllGood
<1> QED
    BY <1>0, <1>1, StoreInvStep, RecInvStep, SegInvStep, InputInvStep, OneOwnerStep, OwnInvStep
       DEF CoreInv

(* A step moves one call, or nothing moves.                                *)
LEMMA NextMoves ==
    ASSUME CoreInv, [Next]_vars
    PROVE  (\E r \in Runs : Moved(r)) \/ UNCHANGED vars
BY StepMoved DEF CoreInv, Next, Quiescent

(* Steps that change nothing keep the invariant.                           *)
LEMMA CoreStutter ==
    ASSUME CoreInv, UNCHANGED vars
    PROVE  CoreInv'
<1>0. store' = store /\ body' = body /\ run' = run /\ calls' = calls /\ given' = given
      /\ setting' = setting /\ failures' = failures
    BY DEF vars
<1>1. StoreInv'
    BY <1>0 DEF CoreInv, StoreInv, IsSeq
<1>2. AllGood'
  <2>1. \A r \in Runs : StreamOf(r)' = StreamOf(r) /\ Started(run[r].exec)' = Started(run[r].exec)
      BY <1>0 DEF StreamOf, Stream, Started
  <2> QED
      BY <1>0, <2>1 DEF CoreInv, AllGood, Good, Rest
<1>3. RecInv' /\ SegInv' /\ OneOwner'
    BY <1>0 DEF CoreInv, RecInv, SegInv, OneOwner
<1>4. InputInv'
    BY <1>0 DEF CoreInv, InputInv, RecordsOf
<1>5. OwnInv'
  <2>1. \A r \in Runs : StreamOf(r)' = StreamOf(r)
      BY <1>0 DEF StreamOf, Stream
  <2> QED
      BY <1>0, <2>1 DEF CoreInv, OwnInv, Owns, Rest
<1> QED
    BY <1>1, <1>2, <1>3, <1>4, <1>5 DEF CoreInv

(* The inductive invariant.                                                *)
THEOREM Core == Spec => []CoreInv
<1>1. Init => CoreInv
    BY CoreInit
<1>2. CoreInv /\ [Next]_vars => CoreInv'
    BY NextMoves, CoreStep, CoreStutter
<1> QED
    BY <1>1, <1>2, PTL DEF Spec

(* Every variable keeps its type, and the bodies and the histories of the  *)
(* records keep step with the log that Append, Mint and Finish write.      *)
THEOREM TurnTypeCorrect == Spec => []TypeOK
<1>1. ASSUME CoreInv PROVE TypeOK
  <2>0. StoreInv /\ AllGood /\ RecInv
      BY <1>1 DEF CoreInv
  <2>1. Len(body) \in Nat /\ DOMAIN body = 1 .. Len(body)
      BY <2>0, LogFacts
  <2>2. \A p \in DOMAIN body : calls[p] \in Nat
      BY <2>0, <2>1 DEF StoreInv
  <2>3. \A x \in Runs : Started(x) => x \in Executions
      BY DEF Started, Executions, RecordsOf
  <2>4. \A r \in Runs : run[r].exec \in Executions \union {"none"}
      BY <2>0, <2>3 DEF AllGood, Good
  <2> QED
      BY <2>0, <2>2, <2>4 DEF TypeOK, StoreInv, AllGood, Good, RecInv, HeadSeq
<1> QED
    BY <1>1, Core, PTL

(* A harness runs only on an invocation all of whose inputs are committed, *)
(* however many processes died while Exec was recording them               *)
(* (validateInputs).                                                       *)
THEOREM HarnessRunsOnAllInputs == Spec => []RunsOnAllItsInputs
<1>1. ASSUME CoreInv PROVE RunsOnAllItsInputs
  <2> SUFFICES ASSUME NEW r \in Runs, run[r].exec # "none",
                      run[r].pc \notin {"start", "input", "done"}
               PROVE  Cardinality(RecordsOf(run[r].exec, {"INPUT"})) = Inputs
      BY DEF RunsOnAllItsInputs
  <2>1. Good(r) /\ InputInv
      BY <1>1 DEF CoreInv, AllGood
  <2>2. run[r].pc \in Running
      BY <2>1 DEF Good, PCs
  <2> QED
      BY <2>1, <2>2 DEF InputInv
<1> QED
    BY <1>1, Core, PTL

(* The incarnation that owns the session calls the model or a tool only    *)
(* for the last effect of the log: what is answered, or was left behind,   *)
(* is never called again, whoever crashed or was superseded.               *)
THEOREM OwnerCallsLastIntentOnly == Spec => AnsweredIsNotReinvoked
<1>1. ASSUME CoreInv, [Next]_vars
      PROVE  \A r \in Runs :
                /\ run[r].fence = store.fence
                /\ run[r].pc \in {"model", "tool"}
                /\ calls'[run[r].pos] > calls[run[r].pos]
                => \A p \in DOMAIN body : store.recs[p].kind \in EffectKinds => p <= run[r].pos
  <2> SUFFICES ASSUME NEW r \in Runs, run[r].fence = store.fence, run[r].pc \in {"model", "tool"}
               PROVE  \A p \in DOMAIN body : store.recs[p].kind \in EffectKinds => p <= run[r].pos
      OBVIOUS
  <2>1. Good(r) /\ OwnInv
      BY <1>1 DEF CoreInv, AllGood
  <2>2. run[r].pc \in Calling
      BY DEF Calling
  <2>3. Owns(r)
      BY <2>1, <2>2 DEF Good, Owns, Running
  <2> QED
      BY <2>1, <2>2, <2>3 DEF OwnInv
<1> QED
    BY <1>1, Core, PTL DEF Spec, AnsweredIsNotReinvoked

(* A Resume that has diverged records nothing more than its ERROR, and     *)
(* leaves as diverged or dies.                                             *)
THEOREM DivergedWritesNothing == Spec => DivergenceWritesNothing
<1> DEFINE Quiet(r) ==
        run[r].failure =>
            /\ run'[r].failure \/ run'[r].result \in {"diverged", "crashed"}
            /\ (body' # body /\ run'[r] # run[r]) => store'.recs[Len(body')].kind = "ERROR"
<1>1. ASSUME CoreInv, [Next]_vars PROVE \A r \in Runs : Quiet(r)
  <2> SUFFICES ASSUME NEW r \in Runs, run[r].failure PROVE Quiet(r)
      OBVIOUS
  <2>0. StoreInv /\ AllGood /\ Good(r)
      BY <1>1 DEF CoreInv, AllGood
  <2>1. run[r].pc = "run" /\ run[r].failure = TRUE /\ DOMAIN run[r] = DOMAIN IdleRun
      BY <2>0 DEF Good
  <2>2. CASE run'[r] = run[r]
      BY <2>2
  <2>3. ASSUME AnswerDiverged(r) PROVE Quiet(r)
    <3>1. body' = body
        BY <2>3 DEF AnswerDiverged, LogUnchanged
    <3>2. DOMAIN Answered(r, Error) = DOMAIN IdleRun
        BY <2>1 DEF Answered
    <3>3. run'[r] = Answered(r, Error)
        BY <2>0, <2>3, <3>2, BecomeMoves DEF AnswerDiverged
    <3>4. run'[r].failure = TRUE
        BY <2>1, <3>3 DEF Answered, IdleRun
    <3> QED
        BY <3>1, <3>4
  <2>4. ASSUME Crash(r) PROVE Quiet(r)
    <3>1. body' = body /\ run'[r].result = "crashed"
        BY <2>0, <2>4, LeaveDeparts DEF Crash, LogUnchanged
    <3> QED
        BY <3>1
  <2>5. ASSUME Finish(r) PROVE Quiet(r)
    <3>1. Outcome(r) = "diverged"
        BY <2>1 DEF Outcome
    <3>2. CASE LogUnchanged /\ Leave(r, "diverged")
      <4>1. body' = body /\ run'[r].result = "diverged"
          BY <2>0, <3>2, LeaveDeparts DEF LogUnchanged
      <4> QED
          BY <4>1
    <3>3. CASE /\ CanAppend(r, HeadSeq(store), "ERROR")
               /\ Commit(r, "ERROR", Body(run[r].exec, "", 0))
               /\ Leave(r, "diverged")
      <4>1. "ERROR" \in EventKind
          BY DEF EventKind, TurnKinds
      <4>2. Grows(r, "ERROR", Body(run[r].exec, "", 0))
          BY <2>0, <3>3, <4>1, CommitGrows
      <4>3. Len(body') = Len(body) + 1 /\ store'.recs[Len(body) + 1].kind = "ERROR"
          BY <4>2 DEF Grows
      <4>4. run'[r].result = "diverged"
          BY <2>0, <3>3, LeaveDeparts
      <4> QED
          BY <4>3, <4>4
    <3> QED
        BY <2>5, <3>1, <3>2, <3>3 DEF Finish
  <2>6. ASSUME RunStep(r) PROVE Quiet(r)
    <3>1. AnswerDiverged(r) \/ Finish(r) \/ Crash(r)
        BY <2>1, <2>6
           DEF RunStep, Mint, AppendInvocation, ReadLog, ServeRecorded, CallModel, InvokeModel,
               RecordCompletion, CallTool, RejectTool, ExecTool, RecordResult, LiveOutput,
               LiveReport, LiveUsage, Live, At
    <3> QED
        BY <2>3, <2>4, <2>5, <3>1
  <2>7. ASSUME NEW kind, NEW h, Begin(r, kind, h) PROVE FALSE
      BY <2>1, <2>7 DEF Begin, At
  <2>8. ASSUME NEW q \in Runs, q # r,
               \/ RunStep(q)
               \/ \E kind \in {"Exec", "Resume"}, h \in setting.harnesses : Begin(q, kind, h)
        PROVE  Quiet(r)
    <3>1. Moved(q)
        BY <2>0, <2>8, StepMoved
    <3>2. run'[r] = run[r]
        BY <2>8, <3>1 DEF Moved, Moves
    <3> QED
        BY <2>2, <3>2
  <2>9. ASSUME UNCHANGED vars PROVE Quiet(r)
      BY <2>2, <2>9 DEF vars
  <2> QED
      BY <1>1, <2>6, <2>7, <2>8, <2>9 DEF Next, Quiescent
<1> QED
    BY <1>1, Core, PTL DEF Spec, DivergenceWritesNothing

-----------------------------------------------------------------------------
(* What a step does to a harness *)

(* What docs/harness-authoring.md asks of a harness, for every sequence of *)
(* answers it may get.                                                     *)
IsAnswer(a) == a = Error \/ a = Answer(a.val, a.usage)

IsAnswers(a) == IsSeq(a) /\ \A n \in 1 .. Len(a) : IsAnswer(a[n])

FailuresDoStandOut ==
    \A s \in Settings : \A h \in s.harnesses : \A a : IsAnswers(a) => FailuresStandOut(h, a)

Tells(r, a) == run'[r].answers = Append(run[r].answers, a) /\ run'[r].pc = "run"

Stays(r) ==
    /\ run'[r].harness = run[r].harness
    /\ run'[r].exec = run[r].exec /\ run'[r].seen = run[r].seen /\ run'[r].fence = run[r].fence

GivenSame == \A p \in DOMAIN body : given'[p] = given[p]

Prepares(r) ==
    /\ \/ Begins(r) /\ run'[r].harness \in setting.harnesses
       \/ (Mints(r) \/ Records(r) \/ Reads(r)) /\ run'[r].harness = run[r].harness
    /\ run'[r].answers = run[r].answers /\ GivenSame

Quits(r) == Departs(r) /\ run'[r].harness = run[r].harness /\ GivenSame

ServesAs(r) ==
    LET got == Serve(StreamOf(r), run[r].i, Asked(r))
    IN  /\ Stays(r) /\ LogSame /\ GivenSame
        /\ run[r].pc = "run" /\ ~run[r].failure
        /\ Rest(StreamOf(r), run[r].i) # {}
        /\ Asked(r).op \notin Leaves
        /\ run'[r].i = got.i
        /\ \/ /\ got.open
              /\ run'[r].answers = run[r].answers
              /\ run'[r].pos = got.i /\ run'[r].failure = FALSE
              /\ run'[r].pc = IF Asked(r).op = "Model" THEN "model" ELSE "tool"
           \/ /\ ~got.open
              /\ Tells(r, got.answer) /\ run'[r].failure = got.failure

(* A call without a key.                                                   *)
Rejects(r) ==
    /\ Stays(r) /\ LogSame /\ GivenSame
    /\ Live(r) /\ Keyless(Asked(r)) /\ Tells(r, Error)
    /\ run'[r].i = run[r].i /\ run'[r].failure = run[r].failure

(* An error for one that has been superseded or has diverged.              *)
Refuses(r) ==
    /\ Stays(r) /\ LogSame /\ GivenSame
    /\ ~Owns(r) \/ run[r].failure
    /\ run[r].failure \/ Rest(StreamOf(r), run[r].i) = {}
    /\ run[r].pc \in Running
    /\ Tells(r, Error)
    /\ run'[r].i = run[r].i /\ run'[r].failure = run[r].failure

(* An intent.                                                              *)
Intends(r, k) ==
    /\ Stays(r) /\ GivenSame
    /\ Live(r) /\ Grows(r, k, Body(run[r].exec, Asked(r).arg, 0))
    /\ \/ k = "MODEL_CALL" /\ Asked(r).op = "Model" /\ run'[r].pc = "model"
       \/ /\ k = "TOOL_CALL" /\ Asked(r).op = "ToolCall" /\ Asked(r).key
          /\ run'[r].pc = "tool"
    /\ run'[r].answers = run[r].answers /\ run'[r].pos = Len(body) + 1
    /\ run'[r].i = run[r].i /\ run'[r].failure = run[r].failure

(* An effect that is no call.                                              *)
Emits(r, k) ==
    /\ Stays(r) /\ GivenSame
    /\ Live(r)
    /\ \/ /\ k = "OUTPUT" /\ Asked(r).op = "Output"
          /\ Grows(r, k, Body(run[r].exec, Asked(r).arg, 0))
       \/ /\ k = "TOOL_RESULT" /\ Asked(r).op = "Report"
          /\ Grows(r, k, Body(run[r].exec, Asked(r).arg, 0))
       \/ /\ k = "USAGE" /\ Asked(r).op = "Usage"
          /\ Grows(r, k, Body(run[r].exec, "", Asked(r).usage))
    /\ Tells(r, Done)
    /\ run'[r].i = run[r].i /\ run'[r].failure = run[r].failure

(* The call fails.                                                         *)
Fails(r) ==
    /\ Stays(r) /\ LogSame
    /\ run[r].pc \in {"model", "tool"}
    /\ Tells(r, Error)
    /\ \A p \in DOMAIN body :
        given'[p] = IF Owns(r) /\ p = run[r].pos THEN Error ELSE given[p]
    /\ run'[r].i = run[r].i /\ run'[r].failure = run[r].failure

(* The call is answered.                                                   *)
Gets(r) ==
    /\ Stays(r) /\ LogSame /\ GivenSame
    /\ \/ /\ run[r].pc = "model" /\ run'[r].pc = "output"
          /\ run'[r].reply \in setting.completions
       \/ /\ run[r].pc = "tool" /\ run'[r].pc = "result"
          /\ run'[r].reply = Answer(body[run[r].pos].arg, 0)
    /\ run'[r].answers = run[r].answers /\ run'[r].pos = run[r].pos
    /\ run'[r].i = run[r].i /\ run'[r].failure = run[r].failure

(* The answer is recorded.                                                 *)
Notes(r, k) ==
    /\ Stays(r)
    /\ \/ run[r].pc = "output" /\ k = "OUTPUT"
       \/ run[r].pc = "result" /\ k = "TOOL_RESULT"
    /\ Grows(r, k, Body(run[r].exec, run[r].reply.val, 0))
    /\ Tells(r, run[r].reply)
    /\ \A p \in DOMAIN body : given'[p] = IF p = run[r].pos THEN run[r].reply ELSE given[p]
    /\ run'[r].i = run[r].i /\ run'[r].failure = run[r].failure

Detail(r) ==
    \/ Prepares(r) \/ Quits(r) \/ ServesAs(r) \/ Rejects(r) \/ Refuses(r) \/ Fails(r) \/ Gets(r)
    \/ \E k : Intends(r, k) \/ Emits(r, k) \/ Notes(r, k)

(* The log never refuses its owner.                                        *)
LEMMA OwnerAppends ==
    ASSUME StoreInv, NEW r \in Runs, Owns(r), NEW kind \in EffectKinds
    PROVE  CanAppend(r, HeadSeq(store), kind)
<1>1. CheckWritable(store) /\ kind # "DELETE" /\ ~(run[r].fence < store.fence)
    BY LogFacts DEF StoreInv, CheckWritable, Owns, EffectKinds
<1> QED
    BY <1>1 DEF CanAppend, AppendOutcome

(* What was given is still there when nothing or a record is appended.     *)
LEMMA GivenStays ==
    ASSUME StoreInv, given' = given \/ (\E e : given' = Append(given, e))
    PROVE  GivenSame
<1>1. DOMAIN body = 1 .. Len(given) /\ IsSeq(given)
    BY LogFacts DEF StoreInv
<1> QED
    BY <1>1, AppendAny DEF GivenSame

(* What an answered call is.                                               *)
LEMMA AnsweredFields ==
    ASSUME StoreInv, NEW r \in Runs, Good(r), NEW a,
           \/ Become(r, Answered(r, a))
           \/ Become(r, [Answered(r, a) EXCEPT !.reply = Error])
    PROVE  /\ Stays(r) /\ Tells(r, a)
           /\ run'[r].i = run[r].i /\ run'[r].failure = run[r].failure
<1>0. DOMAIN run[r] = DOMAIN IdleRun
    BY DEF Good
<1>1. run'[r] = Answered(r, a) \/ run'[r] = [Answered(r, a) EXCEPT !.reply = Error]
    BY DEF Become, StoreInv
<1> QED
    BY <1>0, <1>1 DEF Stays, Tells, Answered, IdleRun

(* The steps before the harness runs.                                      *)
LEMMA PrepareDetail ==
    ASSUME StoreInv, AllGood, NEW r \in Runs,
           \/ \E kind \in {"Exec", "Resume"}, h \in setting.harnesses : Begin(r, kind, h)
           \/ Mint(r) \/ AppendInvocation(r) \/ ReadLog(r)
    PROVE  Detail(r)
<1>0. DOMAIN run[r] = DOMAIN IdleRun /\ Good(r) /\ DOMAIN run = Runs
    BY DEF AllGood, Good, StoreInv
<1>m. Moved(r)
    BY StepMoved DEF RunStep
<1>1. ASSUME NEW kind \in {"Exec", "Resume"}, NEW h \in setting.harnesses, Begin(r, kind, h)
      PROVE  Detail(r)
  <2>1. /\ run'[r].harness = h /\ run'[r].answers = run[r].answers /\ GivenSame
        /\ run[r].pc = "idle" /\ run'[r].pc = "mint" /\ LogSame
      BY <1>0, <1>1
         DEF Begin, Become, IdleRun, LogUnchanged, GivenSame, At, LogSame
  <2>2. Begins(r)
      BY <1>0, <1>1, <2>1 DEF Begin, Become, Begins, IdleRun
  <2> QED
      BY <2>1, <2>2 DEF Prepares, Detail
<1>2. ASSUME Mint(r) PROVE Detail(r)
  <2>1. /\ run'[r].harness = run[r].harness /\ run'[r].answers = run[r].answers /\ GivenSame
        /\ run[r].pc = "mint" /\ run'[r].pc # "done" /\ run[r].pc \notin Running
      BY <1>0, <1>2 DEF Mint, Become, IdleRun, GivenSame, At, Running, Calling
  <2>2. Mints(r)
      BY <1>m, <2>1
         DEF Moved, Shape, Begins, Records, Departs, Reads, Serves, Answers, Invokes, Appends,
             Running, Calling
  <2> QED
      BY <2>1, <2>2 DEF Prepares, Detail
<1>3. ASSUME NEW result, Leave(r, result), given' = given
      PROVE  Detail(r)
  <2>1. run'[r].pc = "done" /\ run'[r].harness = run[r].harness
      BY <1>3, LeaveDeparts
  <2>2. Departs(r)
      BY <1>m, <2>1
         DEF Moved, Shape, Begins, Mints, Records, Reads, Serves, Answers, Invokes, Appends
  <2> QED
      BY <1>3, <2>1, <2>2 DEF Quits, Detail, GivenSame
<1>4. ASSUME AppendInvocation(r) PROVE Detail(r)
  <2>1. CASE LogUnchanged /\ Leave(r, "refused")
      BY <1>3, <2>1 DEF LogUnchanged
  <2>2. CASE /\ given' = Append(given, Error)
             /\ \E pc : Become(r, [run[r] EXCEPT !.exec = r, !.last = @ + 1,
                              !.pc = IF pc THEN "run" ELSE "input"])
    <3>1. run'[r].harness = run[r].harness /\ run'[r].answers = run[r].answers
          /\ run'[r].pc # "done"
        BY <1>0, <2>2 DEF Become, IdleRun
    <3>2. GivenSame
        BY <2>2, GivenStays
    <3>3. run[r].pc \in {"start", "input"}
        BY <1>4 DEF AppendInvocation
    <3>4. Records(r)
        BY <1>m, <3>1, <3>3
           DEF Moved, Shape, Begins, Mints, Departs, Reads, Serves, Answers, Invokes, Appends,
               Running, Calling
    <3> QED
        BY <3>1, <3>2, <3>4 DEF Prepares, Detail
  <2> QED
      BY <1>4, <2>1, <2>2 DEF AppendInvocation
<1>5. ASSUME ReadLog(r) PROVE Detail(r)
  <2>0. given' = given /\ run[r].pc = "read"
      BY <1>5 DEF ReadLog, LogUnchanged, At
  <2>1. ASSUME NEW result, Leave(r, result) PROVE Detail(r)
      BY <1>3, <2>0, <2>1
  <2>2. CASE Become(r, [run[r] EXCEPT !.pc = "run", !.exec = LastExecution,
                                              !.seen = HeadSeq(store)])
    <3>1. run'[r].harness = run[r].harness /\ run'[r].answers = run[r].answers
          /\ run'[r].pc = "run"
        BY <1>0, <2>2 DEF Become, IdleRun
    <3>2. GivenSame
        BY <2>0, GivenStays
    <3>4. Reads(r)
        BY <1>m, <2>0, <3>1
           DEF Moved, Shape, Begins, Mints, Records, Departs, Serves, Answers, Invokes, Appends,
               Running, Calling
    <3> QED
        BY <3>1, <3>2, <3>4 DEF Prepares, Detail
  <2> QED
      BY <1>5, <2>1, <2>2 DEF ReadLog
<1> QED
    BY <1>1, <1>2, <1>4, <1>5

(* A recorded operation.                                                   *)
LEMMA ServeDetail ==
    ASSUME StoreInv, AllGood, NEW r \in Runs, ServeRecorded(r)
    PROVE  Detail(r)
<1> DEFINE got == Serve(StreamOf(r), run[r].i, Asked(r))
           s == [run[r] EXCEPT !.i = got.i, !.pos = got.i,
                              !.pc = IF Asked(r).op = "Model" THEN "model" ELSE "tool"]
           t == [Answered(r, got.answer) EXCEPT !.i = got.i,
                              !.failure = got.failure]
<1>0. DOMAIN run[r] = DOMAIN IdleRun /\ Good(r) /\ DOMAIN run = Runs
    BY DEF AllGood, Good, StoreInv
<1>1. LogSame /\ GivenSame
    BY DEF ServeRecorded, LogUnchanged, LogSame, GivenSame
<1>2. /\ run[r].pc = "run" /\ ~run[r].failure /\ run[r].failure = FALSE
      /\ Rest(StreamOf(r), run[r].i) # {} /\ Asked(r).op \notin Leaves
    BY <1>0 DEF ServeRecorded, At, Good
<1>4. run'[r] = IF got.open THEN s ELSE t
    BY <1>0 DEF ServeRecorded, Become
<1> HIDE DEF got
<1>5. ServesAs(r)
  <2>1. CASE got.open
      BY <1>0, <1>1, <1>2, <1>4, <2>1 DEF ServesAs, got, Stays, IdleRun
  <2>2. CASE ~got.open
      BY <1>0, <1>1, <1>2, <1>4, <2>2 DEF ServesAs, got, Stays, IdleRun, Answered, Tells
  <2> QED
      BY <2>1, <2>2
<1> QED
    BY <1>5 DEF Detail

(* Answers that are neither recorded nor come from the log.                *)
LEMMA RejectDetail ==
    ASSUME StoreInv, AllGood, NEW r \in Runs, RejectTool(r) \/ AnswerDiverged(r)
    PROVE  Detail(r)
<1>0. Good(r)
    BY DEF AllGood
<1>1. LogSame /\ GivenSame
    BY DEF RejectTool, AnswerDiverged, LogUnchanged, LogSame, GivenSame
<1>2. Become(r, Answered(r, Error))
    BY DEF RejectTool, AnswerDiverged
<1>3. /\ Stays(r) /\ Tells(r, Error)
      /\ run'[r].i = run[r].i /\ run'[r].failure = run[r].failure
    BY <1>0, <1>2, AnsweredFields
<1>4. CASE RejectTool(r)
  <2>1. Rejects(r)
      BY <1>1, <1>3, <1>4 DEF Rejects, RejectTool, Keyless
  <2> QED
      BY <2>1 DEF Detail
<1>5. CASE AnswerDiverged(r)
  <2>1. Refuses(r)
      BY <1>1, <1>3, <1>5 DEF Refuses, AnswerDiverged, At, Running
  <2> QED
      BY <2>1 DEF Detail
<1> QED
    BY <1>4, <1>5

(* An append of the live sink that is refused.                             *)
LEMMA RefusedDetail ==
    ASSUME StoreInv, AllGood, NEW r \in Runs, run[r].pc \in Running, NEW kind \in EffectKinds,
           Rest(StreamOf(r), run[r].i) = {},
           ~CanAppend(r, HeadSeq(store), kind), LogUnchanged,
           \/ Become(r, Answered(r, Error))
           \/ Become(r, [Answered(r, Error) EXCEPT !.reply = Error])
    PROVE  Detail(r)
<1>0. Good(r)
    BY DEF AllGood
<1>1. LogSame /\ GivenSame
    BY DEF LogUnchanged, LogSame, GivenSame
<1>2. /\ Stays(r) /\ Tells(r, Error)
      /\ run'[r].i = run[r].i /\ run'[r].failure = run[r].failure
    BY <1>0, AnsweredFields
<1>3. ~Owns(r)
    BY OwnerAppends
<1>4. Refuses(r)
    BY <1>1, <1>2, <1>3 DEF Refuses
<1> QED
    BY <1>4 DEF Detail

(* A call of the model or of a tool.                                       *)
LEMMA CallDetail ==
    ASSUME StoreInv, AllGood, NEW r \in Runs, CallModel(r) \/ CallTool(r)
    PROVE  Detail(r)
<1>0. DOMAIN run[r] = DOMAIN IdleRun /\ Good(r) /\ DOMAIN run = Runs
    BY DEF AllGood, Good, StoreInv
<1>1. ASSUME NEW k \in {"MODEL_CALL", "TOOL_CALL"}, NEW pc \in {"model", "tool"}, Live(r),
             SinkAppend(r, k, Body(run[r].exec, Asked(r).arg, 0),
                        [run[r] EXCEPT !.pc = pc, !.pos = HeadSeq(store) + 1]),
             \/ k = "MODEL_CALL" /\ Asked(r).op = "Model" /\ pc = "model"
             \/ k = "TOOL_CALL" /\ Asked(r).op = "ToolCall" /\ Asked(r).key /\ pc = "tool"
      PROVE  Detail(r)
  <2> DEFINE s == [run[r] EXCEPT !.pc = pc, !.pos = HeadSeq(store) + 1]
  <2>0. k \in EffectKinds /\ k \in EventKind /\ run[r].pc \in Running
        /\ Rest(StreamOf(r), run[r].i) = {}
      BY <1>1 DEF EffectKinds, EventKind, TurnKinds, Live, At, Running
  <2>1. CASE ~CanAppend(r, HeadSeq(store), k) /\ Become(r, Answered(r, Error)) /\ LogUnchanged
      BY <2>0, <2>1, RefusedDetail
  <2>2. CASE /\ CanAppend(r, HeadSeq(store), k)
             /\ Commit(r, k, Body(run[r].exec, Asked(r).arg, 0))
             /\ given' = Append(given, Error)
             /\ Become(r, s)
    <3>1. Grows(r, k, Body(run[r].exec, Asked(r).arg, 0))
        BY <1>0, <2>0, <2>2, CommitGrows
    <3>2. GivenSame
        BY <2>2, GivenStays
    <3>3. run'[r] = s
        BY <1>0, <2>2 DEF Become
    <3>4. /\ Stays(r) /\ run'[r].pc = pc /\ run'[r].answers = run[r].answers
          /\ run'[r].pos = Len(body) + 1
          /\ run'[r].i = run[r].i /\ run'[r].failure = run[r].failure
        BY <1>0, <3>3 DEF Stays, IdleRun, HeadSeq, StoreInv
    <3>5. Intends(r, k)
        BY <1>1, <3>1, <3>2, <3>4 DEF Intends
    <3> QED
        BY <3>5 DEF Detail
  <2> QED
      BY <1>1, <2>1, <2>2 DEF SinkAppend
<1> QED
    BY <1>1 DEF CallModel, CallTool

(* An effect that is no call.                                              *)
LEMMA EmitDetail ==
    ASSUME StoreInv, AllGood, NEW r \in Runs, LiveOutput(r) \/ LiveReport(r) \/ LiveUsage(r)
    PROVE  Detail(r)
<1>0. Good(r) /\ Live(r) /\ run[r].pc \in Running /\ Rest(StreamOf(r), run[r].i) = {}
    BY DEF AllGood, LiveOutput, LiveReport, LiveUsage, Live, At, Running
<1>1. ASSUME NEW k \in {"OUTPUT", "TOOL_RESULT", "USAGE"}, NEW b,
             SinkAppend(r, k, b, Answered(r, Done)),
             \/ k = "OUTPUT" /\ Asked(r).op = "Output" /\ b = Body(run[r].exec, Asked(r).arg, 0)
             \/ /\ k = "TOOL_RESULT" /\ Asked(r).op = "Report"
                /\ b = Body(run[r].exec, Asked(r).arg, 0)
             \/ /\ k = "USAGE" /\ Asked(r).op = "Usage"
                /\ b = Body(run[r].exec, "", Asked(r).usage)
      PROVE  Detail(r)
  <2>0. k \in EffectKinds /\ k \in EventKind
      BY <1>1 DEF EffectKinds, EventKind, TurnKinds
  <2>1. CASE ~CanAppend(r, HeadSeq(store), k) /\ Become(r, Answered(r, Error)) /\ LogUnchanged
      BY <1>0, <2>0, <2>1, RefusedDetail
  <2>2. CASE /\ CanAppend(r, HeadSeq(store), k)
             /\ Commit(r, k, b)
             /\ given' = Append(given, Error)
             /\ Become(r, Answered(r, Done))
    <3>1. Grows(r, k, b)
        BY <1>0, <2>0, <2>2, CommitGrows
    <3>2. GivenSame
        BY <2>2, GivenStays
    <3>3. /\ Stays(r) /\ Tells(r, Done)
          /\ run'[r].i = run[r].i /\ run'[r].failure = run[r].failure
        BY <1>0, <2>2, AnsweredFields
    <3>5. Emits(r, k)
        BY <1>0, <1>1, <3>1, <3>2, <3>3 DEF Emits
    <3> QED
        BY <3>5 DEF Detail
  <2> QED
      BY <1>1, <2>1, <2>2 DEF SinkAppend
<1> QED
    BY <1>1 DEF LiveOutput, LiveReport, LiveUsage

(* The model or a tool answers or fails.                                   *)
LEMMA InvokeDetail ==
    ASSUME StoreInv, AllGood, NEW r \in Runs, InvokeModel(r) \/ ExecTool(r)
    PROVE  Detail(r)
<1>0. DOMAIN run[r] = DOMAIN IdleRun /\ Good(r) /\ DOMAIN run = Runs
    BY DEF AllGood, Good, StoreInv
<1>1. LogSame /\ run[r].pc \in {"model", "tool"}
    BY DEF InvokeModel, ExecTool, LogSame, At
<1>2. CASE Become(r, Answered(r, Error)) /\ Give(r, run[r].pos, Error)
  <2>1. /\ Stays(r) /\ Tells(r, Error)
        /\ run'[r].i = run[r].i /\ run'[r].failure = run[r].failure
      BY <1>0, <1>2, AnsweredFields
  <2>2. run[r].fence = store.fence <=> Owns(r)
      BY <1>0, <1>1 DEF Good, Owns, Running, Calling
  <2>3. IsSeq(given) /\ DOMAIN given = DOMAIN body
      BY LogFacts, AppendAny DEF StoreInv
  <2>4. \A q : \A p \in DOMAIN given :
            [given EXCEPT ![q] = Error][p] = IF p = q THEN Error ELSE given[p]
      BY <2>3, ReplaceAny
  <2>5. \A p \in DOMAIN body :
            given'[p] = IF Owns(r) /\ p = run[r].pos THEN Error ELSE given[p]
      BY <1>2, <2>2, <2>3, <2>4 DEF Give
  <2>6. Fails(r)
      BY <1>1, <2>1, <2>5 DEF Fails
  <2> QED
      BY <2>6 DEF Detail
<1>3. ASSUME given' = given, NEW pc, NEW reply,
             Become(r, [run[r] EXCEPT !.pc = pc, !.reply = reply]),
             \/ run[r].pc = "model" /\ pc = "output" /\ reply \in setting.completions
             \/ /\ run[r].pc = "tool" /\ pc = "result"
                /\ reply = Answer(body[run[r].pos].arg, 0)
      PROVE  Detail(r)
  <2> DEFINE s == [run[r] EXCEPT !.pc = pc, !.reply = reply]
  <2>1. run'[r] = s
      BY <1>0, <1>3 DEF Become
  <2>2. /\ Stays(r) /\ run'[r].pc = pc /\ run'[r].reply = reply
        /\ run'[r].answers = run[r].answers /\ run'[r].pos = run[r].pos
        /\ run'[r].i = run[r].i /\ run'[r].failure = run[r].failure
      BY <1>0, <2>1 DEF Stays, IdleRun
  <2>3. Gets(r)
      BY <1>1, <1>3, <2>2 DEF Gets, GivenSame
  <2> QED
      BY <2>3 DEF Detail
<1> QED
    BY <1>2, <1>3 DEF InvokeModel, ExecTool, At

(* The answer is recorded.                                                 *)
LEMMA NoteDetail ==
    ASSUME StoreInv, AllGood, NEW r \in Runs, RecordCompletion(r) \/ RecordResult(r)
    PROVE  Detail(r)
<1>0. /\ DOMAIN run[r] = DOMAIN IdleRun /\ Good(r) /\ run[r].pc \in Running
      /\ Rest(StreamOf(r), run[r].i) = {}
    BY DEF AllGood, Good, RecordCompletion, RecordResult, At, Running, Calling
<1>1. PICK k : /\ RecordAnswer(r, k)
               /\ \/ run[r].pc = "output" /\ k = "OUTPUT"
                  \/ run[r].pc = "result" /\ k = "TOOL_RESULT"
    BY DEF RecordCompletion, RecordResult, At
<1>2. k \in EffectKinds /\ k \in EventKind
    BY <1>1 DEF EffectKinds, EventKind, TurnKinds
<1> DEFINE told == [Answered(r, run[r].reply) EXCEPT !.reply = Error]
<1>3. CASE /\ CanAppend(r, HeadSeq(store), k)
           /\ Commit(r, k, Body(run[r].exec, run[r].reply.val, 0))
           /\ given' = Append([given EXCEPT ![run[r].pos] = run[r].reply], Error)
           /\ Become(r, told)
  <2>1. Grows(r, k, Body(run[r].exec, run[r].reply.val, 0))
      BY <1>0, <1>2, <1>3, CommitGrows
  <2>2. /\ Stays(r) /\ Tells(r, run[r].reply)
        /\ run'[r].i = run[r].i /\ run'[r].failure = run[r].failure
      BY <1>0, <1>3, AnsweredFields
  <2>3. IsSeq(given) /\ DOMAIN given = DOMAIN body /\ DOMAIN given = 1 .. Len(given)
      BY LogFacts, AppendAny DEF StoreInv
  <2> DEFINE G(q, e) == [given EXCEPT ![q] = e]
  <2>4. \A q, e : /\ IsSeq(G(q, e)) /\ Len(G(q, e)) = Len(given)
                  /\ \A p \in DOMAIN given : G(q, e)[p] = IF p = q THEN e ELSE given[p]
      BY <2>3, ReplaceAny
  <2>9. given' = Append(G(run[r].pos, run[r].reply), Error)
      BY <1>3
  <2> HIDE DEF G
  <2>5. PICK g : /\ given' = Append(g, Error) /\ IsSeq(g) /\ Len(g) = Len(given)
                 /\ \A p \in DOMAIN given : g[p] = IF p = run[r].pos THEN run[r].reply ELSE given[p]
      BY <2>4, <2>9
  <2>6. \A p \in 1 .. Len(g) : given'[p] = g[p]
      BY <2>5, AppendAny
  <2>7. \A p \in DOMAIN body : given'[p] = IF p = run[r].pos THEN run[r].reply ELSE given[p]
      BY <2>3, <2>5, <2>6
  <2>8. Notes(r, k)
      BY <1>1, <2>1, <2>2, <2>7 DEF Notes
  <2> QED
      BY <2>8 DEF Detail
<1>4. CASE /\ ~CanAppend(r, HeadSeq(store), k)
           /\ Become(r, [Answered(r, Error) EXCEPT !.reply = Error]) /\ LogUnchanged
    BY <1>0, <1>2, <1>4, RefusedDetail
<1> QED
    BY <1>1, <1>3, <1>4 DEF RecordAnswer

(* A call that ends.                                                       *)
LEMMA QuitDetail ==
    ASSUME StoreInv, AllGood, NEW r \in Runs, Finish(r) \/ Crash(r)
    PROVE  Detail(r)
<1>1. \E result : Leave(r, result)
    BY DEF Finish, Crash
<1>2. run'[r].pc = "done" /\ run'[r].harness = run[r].harness
    BY <1>1, LeaveDeparts
<1>3. Moved(r)
    BY StepMoved DEF RunStep
<1>4. Departs(r)
    BY <1>2, <1>3
       DEF Moved, Shape, Begins, Mints, Records, Reads, Serves, Answers, Invokes, Appends
<1>5. given' = given \/ given' = Append(given, Error)
    BY DEF Finish, Crash, LogUnchanged
<1>6. GivenSame
    BY <1>5, GivenStays
<1> QED
    BY <1>2, <1>4, <1>6 DEF Quits, Detail

(* Every step of a call is one of these.                                   *)
LEMMA StepDetail ==
    ASSUME StoreInv, AllGood, NEW r \in Runs,
           \/ RunStep(r)
           \/ \E kind \in {"Exec", "Resume"}, h \in setting.harnesses : Begin(r, kind, h)
    PROVE  Moved(r) /\ Detail(r)
BY StepMoved, PrepareDetail, ServeDetail, RejectDetail, CallDetail, EmitDetail, InvokeDetail,
   NoteDetail, QuitDetail
   DEF RunStep

-----------------------------------------------------------------------------
(* Places that follow *)

(* The least place that is left is the one that follows.                   *)
LEMMA FollowingIs ==
    ASSUME NEW S \in SUBSET Nat, NEW i \in Nat, NEW p \in Rest(S, i),
           \A q \in Rest(S, i) : p <= q
    PROVE  Following(S, i) = p
<1>1. /\ Following(S, i) \in S /\ Following(S, i) \in Nat /\ Following(S, i) > i
      /\ \A q \in Rest(S, i) : Following(S, i) <= q
    BY FollowingPlace
<1>2. Following(S, i) \in Rest(S, i) /\ p \in Nat
    BY <1>1 DEF Rest
<1>3. Following(S, i) <= p /\ p <= Following(S, i)
    BY <1>1, <1>2
<1> QED
    BY <1>1, <1>2, <1>3

(* What follows a place in the first part of a stream follows it in the    *)
(* whole.                                                                  *)
LEMMA FollowingInPart ==
    ASSUME NEW T \in SUBSET Nat, NEW m \in Nat, NEW i \in Nat,
           Rest({p \in T : p <= m}, i) # {}
    PROVE  Rest(T, i) # {} /\ Following(T, i) = Following({p \in T : p <= m}, i)
<1> DEFINE S == {p \in T : p <= m}
           f == Following(S, i)
<1>1. f \in S /\ f \in Nat /\ f > i /\ \A q \in Rest(S, i) : f <= q
    BY FollowingPlace
<1>2. f \in Rest(T, i)
    BY <1>1 DEF Rest
<1>3. ASSUME NEW q \in Rest(T, i) PROVE f <= q
  <2>1. q \in Nat /\ q > i /\ q \in T
      BY <1>3 DEF Rest
  <2>2. CASE q <= m
    <3>1. q \in Rest(S, i)
        BY <2>1, <2>2 DEF Rest
    <3> QED
        BY <1>1, <3>1
  <2>3. CASE m < q
      BY <1>1, <2>1, <2>3
  <2> QED
      BY <2>1, <2>2, <2>3
<1> HIDE DEF f
<1>4. Following(T, i) = f
    BY <1>2, <1>3, FollowingIs
<1> QED
    BY <1>2, <1>4 DEF f

(* What follows in a stream that has grown.                                *)
LEMMA FollowingGrows ==
    ASSUME NEW n \in Nat, NEW S \in SUBSET (1 .. n), NEW i \in 0 .. n
    PROVE  LET T == S \union {n + 1}
           IN  /\ Rest(T, i) = Rest(S, i) \union {n + 1}
               /\ Rest(S, i) # {} => Following(T, i) = Following(S, i)
               /\ Rest(S, i) = {} => Following(T, i) = n + 1
<1> DEFINE T == S \union {n + 1}
<1>1. Rest(T, i) = Rest(S, i) \union {n + 1}
    BY DEF Rest
<1>2. T \in SUBSET Nat /\ S = {p \in T : p <= n} /\ i \in Nat
  <2>1. \A p \in S : p \in Nat /\ p <= n
      OBVIOUS
  <2>2. n + 1 \in Nat /\ ~(n + 1 <= n)
      OBVIOUS
  <2>3. S \subseteq {p \in T : p <= n}
      BY <2>1
  <2>4. {p \in T : p <= n} \subseteq S
      BY <2>2
  <2>5. T \in SUBSET Nat
      BY <2>1, <2>2
  <2>6. i \in Nat
      OBVIOUS
  <2> QED
      BY <2>3, <2>4, <2>5, <2>6
<1>3. Rest(S, i) # {} => Following(T, i) = Following(S, i)
  <2> HIDE DEF T
  <2> QED
      BY <1>2, FollowingInPart
<1>4. ASSUME Rest(S, i) = {} PROVE Following(T, i) = n + 1
  <2>1. Rest(T, i) = {n + 1}
      BY <1>1, <1>4
  <2> HIDE DEF T
  <2> QED
      BY <1>2, <2>1, FollowingIs
<1> QED
    BY <1>1, <1>3, <1>4

(* All effects of an execution.                                            *)
Full(x) == Stream(x, Len(body))

(* What has been read of an execution is the first part of it.             *)
LEMMA StreamIsPart ==
    ASSUME StoreInv, NEW x, NEW m \in 0 .. Len(body)
    PROVE  Full(x) \in SUBSET Nat /\ Stream(x, m) = {p \in Full(x) : p <= m}
BY LogFacts DEF Full, Stream

(* An effect that is appended is the last of its execution.                *)
LEMMA FullStep ==
    ASSUME StoreInv, AllGood, NEW r \in Runs, Moved(r), NEW y
    PROVE  \/ Full(y)' = Full(y)
           \/ \E k \in EffectKinds :
                AppendsTo(r, k, y) /\ Full(y)' = Full(y) \union {Len(body) + 1}
<1>0. /\ Len(body) \in Nat /\ DOMAIN body = 1 .. Len(body)
      /\ \A p \in 1 .. Len(body) : body'[p] = body[p] /\ store'.recs[p] = store.recs[p]
    BY ShapeExtends DEF Moved, Extended
<1>1. CASE Keeps
    BY <1>0, <1>1 DEF Keeps, Full, Stream
<1>2. ASSUME NEW k, NEW x, AppendsTo(r, k, x)
      PROVE  \/ Full(y)' = Full(y)
             \/ k \in EffectKinds /\ x = y /\ Full(y)' = Full(y) \union {Len(body) + 1}
  <2> DEFINE n == Len(body) + 1
  <2>1. /\ Len(body') = n /\ body'[n].exec = x /\ store'.recs[n].kind = k
      BY <1>0, <1>2, NewRecord DEF AppendsTo
  <2>2. (1 .. n) = (1 .. Len(body)) \union {n}
      BY <1>0
  <2> HIDE DEF n
  <2>3. Full(y)' = {p \in 1 .. n : body'[p].exec = y /\ store'.recs[p].kind \in EffectKinds}
      BY <2>1 DEF Full, Stream
  <2>4. Full(y) = {p \in 1 .. Len(body) : body[p].exec = y /\ store.recs[p].kind \in EffectKinds}
      BY DEF Full, Stream
  <2>5. CASE x = y /\ k \in EffectKinds
    <3>1. Full(y)' = Full(y) \union {n}
        BY <1>0, <2>1, <2>2, <2>3, <2>4, <2>5
    <3> QED
        BY <2>5, <3>1 DEF n
  <2>6. CASE ~(x = y /\ k \in EffectKinds)
    <3>1. Full(y)' = Full(y)
        BY <1>0, <2>1, <2>2, <2>3, <2>4, <2>6
    <3> QED
        BY <3>1
  <2> QED
      BY <2>5, <2>6
<1> QED
    BY <1>1, <1>2, ShapeAppends

(* What is served, and what it is served from.                             *)
LEMMA ServedFrom ==
    ASSUME NEW S \in SUBSET Nat, NEW i \in Nat, NEW e
    PROVE  LET got == Serve(S, i, e)
               f == Following(S, i)
               g == Following(S, f)
           IN  /\ IsAnswer(got.answer)
               /\ got.open => /\ body[got.i].arg = e.arg /\ ~Keyless(e) /\ got.answer = Error
                              /\ got.i = f /\ e.op \in {"Model", "ToolCall"}
               /\ ~got.open /\ ~got.failure =>
                    \/ got.i = i /\ Keyless(e) /\ got.answer = Error
                    \/ /\ got.i \in S /\ got.i > i /\ ~Keyless(e)
                       /\ store.recs[got.i].kind \in Intents => Rest(S, got.i) # {}
                       /\ KindAt(S, i) \in Intents =>
                            /\ Rest(S, f) # {}
                            /\ IF store.recs[g].kind =
                                    IF KindAt(S, i) = "MODEL_CALL" THEN "OUTPUT" ELSE "TOOL_RESULT"
                               THEN got.answer.ok /\ got.answer.val = body[g].arg
                               ELSE got.answer = Error
<1> DEFINE got == Serve(S, i, e)
           f == Following(S, i)
           g == Following(S, f)
           Fine(a) ==
               /\ IsAnswer(a.answer)
               /\ a.open => /\ body[a.i].arg = e.arg /\ ~Keyless(e) /\ a.answer = Error
                            /\ a.i = f /\ e.op \in {"Model", "ToolCall"}
               /\ ~a.open /\ ~a.failure =>
                    \/ a.i = i /\ Keyless(e) /\ a.answer = Error
                    \/ /\ a.i \in S /\ a.i > i /\ ~Keyless(e)
                       /\ store.recs[a.i].kind \in Intents => Rest(S, a.i) # {}
                       /\ KindAt(S, i) \in Intents =>
                            /\ Rest(S, f) # {}
                            /\ IF store.recs[g].kind =
                                    IF KindAt(S, i) = "MODEL_CALL" THEN "OUTPUT" ELSE "TOOL_RESULT"
                               THEN a.answer.ok /\ a.answer.val = body[g].arg
                               ELSE a.answer = Error
<1>1. ASSUME KindAt(S, i) # "none"
      PROVE  f \in S /\ f \in Nat /\ f > i /\ KindAt(S, i) = store.recs[f].kind
    BY <1>1, KindAtPlace
<1>2. ASSUME KindAt(S, i) # "none", KindAt(S, f) # "none"
      PROVE  /\ g \in S /\ g \in Nat /\ g > i
             /\ KindAt(S, f) = store.recs[g].kind /\ Rest(S, f) # {}
    BY <1>1, <1>2, KindAtPlace
<1>3. ASSUME KindAt(S, i) # "none", Rest(S, f) # {}
      PROVE  KindAt(S, f) = store.recs[g].kind
    BY <1>3 DEF KindAt
<1>4. /\ IsAnswer(Error) /\ IsAnswer(Done) /\ \A v, u : IsAnswer(Answer(v, u))
      /\ \A v, u : Answer(v, u).ok /\ Answer(v, u).val = v
    BY DEF IsAnswer, Answer, Done
<1>5. \A n : Fine(Diverged(n))
    BY <1>4 DEF Diverged
<1> HIDE DEF f, g
<1>6. \A n, a : /\ IsAnswer(a) /\ n \in S /\ n > i /\ ~Keyless(e)
                /\ store.recs[n].kind \notin Intents
                /\ KindAt(S, i) \notin Intents
                => Fine(Served(n, a))
    BY DEF Served
<1>7. \A a : /\ IsAnswer(a) /\ g \in S /\ g > i /\ ~Keyless(e)
             /\ store.recs[g].kind \notin Intents
             /\ Rest(S, f) # {}
             /\ store.recs[g].kind = IF KindAt(S, i) = "MODEL_CALL" THEN "OUTPUT" ELSE "TOOL_RESULT"
             /\ a.ok /\ a.val = body[g].arg
             => Fine(Served(g, a))
    BY DEF Served
<1>8. ASSUME KindAt(S, i) # "none", KindAt(S, i) \in Intents, BodyAt(S, i).arg = e.arg, ~Keyless(e),
             e.op \in {"Model", "ToolCall"},
             KindAt(S, f) # IF KindAt(S, i) = "MODEL_CALL" THEN "OUTPUT" ELSE "TOOL_RESULT"
      PROVE  Fine(Unanswered(S, f))
  <2>1. body[f].arg = e.arg
      BY <1>8 DEF BodyAt, f
  <2> QED
      BY <1>1, <1>3, <1>4, <1>8, <2>1 DEF Unanswered
<1> HIDE DEF Fine
<1>11. ASSUME e.op = "Model" PROVE Fine(got)
  <2>1. got = ServeModel(S, i, e) /\ ~Keyless(e)
      BY <1>11 DEF Serve, Keyless
  <2>2. CASE KindAt(S, i) # "MODEL_CALL" \/ BodyAt(S, i).arg # e.arg
      BY <1>5, <2>1, <2>2 DEF ServeModel
  <2>3. CASE KindAt(S, i) = "MODEL_CALL" /\ BodyAt(S, i).arg = e.arg /\ KindAt(S, f) = "OUTPUT"
    <3>1. got = Served(g, Answer(body[g].arg, UsageAt(S, g)))
        BY <2>1, <2>3 DEF ServeModel, f, g
    <3>2. g \in S /\ g > i /\ store.recs[g].kind = "OUTPUT" /\ Rest(S, f) # {}
        BY <1>2, <2>3
    <3> QED
        BY <1>4, <1>7, <2>1, <2>3, <3>1, <3>2 DEF Intents
  <2>4. CASE KindAt(S, i) = "MODEL_CALL" /\ BodyAt(S, i).arg = e.arg /\ KindAt(S, f) # "OUTPUT"
    <3>1. got = Unanswered(S, f)
        BY <2>1, <2>4 DEF ServeModel, f
    <3> QED
        BY <1>8, <1>11, <2>1, <2>4, <3>1 DEF Intents
  <2> QED
      BY <2>2, <2>3, <2>4
<1>12. ASSUME e.op = "Output" PROVE Fine(got)
  <2>1. got = ServeOutput(S, i, e) /\ ~Keyless(e)
      BY <1>12 DEF Serve, Keyless
  <2> QED
      BY <1>1, <1>4, <1>5, <1>6, <2>1 DEF ServeOutput, f, Intents
<1>13. ASSUME e.op = "ToolCall" PROVE Fine(got)
  <2>1. got = ServeToolCall(S, i, e)
      BY <1>13 DEF Serve
  <2>2. CASE ~e.key
    <3>1. Keyless(e) /\ got = Served(i, Error)
        BY <1>13, <2>1, <2>2 DEF Keyless, ServeToolCall
    <3> QED
        BY <1>4, <3>1 DEF Fine, Served
  <2>3. CASE e.key /\ (KindAt(S, i) # "TOOL_CALL" \/ BodyAt(S, i).arg # e.arg)
      BY <1>5, <2>1, <2>3 DEF ServeToolCall
  <2>4. CASE /\ e.key /\ KindAt(S, i) = "TOOL_CALL" /\ BodyAt(S, i).arg = e.arg
             /\ KindAt(S, f) = "TOOL_RESULT"
    <3>1. got = IF body[g].arg = e.arg THEN Served(g, Answer(e.arg, 0)) ELSE Diverged(g)
        BY <2>1, <2>4 DEF ServeToolCall, f, g
    <3>2. g \in S /\ g > i /\ store.recs[g].kind = "TOOL_RESULT" /\ Rest(S, f) # {}
        BY <1>2, <2>4
    <3>3. ~Keyless(e)
        BY <2>4 DEF Keyless
    <3> QED
        BY <1>4, <1>5, <1>7, <2>4, <3>1, <3>2, <3>3 DEF Intents
  <2>5. CASE /\ e.key /\ KindAt(S, i) = "TOOL_CALL" /\ BodyAt(S, i).arg = e.arg
             /\ KindAt(S, f) # "TOOL_RESULT"
    <3>1. got = Unanswered(S, f) /\ ~Keyless(e)
        BY <2>1, <2>5 DEF ServeToolCall, f, Keyless
    <3> QED
        BY <1>8, <1>13, <2>5, <3>1 DEF Intents
  <2> QED
      BY <2>2, <2>3, <2>4, <2>5
<1>14. ASSUME e.op = "Report" PROVE Fine(got)
  <2>1. got = ServeReport(S, i, e) /\ ~Keyless(e)
      BY <1>14 DEF Serve, Keyless
  <2> QED
      BY <1>1, <1>4, <1>5, <1>6, <2>1 DEF ServeReport, f, Intents
<1>15. ASSUME e.op \notin {"Model", "Output", "ToolCall", "Report"} PROVE Fine(got)
  <2>1. got = ServeUsage(S, i, e) /\ ~Keyless(e)
      BY <1>15 DEF Serve, Keyless
  <2> QED
      BY <1>1, <1>4, <1>5, <1>6, <2>1 DEF ServeUsage, f, Intents
<1>16. Fine(got)
    BY <1>11, <1>12, <1>13, <1>14, <1>15
<1> QED
    BY <1>16 DEF Fine, f, g

-----------------------------------------------------------------------------
(* What a harness has been told *)

(* The first part of a sequence of any values.                             *)
LEMMA PartOf ==
    ASSUME NEW a, IsSeq(a), NEW n \in 0 .. Len(a)
    PROVE  SubSeq(a, 1, n) = [k \in 1 .. n |-> a[k]]
<1>1. Len(a) \in Nat
    BY AppendAny
<1>2. \A S : \A s \in Seq(S) : \A m \in Nat :
         m <= Len(s) => SubSeq(s, 1, m) = [k \in 1 .. m |-> s[k]]
    BY SMT
<1>3. a \in Seq({a[k] : k \in DOMAIN a})
    BY DEF IsSeq
<1>4. n \in Nat /\ n <= Len(a)
    BY <1>1
<1> QED
    BY <1>2, <1>3, <1>4

(* One more answer changes no operation that has been made.                *)
LEMMA NthAppend ==
    ASSUME NEW h, NEW a, IsSeq(a), NEW e
    PROVE  /\ \A n \in 1 .. Len(a) : Nth(h, Append(a, e), n) = Nth(h, a, n)
           /\ Nth(h, Append(a, e), Len(a) + 1) = Operation(h, a)
<1> DEFINE b == Append(a, e)
<1>1. /\ Len(a) \in Nat /\ DOMAIN a = 1 .. Len(a) /\ IsSeq(b) /\ Len(b) = Len(a) + 1
      /\ \A k \in 1 .. Len(a) : b[k] = a[k]
    BY AppendAny
<1> HIDE DEF b
<1>2. \A n \in 0 .. Len(a) : /\ SubSeq(a, 1, n) = [k \in 1 .. n |-> a[k]]
                             /\ SubSeq(b, 1, n) = [k \in 1 .. n |-> b[k]]
    BY <1>1, PartOf
<1>3. \A n \in 0 .. Len(a) : SubSeq(b, 1, n) = SubSeq(a, 1, n)
    BY <1>1, <1>2
<1>4. a = [k \in 1 .. Len(a) |-> a[k]]
  <2>1. a \in Seq({a[k] : k \in DOMAIN a})
      BY DEF IsSeq
  <2>2. \A S : \A s \in Seq(S) : s = [k \in 1 .. Len(s) |-> s[k]]
      BY SMT
  <2> QED
      BY <2>1, <2>2
<1>5. SubSeq(b, 1, Len(a)) = a
    BY <1>1, <1>2, <1>3, <1>4
<1>6. \A n \in 1 .. Len(a) : n - 1 \in 0 .. Len(a)
    BY <1>1
<1>7. (Len(a) + 1) - 1 = Len(a)
    BY <1>1
<1> QED
    BY <1>3, <1>5, <1>6, <1>7 DEF Nth, b

(* A call without a key changes nothing about the last call that was       *)
(* recorded.                                                               *)
LEMMA FailedLastStays ==
    ASSUME NEW h, NEW a, IsSeq(a), NEW op, NEW e, FailedLast(h, a, op), Keyless(Operation(h, a))
    PROVE  FailedLast(h, Append(a, e), op)
<1> DEFINE b == Append(a, e)
<1>1. /\ Len(a) \in Nat /\ Len(b) = Len(a) + 1
      /\ \A k \in 1 .. Len(a) : b[k] = a[k]
    BY AppendAny
<1>2. /\ \A n \in 1 .. Len(a) : Nth(h, b, n) = Nth(h, a, n)
      /\ Nth(h, b, Len(a) + 1) = Operation(h, a)
    BY NthAppend
<1>3. PICK n \in 1 .. Len(a) :
        /\ Nth(h, a, n).op = op /\ ~Keyless(Nth(h, a, n))
        /\ ~a[n].ok
        /\ \A m \in n + 1 .. Len(a) : Keyless(Nth(h, a, m))
    BY DEF FailedLast
<1> HIDE DEF b
<1>4. /\ n \in 1 .. Len(b) /\ Nth(h, b, n).op = op /\ ~Keyless(Nth(h, b, n)) /\ ~b[n].ok
    BY <1>1, <1>2, <1>3
<1>5. ASSUME NEW m \in n + 1 .. Len(b) PROVE Keyless(Nth(h, b, m))
  <2>1. CASE m = Len(a) + 1
      BY <1>2, <2>1
  <2>2. CASE m # Len(a) + 1
    <3>1. m \in n + 1 .. Len(a) /\ m \in 1 .. Len(a)
        BY <1>1, <2>2
    <3> QED
        BY <1>2, <1>3, <3>1
  <2> QED
      BY <2>1, <2>2
<1> QED
    BY <1>4, <1>5 DEF FailedLast, b

(* A call that fails is the last.                                          *)
LEMMA FailedLastNow ==
    ASSUME NEW h, NEW a, IsSeq(a), ~Keyless(Operation(h, a))
    PROVE  FailedLast(h, Append(a, Error), Operation(h, a).op)
<1> DEFINE b == Append(a, Error)
           n == Len(a) + 1
<1>1. /\ Len(a) \in Nat /\ Len(b) = n /\ b[n] = Error
    BY AppendAny
<1>2. Nth(h, b, n) = Operation(h, a)
    BY NthAppend
<1> HIDE DEF b
<1>3. n \in 1 .. Len(b) /\ n + 1 .. Len(b) = {}
    BY <1>1
<1>4. ~b[n].ok
  <2>1. ~Error.ok
      BY DEF Error
  <2> QED
      BY <1>1, <2>1
<1> QED
    BY <1>2, <1>3, <1>4 DEF FailedLast, b

(* What a call knows of its harness.                                       *)
Knows(r) ==
    /\ run[r].pc # "done" => IsAnswers(run[r].answers)
    /\ run[r].pc \notin {"idle", "done"} => run[r].harness \in setting.harnesses
    /\ run[r].pc = "input" => Full(r) = {}
    /\ run[r].pc \in {"model", "output"} => Asked(r).op = "Model"
    /\ run[r].pc \in {"tool", "result"} => Asked(r).op = "ToolCall" /\ Asked(r).key
    /\ run[r].pc \in {"output", "result"} => run[r].reply = Answer(run[r].reply.val, run[r].reply.usage)

AllKnow == \A r \in Runs : Knows(r)

(* One more answer.                                                        *)
LEMMA AnswersGrow ==
    ASSUME NEW a, IsAnswers(a), NEW e, IsAnswer(e)
    PROVE  IsAnswers(Append(a, e))
<1>1. /\ IsSeq(a) /\ Len(a) \in Nat /\ IsSeq(Append(a, e)) /\ Len(Append(a, e)) = Len(a) + 1
      /\ \A k \in 1 .. Len(a) : Append(a, e)[k] = a[k]
      /\ Append(a, e)[Len(a) + 1] = e
    BY AppendAny DEF IsAnswers
<1> HIDE DEF IsAnswer
<1>2. ASSUME NEW n \in 1 .. Len(a) + 1 PROVE IsAnswer(Append(a, e)[n])
  <2>1. CASE n = Len(a) + 1
      BY <1>1, <2>1
  <2>2. CASE n # Len(a) + 1
    <3>1. n \in 1 .. Len(a)
        BY <1>1, <2>2
    <3> QED
        BY <1>1, <3>1 DEF IsAnswers
  <2> QED
      BY <2>1, <2>2
<1> QED
    BY <1>1, <1>2 DEF IsAnswers

(* An invocation whose inputs are being recorded has no effects yet.       *)
LEMMA NoEffectsBefore ==
    ASSUME CoreInv, AllKnow, NEW r \in Runs, Moved(r), NEW q \in Runs, run'[q].pc = "input"
    PROVE  Full(q)' = {}
<1>0. StoreInv /\ AllGood /\ RecInv /\ InputInv
    BY DEF CoreInv
<1>1. Full(q) = {}
  <2>1. CASE run[q].pc = "input"
      BY <2>1 DEF AllKnow, Knows
  <2>2. CASE run[q].pc # "input"
    <3>1. q = r
        BY <2>2 DEF Moved, Moves
    <3>2. run[q].pc = "start"
        BY <2>2, <3>1
           DEF Moved, Shape, Begins, Mints, Records, Departs, Reads, Serves, Answers,
               Invokes, Appends
    <3>3. \A p \in DOMAIN body : body[p].exec # q
        BY <1>0, <3>2, NoRecordsBefore
    <3> QED
        BY <1>0, <3>3, LogFacts DEF Full, Stream
  <2> QED
      BY <2>1, <2>2
<1>2. ASSUME NEW k \in EffectKinds, AppendsTo(r, k, q) PROVE FALSE
  <2>1. run[r].pc \in Running /\ run[r].exec = q
      BY <1>2 DEF AppendsTo, EffectKinds
  <2>2. Cardinality(RecordsOf(q, {"INPUT"})) = Inputs
      BY <1>0, <2>1 DEF InputInv
  <2>3. run'[r].pc \in Running \union {"done"}
      BY <2>1
         DEF Moved, Shape, Begins, Mints, Records, Departs, Reads, Serves, Answers,
             Invokes, Appends, Running, Calling
  <2>4. q # r /\ run'[q] = run[q]
      BY <2>3 DEF Moved, Moves, Running, Calling
  <2>5. Cardinality(RecordsOf(q, {"INPUT"})) < Inputs
      BY <1>0, <2>4 DEF InputInv
  <2> QED
      BY <2>2, <2>5, TurnAssumption
<1> QED
    BY <1>0, <1>1, <1>2, FullStep

(* Every step keeps what calls know of their harnesses.                    *)
LEMMA KnowsStep ==
    ASSUME CoreInv, AllKnow, NEW r \in Runs, Moved(r), Detail(r)
    PROVE  AllKnow'
<1>0. /\ StoreInv /\ AllGood /\ Knows(r) /\ Good(r) /\ setting' = setting
      /\ setting \in Settings
    BY DEF CoreInv, AllKnow, Moved, Histories, AllGood, StoreInv
<1>1. ASSUME NEW q \in Runs, q # r PROVE Knows(q)'
  <2>1. run'[q] = run[q] /\ Knows(q)
      BY <1>1 DEF Moved, Moves, AllKnow
  <2>2. Asked(q)' = Asked(q)
      BY <2>1 DEF Asked
  <2>3. run'[q].pc = "input" => Full(q)' = {}
      BY NoEffectsBefore
  <2> QED
      BY <1>0, <2>1, <2>2, <2>3 DEF Knows
<1>2. run'[r].pc = "input" => Full(r)' = {}
    BY NoEffectsBefore
<1>3. ASSUME NEW a, IsAnswer(a), Tells(r, a), Stays(r), run[r].pc \in Running PROVE Knows(r)'
  <2>1. IsAnswers(run[r].answers) /\ run[r].harness \in setting.harnesses
      BY <1>0, <1>3 DEF Knows, Running, Calling
  <2>2. IsAnswers(run'[r].answers) /\ run'[r].pc = "run" /\ run'[r].harness = run[r].harness
      BY <1>3, <2>1, AnswersGrow DEF Tells, Stays
  <2> QED
      BY <1>0, <2>1, <2>2 DEF Knows
<1>4. IsAnswer(Error) /\ IsAnswer(Done)
    BY DEF IsAnswer, Answer, Done
<1>5. ASSUME Prepares(r) PROVE Knows(r)'
  <2>1. /\ run'[r].answers = run[r].answers
        /\ run[r].pc \in {"idle", "mint", "start", "input", "read"}
        /\ run'[r].pc \in {"mint", "start", "input", "read", "run"}
        /\ run'[r].harness \in setting.harnesses
      BY <1>0, <1>5 DEF Prepares, Begins, Mints, Records, Reads, Knows
  <2> QED
      BY <1>0, <1>2, <2>1 DEF Knows
<1>6. ASSUME Quits(r) PROVE Knows(r)'
    BY <1>6 DEF Quits, Departs, Knows
<1>7. ASSUME ServesAs(r) PROVE Knows(r)'
  <2> DEFINE got == Serve(StreamOf(r), run[r].i, Asked(r))
  <2>1. StreamOf(r) \in SUBSET Nat /\ run[r].i \in Nat
      BY <1>0, StreamOfPlaces
  <2>2. /\ IsAnswer(got.answer)
        /\ got.open => ~Keyless(Asked(r)) /\ Asked(r).op \in {"Model", "ToolCall"}
      BY <2>1, ServedFrom
  <2>3. CASE ~got.open
      BY <1>3, <1>7, <2>2, <2>3 DEF ServesAs, Running
  <2>4. CASE got.open
    <3>1. /\ run'[r].answers = run[r].answers /\ run'[r].harness = run[r].harness
          /\ run'[r].pc = IF Asked(r).op = "Model" THEN "model" ELSE "tool"
          /\ run[r].pc = "run"
        BY <1>7, <2>4 DEF ServesAs, Stays
    <3>2. Asked(r)' = Asked(r)
        BY <3>1 DEF Asked
    <3> QED
        BY <1>0, <2>2, <2>4, <3>1, <3>2 DEF Knows, Keyless
  <2> QED
      BY <2>3, <2>4
<1>8. ASSUME Rejects(r) \/ Refuses(r) \/ Fails(r) PROVE Knows(r)'
    BY <1>3, <1>4, <1>8 DEF Rejects, Refuses, Fails, Live, At, Running, Calling
<1>9. ASSUME Gets(r) PROVE Knows(r)'
  <2>1. /\ run'[r].answers = run[r].answers /\ run'[r].harness = run[r].harness
        /\ \/ run[r].pc = "model" /\ run'[r].pc = "output"
           \/ run[r].pc = "tool" /\ run'[r].pc = "result"
      BY <1>9 DEF Gets, Stays
  <2>2. Asked(r)' = Asked(r)
      BY <2>1 DEF Asked
  <2>3. run'[r].reply = Answer(run'[r].reply.val, run'[r].reply.usage)
    <3>1. CASE run'[r].reply \in setting.completions
        BY <1>0, <3>1, TurnAssumption DEF Answer
    <3>2. CASE run'[r].reply = Answer(body[run[r].pos].arg, 0)
        BY <3>2 DEF Answer
    <3> QED
        BY <1>9, <3>1, <3>2 DEF Gets
  <2> QED
      BY <1>0, <2>1, <2>2, <2>3 DEF Knows
<1>10. ASSUME NEW k, Intends(r, k) PROVE Knows(r)'
  <2>1. /\ run'[r].answers = run[r].answers /\ run'[r].harness = run[r].harness
        /\ run[r].pc = "run"
        /\ \/ run'[r].pc = "model" /\ Asked(r).op = "Model"
           \/ run'[r].pc = "tool" /\ Asked(r).op = "ToolCall" /\ Asked(r).key
      BY <1>10 DEF Intends, Stays, Live, At
  <2>2. Asked(r)' = Asked(r)
      BY <2>1 DEF Asked
  <2> QED
      BY <1>0, <2>1, <2>2 DEF Knows
<1>11. ASSUME NEW k, Emits(r, k) PROVE Knows(r)'
    BY <1>3, <1>4, <1>11 DEF Emits, Live, At, Running
<1>12. ASSUME NEW k, Notes(r, k) PROVE Knows(r)'
  <2>1. IsAnswer(run[r].reply) /\ run[r].pc \in Running
      BY <1>0, <1>12 DEF Notes, Knows, IsAnswer, Running, Calling
  <2> QED
      BY <1>3, <1>12, <2>1 DEF Notes
<1>13. Knows(r)'
    BY <1>5, <1>6, <1>7, <1>8, <1>9, <1>10, <1>11, <1>12 DEF Detail
<1> QED
    BY <1>1, <1>13 DEF AllKnow

-----------------------------------------------------------------------------
(* What was given is what is recorded *)

AnswerKind(p) == IF store.recs[p].kind = "MODEL_CALL" THEN "OUTPUT" ELSE "TOOL_RESULT"

CallOp(p) == IF store.recs[p].kind = "MODEL_CALL" THEN "Model" ELSE "ToolCall"

(* An intent that something follows: the harness that made the call was    *)
(* given the recorded answer, or an error if there is none.                *)
GivenAs(p) ==
    LET q == Following(Full(body[p].exec), p)
    IN  IF store.recs[q].kind = AnswerKind(p)
        THEN given[p].ok = TRUE /\ given[p].val = body[q].arg ELSE given[p] = Error

GivenInv ==
    \A p \in DOMAIN body :
        store.recs[p].kind \in Intents /\ Rest(Full(body[p].exec), p) # {} => GivenAs(p)

(* When the owner is about to do something new and the last effect is an   *)
(* intent, the call has failed and the harness has been told.              *)
LiveInv ==
    \A r \in Runs : Owns(r) /\ Live(r) =>
        \A p \in Full(run[r].exec) :
            Rest(Full(run[r].exec), p) = {} /\ store.recs[p].kind \in Intents =>
                given[p] = Error /\ FailedLast(run[r].harness, run[r].answers, CallOp(p))

(* A stream has one last place.                                            *)
LEMMA OneLast ==
    ASSUME NEW S \in SUBSET Nat, NEW p \in S, NEW q \in S, Rest(S, p) = {}, Rest(S, q) = {}
    PROVE  p = q
<1>1. p \in Nat /\ q \in Nat /\ ~(p > q) /\ ~(q > p)
    BY DEF Rest
<1> QED
    BY <1>1

(* Nothing follows the intent that the owner carries out.                  *)
LEMMA CalledIsLast ==
    ASSUME CoreInv, NEW r \in Runs, Owns(r), run[r].pc \in Calling
    PROVE  /\ \A x : Rest(Full(x), run[r].pos) = {}
           /\ run[r].pos \in Full(run[r].exec) /\ run[r].pos \in DOMAIN body
<1>1. /\ DOMAIN body = 1 .. Len(body) /\ Len(body) \in Nat /\ Good(r)
      /\ \A p \in DOMAIN body : store.recs[p].kind \in EffectKinds => p <= run[r].pos
    BY LogFacts DEF CoreInv, OwnInv, AllGood
<1>2. /\ run[r].pos \in DOMAIN body /\ body[run[r].pos].exec = run[r].exec
      /\ store.recs[run[r].pos].kind \in EffectKinds
    BY <1>1 DEF Good, EffectKinds
<1> QED
    BY <1>1, <1>2 DEF Full, Stream, Rest

(* The history of an intent changes only while its owner carries it out.   *)
LEMMA GivenChanges ==
    ASSUME CoreInv, NEW r \in Runs, Detail(r), NEW p \in DOMAIN body
    PROVE  given'[p] = given[p] \/ (Owns(r) /\ run[r].pc \in Calling /\ p = run[r].pos)
<1>1. ASSUME GivenSame PROVE given'[p] = given[p]
    BY <1>1 DEF GivenSame
<1>2. ASSUME Fails(r)
      PROVE  given'[p] = given[p] \/ (Owns(r) /\ run[r].pc \in Calling /\ p = run[r].pos)
    BY <1>2 DEF Fails, Calling
<1>3. ASSUME NEW k, Notes(r, k)
      PROVE  given'[p] = given[p] \/ (Owns(r) /\ run[r].pc \in Calling /\ p = run[r].pos)
  <2>1. run[r].pc \in Calling /\ run[r].fence = store.fence
      BY <1>3 DEF Notes, Calling, Grows
  <2>2. Owns(r)
      BY <2>1 DEF CoreInv, AllGood, Good, Owns, Running
  <2> QED
      BY <1>3, <2>1, <2>2 DEF Notes
<1> QED
    BY <1>1, <1>2, <1>3
       DEF Detail, Prepares, Quits, ServesAs, Rejects, Refuses, Gets, Intends, Emits

(* An effect is an intent, an emission or an answer.                       *)
LEMMA EffectDetail ==
    ASSUME CoreInv, NEW r \in Runs, Detail(r), NEW k \in EffectKinds, NEW x, AppendsTo(r, k, x)
    PROVE  Intends(r, k) \/ Emits(r, k) \/ Notes(r, k)
<1>1. /\ Len(body) \in Nat /\ Len(body') = Len(body) + 1
      /\ store'.recs[Len(body) + 1].kind = k
    BY LogFacts DEF AppendsTo, CoreInv, Grows
<1>2. body' # body
    BY <1>1
<1>3. ASSUME NEW j, NEW b, Grows(r, j, b) PROVE j = k
    BY <1>1, <1>3 DEF Grows
<1>4. ~LogSame
    BY <1>2 DEF LogSame
<1>5. ~Prepares(r)
    BY <1>2, <1>3, <1>4 DEF Prepares, Begins, Mints, Records, Reads, EffectKinds
<1>6. ~Quits(r)
    BY <1>3, <1>4 DEF Quits, Departs, EffectKinds
<1>7. ASSUME NEW j, Intends(r, j) \/ Emits(r, j) \/ Notes(r, j) PROVE j = k
    BY <1>3, <1>7 DEF Intends, Emits, Notes
<1> QED
    BY <1>4, <1>5, <1>6, <1>7 DEF Detail, ServesAs, Rejects, Refuses, Fails, Gets

(* What was given stays what is recorded.                                  *)
LEMMA GivenStep ==
    ASSUME CoreInv, AllKnow, GivenInv, LiveInv, FailuresDoStandOut,
           NEW r \in Runs, Moved(r), Detail(r)
    PROVE  GivenInv'
<1> DEFINE n == Len(body) + 1
<1>0. /\ StoreInv /\ AllGood /\ Good(r) /\ Knows(r)
      /\ Len(body) \in Nat /\ DOMAIN body = 1 .. Len(body)
      /\ DOMAIN body' = 1 .. Len(body')
      /\ \A p \in 1 .. Len(body) : body'[p] = body[p] /\ store'.recs[p] = store.recs[p]
    BY ShapeExtends DEF CoreInv, AllGood, AllKnow, Moved, Extended
<1> SUFFICES ASSUME NEW p \in DOMAIN body', store'.recs[p].kind \in Intents,
                    Rest(Full(body[p].exec), p)' # {}
             PROVE  GivenAs(p)'
    BY DEF GivenInv
<1>y. PICK y : y = body'[p].exec
    OBVIOUS
<1> DEFINE S == Full(y)
           T == Full(y)'
<1>1. T = Full(body[p].exec)' /\ Rest(T, p) # {}
    BY <1>y DEF Full, Stream, Rest
<1>2. S \in SUBSET (1 .. Len(body)) /\ T \in SUBSET (1 .. Len(body'))
    BY DEF Full, Stream
<1>3. p \in T
    BY <1>0, <1>y DEF Full, Stream, Intents, EffectKinds
<1>4. ASSUME p \in DOMAIN body, Rest(S, p) # {}, Following(T, p) = Following(S, p)
      PROVE  GivenAs(p)'
  <2>1. body[p] = body'[p] /\ store.recs[p] = store'.recs[p] /\ y = body[p].exec
      BY <1>0, <1>4, <1>y
  <2>2. GivenAs(p)
      BY <1>4, <2>1 DEF GivenInv
  <2>3. given'[p] = given[p]
    <3>1. ASSUME Owns(r), run[r].pc \in Calling, p = run[r].pos PROVE FALSE
        BY <1>4, <3>1, CalledIsLast
    <3> QED
        BY <1>4, <3>1, GivenChanges
  <2> DEFINE q == Following(S, p)
  <2>4. q \in DOMAIN body
    <3>1. S \in SUBSET Nat /\ p \in Nat
        BY <1>0, <1>2, <1>4
    <3>2. q \in S
        BY <1>4, <3>1, FollowingPlace
    <3> QED
        BY <1>0, <1>2, <3>2
  <2>5. body'[q] = body[q] /\ store'.recs[q] = store.recs[q]
      BY <1>0, <2>4
  <2>6. q = Following(Full(body[p].exec), p) /\ q = Following(Full(body[p].exec)', p)
      BY <1>1, <1>4, <2>1
  <2> HIDE DEF q, S, T
  <2> QED
      BY <2>1, <2>2, <2>3, <2>5, <2>6 DEF GivenAs, AnswerKind
<1> HIDE DEF S, T
<1>5. CASE T = S
  <2>1. p \in DOMAIN body
      BY <1>0, <1>2, <1>3, <1>5
  <2> QED
      BY <1>1, <1>4, <1>5, <2>1
<1>6. ASSUME NEW k \in EffectKinds, AppendsTo(r, k, y), T = S \union {n}
      PROVE  GivenAs(p)'
  <2>1. p \in DOMAIN body
    <3>1. p \in Nat /\ p # n
      <4>1. \A m \in T : m \in Nat /\ m <= n
          BY <1>0, <1>2, <1>6
      <4> QED
          BY <1>1, <1>3, <4>1 DEF Rest
    <3> QED
        BY <1>0, <1>2, <1>3, <1>6, <3>1
  <2>2. /\ Rest(S, p) # {} => Following(T, p) = Following(S, p)
        /\ Rest(S, p) = {} => Following(T, p) = n
    <3>1. Len(body) \in Nat /\ p \in 0 .. Len(body) /\ S \in SUBSET (1 .. Len(body))
        BY <1>0, <1>2, <2>1
    <3> QED
        BY <1>6, <3>1, FollowingGrows
  <2>3. CASE Rest(S, p) # {}
      BY <1>4, <2>1, <2>2, <2>3
  <2>4. CASE Rest(S, p) = {}
    <3>0. Following(Full(body[p].exec)', p) = n
        BY <1>1, <2>2, <2>4
    <3>1. body[p] = body'[p] /\ store.recs[p] = store'.recs[p] /\ p \in S /\ y = body[p].exec
        BY <1>0, <1>3, <1>6, <1>y, <2>1
    <3>2. Owns(r) /\ run[r].exec = y /\ store'.recs[n].kind = k
        BY <1>6 DEF AppendsTo, Owns, EffectKinds, Grows
    <3>3. /\ GivenAs(p)' <=> IF k = AnswerKind(p)
                             THEN given'[p].ok = TRUE /\ given'[p].val = body'[n].arg
                             ELSE given'[p] = Error
        BY <3>0, <3>1, <3>2 DEF GivenAs, AnswerKind
    <3>4. AnswerKind(p) \in {"OUTPUT", "TOOL_RESULT"}
        BY DEF AnswerKind
    <3> HIDE DEF n
    <3>5. ASSUME Live(r)
          PROVE  given[p] = Error /\ FailedLast(run[r].harness, run[r].answers, CallOp(p))
        BY <2>4, <3>1, <3>2, <3>5 DEF LiveInv, S
    <3>6. ASSUME Intends(r, k) PROVE GivenAs(p)'
      <4>1. given'[p] = given[p] /\ Live(r) /\ k \in {"MODEL_CALL", "TOOL_CALL"}
          BY <2>1, <3>6 DEF Intends, GivenSame
      <4> QED
          BY <3>3, <3>4, <3>5, <4>1
    <3>7. ASSUME Emits(r, k) PROVE GivenAs(p)'
      <4>1. given'[p] = given[p] /\ Live(r)
          BY <2>1, <3>7 DEF Emits, GivenSame
      <4>2. FailuresStandOut(run[r].harness, run[r].answers)
          BY <1>0, <4>1 DEF FailuresDoStandOut, Knows, Live, At, StoreInv
      <4>3. k # AnswerKind(p)
          BY <3>5, <3>7, <4>1, <4>2 DEF FailuresStandOut, Emits, AnswerKind, CallOp, Asked
      <4> QED
          BY <3>3, <3>5, <4>1, <4>3
    <3>8. ASSUME Notes(r, k) PROVE GivenAs(p)'
      <4>1. run[r].pc \in {"output", "result"} /\ run[r].pc \in Calling
          BY <3>8 DEF Notes, Calling
      <4>2. Rest(S, run[r].pos) = {} /\ run[r].pos \in S /\ run[r].pos \in DOMAIN body
          BY <3>2, <4>1, CalledIsLast DEF S
      <4>3. p = run[r].pos
          BY <1>0, <2>1, <2>4, <3>1, <4>2 DEF Rest
      <4>4. k = AnswerKind(p)
          BY <1>0, <3>8, <4>1, <4>3 DEF Notes, Good, AnswerKind, Running, Calling
      <4>5. given'[p] = run[r].reply
          BY <2>1, <3>8, <4>3 DEF Notes
      <4>6. body'[n].arg = run[r].reply.val
        <5>1. Len(body) \in Nat /\ Grows(r, k, Body(run[r].exec, run[r].reply.val, 0))
            BY <1>0, <3>8 DEF Notes
        <5> QED
            BY <5>1, NewRecord DEF n
      <4>7. run[r].reply.ok = TRUE
        <5>1. run[r].reply = Answer(run[r].reply.val, run[r].reply.usage)
            BY <1>0, <4>1 DEF Knows
        <5>2. \A v, u : Answer(v, u).ok = TRUE
            BY DEF Answer
        <5> QED
            BY <5>1, <5>2
      <4> QED
          BY <3>3, <4>4, <4>5, <4>6, <4>7
    <3> QED
        BY <1>6, <3>6, <3>7, <3>8, EffectDetail
  <2> QED
      BY <2>3, <2>4
<1> QED
    BY <1>0, <1>5, <1>6, FullStep DEF S, T

(* The owner's harness knows of the call that failed last.                 *)
LEMMA LiveStep ==
    ASSUME CoreInv, AllKnow, LiveInv, NEW r \in Runs, Moved(r), Detail(r)
    PROVE  LiveInv'
<1>0. /\ StoreInv /\ AllGood /\ Good(r) /\ Knows(r)
      /\ Len(body) \in Nat /\ DOMAIN body = 1 .. Len(body)
      /\ DOMAIN body' = 1 .. Len(body') /\ Extended
      /\ \A p \in 1 .. Len(body) : body'[p] = body[p] /\ store'.recs[p] = store.recs[p]
    BY ShapeExtends DEF CoreInv, AllGood, AllKnow, Moved, Extended
<1> SUFFICES ASSUME NEW q \in Runs, Owns(q)', Live(q)',
                    NEW p, p \in Full(run[q].exec)', Rest(Full(run[q].exec), p)' = {},
                    store'.recs[p].kind \in Intents
             PROVE  /\ given'[p] = Error
                    /\ FailedLast(run'[q].harness, run'[q].answers, CallOp(p)')
    BY DEF LiveInv
<1>y. PICK y : y = run'[q].exec
    OBVIOUS
<1> DEFINE S == Full(y)
           T == Full(y)'
           n == Len(body) + 1
<1>1. p \in T /\ Rest(T, p) = {}
    BY <1>y DEF Full, Stream, Rest
<1>2. S \in SUBSET (1 .. Len(body)) /\ T \in SUBSET (1 .. Len(body')) /\ Len(body') \in Nat
    BY <1>0 DEF Full, Stream, Extended
<1>3. ~Mints(r)
  <2>1. ASSUME Mints(r) PROVE FALSE
    <3>1. store'.fence = store.fence + 1 /\ store.fence \in Nat /\ run'[r].pc # "run"
        BY <1>0, <2>1, MintEffect, LogFacts DEF Mints, StoreInv
    <3>2. q # r
        BY <3>1 DEF Live, At
    <3>3. run[q].fence \in 0 .. store.fence /\ run'[q] = run[q]
        BY <1>0, <3>2 DEF AllGood, Good, Moved, Moves
    <3> QED
        BY <3>1, <3>3 DEF Owns
  <2> QED
      BY <2>1
<1>4. store'.fence = store.fence /\ run'[r].fence \in {0, run[r].fence}
    BY <1>0, <1>3, FenceStep
<1>5. Owns(q)
    BY <1>4 DEF Owns, Moved, Moves
<1>6. ASSUME T = S PROVE p \in DOMAIN body /\ CallOp(p)' = CallOp(p)
    BY <1>0, <1>1, <1>2, <1>6 DEF CallOp
<1> HIDE DEF S, T
<1>7. CASE q # r
  <2>1. run'[q] = run[q] /\ ~Owns(r)
      BY <1>5, <1>7 DEF Moved, Moves, CoreInv, OneOwner, Owns
  <2>2. Keeps
    <3>1. ASSUME NEW k, NEW x, AppendsTo(r, k, x) PROVE FALSE
        BY <2>1, <3>1 DEF AppendsTo, Owns
    <3> QED
        BY <1>0, <3>1, ShapeAppends
  <2>3. T = S
      BY <2>2 DEF Keeps, S, T, Full, Stream
  <2>4. StreamOf(q)' = StreamOf(q)
      BY <2>1, <2>2 DEF Keeps, StreamOf, Stream
  <2>5. Live(q)
      BY <2>1, <2>4 DEF Live, At, Rest
  <2>6. given'[p] = given[p]
      BY <1>6, <2>1, <2>3, GivenChanges
  <2>7. store'.recs[p] = store.recs[p]
      BY <1>0, <1>6, <2>3
  <2>8. y = run[q].exec
      BY <1>y, <2>1
  <2>9. given[p] = Error /\ FailedLast(run[q].harness, run[q].answers, CallOp(p))
      BY <1>1, <1>5, <2>3, <2>5, <2>7, <2>8 DEF LiveInv, S
  <2> QED
      BY <1>6, <2>1, <2>3, <2>6, <2>9
<1>8. CASE q = r
  <2>0. run'[r].pc = "run" /\ ~run'[r].failure /\ Owns(r) /\ Rest(StreamOf(r)', run'[r].i) = {}
      BY <1>5, <1>8 DEF Live, At, Rest
  <2>1. ASSUME Prepares(r) PROVE FALSE
    <3>1. CASE Records(r)
      <4>1. y = r
          BY <1>8, <1>y, <3>1 DEF Records
      <4>2. S = {}
        <5>1. CASE run[r].pc = "input"
            BY <1>0, <4>1, <5>1 DEF Knows, S
        <5>2. CASE run[r].pc = "start"
          <6>1. \A m \in DOMAIN body : body[m].exec # r
              BY <5>2, NoRecordsBefore DEF CoreInv
          <6> QED
              BY <1>0, <4>1, <6>1 DEF S, Full, Stream
        <5> QED
            BY <3>1, <5>1, <5>2 DEF Records
      <4>3. ASSUME NEW k \in EffectKinds, AppendsTo(r, k, y) PROVE FALSE
          BY <3>1, <4>3 DEF Records, AppendsTo, EffectKinds, Running, Calling
      <4>4. T = S
          BY <1>0, <4>3, FullStep DEF S, T
      <4> QED
          BY <1>1, <4>2, <4>4
    <3>2. CASE Reads(r)
      <4>1. body' = body /\ store' = store /\ run'[r].seen = Len(body) /\ run'[r].i = run[r].i
          BY <1>0, <3>2, LogFacts DEF Reads, LogSame
      <4>2. run[r].i = 0
        <5>1. run[r].seen = 0
            BY <1>0, <3>2 DEF Good, Reads
        <5>2. StreamOf(r) = {}
            BY <5>1 DEF StreamOf, Stream
        <5> QED
            BY <1>0, <5>2 DEF Good
      <4>3. StreamOf(r)' = T
          BY <1>8, <1>y, <4>1 DEF StreamOf, T, Full, Stream
      <4>4. p \in Rest(T, 0)
          BY <1>1, <1>2 DEF Rest
      <4> QED
          BY <2>0, <4>1, <4>2, <4>3, <4>4
    <3> QED
        BY <1>3, <2>0, <2>1, <3>1, <3>2 DEF Prepares, Begins
  <2>2. ~Quits(r)
      BY <2>0 DEF Quits, Departs
  <2>3. ASSUME ServesAs(r) PROVE FALSE
    <3> DEFINE got == Serve(StreamOf(r), run[r].i, Asked(r))
    <3>1. /\ run[r].pc = "run" /\ Rest(StreamOf(r), run[r].i) # {} /\ LogSame /\ Stays(r)
          /\ ~got.open /\ ~got.failure /\ run'[r].i = got.i
        BY <2>0, <2>3 DEF ServesAs
    <3>2. run[r].seen = Len(body) /\ run'[r].exec = run[r].exec /\ run'[r].seen = run[r].seen
        BY <2>0, <3>1 DEF CoreInv, OwnInv, Stays
    <3>3. StreamOf(r) = S /\ T = S /\ StreamOf(r)' = S
        BY <1>8, <1>y, <3>1, <3>2 DEF StreamOf, S, T, Full, LogSame, Stream
    <3>4. S \in SUBSET Nat /\ run[r].i \in Nat
        BY <1>0, <3>3, StreamOfPlaces
    <3>5. \/ got.i = run[r].i
          \/ got.i \in S /\ (store.recs[got.i].kind \in Intents => Rest(S, got.i) # {})
        BY <3>1, <3>3, <3>4, ServedFrom
    <3> HIDE DEF got
    <3>6. Rest(S, got.i) = {}
        BY <2>0, <3>1, <3>3
    <3>7. got.i \in S /\ store.recs[got.i].kind \notin Intents
        BY <3>1, <3>3, <3>5, <3>6
    <3>8. p = got.i
        BY <1>1, <3>3, <3>4, <3>6, <3>7, OneLast
    <3> QED
        BY <3>1, <3>7, <3>8 DEF LogSame
  <2>4. ASSUME Stays(r), LogSame
        PROVE  /\ T = S /\ y = run[r].exec /\ p \in S /\ Rest(S, p) = {} /\ p \in DOMAIN body
               /\ store.recs[p].kind \in Intents /\ CallOp(p)' = CallOp(p)
    <3>1. T = S /\ y = run[r].exec
        BY <1>8, <1>y, <2>4 DEF S, T, Stays, LogSame, Full, Stream
    <3> QED
        BY <1>1, <1>6, <2>4, <3>1 DEF LogSame
  <2>5. ASSUME Rejects(r)
        PROVE  given'[p] = Error /\ FailedLast(run'[q].harness, run'[q].answers, CallOp(p)')
    <3>1. Stays(r) /\ LogSame /\ Live(r) /\ GivenSame /\ Keyless(Asked(r)) /\ Tells(r, Error)
        BY <2>5 DEF Rejects
    <3>2. given[p] = Error /\ FailedLast(run[r].harness, run[r].answers, CallOp(p))
        BY <2>0, <2>4, <3>1 DEF LiveInv, S
    <3>3. IsSeq(run[r].answers)
        BY <1>0, <3>1 DEF Knows, IsAnswers, Live, At
    <3>4. FailedLast(run[r].harness, Append(run[r].answers, Error), CallOp(p))
        BY <3>1, <3>2, <3>3, FailedLastStays DEF Asked
    <3> QED
        BY <1>8, <2>4, <3>1, <3>2, <3>4 DEF Stays, Tells, GivenSame
  <2>6. ~Refuses(r)
      BY <2>0 DEF Refuses
  <2>7. ASSUME Fails(r)
        PROVE  given'[p] = Error /\ FailedLast(run'[q].harness, run'[q].answers, CallOp(p)')
    <3>1. Stays(r) /\ LogSame /\ Tells(r, Error) /\ run[r].pc \in {"model", "tool"}
        BY <2>7 DEF Fails
    <3>2. run[r].pc \in Calling
        BY <3>1 DEF Calling
    <3>3. Rest(S, run[r].pos) = {} /\ run[r].pos \in S
        BY <2>0, <2>4, <3>1, <3>2, CalledIsLast DEF S
    <3>4. p = run[r].pos
      <4>1. S \in SUBSET Nat
          BY <1>0, <1>2
      <4> QED
          BY <2>4, <3>1, <3>3, <4>1, OneLast
    <3>5. given'[p] = Error
        BY <2>0, <2>4, <2>7, <3>1, <3>4 DEF Fails
    <3>6. Asked(r).op = CallOp(p) /\ ~Keyless(Asked(r))
        BY <1>0, <3>1, <3>2, <3>4 DEF Knows, Good, CallOp, Keyless, Calling
    <3>7. IsSeq(run[r].answers)
        BY <1>0, <3>1 DEF Knows, IsAnswers
    <3>8. FailedLast(run[r].harness, Append(run[r].answers, Error), CallOp(p))
        BY <3>6, <3>7, FailedLastNow DEF Asked
    <3> QED
        BY <1>8, <2>4, <3>1, <3>5, <3>8 DEF Stays, Tells
  <2>8. ~Gets(r)
      BY <2>0 DEF Gets
  <2>9. ASSUME NEW k PROVE ~Intends(r, k)
      BY <2>0 DEF Intends
  <2>10. ASSUME NEW k, Emits(r, k) \/ Notes(r, k) PROVE FALSE
    <3>1. /\ k \in {"OUTPUT", "TOOL_RESULT", "USAGE"} /\ run'[r].exec = run[r].exec
          /\ \E arg, usage : Grows(r, k, Body(run[r].exec, arg, usage))
        BY <2>10 DEF Emits, Notes, Stays
    <3>2. /\ Len(body') = n /\ body'[n].exec = run[r].exec /\ store'.recs[n].kind = k
          /\ n \in DOMAIN body'
      <4>1. Len(body) \in Nat
          BY <1>0
      <4> QED
          BY <3>1, <4>1, NewRecord
    <3>3. n \in T
        BY <1>0, <1>8, <1>y, <3>1, <3>2 DEF T, Full, Stream, EffectKinds
    <3>4. p = n
        BY <1>0, <1>1, <1>2, <3>2, <3>3 DEF Rest
    <3> QED
        BY <3>1, <3>2, <3>4 DEF Intents
  <2> QED
      BY <2>1, <2>2, <2>3, <2>5, <2>6, <2>7, <2>8, <2>9, <2>10 DEF Detail
<1> QED
    BY <1>7, <1>8

GivenCore == CoreInv /\ AllKnow /\ GivenInv /\ LiveInv

(* At first nothing has been asked.                                        *)
LEMMA GivenInit ==
    ASSUME Init
    PROVE  GivenCore
<1>1. CoreInv
    BY CoreInit
<1>2. body = <<>> /\ \A r \in Runs : run[r] = IdleRun
    BY DEF Init
<1>3. DOMAIN body = {}
    BY <1>2
<1>4. AllKnow
  <2>1. IsAnswers(<<>>)
      BY DEF IsAnswers, IsSeq
  <2> QED
      BY <1>2, <2>1 DEF AllKnow, Knows, IdleRun
<1>5. GivenInv
    BY <1>3 DEF GivenInv
<1>6. LiveInv
    BY <1>2 DEF LiveInv, Live, At, IdleRun
<1> QED
    BY <1>1, <1>4, <1>5, <1>6 DEF GivenCore

(* Steps that change nothing.                                              *)
LEMMA GivenStutter ==
    ASSUME GivenCore, UNCHANGED vars
    PROVE  GivenCore'
<1>0. store' = store /\ body' = body /\ run' = run /\ given' = given /\ setting' = setting
    BY DEF vars
<1>1. CoreInv'
    BY CoreStutter DEF GivenCore
<1>2. \A x : Full(x)' = Full(x)
    BY <1>0 DEF Full, Stream
<1>3. \A r \in Runs : StreamOf(r)' = StreamOf(r) /\ Asked(r)' = Asked(r)
    BY <1>0 DEF StreamOf, Stream, Asked
<1>4. AllKnow'
    BY <1>0, <1>2, <1>3 DEF GivenCore, AllKnow, Knows
<1>5. GivenInv'
  <2>1. \A p : Full(body[p].exec)' = Full(body[p].exec)
      BY <1>0 DEF Full, Stream
  <2>2. \A p : GivenAs(p)' <=> GivenAs(p)
      BY <1>0, <2>1 DEF GivenAs, AnswerKind, Following, Rest
  <2> QED
      BY <1>0, <2>1, <2>2 DEF GivenCore, GivenInv, Rest
<1>6. LiveInv'
  <2>1. \A r \in Runs : Full(run[r].exec)' = Full(run[r].exec)
      BY <1>0 DEF Full, Stream
  <2>2. \A r \in Runs : (Owns(r) /\ Live(r))' <=> (Owns(r) /\ Live(r))
      BY <1>0, <1>3 DEF Owns, Live, At, Rest
  <2>3. \A p : CallOp(p)' = CallOp(p)
      BY <1>0 DEF CallOp
  <2> QED
      BY <1>0, <2>1, <2>2, <2>3 DEF GivenCore, LiveInv, Rest
<1> QED
    BY <1>1, <1>4, <1>5, <1>6 DEF GivenCore

(* A step moves one call, in detail, or nothing moves.                     *)
LEMMA NextDetail ==
    ASSUME CoreInv, [Next]_vars
    PROVE  (\E r \in Runs : Moved(r) /\ Detail(r)) \/ UNCHANGED vars
BY StepDetail DEF CoreInv, Next, Quiescent

(* If failures stand out, what is recorded is what was given.              *)
LEMMA GivenKept ==
    ASSUME FailuresDoStandOut, GivenCore, [Next]_vars
    PROVE  GivenCore'
<1>1. ASSUME NEW r \in Runs, Moved(r), Detail(r) PROVE GivenCore'
    BY <1>1, CoreStep, KnowsStep, GivenStep, LiveStep DEF GivenCore
<1> QED
    BY <1>1, NextDetail, GivenStutter DEF GivenCore

(* Recovery gives the harness what it was given before the cut: the answer *)
(* that Resume serves for a recorded call is the one its last owner's      *)
(* harness got, however often owners crashed or were superseded, if        *)
(* harnesses let failures stand out as docs/harness-authoring.md asks.     *)
THEOREM RecoveryServesGiven ==
    ASSUME FailuresDoStandOut
    PROVE  Spec => RecoveryServesWhatWasGiven
<1> DEFINE Honest(r) ==
        /\ At(r, "run")
        /\ run'[r].i > run[r].i
        /\ run'[r].pc = "run"
        /\ ~run'[r].failure
        /\ KindAt(StreamOf(r), run[r].i) \in Intents
        => LET was == given[Following(StreamOf(r), run[r].i)]
               now == Last(run'[r].answers)
           IN  was.ok = now.ok /\ was.val = now.val
<1>1. ASSUME GivenCore, [Next]_vars PROVE \A r \in Runs : Honest(r)
  <2> SUFFICES ASSUME NEW r \in Runs, At(r, "run"), run'[r].i > run[r].i, run'[r].pc = "run",
                      ~run'[r].failure, KindAt(StreamOf(r), run[r].i) \in Intents
               PROVE  LET was == given[Following(StreamOf(r), run[r].i)]
                          now == Last(run'[r].answers)
                      IN  was.ok = now.ok /\ was.val = now.val
      OBVIOUS
  <2>0. StoreInv /\ AllGood /\ Good(r) /\ Knows(r) /\ GivenInv /\ RecInv
      BY <1>1 DEF GivenCore, CoreInv, AllGood, AllKnow
  <2>1. StreamOf(r) \in SUBSET Nat /\ run[r].i \in Nat
      BY <2>0, StreamOfPlaces
  <2>2. run'[r].i # run[r].i
      BY <2>1
  <2>3. ServesAs(r)
    <3>1. PICK q \in Runs : Moved(q) /\ Detail(q)
        BY <1>1, <2>2, NextDetail DEF GivenCore, vars
    <3>2. q = r
        BY <2>2, <3>1 DEF Moved, Moves
    <3>3. ~Prepares(r)
        BY <2>2 DEF Prepares, Begins, Mints, Records, Reads
    <3> QED
        BY <2>2, <3>1, <3>2, <3>3
           DEF Detail, Quits, Departs, Rejects, Refuses, Fails, Gets, Intends, Emits, Notes
  <2> DEFINE e == Asked(r)
             S == StreamOf(r)
             i == run[r].i
             got == Serve(S, i, e)
             f == Following(S, i)
             g == Following(S, f)
             x == run[r].exec
  <2>4. ~got.open /\ ~got.failure /\ run'[r].i = got.i /\ Tells(r, got.answer)
      BY <2>3 DEF ServesAs
  <2>5. got.i # i
      BY <2>2, <2>4
  <2>6. /\ Rest(S, f) # {}
        /\ IF store.recs[g].kind = IF KindAt(S, i) = "MODEL_CALL" THEN "OUTPUT" ELSE "TOOL_RESULT"
           THEN got.answer.ok /\ got.answer.val = body[g].arg
           ELSE got.answer = Error
      BY <2>1, <2>4, <2>5, ServedFrom
  <2>7. Last(run'[r].answers) = got.answer
    <3>1. IsSeq(run[r].answers)
        BY <2>0 DEF Knows, IsAnswers, At
    <3> QED
        BY <2>4, <3>1, AppendAny DEF Last, Tells
  <2> HIDE DEF e, got, g
  <2>8. f \in S /\ f \in Nat /\ KindAt(S, i) = store.recs[f].kind
      BY <2>1, KindAtPlace DEF Intents
  <2>9. /\ f \in DOMAIN body /\ body[f].exec = x
    <3>1. S \subseteq 1 .. Len(body)
        BY <2>0, StreamOfPlaces
    <3> QED
        BY <2>0, <2>8, <3>1, LogFacts DEF StreamOf, Stream
  <2>10. Rest(Full(x), f) # {} /\ Following(Full(x), f) = g
    <3>1. run[r].seen \in 0 .. Len(body) /\ Len(body) \in Nat
        BY <2>0, LogFacts DEF Good
    <3>2. Full(x) \in SUBSET Nat /\ S = {p \in Full(x) : p <= run[r].seen}
        BY <2>0, <3>1, StreamIsPart DEF StreamOf
    <3>3. run[r].seen \in Nat
        BY <3>1
    <3> HIDE DEF S, f
    <3> QED
        BY <2>6, <2>8, <3>2, <3>3, FollowingInPart DEF g
  <2>11. GivenAs(f)
      BY <2>0, <2>8, <2>9, <2>10 DEF GivenInv
  <2>12. IF store.recs[g].kind = AnswerKind(f)
         THEN given[f].ok = TRUE /\ given[f].val = body[g].arg ELSE given[f] = Error
      BY <2>9, <2>10, <2>11 DEF GivenAs
  <2>13. got.answer.ok => got.answer.ok = TRUE
    <3>1. IsAnswer(got.answer)
        BY <2>1, ServedFrom DEF got
    <3>2. ~Error.ok /\ \A v, u : Answer(v, u).ok = TRUE
        BY DEF Answer, Error
    <3> QED
        BY <3>1, <3>2 DEF IsAnswer
  <2> HIDE DEF f, S, i
  <2>14. given[f].ok = got.answer.ok /\ given[f].val = got.answer.val
      BY <2>6, <2>8, <2>12, <2>13 DEF AnswerKind
  <2> QED
      BY <2>7, <2>14 DEF f, S, i
<1>2. Init => GivenCore
    BY GivenInit
<1>3. GivenCore /\ [Next]_vars => GivenCore'
    BY GivenKept
<1> QED
    BY <1>1, <1>2, <1>3, PTL DEF Spec, RecoveryServesWhatWasGiven

-----------------------------------------------------------------------------
(* Serving from a stream that has grown *)

(* What an operation that is served comes to.                              *)
LEMMA ServedMoves ==
    ASSUME NEW S \in SUBSET Nat, NEW i \in Nat, NEW e, ~Serve(S, i, e).failure
    PROVE  LET got == Serve(S, i, e)
           IN  /\ IsAnswer(got.answer) /\ got.i \in Nat /\ got.i >= i
               /\ \/ got.i = i /\ Keyless(e) /\ got.answer = Error /\ ~got.open
                  \/ got.i \in S /\ got.i > i /\ ~Keyless(e)
<1> DEFINE got == Serve(S, i, e)
<1>1. /\ got.open \in BOOLEAN /\ (got.open => got.i \in S /\ got.i > i)
    BY ServeOutcome
<1>2. /\ IsAnswer(got.answer)
      /\ got.open => ~Keyless(e)
      /\ ~got.open => \/ got.i = i /\ Keyless(e) /\ got.answer = Error
                      \/ got.i \in S /\ got.i > i /\ ~Keyless(e)
    BY ServedFrom
<1> HIDE DEF got
<1>3. \/ got.i = i /\ Keyless(e) /\ got.answer = Error /\ ~got.open
      \/ got.i \in S /\ got.i > i /\ ~Keyless(e)
    BY <1>1, <1>2
<1>4. got.i \in Nat /\ got.i >= i
  <2>1. CASE got.i = i
      BY <2>1
  <2>2. CASE got.i \in S /\ got.i > i
    <3>1. \A p \in S : p > i => p \in Nat /\ p >= i
        OBVIOUS
    <3> QED
        BY <2>2, <3>1
  <2> QED
      BY <1>3, <2>1, <2>2
<1> QED
    BY <1>2, <1>3, <1>4 DEF got

(* The records at some places are still there.                             *)
Kept(S) == \A p \in S : body'[p] = body[p] /\ store'.recs[p] = store.recs[p]

(* A stream that has not grown serves as before.                           *)
LEMMA ServeSame ==
    ASSUME NEW S \in SUBSET Nat, Kept(S), NEW i \in Nat, NEW e
    PROVE  Serve(S, i, e)' = Serve(S, i, e)
<1>1. ASSUME NEW j \in Nat
      PROVE  /\ KindAt(S, j)' = KindAt(S, j)
             /\ KindAt(S, j) # "none" =>
                  /\ Following(S, j) \in Nat /\ Following(S, j) \in S
                  /\ BodyAt(S, j)' = BodyAt(S, j)
                  /\ body'[Following(S, j)] = body[Following(S, j)]
  <2>1. CASE Rest(S, j) = {}
      BY <2>1 DEF KindAt
  <2>2. CASE Rest(S, j) # {}
    <3>1. Following(S, j) \in S /\ Following(S, j) \in Nat
        BY <2>2, FollowingPlace
    <3> QED
        BY <2>2, <3>1 DEF KindAt, BodyAt, Kept
  <2> QED
      BY <2>1, <2>2
<1> DEFINE f == Following(S, i)
           g == Following(S, f)
<1>2. KindAt(S, i)' = KindAt(S, i) /\ (KindAt(S, i) # "none" => BodyAt(S, i)' = BodyAt(S, i) /\ f \in Nat)
    BY <1>1
<1>3. ASSUME KindAt(S, i) # "none"
      PROVE  /\ KindAt(S, f)' = KindAt(S, f)
             /\ KindAt(S, f) # "none" => body'[g] = body[g] /\ g \in Nat
    BY <1>1, <1>2, <1>3
<1>4. ASSUME KindAt(S, i) # "none", KindAt(S, f) # "none"
      PROVE  UsageAt(S, g)' = UsageAt(S, g)
    BY <1>1, <1>3, <1>4 DEF UsageAt
<1> HIDE DEF f, g
<1>11. ASSUME e.op = "Model" PROVE Serve(S, i, e)' = Serve(S, i, e)
  <2>1. Serve(S, i, e) = ServeModel(S, i, e) /\ Serve(S, i, e)' = ServeModel(S, i, e)'
      BY <1>11 DEF Serve
  <2>2. ServeModel(S, i, e)' = ServeModel(S, i, e)
      BY <1>2, <1>3, <1>4 DEF ServeModel, Unanswered, Diverged, f, g
  <2> QED
      BY <2>1, <2>2
<1>12. ASSUME e.op = "Output" PROVE Serve(S, i, e)' = Serve(S, i, e)
    BY <1>2, <1>12 DEF Serve, ServeOutput
<1>13. ASSUME e.op = "ToolCall" PROVE Serve(S, i, e)' = Serve(S, i, e)
  <2>1. Serve(S, i, e) = ServeToolCall(S, i, e) /\ Serve(S, i, e)' = ServeToolCall(S, i, e)'
      BY <1>13 DEF Serve
  <2>2. ServeToolCall(S, i, e)' = ServeToolCall(S, i, e)
      BY <1>2, <1>3 DEF ServeToolCall, Unanswered, Diverged, f, g
  <2> QED
      BY <2>1, <2>2
<1>14. ASSUME e.op = "Report" PROVE Serve(S, i, e)' = Serve(S, i, e)
    BY <1>2, <1>14 DEF Serve, ServeReport
<1>15. ASSUME e.op \notin {"Model", "Output", "ToolCall", "Report"}
       PROVE  Serve(S, i, e)' = Serve(S, i, e)
    BY <1>2, <1>15 DEF Serve, ServeUsage
<1> QED
    BY <1>11, <1>12, <1>13, <1>14, <1>15

(* What is seen of a stream that has grown by a record.                    *)
LEMMA ViewGrows ==
    ASSUME NEW L \in Nat, NEW S \in SUBSET (1 .. L), Kept(S), NEW j \in 0 .. L
    PROVE  LET T == S \union {L + 1}
           IN  /\ Rest(T, j) # {}
               /\ Rest(S, j) # {} =>
                    /\ KindAt(T, j)' = KindAt(S, j) /\ BodyAt(T, j)' = BodyAt(S, j)
                    /\ Following(T, j) = Following(S, j) /\ Following(S, j) \in 0 .. L
                    /\ body'[Following(S, j)] = body[Following(S, j)]
                    /\ KindAt(S, j) = store.recs[Following(S, j)].kind
               /\ Rest(S, j) = {} =>
                    /\ KindAt(T, j)' = store'.recs[L + 1].kind /\ BodyAt(T, j)' = body'[L + 1]
                    /\ KindAt(S, j) = "none"
<1> DEFINE T == S \union {L + 1}
<1>1. /\ Rest(T, j) # {}
      /\ Rest(S, j) # {} => Following(T, j) = Following(S, j)
      /\ Rest(S, j) = {} => Following(T, j) = L + 1
  <2>1. L + 1 \in Rest(S, j) \union {L + 1}
      OBVIOUS
  <2> QED
      BY <2>1, FollowingGrows
<1>2. S \in SUBSET Nat /\ j \in Nat
    OBVIOUS
<1> HIDE DEF T
<1>3. ASSUME Rest(S, j) # {}
      PROVE  /\ KindAt(T, j)' = KindAt(S, j) /\ BodyAt(T, j)' = BodyAt(S, j)
             /\ Following(S, j) \in 0 .. L
             /\ body'[Following(S, j)] = body[Following(S, j)]
             /\ KindAt(S, j) = store.recs[Following(S, j)].kind
  <2>1. Following(S, j) \in S
      BY <1>2, <1>3, FollowingPlace
  <2>2. Following(S, j) \in 1 .. L
      BY <2>1
  <2> QED
      BY <1>1, <1>3, <2>1, <2>2 DEF KindAt, BodyAt, Kept
<1>4. ASSUME Rest(S, j) = {}
      PROVE  /\ KindAt(T, j)' = store'.recs[L + 1].kind /\ BodyAt(T, j)' = body'[L + 1]
             /\ KindAt(S, j) = "none"
    BY <1>1, <1>4 DEF KindAt, BodyAt
<1> QED
    BY <1>1, <1>3, <1>4 DEF T

(* A stream that has grown by a record serves as before, but for an        *)
(* operation that had consumed all of it: a call may now be answered, and  *)
(* a completion may now have its usage.                                    *)
LEMMA ServeGrows ==
    ASSUME NEW L \in Nat, NEW S \in SUBSET (1 .. L), Kept(S), NEW i \in 0 .. L, NEW e,
           ~Serve(S, i, e).failure
    PROVE  LET got == Serve(S, i, e)
               new == Serve(S \union {L + 1}, i, e)'
               k == store'.recs[L + 1].kind
           IN  /\ Rest(S, got.i) # {} => new = got
               /\ /\ got.open
                  /\ k # IF e.op = "Model" THEN "OUTPUT" ELSE "TOOL_RESULT"
                  => new.i = got.i /\ new.answer = got.answer /\ ~new.failure
               /\ Rest(S, got.i) = {} /\ ~got.open =>
                    /\ new.i = got.i /\ ~new.failure
                    /\ IF e.op = "Model" /\ k = "USAGE"
                       THEN /\ got.answer.ok /\ store.recs[got.i].kind = "OUTPUT"
                            /\ new.answer = Answer(got.answer.val, body'[L + 1].usage)
                       ELSE new.answer = got.answer
<1> DEFINE T == S \union {L + 1}
           k == store'.recs[L + 1].kind
           got == Serve(S, i, e)
           Fine(new) ==
               /\ Rest(S, got.i) # {} => new = got
               /\ /\ got.open
                  /\ k # IF e.op = "Model" THEN "OUTPUT" ELSE "TOOL_RESULT"
                  => new.i = got.i /\ new.answer = got.answer /\ ~new.failure
               /\ Rest(S, got.i) = {} /\ ~got.open =>
                    /\ new.i = got.i /\ ~new.failure
                    /\ IF e.op = "Model" /\ k = "USAGE"
                       THEN /\ got.answer.ok /\ store.recs[got.i].kind = "OUTPUT"
                            /\ new.answer = Answer(got.answer.val, body'[L + 1].usage)
                       ELSE new.answer = got.answer
<1>0. S \in SUBSET Nat /\ i \in Nat
    OBVIOUS
<1>1. ASSUME NEW j \in 0 .. L, Rest(S, j) # {}
      PROVE  /\ KindAt(T, j)' = KindAt(S, j) /\ BodyAt(T, j)' = BodyAt(S, j)
             /\ Following(T, j) = Following(S, j) /\ Following(S, j) \in 0 .. L
             /\ body'[Following(S, j)] = body[Following(S, j)]
             /\ Rest(T, j) # {}
             /\ KindAt(S, j) = store.recs[Following(S, j)].kind
    BY <1>1, ViewGrows
<1>2. ASSUME NEW j \in 0 .. L, Rest(S, j) = {}
      PROVE  /\ KindAt(T, j)' = k /\ BodyAt(T, j)' = body'[L + 1] /\ KindAt(S, j) = "none"
             /\ Rest(T, j) # {}
    BY <1>2, ViewGrows
<1> DEFINE f == Following(S, i)
           g == Following(S, f)
<1> HIDE DEF T, k, got, Fine
<1>3. ASSUME Rest(S, i) # {}
      PROVE  /\ KindAt(T, i)' = KindAt(S, i) /\ BodyAt(T, i)' = BodyAt(S, i)
             /\ Following(T, i) = f /\ f \in 0 .. L
             /\ KindAt(S, i) = store.recs[f].kind
    BY <1>1, <1>3
<1>4. ASSUME Rest(S, i) # {}, Rest(S, f) # {}
      PROVE  /\ KindAt(T, f)' = KindAt(S, f) /\ body'[g] = body[g]
             /\ Following(T, f) = g /\ g \in 0 .. L
             /\ KindAt(S, f) = store.recs[g].kind
             /\ Rest(T, f) # {}
    BY <1>1, <1>3, <1>4
<1>5. ASSUME Rest(S, i) # {}, Rest(S, f) = {}
      PROVE  KindAt(T, f)' = k /\ KindAt(S, f) = "none" /\ Rest(T, f) # {}
    BY <1>2, <1>3, <1>5
<1>6. ASSUME Rest(S, i) # {}, Rest(S, f) # {}
      PROVE  /\ Rest(S, g) # {} => UsageAt(T, g)' = UsageAt(S, g)
             /\ Rest(S, g) = {} =>
                  /\ UsageAt(S, g) = 0
                  /\ UsageAt(T, g)' = IF k = "USAGE" THEN body'[L + 1].usage ELSE 0
    BY <1>1, <1>2, <1>4, <1>6 DEF UsageAt
<1>7. Rest(S, i) = {} => KindAt(S, i) = "none"
    BY DEF KindAt
<1> HIDE DEF f, g
<1> USE DEF Fine
<1>11. ASSUME e.op = "Model" PROVE Fine(Serve(T, i, e)')
  <2>1. got = ServeModel(S, i, e) /\ Serve(T, i, e)' = ServeModel(T, i, e)'
      BY <1>11 DEF Serve, got
  <2>2. KindAt(S, i) = "MODEL_CALL" /\ BodyAt(S, i).arg = e.arg /\ Rest(S, i) # {}
      BY <1>7, <2>1 DEF ServeModel, Diverged, got
  <2>3. CASE Rest(S, f) # {} /\ KindAt(S, f) = "OUTPUT"
    <3>1. got = Served(g, Answer(body[g].arg, UsageAt(S, g)))
        BY <2>1, <2>2, <2>3 DEF ServeModel, f, g
    <3>2. Serve(T, i, e)' = Served(g, Answer(body[g].arg, UsageAt(T, g)'))
        BY <1>3, <1>4, <2>1, <2>2, <2>3 DEF ServeModel
    <3>3. got.i = g /\ got.answer.ok /\ got.answer.val = body[g].arg /\ ~got.open
          /\ store.recs[g].kind = "OUTPUT"
        BY <1>4, <2>2, <2>3, <3>1 DEF Served, Answer
    <3>4. CASE Rest(S, g) # {}
        BY <1>6, <2>2, <2>3, <3>1, <3>2, <3>3, <3>4
    <3>5. CASE Rest(S, g) = {}
      <4>1. UsageAt(S, g) = 0 /\ UsageAt(T, g)' = IF k = "USAGE" THEN body'[L + 1].usage ELSE 0
          BY <1>6, <2>2, <2>3, <3>5
      <4>2. Serve(T, i, e)'.i = g /\ ~Serve(T, i, e)'.failure
          BY <3>2 DEF Served
      <4>3. /\ Serve(T, i, e)'.answer = Answer(body[g].arg, UsageAt(T, g)')
            /\ got.answer = Answer(body[g].arg, UsageAt(S, g))
          BY <3>1, <3>2 DEF Served
      <4>4. IF k = "USAGE" THEN Serve(T, i, e)'.answer = Answer(body[g].arg, body'[L + 1].usage)
                           ELSE Serve(T, i, e)'.answer = got.answer
          BY <4>1, <4>3
      <4> QED
          BY <1>11, <3>3, <3>5, <4>2, <4>4
    <3> QED
        BY <3>4, <3>5
  <2>4. CASE Rest(S, f) # {} /\ KindAt(S, f) # "OUTPUT"
    <3>1. got = Unanswered(S, f)
        BY <2>1, <2>2, <2>4 DEF ServeModel, f
    <3>2. Serve(T, i, e)' = Unanswered(T, f)
        BY <1>3, <1>4, <2>1, <2>2, <2>4 DEF ServeModel, Unanswered
    <3>3. Serve(T, i, e)' = got
        BY <1>4, <2>2, <2>4, <3>1, <3>2 DEF Unanswered
    <3>4. got.i = f /\ ~got.open
        BY <2>4, <3>1 DEF Unanswered
    <3> QED
        BY <2>4, <3>3, <3>4
  <2>5. CASE Rest(S, f) = {}
    <3>1. got = Unanswered(S, f)
        BY <1>5, <2>1, <2>2, <2>5 DEF ServeModel, f
    <3>2. got.open /\ got.i = f /\ got.answer = Error
        BY <2>5, <3>1 DEF Unanswered
    <3>3. ASSUME k # "OUTPUT"
          PROVE  /\ Serve(T, i, e)'.i = f /\ Serve(T, i, e)'.answer = Error
                 /\ ~Serve(T, i, e)'.failure
      <4>1. Serve(T, i, e)' = Unanswered(T, f)
          BY <1>3, <1>5, <2>1, <2>2, <2>5, <3>3 DEF ServeModel, Unanswered
      <4> QED
          BY <4>1 DEF Unanswered
    <3> QED
        BY <1>11, <2>5, <3>2, <3>3
  <2> QED
      BY <2>3, <2>4, <2>5
<1>12. ASSUME e.op = "Output" PROVE Fine(Serve(T, i, e)')
  <2>1. got = ServeOutput(S, i, e) /\ Serve(T, i, e)' = ServeOutput(T, i, e)'
      BY <1>12 DEF Serve, got
  <2>2. KindAt(S, i) = "OUTPUT" /\ BodyAt(S, i).arg = e.arg /\ Rest(S, i) # {}
      BY <1>7, <2>1 DEF ServeOutput, Diverged, got
  <2>3. Serve(T, i, e)' = got /\ got = Served(f, Done)
      BY <1>3, <2>1, <2>2 DEF ServeOutput, f
  <2> QED
      BY <1>12, <2>3 DEF Served
<1>13. ASSUME e.op = "ToolCall" PROVE Fine(Serve(T, i, e)')
  <2>1. got = ServeToolCall(S, i, e) /\ Serve(T, i, e)' = ServeToolCall(T, i, e)'
      BY <1>13 DEF Serve, got
  <2>2. CASE ~e.key
    <3>1. got = Served(i, Error) /\ Serve(T, i, e)' = got
        BY <2>1, <2>2 DEF ServeToolCall
    <3> QED
        BY <1>13, <3>1 DEF Served
  <2>3. CASE e.key
    <3>2. KindAt(S, i) = "TOOL_CALL" /\ BodyAt(S, i).arg = e.arg /\ Rest(S, i) # {}
        BY <1>7, <2>1, <2>3 DEF ServeToolCall, Diverged, got
    <3>3. CASE Rest(S, f) # {} /\ KindAt(S, f) = "TOOL_RESULT"
      <4>1. body[g].arg = e.arg /\ got = Served(g, Answer(e.arg, 0))
          BY <2>1, <2>3, <3>2, <3>3 DEF ServeToolCall, Diverged, f, g, got
      <4>2. Serve(T, i, e)' = got
          BY <1>3, <1>4, <2>1, <2>3, <3>2, <3>3, <4>1 DEF ServeToolCall
      <4> QED
          BY <1>13, <4>1, <4>2 DEF Served
    <3>4. CASE Rest(S, f) # {} /\ KindAt(S, f) # "TOOL_RESULT"
      <4>1. got = Unanswered(S, f)
          BY <2>1, <2>3, <3>2, <3>4 DEF ServeToolCall, f
      <4>2. Serve(T, i, e)' = Unanswered(T, f)
          BY <1>3, <1>4, <2>1, <2>3, <3>2, <3>4 DEF ServeToolCall, Unanswered
      <4>3. Serve(T, i, e)' = got
          BY <1>4, <3>2, <3>4, <4>1, <4>2 DEF Unanswered
      <4>4. got.i = f /\ ~got.open
          BY <3>4, <4>1 DEF Unanswered
      <4> QED
          BY <3>4, <4>3, <4>4
    <3>5. CASE Rest(S, f) = {}
      <4>1. got = Unanswered(S, f)
          BY <1>5, <2>1, <2>3, <3>2, <3>5 DEF ServeToolCall, f
      <4>2. got.open /\ got.i = f /\ got.answer = Error
          BY <3>5, <4>1 DEF Unanswered
      <4>3. ASSUME k # "TOOL_RESULT"
            PROVE  /\ Serve(T, i, e)'.i = f /\ Serve(T, i, e)'.answer = Error
                   /\ ~Serve(T, i, e)'.failure
        <5>1. Serve(T, i, e)' = Unanswered(T, f)
            BY <1>3, <1>5, <2>1, <2>3, <3>2, <3>5, <4>3 DEF ServeToolCall, Unanswered
        <5> QED
            BY <5>1 DEF Unanswered
      <4> QED
          BY <1>13, <3>5, <4>2, <4>3
    <3> QED
        BY <3>3, <3>4, <3>5
  <2> QED
      BY <2>2, <2>3
<1>14. ASSUME e.op = "Report" PROVE Fine(Serve(T, i, e)')
  <2>1. got = ServeReport(S, i, e) /\ Serve(T, i, e)' = ServeReport(T, i, e)'
      BY <1>14 DEF Serve, got
  <2>2. KindAt(S, i) = "TOOL_RESULT" /\ Rest(S, i) # {}
      BY <1>7, <2>1 DEF ServeReport, Diverged, got
  <2>3. Serve(T, i, e)' = got /\ got = Served(f, Done)
      BY <1>3, <2>1, <2>2 DEF ServeReport, f
  <2> QED
      BY <1>14, <2>3 DEF Served
<1>15. ASSUME e.op \notin {"Model", "Output", "ToolCall", "Report"} PROVE Fine(Serve(T, i, e)')
  <2>1. got = ServeUsage(S, i, e) /\ Serve(T, i, e)' = ServeUsage(T, i, e)'
      BY <1>15 DEF Serve, got
  <2>2. KindAt(S, i) = "USAGE" /\ BodyAt(S, i).usage = e.usage /\ Rest(S, i) # {}
      BY <1>7, <2>1 DEF ServeUsage, Diverged, got
  <2>3. Serve(T, i, e)' = got /\ got = Served(f, Done)
      BY <1>3, <2>1, <2>2 DEF ServeUsage, f
  <2> QED
      BY <1>15, <2>3 DEF Served
<1>16. Fine(Serve(T, i, e)')
    BY <1>11, <1>12, <1>13, <1>14, <1>15
<1> QED
    BY <1>16 DEF T, k, got

-----------------------------------------------------------------------------
(* Traces: a harness that is served from a stream and nothing else *)

(* The n-th operation is served from stream S, where b is answered and c   *)
(* is consumed; an open intent is an error, as it is to a replay.          *)
Meets(h, S, b, c, n) ==
    LET e == Nth(h, b, n)
        got == Serve(S, c[n - 1], e)
    IN  e.op \notin Leaves /\ ~got.failure /\ got.i = c[n] /\ got.answer = b[n]

Trace(h, S, b, c) ==
    /\ IsAnswers(b) /\ c \in [0 .. Len(b) -> S \union {0}] /\ c[0] = 0
    /\ \A n \in 1 .. Len(b) : Meets(h, S, b, c, n)

(* What never goes down is highest at the end.                             *)
LEMMA Climbs ==
    ASSUME NEW N \in Nat, NEW c, \A n \in 0 .. N : c[n] \in Nat,
           \A n \in 1 .. N : c[n - 1] <= c[n]
    PROVE  \A m \in 0 .. N : c[m] <= c[N]
<1> SUFFICES ASSUME NEW m \in 0 .. N, ~(c[m] <= c[N])
             PROVE  FALSE
    OBVIOUS
<1> DEFINE B == {k \in Nat : k <= N /\ ~(c[N - k] <= c[N])}
<1>1. N - m \in B
  <2>1. N - (N - m) = m /\ N - m \in Nat /\ N - m <= N
      OBVIOUS
  <2> QED
      BY <2>1
<1>2. PICK k \in B : \A j \in B : k <= j
  <2>1. B \in SUBSET Nat /\ B # {}
      BY <1>1
  <2> HIDE DEF B
  <2> QED
      BY <2>1, LeastPlace
<1>3. k \in Nat /\ k <= N /\ ~(c[N - k] <= c[N])
    OBVIOUS
<1>4. k # 0
    BY <1>3
<1>5. N - k \in 0 .. N /\ (N - k) + 1 \in 1 .. N /\ (N - k) + 1 \in 0 .. N
    BY <1>3, <1>4
<1>6. (N - k) + 1 = N - (k - 1) /\ k - 1 \in Nat /\ k - 1 <= N /\ ((N - k) + 1) - 1 = N - k
    BY <1>3, <1>4
<1>7. c[N - k] <= c[(N - k) + 1]
    BY <1>5, <1>6
<1>8. ~(c[N - (k - 1)] <= c[N])
  <2>1. c[N - k] \in Nat /\ c[(N - k) + 1] \in Nat /\ c[N] \in Nat
      BY <1>5
  <2> QED
      BY <1>3, <1>6, <1>7, <2>1
<1>9. k - 1 \in B
    BY <1>6, <1>8
<1> QED
    BY <1>2, <1>3, <1>9

(* How a trace consumes its stream.                                        *)
LEMMA TraceMoves ==
    ASSUME NEW S \in SUBSET Nat, NEW h, NEW b, NEW c, Trace(h, S, b, c)
    PROVE  /\ IsSeq(b) /\ Len(b) \in Nat
           /\ \A n \in 0 .. Len(b) : c[n] \in Nat /\ c[n] \in S \union {0}
           /\ \A n \in 1 .. Len(b) :
                /\ n - 1 \in 0 .. Len(b) /\ n \in 0 .. Len(b) /\ IsAnswer(b[n])
                /\ \/ c[n] = c[n - 1] /\ Keyless(Nth(h, b, n)) /\ b[n] = Error
                   \/ c[n] \in S /\ c[n] > c[n - 1] /\ ~Keyless(Nth(h, b, n))
           /\ \A n \in 0 .. Len(b) : \A m \in 0 .. n : c[m] <= c[n]
<1>1. IsSeq(b) /\ Len(b) \in Nat
    BY AppendAny DEF Trace, IsAnswers
<1>2. \A n \in 0 .. Len(b) : c[n] \in Nat /\ c[n] \in S \union {0}
    BY DEF Trace
<1>3. ASSUME NEW n \in 1 .. Len(b)
      PROVE  /\ n - 1 \in 0 .. Len(b) /\ n \in 0 .. Len(b) /\ IsAnswer(b[n])
             /\ \/ c[n] = c[n - 1] /\ Keyless(Nth(h, b, n)) /\ b[n] = Error
                \/ c[n] \in S /\ c[n] > c[n - 1] /\ ~Keyless(Nth(h, b, n))
  <2>1. n - 1 \in 0 .. Len(b) /\ n \in 0 .. Len(b)
      BY <1>1
  <2>2. c[n - 1] \in Nat
      BY <1>2, <2>1
  <2>3. LET got == Serve(S, c[n - 1], Nth(h, b, n))
        IN  ~got.failure /\ got.i = c[n] /\ got.answer = b[n]
      BY DEF Trace, Meets
  <2>4. LET got == Serve(S, c[n - 1], Nth(h, b, n))
        IN  /\ IsAnswer(got.answer)
            /\ \/ got.i = c[n - 1] /\ Keyless(Nth(h, b, n)) /\ got.answer = Error
               \/ got.i \in S /\ got.i > c[n - 1] /\ ~Keyless(Nth(h, b, n))
      BY <2>2, <2>3, ServedMoves
  <2> QED
      BY <2>1, <2>3, <2>4
<1>4. ASSUME NEW n \in 1 .. Len(b) PROVE c[n - 1] <= c[n]
  <2>1. c[n - 1] \in Nat /\ c[n] \in Nat /\ (c[n] = c[n - 1] \/ c[n] > c[n - 1])
      BY <1>2, <1>3
  <2> QED
      BY <2>1
<1>5. ASSUME NEW n \in 0 .. Len(b) PROVE \A m \in 0 .. n : c[m] <= c[n]
  <2>1. n \in Nat /\ (\A m \in 0 .. n : c[m] \in Nat) /\ \A m \in 1 .. n : c[m - 1] <= c[m]
    <3>1. n \in Nat /\ 0 .. n \subseteq 0 .. Len(b) /\ 1 .. n \subseteq 1 .. Len(b)
        BY <1>1
    <3> QED
        BY <1>2, <1>4, <3>1
  <2> QED
      BY <2>1, Climbs
<1> QED
    BY <1>1, <1>2, <1>3, <1>5

(* The first part of a harness's history.                                  *)
LEMMA NthPart ==
    ASSUME NEW h, NEW a, IsSeq(a), NEW n \in 0 .. Len(a)
    PROVE  LET p == SubSeq(a, 1, n)
           IN  /\ IsSeq(p) /\ Len(p) = n
               /\ \A m \in 1 .. n : p[m] = a[m] /\ Nth(h, p, m) = Nth(h, a, m)
<1> DEFINE p == SubSeq(a, 1, n)
<1>0. Len(a) \in Nat /\ n \in Nat
    BY AppendAny
<1>1. p = [k \in 1 .. n |-> a[k]]
    BY PartOf
<1> HIDE DEF p
<1>2. p \in Seq({a[k] : k \in 1 .. n}) /\ Len(p) = n /\ DOMAIN p = 1 .. n
    BY <1>0, <1>1
<1>3. IsSeq(p)
  <2>1. {p[k] : k \in DOMAIN p} = {a[k] : k \in 1 .. n}
      BY <1>1, <1>2
  <2> QED
      BY <1>2, <2>1 DEF IsSeq
<1>4. ASSUME NEW m \in 1 .. n PROVE Nth(h, p, m) = Nth(h, a, m)
  <2>1. m - 1 \in 0 .. n /\ m - 1 \in 0 .. Len(a) /\ 1 .. m - 1 \subseteq 1 .. n
      BY <1>0
  <2>2. SubSeq(p, 1, m - 1) = [k \in 1 .. m - 1 |-> p[k]]
      BY <1>2, <1>3, <2>1, PartOf
  <2>3. SubSeq(a, 1, m - 1) = [k \in 1 .. m - 1 |-> a[k]]
      BY <2>1, PartOf
  <2>4. [k \in 1 .. m - 1 |-> p[k]] = [k \in 1 .. m - 1 |-> a[k]]
      BY <1>1, <2>1
  <2> QED
      BY <2>2, <2>3, <2>4 DEF Nth
<1> QED
    BY <1>1, <1>2, <1>3, <1>4 DEF p

(* Histories that begin alike make the same operation next.                *)
LEMMA NthBegins ==
    ASSUME NEW h, NEW a, IsSeq(a), NEW b, IsSeq(b), NEW n \in Nat, n <= Len(a), n <= Len(b),
           \A m \in 1 .. n : a[m] = b[m]
    PROVE  Nth(h, a, n + 1) = Nth(h, b, n + 1)
<1>0. Len(a) \in Nat /\ Len(b) \in Nat
    BY AppendAny
<1>1. n \in 0 .. Len(a) /\ n \in 0 .. Len(b) /\ (n + 1) - 1 = n
    BY <1>0
<1>2. SubSeq(a, 1, n) = [k \in 1 .. n |-> a[k]] /\ SubSeq(b, 1, n) = [k \in 1 .. n |-> b[k]]
    BY <1>1, PartOf
<1>3. SubSeq(a, 1, n) = SubSeq(b, 1, n)
    BY <1>2
<1> QED
    BY <1>1, <1>3 DEF Nth

(* A trace after one more operation that is served.                        *)
LEMMA TraceExtends ==
    ASSUME NEW S, NEW h, NEW b, NEW c, Trace(h, S, b, c)', NEW got,
           Operation(h, b).op \notin Leaves,
           Serve(S, c[Len(b)], Operation(h, b))' = got,
           ~got.failure, got.i \in S \union {0}, IsAnswer(got.answer)
    PROVE  \E d : Trace(h, S, Append(b, got.answer), d)' /\ d[Len(b) + 1] = got.i
<1> DEFINE N == Len(b)
           e == Operation(h, b)
           b2 == Append(b, got.answer)
           d == [n \in 0 .. N + 1 |-> IF n <= N THEN c[n] ELSE got.i]
<1>0. IsAnswers(b) /\ IsSeq(b) /\ c \in [0 .. N -> S \union {0}] /\ c[0] = 0
    BY DEF Trace, IsAnswers
<1>1. N \in Nat
    BY <1>0, AppendAny
<1>2. IsAnswers(b2) /\ Len(b2) = N + 1 /\ b2[N + 1] = got.answer
      /\ \A n \in 1 .. N : b2[n] = b[n]
    BY <1>0, AnswersGrow, AppendAny
<1>3. /\ Nth(h, b2, N + 1) = e
      /\ \A n \in 1 .. N : Nth(h, b2, n) = Nth(h, b, n)
    BY <1>0, NthAppend
<1> HIDE DEF b2, e, N
<1>4. d \in [0 .. N + 1 -> S \union {0}] /\ d[0] = 0 /\ d[N + 1] = got.i
      /\ \A n \in 0 .. N : d[n] = c[n]
    BY <1>0, <1>1
<1> HIDE DEF d
<1>5. ASSUME NEW n \in 1 .. N + 1 PROVE Meets(h, S, b2, d, n)'
  <2>1. CASE n = N + 1
    <3>1. d[n - 1] = c[N] /\ d[n] = got.i
      <4>1. n - 1 = N /\ N \in 0 .. N
          BY <1>1, <2>1
      <4> QED
          BY <1>4, <2>1, <4>1
    <3> QED
        BY <1>2, <1>3, <2>1, <3>1 DEF Meets, N, e
  <2>2. CASE n # N + 1
    <3>1. n \in 1 .. N /\ n \in 0 .. N /\ n - 1 \in 0 .. N
        BY <1>1, <2>2
    <3>2. Meets(h, S, b, c, n)'
        BY <3>1 DEF Trace, N
    <3>3. d[n - 1] = c[n - 1] /\ d[n] = c[n] /\ b2[n] = b[n] /\ Nth(h, b2, n) = Nth(h, b, n)
        BY <1>2, <1>3, <1>4, <3>1
    <3> QED
        BY <3>2, <3>3 DEF Meets
  <2> QED
      BY <2>1, <2>2
<1>6. Trace(h, S, b2, d)'
    BY <1>2, <1>4, <1>5 DEF Trace
<1> QED
    BY <1>4, <1>6 DEF N, b2

(* A harness that has not been served anything.                            *)
LEMMA TraceStarts ==
    ASSUME NEW h, NEW S
    PROVE  \E c : /\ c[0] = 0 /\ Len(<<>>) = 0
                  /\ Trace(h, S, <<>>, c) /\ Trace(h, S, <<>>, c)'
<1> DEFINE c == [n \in 0 .. 0 |-> 0]
<1>1. Len(<<>>) = 0 /\ IsAnswers(<<>>)
    BY DEF IsAnswers, IsSeq
<1>2. c \in [0 .. 0 -> S \union {0}] /\ c[0] = 0
    OBVIOUS
<1>3. 1 .. 0 = {}
    OBVIOUS
<1> HIDE DEF c
<1> QED
    BY <1>1, <1>2, <1>3 DEF Trace

(* A stream is served in one way only.                                     *)
LEMMA OneTrace ==
    ASSUME NEW S \in SUBSET Nat, NEW h, NEW a, NEW c, Trace(h, S, a, c),
           NEW b, NEW d, Trace(h, S, b, d), Len(a) <= Len(b)
    PROVE  \A n \in 0 .. Len(a) : c[n] = d[n] /\ (n > 0 => a[n] = b[n])
<1>0. /\ IsSeq(a) /\ IsSeq(b) /\ Len(a) \in Nat /\ Len(b) \in Nat /\ c[0] = 0 /\ d[0] = 0
    BY TraceMoves DEF Trace
<1> DEFINE B == {n \in Nat : n <= Len(a) /\ ~(c[n] = d[n] /\ (n > 0 => a[n] = b[n]))}
<1>1. ASSUME B # {} PROVE FALSE
  <2>1. PICK n \in B : \A m \in B : n <= m
    <3>1. B \in SUBSET Nat
        OBVIOUS
    <3> HIDE DEF B
    <3> QED
        BY <1>1, <3>1, LeastPlace
  <2>2. n \in Nat /\ n <= Len(a) /\ ~(c[n] = d[n] /\ (n > 0 => a[n] = b[n]))
      OBVIOUS
  <2>3. n # 0
      BY <1>0, <2>2
  <2>4. /\ n \in 1 .. Len(a) /\ n \in 1 .. Len(b) /\ n - 1 \in Nat
        /\ n - 1 <= Len(a) /\ n - 1 <= Len(b) /\ (n - 1) + 1 = n
      BY <1>0, <2>2, <2>3
  <2>5. ASSUME NEW m \in Nat, m < n PROVE c[m] = d[m] /\ (m > 0 => a[m] = b[m])
    <3>1. m <= Len(a) /\ ~(n <= m)
        BY <1>0, <2>2, <2>5
    <3>2. m \notin B
        BY <2>1, <3>1
    <3> QED
        BY <3>1, <3>2
  <2>6. c[n - 1] = d[n - 1]
      BY <2>4, <2>5
  <2>7. \A m \in 1 .. n - 1 : a[m] = b[m]
    <3>1. \A m \in 1 .. n - 1 : m \in Nat /\ m < n /\ m > 0
        BY <2>4
    <3> QED
        BY <2>5, <3>1
  <2> HIDE DEF B
  <2>8. Nth(h, a, n) = Nth(h, b, n)
    <3>1. Nth(h, a, (n - 1) + 1) = Nth(h, b, (n - 1) + 1)
        BY <1>0, <2>4, <2>7, NthBegins
    <3> QED
        BY <2>4, <3>1
  <2>9. Meets(h, S, a, c, n) /\ Meets(h, S, b, d, n)
      BY <2>4 DEF Trace
  <2>10. c[n] = d[n] /\ a[n] = b[n]
      BY <2>6, <2>8, <2>9 DEF Meets
  <2> QED
      BY <2>2, <2>10
<1> QED
    BY <1>0, <1>1

(* A stream that has not grown has the traces it had.                      *)
LEMMA TraceStays ==
    ASSUME NEW S \in SUBSET Nat, Kept(S), NEW h, NEW b, NEW c, Trace(h, S, b, c)
    PROVE  Trace(h, S, b, c)'
<1>1. ASSUME NEW n \in 1 .. Len(b) PROVE Meets(h, S, b, c, n)'
  <2>1. c[n - 1] \in Nat /\ Meets(h, S, b, c, n)
      BY TraceMoves DEF Trace
  <2>2. Serve(S, c[n - 1], Nth(h, b, n))' = Serve(S, c[n - 1], Nth(h, b, n))
      BY <2>1, ServeSame
  <2> QED
      BY <2>1, <2>2 DEF Meets
<1> QED
    BY <1>1 DEF Trace

(* A record of kind k answers no call that is left in the stream.          *)
Fresh(S, k) ==
    \A p \in S : Rest(S, p) = {} /\ store.recs[p].kind \in Intents => k # AnswerKind(p)

(* What one operation of a trace comes to when the stream grows.           *)
NowMeets(h, S, b, c, n, L) ==
    LET new == Serve(S \union {L + 1}, c[n - 1], Nth(h, b, n))'
    IN  /\ new.i = c[n] /\ ~new.failure
        /\ IF /\ Nth(h, b, n).op = "Model" /\ store'.recs[L + 1].kind = "USAGE"
              /\ Rest(S, c[n]) = {} /\ b[n].ok
           THEN new.answer = Answer(b[n].val, body'[L + 1].usage)
           ELSE new.answer = b[n]

(* Every operation of a trace does, but for one that was left unanswered.  *)
LEMMA MeetsGrows ==
    ASSUME NEW L \in Nat, NEW S \in SUBSET (1 .. L), Kept(S),
           NEW h, NEW b, NEW c, Trace(h, S, b, c)
    PROVE  \A n \in 1 .. Len(b) :
              Rest(S, c[n]) # {} \/ Fresh(S, store'.recs[L + 1].kind) => NowMeets(h, S, b, c, n, L)
<1> SUFFICES ASSUME NEW n \in 1 .. Len(b),
                    Rest(S, c[n]) # {} \/ Fresh(S, store'.recs[L + 1].kind)
             PROVE  NowMeets(h, S, b, c, n, L)
    OBVIOUS
<1> DEFINE e == Nth(h, b, n)
           k == store'.recs[L + 1].kind
           i == c[n - 1]
           got == Serve(S, i, e)
           new == Serve(S \union {L + 1}, i, e)'
<1>0. S \in SUBSET Nat
    OBVIOUS
<1>1. i \in 0 .. L /\ i \in Nat
  <2>1. i \in S \union {0}
      BY <1>0, TraceMoves
  <2>2. \A p \in S \union {0} : p \in 0 .. L /\ p \in Nat
      OBVIOUS
  <2> QED
      BY <2>1, <2>2
<1>2. ~got.failure /\ got.i = c[n] /\ got.answer = b[n]
    BY DEF Trace, Meets
<1>3. /\ got.open \in BOOLEAN
      /\ got.open => /\ got.i \in S /\ Rest(S, got.i) = {}
                      /\ \/ e.op = "Model" /\ store.recs[got.i].kind = "MODEL_CALL"
                         \/ e.op = "ToolCall" /\ store.recs[got.i].kind = "TOOL_CALL"
    BY <1>0, <1>1, ServeOutcome
<1>4. /\ Rest(S, got.i) # {} => new = got
      /\ /\ got.open
         /\ k # IF e.op = "Model" THEN "OUTPUT" ELSE "TOOL_RESULT"
         => new.i = got.i /\ new.answer = got.answer /\ ~new.failure
      /\ Rest(S, got.i) = {} /\ ~got.open =>
           /\ new.i = got.i /\ ~new.failure
           /\ IF e.op = "Model" /\ k = "USAGE"
              THEN /\ got.answer.ok /\ store.recs[got.i].kind = "OUTPUT"
                   /\ new.answer = Answer(got.answer.val, body'[L + 1].usage)
              ELSE new.answer = got.answer
    BY <1>1, <1>2, ServeGrows
<1>5. got.open => got.answer = Error
    BY <1>0, <1>1, ServedFrom
<1>6. ~Error.ok
    BY DEF Error
<1> HIDE DEF e, k, i, got, new
<1>7. CASE Rest(S, c[n]) # {}
    BY <1>2, <1>4, <1>7 DEF new, k, e, i, NowMeets
<1>8. CASE Rest(S, c[n]) = {} /\ ~got.open
    BY <1>2, <1>4, <1>8 DEF new, k, e, i, NowMeets
<1>9. CASE Rest(S, c[n]) = {} /\ got.open
  <2>1. k # IF e.op = "Model" THEN "OUTPUT" ELSE "TOOL_RESULT"
      BY <1>2, <1>3, <1>9 DEF Fresh, AnswerKind, Intents, k
  <2>2. new.i = c[n] /\ new.answer = b[n] /\ ~new.failure /\ ~b[n].ok
      BY <1>2, <1>4, <1>5, <1>6, <1>9, <2>1
  <2> QED
      BY <2>2 DEF new, k, e, i, NowMeets
<1> QED
    BY <1>3, <1>7, <1>8, <1>9

(* Most records that a stream grows by leave its traces alone.             *)
LEMMA TraceGrows ==
    ASSUME NEW L \in Nat, NEW S \in SUBSET (1 .. L), Kept(S),
           NEW h, NEW b, NEW c, Trace(h, S, b, c),
           \/ Rest(S, c[Len(b)]) # {}
           \/ Fresh(S, store'.recs[L + 1].kind) /\ store'.recs[L + 1].kind # "USAGE"
    PROVE  Trace(h, S \union {L + 1}, b, c)'
<1> DEFINE T == S \union {L + 1}
<1>0. S \in SUBSET Nat
    OBVIOUS
<1>1. ASSUME NEW n \in 1 .. Len(b) PROVE Meets(h, T, b, c, n)'
  <2>1. Rest(S, c[Len(b)]) # {} => Rest(S, c[n]) # {}
    <3>1. Len(b) \in 0 .. Len(b) /\ n \in 0 .. Len(b)
        BY <1>0, TraceMoves
    <3>2. c[n] <= c[Len(b)] /\ c[n] \in Nat /\ c[Len(b)] \in Nat
        BY <1>0, <3>1, TraceMoves
    <3>3. \A p \in S : p > c[Len(b)] => p > c[n]
        BY <1>0, <3>2
    <3> QED
        BY <3>3 DEF Rest
  <2>2. /\ Rest(S, c[n]) # {} \/ Fresh(S, store'.recs[L + 1].kind)
        /\ ~(store'.recs[L + 1].kind = "USAGE" /\ Rest(S, c[n]) = {})
      BY <2>1
  <2>4. LET new == Serve(T, c[n - 1], Nth(h, b, n))'
        IN  new.i = c[n] /\ ~new.failure /\ new.answer = b[n]
    <3>1. NowMeets(h, S, b, c, n, L)
        BY <2>2, MeetsGrows
    <3> QED
        BY <2>2, <3>1 DEF NowMeets
  <2>3. Nth(h, b, n).op \notin Leaves
      BY DEF Trace, Meets
  <2> QED
      BY <2>3, <2>4 DEF Meets
<1>2. c \in [0 .. Len(b) -> T \union {0}]
    BY DEF Trace
<1> QED
    BY <1>1, <1>2 DEF Trace

-----------------------------------------------------------------------------
(* Histories that differ in the usage of completions only *)

(* What docs/harness-authoring.md asks of a harness about usage: for all   *)
(* answers it may get.                                                     *)
Reports(h) == \A a, b : IsAnswers(a) /\ IsAnswers(b) => UsageIsReported(h, a, b)

(* The operations are the same, but for the usage that is reported.        *)
LEMMA SameNth ==
    ASSUME NEW h, Reports(h), NEW a, IsAnswers(a), NEW b, IsAnswers(b), SameButUsage(h, a, b),
           NEW n \in 1 .. Len(a)
    PROVE  /\ Nth(h, a, n).op = Nth(h, b, n).op
           /\ Nth(h, a, n).op # "Usage" => Nth(h, a, n) = Nth(h, b, n)
<1> DEFINE p == SubSeq(a, 1, n - 1)
           q == SubSeq(b, 1, n - 1)
<1>0. /\ IsSeq(a) /\ IsSeq(b) /\ Len(a) \in Nat /\ Len(b) = Len(a)
      /\ \A m \in 1 .. Len(a) : IsAnswer(a[m]) /\ IsAnswer(b[m])
    BY AppendAny DEF IsAnswers, SameButUsage
<1>1. n - 1 \in 0 .. Len(a) /\ n - 1 \in 0 .. Len(b) /\ 1 .. n - 1 \subseteq 1 .. Len(a)
    BY <1>0
<1>2. /\ IsSeq(p) /\ Len(p) = n - 1
      /\ \A m \in 1 .. n - 1 : p[m] = a[m] /\ Nth(h, p, m) = Nth(h, a, m)
    BY <1>0, <1>1, NthPart
<1>3. /\ IsSeq(q) /\ Len(q) = n - 1
      /\ \A m \in 1 .. n - 1 : q[m] = b[m]
    BY <1>0, <1>1, NthPart
<1>4. Nth(h, a, n) = Operation(h, p) /\ Nth(h, b, n) = Operation(h, q)
    BY DEF Nth
<1> HIDE DEF p, q
<1>5. IsAnswers(p) /\ IsAnswers(q)
    BY <1>0, <1>1, <1>2, <1>3 DEF IsAnswers
<1>6. SameButUsage(h, p, q)
    BY <1>1, <1>2, <1>3 DEF SameButUsage
<1>7. \/ Operation(h, p) = Operation(h, q)
      \/ Operation(h, p).op = "Usage" /\ Operation(h, q).op = "Usage"
    BY <1>5, <1>6 DEF Reports, UsageIsReported
<1> QED
    BY <1>4, <1>7

(* One more answer on both sides.                                          *)
LEMMA SameAppend ==
    ASSUME NEW h, NEW a, IsSeq(a), NEW b, IsSeq(b), SameButUsage(h, a, b), NEW x, NEW y,
           x = y \/ (Operation(h, a).op = "Model" /\ x.ok /\ y.ok /\ x.val = y.val)
    PROVE  SameButUsage(h, Append(a, x), Append(b, y))
<1> DEFINE p == Append(a, x)
           q == Append(b, y)
<1>1. /\ Len(a) \in Nat /\ Len(p) = Len(a) + 1 /\ Len(b) = Len(a) /\ Len(q) = Len(a) + 1
      /\ \A k \in 1 .. Len(a) : p[k] = a[k] /\ q[k] = b[k]
      /\ p[Len(a) + 1] = x /\ q[Len(a) + 1] = y
    BY AppendAny DEF SameButUsage
<1>2. /\ \A n \in 1 .. Len(a) : Nth(h, p, n) = Nth(h, a, n)
      /\ Nth(h, p, Len(a) + 1) = Operation(h, a)
    BY NthAppend
<1> HIDE DEF p, q
<1>3. ASSUME NEW n \in 1 .. Len(p)
      PROVE  \/ p[n] = q[n]
             \/ Nth(h, p, n).op = "Model" /\ p[n].ok /\ q[n].ok /\ p[n].val = q[n].val
  <2>1. CASE n = Len(a) + 1
      BY <1>1, <1>2, <2>1
  <2>2. CASE n # Len(a) + 1
    <3>1. n \in 1 .. Len(a)
        BY <1>1, <2>2
    <3> QED
        BY <1>1, <1>2, <3>1 DEF SameButUsage
  <2> QED
      BY <2>1, <2>2
<1> QED
    BY <1>1, <1>3 DEF SameButUsage, p, q

(* Every history differs from itself in nothing.                           *)
LEMMA SameSelf ==
    ASSUME NEW h, NEW a
    PROVE  SameButUsage(h, a, a)
BY DEF SameButUsage

(* The n-th operation is a completion that the stream ends with.           *)
EndsWith(h, S, b, c, n) == Nth(h, b, n).op = "Model" /\ b[n].ok /\ Rest(S, c[n]) = {}

(* When the usage of a completion is recorded the completion is served     *)
(* with it.                                                                *)
LEMMA TraceGetsUsage ==
    ASSUME NEW L \in Nat, NEW S \in SUBSET (1 .. L), Kept(S), NEW h, Reports(h),
           NEW b, NEW c, Trace(h, S, b, c),
           Fresh(S, store'.recs[L + 1].kind), store'.recs[L + 1].kind = "USAGE"
    PROVE  \E d : /\ Trace(h, S \union {L + 1}, d, c)' /\ Len(d) = Len(b)
                  /\ \A n \in 1 .. Len(b) :
                        d[n] = IF EndsWith(h, S, b, c, n)
                               THEN Answer(b[n].val, body'[L + 1].usage) ELSE b[n]
<1> DEFINE T == S \union {L + 1}
           N == Len(b)
<1>0. S \in SUBSET Nat /\ IsSeq(b) /\ N \in Nat /\ IsAnswers(b)
  <2>1. S \in SUBSET Nat
      OBVIOUS
  <2> QED
      BY <2>1, TraceMoves DEF Trace
<1>1. PICK d : d = [n \in 1 .. N |-> IF EndsWith(h, S, b, c, n)
                                     THEN Answer(b[n].val, body'[L + 1].usage) ELSE b[n]]
    OBVIOUS
<1>2. \A n \in 1 .. N : d[n] = IF EndsWith(h, S, b, c, n)
                               THEN Answer(b[n].val, body'[L + 1].usage) ELSE b[n]
    BY <1>1
<1>3. IsSeq(d) /\ Len(d) = N
  <2> DEFINE U == {d[k] : k \in 1 .. N}
  <2>1. DOMAIN d = 1 .. N /\ d = [n \in 1 .. N |-> d[n]]
      BY <1>1
  <2>2. \A n \in 1 .. N : d[n] \in U
      OBVIOUS
  <2>3. U = {d[k] : k \in DOMAIN d}
      BY <2>1
  <2> HIDE DEF U
  <2>4. d \in Seq(U) /\ Len(d) = N
      BY <1>0, <2>1, <2>2
  <2> QED
      BY <2>3, <2>4 DEF IsSeq
<1>4. ASSUME NEW n \in 1 .. N PROVE IsAnswer(d[n])
  <2>1. IsAnswer(b[n])
      BY <1>0 DEF IsAnswers
  <2>2. \A v, u : IsAnswer(Answer(v, u))
      BY DEF IsAnswer, Answer
  <2> QED
      BY <1>2, <2>1, <2>2
<1>5. IsAnswers(d)
    BY <1>3, <1>4 DEF IsAnswers
<1>6. \A n \in 0 .. N : c[n] \in Nat
    BY <1>0, TraceMoves
<1>7. ASSUME NEW n \in 1 .. N PROVE Nth(h, d, n) = Nth(h, b, n)
  <2>0. n - 1 \in 0 .. N /\ n - 1 \in Nat /\ n - 1 <= N /\ (n - 1) + 1 = n /\ n \in 0 .. N
        /\ 1 .. n - 1 \subseteq 1 .. N /\ 1 .. n - 1 \subseteq 0 .. n - 1
      BY <1>0
  <2>1. \/ c[n] = c[n - 1] /\ Keyless(Nth(h, b, n))
        \/ c[n] \in S /\ c[n] > c[n - 1] /\ ~Keyless(Nth(h, b, n))
      BY <1>0, TraceMoves
  <2>2. CASE c[n] \in S /\ c[n] > c[n - 1]
    <3>1. ASSUME NEW m \in 1 .. n - 1 PROVE d[m] = b[m]
      <4>1. c[m] <= c[n - 1]
          BY <1>0, <2>0, TraceMoves
      <4>2. c[m] \in Nat /\ c[n - 1] \in Nat /\ c[n] \in Nat /\ m \in 1 .. N
        <5>1. m \in 0 .. N /\ m \in 1 .. N
            BY <2>0
        <5> QED
            BY <1>6, <2>0, <5>1
      <4>3. c[n] \in Rest(S, c[m])
          BY <2>2, <4>1, <4>2 DEF Rest
      <4>4. ~EndsWith(h, S, b, c, m)
          BY <4>3 DEF EndsWith
      <4> QED
          BY <1>2, <4>2, <4>4
    <3>2. Nth(h, d, (n - 1) + 1) = Nth(h, b, (n - 1) + 1)
        BY <1>0, <1>3, <2>0, <3>1, NthBegins
    <3> QED
        BY <2>0, <3>2
  <2>3. CASE Keyless(Nth(h, b, n))
    <3>1. SameButUsage(h, b, d)
      <4>1. ASSUME NEW m \in 1 .. N
            PROVE  \/ b[m] = d[m]
                   \/ Nth(h, b, m).op = "Model" /\ b[m].ok /\ d[m].ok /\ b[m].val = d[m].val
        <5>1. \A v, u : Answer(v, u).ok /\ Answer(v, u).val = v
            BY DEF Answer
        <5> QED
            BY <1>2, <5>1 DEF EndsWith
      <4> QED
          BY <1>3, <4>1 DEF SameButUsage
    <3>2. Nth(h, b, n).op # "Usage"
        BY <2>3 DEF Keyless
    <3> QED
        BY <1>0, <1>5, <3>1, <3>2, SameNth
  <2> QED
      BY <2>1, <2>2, <2>3
<1>8. ASSUME NEW n \in 1 .. N PROVE Meets(h, T, d, c, n)'
  <2>1. NowMeets(h, S, b, c, n, L)
      BY MeetsGrows
  <2>2. LET new == Serve(T, c[n - 1], Nth(h, d, n))'
        IN  new.i = c[n] /\ ~new.failure /\ new.answer = d[n]
    <3>1. Nth(h, d, n) = Nth(h, b, n)
        BY <1>7
    <3> QED
        BY <1>2, <2>1, <3>1 DEF NowMeets, EndsWith
  <2>3. Nth(h, d, n).op \notin Leaves
      BY <1>7 DEF Trace, Meets
  <2> QED
      BY <2>2, <2>3 DEF Meets
<1>9. c \in [0 .. N -> T \union {0}] /\ c[0] = 0
    BY DEF Trace
<1>10. Trace(h, T, d, c)'
    BY <1>3, <1>5, <1>8, <1>9 DEF Trace
<1> QED
    BY <1>2, <1>3, <1>10

-----------------------------------------------------------------------------
(* What a call asks, and how it ends *)

(* A call that has not begun has no harness and one that has not run has   *)
(* no answers; a call is carried out as it was asked for.                  *)
Asks(r) ==
    /\ run[r].pc \in {"idle", "mint", "start", "input", "read"} => run[r].answers = <<>>
    /\ run[r].pc = "idle" => run[r].harness = "none"
    /\ run[r].pc # "idle" => run[r].harness \in setting.harnesses
    /\ run[r].pc # "done" => run[r].result = "none"
    /\ run[r].pc \in Calling => body[run[r].pos].arg = Asked(r).arg
    /\ run[r].pc = "result" => run[r].reply = Answer(Asked(r).arg, 0)

AllAsk == \A r \in Runs : Asks(r)

(* What Finish makes of a harness that returns.                            *)
Ends(r) ==
    /\ run[r].pc # "done"
    /\ run'[r].pc # "done" => run'[r].result = run[r].result
    /\ run'[r].pc = "done" =>
        /\ run[r].pc # "idle"
        /\ run'[r].result = "diverged" =>
              /\ run[r].pc = "run" /\ Asked(r).op \in Leaves
              /\ run[r].failure \/ Rest(StreamOf(r), run[r].i) # {}
        /\ run'[r].result = "completed" =>
              /\ run[r].pc = "run" /\ Asked(r).op = "Return" /\ ~run[r].failure
              /\ Rest(StreamOf(r), run[r].i) = {}
              /\ Grows(r, "END", Body(run[r].exec, "", 0))

(* A step that is not the last.                                            *)
LEMMA GoesOn ==
    ASSUME StoreInv, NEW r \in Runs, Good(r), run[r].pc # "done",
           NEW s, s.pc # "done", s.result = run[r].result, Become(r, s)
    PROVE  Ends(r)
<1>1. run'[r] = s
    BY DEF Become, StoreInv
<1> QED
    BY <1>1 DEF Ends

(* A step that is the last, but for Finish.                                *)
LEMMA GoesAway ==
    ASSUME StoreInv, NEW r \in Runs, run[r].pc \notin {"idle", "done"},
           NEW result, result \notin {"diverged", "completed"}, Leave(r, result)
    PROVE  Ends(r)
BY LeaveDeparts DEF Ends

(* Finish.                                                                 *)
LEMMA FinishEnds ==
    ASSUME StoreInv, AllGood, NEW r \in Runs, Finish(r)
    PROVE  Ends(r)
<1> DEFINE kind == IF Outcome(r) = "completed" THEN "END" ELSE "ERROR"
<1>0. Good(r) /\ run[r].pc = "run" /\ Asked(r).op \in Leaves
    BY DEF AllGood, Finish, At
<1>1. /\ Outcome(r) = "diverged" => run[r].failure \/ Rest(StreamOf(r), run[r].i) # {}
      /\ Outcome(r) = "completed" => /\ Asked(r).op = "Return" /\ ~run[r].failure
                                     /\ Rest(StreamOf(r), run[r].i) = {}
    BY <1>0 DEF Outcome, Leaves
<1>2. CASE /\ CanAppend(r, HeadSeq(store), kind)
           /\ Commit(r, kind, Body(run[r].exec, "", 0))
           /\ Leave(r, Outcome(r))
  <2>1. kind \in EventKind
      BY DEF EventKind, TurnKinds
  <2>2. Grows(r, kind, Body(run[r].exec, "", 0))
      BY <1>0, <1>2, <2>1, CommitGrows
  <2>3. run'[r].pc = "done" /\ run'[r].result = Outcome(r)
      BY <1>2, LeaveDeparts
  <2> QED
      BY <1>0, <1>1, <2>2, <2>3 DEF Ends
<1>3. CASE Leave(r, IF Outcome(r) = "completed" THEN "refused" ELSE Outcome(r))
  <2>1. /\ run'[r].pc = "done"
        /\ run'[r].result = IF Outcome(r) = "completed" THEN "refused" ELSE Outcome(r)
      BY <1>3, LeaveDeparts
  <2> QED
      BY <1>0, <1>1, <2>1 DEF Ends
<1> QED
    BY <1>2, <1>3 DEF Finish

(* Every step of a call.                                                   *)
LEMMA StepEnds ==
    ASSUME StoreInv, AllGood, NEW r \in Runs,
           \/ RunStep(r)
           \/ \E kind \in {"Exec", "Resume"}, h \in setting.harnesses : Begin(r, kind, h)
    PROVE  Ends(r)
<1>0. Good(r) /\ DOMAIN run[r] = DOMAIN IdleRun
    BY DEF AllGood, Good
<1>1. ASSUME NEW a, run[r].pc # "done",
             \/ Become(r, Answered(r, a))
             \/ Become(r, [Answered(r, a) EXCEPT !.reply = Error])
      PROVE  Ends(r)
  <2>1. /\ Answered(r, a).pc = "run" /\ Answered(r, a).result = run[r].result
        /\ [Answered(r, a) EXCEPT !.reply = Error].pc = "run"
        /\ [Answered(r, a) EXCEPT !.reply = Error].result = run[r].result
      BY <1>0 DEF Answered, IdleRun
  <2> QED
      BY <1>0, <1>1, <2>1, GoesOn
<1>2. ASSUME NEW kind, NEW h, Begin(r, kind, h) PROVE Ends(r)
    BY <1>0, <1>2, GoesOn DEF Begin, At, IdleRun
<1>3. CASE Mint(r)
  <2>1. PICK pc \in {"start", "read"} : Become(r, [run[r] EXCEPT !.fence = store'.fence, !.pc = pc])
      BY <1>3 DEF Mint
  <2> QED
      BY <1>0, <1>3, <2>1, GoesOn DEF Mint, At, IdleRun
<1>4. CASE AppendInvocation(r)
  <2>0. run[r].pc \in {"start", "input"}
      BY <1>4 DEF AppendInvocation
  <2>1. ASSUME NEW pc \in {"run", "input"},
               Become(r, [run[r] EXCEPT !.exec = r, !.last = @ + 1, !.pc = pc])
        PROVE  Ends(r)
      BY <1>0, <2>0, <2>1, GoesOn DEF IdleRun
  <2>2. ASSUME Leave(r, "refused") PROVE Ends(r)
      BY <2>0, <2>2, GoesAway
  <2> QED
      BY <1>4, <2>1, <2>2 DEF AppendInvocation
<1>5. CASE ReadLog(r)
  <2>0. run[r].pc = "read"
      BY <1>5 DEF ReadLog, At
  <2>1. ASSUME Leave(r, "noop") \/ Leave(r, "incomplete") PROVE Ends(r)
      BY <2>0, <2>1, GoesAway
  <2>2. ASSUME Become(r, [run[r] EXCEPT !.pc = "run", !.exec = LastExecution,
                                        !.seen = HeadSeq(store)])
        PROVE  Ends(r)
      BY <1>0, <2>0, <2>2, GoesOn DEF IdleRun
  <2> QED
      BY <1>5, <2>1, <2>2 DEF ReadLog
<1>6. CASE ServeRecorded(r)
  <2> DEFINE got == Serve(StreamOf(r), run[r].i, Asked(r))
  <2>0. run[r].pc = "run"
      BY <1>6 DEF ServeRecorded, At
  <2>1. PICK pc \in {"model", "tool"} :
          \/ Become(r, [run[r] EXCEPT !.i = got.i, !.pos = got.i, !.pc = pc])
          \/ Become(r, [Answered(r, got.answer) EXCEPT !.i = got.i, !.failure = got.failure])
      BY <1>6 DEF ServeRecorded
  <2> HIDE DEF got
  <2>2. CASE Become(r, [run[r] EXCEPT !.i = got.i, !.pos = got.i, !.pc = pc])
      BY <1>0, <2>0, <2>2, GoesOn DEF IdleRun
  <2>3. CASE Become(r, [Answered(r, got.answer) EXCEPT !.i = got.i, !.failure = got.failure])
      BY <1>0, <2>0, <2>3, GoesOn DEF IdleRun, Answered
  <2> QED
      BY <2>1, <2>2, <2>3
<1>7. CASE AnswerDiverged(r) \/ RejectTool(r)
    BY <1>1, <1>7 DEF AnswerDiverged, RejectTool, Live, At
<1>8. ASSUME NEW kind, NEW b, NEW s, SinkAppend(r, kind, b, s), run[r].pc = "run",
             s.pc # "done", s.result = run[r].result
      PROVE  Ends(r)
    BY <1>0, <1>1, <1>8, GoesOn DEF SinkAppend
<1>9. CASE CallModel(r) \/ CallTool(r)
  <2>1. ASSUME NEW pc \in {"model", "tool"}, NEW kind, NEW b,
               SinkAppend(r, kind, b, [run[r] EXCEPT !.pc = pc, !.pos = HeadSeq(store) + 1])
        PROVE  Ends(r)
    <3>1. run[r].pc = "run"
        BY <1>9 DEF CallModel, CallTool, Live, At
    <3>2. /\ [run[r] EXCEPT !.pc = pc, !.pos = HeadSeq(store) + 1].pc = pc
          /\ [run[r] EXCEPT !.pc = pc, !.pos = HeadSeq(store) + 1].result = run[r].result
        BY <1>0 DEF IdleRun
    <3> QED
        BY <1>8, <2>1, <3>1, <3>2
  <2>2. CASE CallModel(r)
      BY <2>1, <2>2 DEF CallModel
  <2>3. CASE CallTool(r)
      BY <2>1, <2>3 DEF CallTool
  <2> QED
      BY <1>9, <2>2, <2>3
<1>10. CASE LiveOutput(r) \/ LiveReport(r) \/ LiveUsage(r)
  <2>1. /\ \E kind, b : SinkAppend(r, kind, b, Answered(r, Done))
        /\ run[r].pc = "run"
      BY <1>10 DEF LiveOutput, LiveReport, LiveUsage, Live, At
  <2>2. Answered(r, Done).pc = "run" /\ Answered(r, Done).result = run[r].result
      BY <1>0 DEF Answered, IdleRun
  <2> QED
      BY <1>8, <2>1, <2>2
<1>11. CASE InvokeModel(r) \/ ExecTool(r)
  <2>0. run[r].pc \in {"model", "tool"}
      BY <1>11 DEF InvokeModel, ExecTool, At
  <2>1. \/ Become(r, Answered(r, Error))
        \/ \E pc \in {"output", "result"} : \E c :
              Become(r, [run[r] EXCEPT !.pc = pc, !.reply = c])
      BY <1>11 DEF InvokeModel, ExecTool
  <2>2. ASSUME NEW pc \in {"output", "result"}, NEW c,
               Become(r, [run[r] EXCEPT !.pc = pc, !.reply = c])
        PROVE  Ends(r)
      BY <1>0, <2>0, <2>2, GoesOn DEF IdleRun
  <2> QED
      BY <1>1, <2>0, <2>1, <2>2
<1>12. CASE RecordCompletion(r) \/ RecordResult(r)
  <2>1. run[r].pc \in {"output", "result"} /\ \E kind : RecordAnswer(r, kind)
      BY <1>12 DEF RecordCompletion, RecordResult, At
  <2> QED
      BY <1>1, <2>1 DEF RecordAnswer
<1>13. CASE Crash(r)
    BY <1>13, GoesAway DEF Crash, Active
<1> QED
    BY <1>2, <1>3, <1>4, <1>5, <1>6, <1>7, <1>9, <1>10, <1>11, <1>12, <1>13, FinishEnds DEF RunStep

(* Every step keeps what calls ask.                                        *)
LEMMA AsksStep ==
    ASSUME CoreInv, AllKnow, AllAsk, NEW r \in Runs, Moved(r), Detail(r), Ends(r)
    PROVE  AllAsk'
<1>0. /\ StoreInv /\ Good(r) /\ Knows(r) /\ Asks(r) /\ setting' = setting
      /\ Len(body) \in Nat /\ DOMAIN body = 1 .. Len(body)
      /\ \A p \in 1 .. Len(body) : body'[p] = body[p]
    BY ShapeExtends DEF CoreInv, AllGood, AllKnow, AllAsk, Moved, Histories, Extended
<1>1. ASSUME NEW q \in Runs, q # r PROVE Asks(q)'
  <2>1. run'[q] = run[q] /\ Asks(q) /\ Good(q)
      BY <1>1 DEF Moved, Moves, AllAsk, CoreInv, AllGood
  <2>2. Asked(q)' = Asked(q)
      BY <2>1 DEF Asked
  <2>3. run[q].pc \in Calling => body'[run[q].pos] = body[run[q].pos]
      BY <1>0, <2>1 DEF Good
  <2> QED
      BY <1>0, <2>1, <2>2, <2>3 DEF Asks
<1>2. run'[r].pc # "done" => run'[r].result = "none"
    BY <1>0 DEF Ends, Asks
<1>3. ASSUME NEW a, Tells(r, a), Stays(r), run[r].pc \in Running PROVE Asks(r)'
  <2>1. run'[r].pc = "run" /\ run'[r].harness = run[r].harness
      BY <1>3 DEF Tells, Stays
  <2> QED
      BY <1>0, <1>2, <1>3, <2>1 DEF Asks, Running, Calling
<1>4. ASSUME Prepares(r) PROVE Asks(r)'
  <2>1. /\ run'[r].answers = run[r].answers
        /\ run[r].pc \in {"idle", "mint", "start", "input", "read"}
        /\ run'[r].pc \in {"mint", "start", "input", "read", "run"}
        /\ run'[r].harness \in setting.harnesses
      BY <1>0, <1>4 DEF Prepares, Begins, Mints, Records, Reads, Asks
  <2> QED
      BY <1>0, <1>2, <2>1 DEF Asks, Calling
<1>5. ASSUME Quits(r) PROVE Asks(r)'
    BY <1>0, <1>5 DEF Quits, Departs, Ends, Asks, Calling
<1>6. ASSUME ServesAs(r) PROVE Asks(r)'
  <2> DEFINE got == Serve(StreamOf(r), run[r].i, Asked(r))
  <2>1. StreamOf(r) \in SUBSET Nat /\ run[r].i \in Nat
      BY <1>0, StreamOfPlaces
  <2>2. got.open => body[got.i].arg = Asked(r).arg
      BY <2>1, ServedFrom
  <2>3. CASE ~got.open
      BY <1>3, <1>6, <2>3 DEF ServesAs, Running
  <2>4. CASE got.open
    <3>1. /\ run'[r].answers = run[r].answers /\ run'[r].harness = run[r].harness
          /\ run'[r].pc \in {"model", "tool"} /\ run'[r].pos = got.i
          /\ run[r].pc = "run" /\ body' = body
        BY <1>6, <2>4 DEF ServesAs, Stays, LogSame
    <3>2. Asked(r)' = Asked(r)
        BY <3>1 DEF Asked
    <3> HIDE DEF got
    <3> QED
        BY <1>0, <1>2, <2>2, <2>4, <3>1, <3>2 DEF Asks
  <2> QED
      BY <2>3, <2>4
<1>7. ASSUME Rejects(r) \/ Refuses(r) \/ Fails(r) PROVE Asks(r)'
    BY <1>3, <1>7 DEF Rejects, Refuses, Fails, Live, At, Running, Calling
<1>8. ASSUME Gets(r) PROVE Asks(r)'
  <2>1. /\ run'[r].answers = run[r].answers /\ run'[r].harness = run[r].harness
        /\ run'[r].pos = run[r].pos /\ body' = body /\ run[r].pc \in {"model", "tool"}
        /\ \/ run'[r].pc = "output"
           \/ run'[r].pc = "result" /\ run'[r].reply = Answer(body[run[r].pos].arg, 0)
      BY <1>8 DEF Gets, Stays, LogSame
  <2>2. Asked(r)' = Asked(r)
      BY <2>1 DEF Asked
  <2> QED
      BY <1>0, <1>2, <2>1, <2>2 DEF Asks, Calling
<1>9. ASSUME NEW k, Intends(r, k) PROVE Asks(r)'
  <2>1. /\ run'[r].answers = run[r].answers /\ run'[r].harness = run[r].harness
        /\ run[r].pc = "run" /\ run'[r].pc \in {"model", "tool"}
        /\ Grows(r, k, Body(run[r].exec, Asked(r).arg, 0)) /\ run'[r].pos = Len(body) + 1
      BY <1>9 DEF Intends, Stays, Live, At
  <2>2. Asked(r)' = Asked(r)
      BY <2>1 DEF Asked
  <2>3. body'[Len(body) + 1].arg = Asked(r).arg
    <3>1. Len(body) \in Nat
        BY <1>0
    <3> QED
        BY <2>1, <3>1, NewRecord
  <2> QED
      BY <1>0, <1>2, <2>1, <2>2, <2>3 DEF Asks
<1>10. ASSUME NEW k, Emits(r, k) PROVE Asks(r)'
    BY <1>3, <1>10 DEF Emits, Live, At, Running
<1>11. ASSUME NEW k, Notes(r, k) PROVE Asks(r)'
    BY <1>3, <1>11 DEF Notes, Running, Calling
<1>12. Asks(r)'
    BY <1>4, <1>5, <1>6, <1>7, <1>8, <1>9, <1>10, <1>11 DEF Detail
<1> QED
    BY <1>1, <1>12 DEF AllAsk

(* A step moves one call, and how it may end is known, or nothing moves.   *)
LEMMA NextEnds ==
    ASSUME CoreInv, [Next]_vars
    PROVE  (\E r \in Runs : Moved(r) /\ Detail(r) /\ Ends(r)) \/ UNCHANGED vars
BY StepDetail, StepEnds DEF CoreInv, Next, Quiescent

-----------------------------------------------------------------------------
(* The log is a trace of the harness that writes it *)

UsageIsOnlyReported == \A s \in Settings : \A h \in s.harnesses : Reports(h)

(* The effects of an execution S are those that harness h is served, to    *)
(* the last or to the call that is being made; what it has been told       *)
(* differs from what it would be served in usage that is not recorded.     *)
Stands(r, h, S, b, c) ==
    /\ h = run[r].harness /\ S = Full(run[r].exec)
    /\ Trace(h, S, b, c) /\ SameButUsage(h, run[r].answers, b)
    /\ IF run[r].pc \in Calling THEN Rest(S, c[Len(b)]) = {run[r].pos}
       ELSE IF Rest(StreamOf(r), run[r].i) # {}
       THEN b = run[r].answers /\ c[Len(b)] = run[r].i
       ELSE Rest(S, c[Len(b)]) = {}

Standing(r) == \E h, S, b, c : Stands(r, h, S, b, c)

TraceInv ==
    \A r \in Runs : Owns(r) /\ run[r].pc \in Running /\ ~run[r].failure => Standing(r)

(* What is asked is what the trace asks next, but for the usage that is    *)
(* reported.                                                               *)
LEMMA StandsFor ==
    ASSUME StoreInv, UsageIsOnlyReported, NEW r \in Runs, Knows(r), run[r].pc \in Running,
           NEW h, NEW S, NEW b, NEW c, Stands(r, h, S, b, c)
    PROVE  /\ \E s \in Settings : h \in s.harnesses
           /\ Reports(h)
           /\ IsAnswers(run[r].answers) /\ IsAnswers(b) /\ IsSeq(b) /\ IsSeq(run[r].answers)
           /\ Len(b) \in Nat /\ Len(run[r].answers) = Len(b)
           /\ S \in SUBSET Nat /\ S \subseteq 1 .. Len(body) /\ S = Full(run[r].exec)
           /\ c[Len(b)] \in S \union {0} /\ c[Len(b)] \in Nat /\ c[Len(b)] \in 0 .. Len(body)
           /\ Asked(r) = Operation(h, run[r].answers)
           /\ Asked(r).op # "Usage" => Operation(h, b) = Asked(r)
<1>1. h = run[r].harness /\ h \in setting.harnesses /\ setting \in Settings
    BY DEF Stands, Knows, Running, Calling, StoreInv
<1>2. Reports(h)
    BY <1>1 DEF UsageIsOnlyReported
<1>3. IsAnswers(run[r].answers) /\ IsAnswers(b) /\ SameButUsage(h, run[r].answers, b)
    BY DEF Stands, Trace, Knows, Running, Calling
<1>4. IsSeq(b) /\ Len(b) \in Nat /\ Len(run[r].answers) = Len(b) /\ IsSeq(run[r].answers)
    BY <1>3, AppendAny DEF IsAnswers, SameButUsage
<1>5. S \subseteq 1 .. Len(body) /\ Len(body) \in Nat /\ S = Full(run[r].exec)
    BY LogFacts DEF Stands, Full, Stream
<1>6. c[Len(b)] \in S \union {0}
  <2>1. Len(b) \in 0 .. Len(b)
      BY <1>4
  <2> QED
      BY <2>1 DEF Stands, Trace
<1>7. S \in SUBSET Nat /\ \A p \in S \union {0} : p \in Nat /\ p \in 0 .. Len(body)
    BY <1>5
<1>8. Asked(r) = Operation(h, run[r].answers)
    BY <1>1 DEF Asked
<1>9. Asked(r).op # "Usage" => Operation(h, b) = Asked(r)
    BY <1>2, <1>3, <1>8 DEF Reports, UsageIsReported
<1> QED
    BY <1>1, <1>2, <1>3, <1>4, <1>5, <1>6, <1>7, <1>8, <1>9

(* The harness is told a, where it would be served got.                    *)
LEMMA StandsTold ==
    ASSUME NEW r, NEW h, NEW S, NEW b, NEW c, NEW a, NEW got,
           run'[r].pc = "run", run'[r].harness = h, S = Full(run[r].exec)',
           Trace(h, S, b, c)', IsSeq(run[r].answers), SameButUsage(h, run[r].answers, b),
           run'[r].answers = Append(run[r].answers, a),
           Operation(h, b).op \notin Leaves,
           Serve(S, c[Len(b)], Operation(h, b))' = got,
           ~got.failure, got.i \in S \union {0}, IsAnswer(got.answer),
           \/ a = got.answer
           \/ /\ Operation(h, run[r].answers).op = "Model"
              /\ a.ok /\ got.answer.ok /\ a.val = got.answer.val,
           \/ b = run[r].answers /\ a = got.answer /\ got.i = run'[r].i
           \/ Rest(StreamOf(r), run[r].i)' = {},
           Rest(StreamOf(r), run[r].i)' = {} => Rest(S, got.i) = {}
    PROVE  Standing(r)'
<1>1. PICK d : Trace(h, S, Append(b, got.answer), d)' /\ d[Len(b) + 1] = got.i
    BY TraceExtends
<1>2. IsSeq(b)
    BY DEF Trace, IsAnswers
<1>3. SameButUsage(h, Append(run[r].answers, a), Append(b, got.answer))
    BY <1>2, SameAppend
<1>4. Len(Append(b, got.answer)) = Len(b) + 1
    BY <1>2, AppendAny
<1>5. run'[r].pc \notin Calling
    BY DEF Calling
<1>6. Stands(r, h, S, Append(b, got.answer), d)'
  <2>1. h = run'[r].harness /\ Rest(S, got.i)' = Rest(S, got.i)
      BY DEF Rest
  <2> QED
      BY <1>1, <1>3, <1>4, <1>5, <2>1 DEF Stands
<1> QED
    BY <1>6 DEF Standing

(* A call that is being made.                                              *)
LEMMA StandsCalling ==
    ASSUME NEW r, NEW h, NEW S, NEW b, NEW c,
           run'[r].pc \in Calling, run'[r].harness = h, S = Full(run[r].exec)',
           Trace(h, S, b, c)', SameButUsage(h, run'[r].answers, b),
           Rest(S, c[Len(b)]) = {run'[r].pos}
    PROVE  Standing(r)'
<1>1. Rest(S, c[Len(b)])' = Rest(S, c[Len(b)])
    BY DEF Rest
<1>2. Stands(r, h, S, b, c)'
    BY <1>1 DEF Stands
<1> QED
    BY <1>2 DEF Standing

(* A harness that has been given nothing.                                  *)
LEMMA StandsFirst ==
    ASSUME NEW r, run'[r].pc = "run", run'[r].answers = <<>>, run'[r].i = 0,
           Rest(StreamOf(r), run[r].i)' = {} => Rest(Full(run[r].exec), 0)' = {}
    PROVE  Standing(r)'
<1>1. PICK h, S : h = run'[r].harness /\ S = Full(run[r].exec)'
    OBVIOUS
<1>2. PICK c : c[0] = 0 /\ Len(<<>>) = 0 /\ Trace(h, S, <<>>, c)'
    BY TraceStarts
<1>3. SameButUsage(h, run'[r].answers, <<>>)
    BY SameSelf
<1>4. Rest(S, 0)' = Rest(Full(run[r].exec), 0)'
    BY <1>1 DEF Rest
<1>5. run'[r].pc \notin Calling
    BY DEF Calling
<1>6. Stands(r, h, S, <<>>, c)'
    BY <1>1, <1>2, <1>3, <1>4, <1>5 DEF Stands
<1> QED
    BY <1>6 DEF Standing

(* The last place of a stream that has grown.                              *)
LEMMA RestOfLast ==
    ASSUME NEW L \in Nat, NEW S \in SUBSET (1 .. L), NEW i \in 0 .. L
    PROVE  /\ Rest(S \union {L + 1}, L + 1) = {} /\ L + 1 \in S \union {L + 1}
           /\ Rest(S \union {L + 1}, i) = Rest(S, i) \union {L + 1}
<1> DEFINE T == S \union {L + 1}
<1>1. \A p \in T : ~(p > L + 1)
    OBVIOUS
<1>2. Rest(T, i) = Rest(S, i) \union {L + 1}
    BY FollowingGrows
<1> QED
    BY <1>1, <1>2 DEF Rest

(* A call that has just read the log, or recorded the last of its inputs.  *)
LEMMA StandsPrepared ==
    ASSUME CoreInv, NEW r \in Runs, Moved(r), Knows(r), Asks(r), Prepares(r),
           run'[r].pc \in Running
    PROVE  Standing(r)'
<1>0. /\ StoreInv /\ AllGood /\ Good(r)
    BY DEF CoreInv, AllGood
<1>1. ASSUME Records(r) PROVE Full(r)' = {}
  <2>1. Full(r) = {}
    <3>1. CASE run[r].pc = "input"
        BY <3>1 DEF Knows
    <3>2. CASE run[r].pc = "start"
      <4>1. \A m \in DOMAIN body : body[m].exec # r
          BY <3>2, NoRecordsBefore DEF CoreInv
      <4> QED
          BY <1>0, <4>1, LogFacts DEF Full, Stream
    <3> QED
        BY <1>1, <3>1, <3>2 DEF Records
  <2>2. ASSUME NEW k \in EffectKinds, AppendsTo(r, k, r) PROVE FALSE
      BY <1>1, <2>2 DEF Records, AppendsTo, EffectKinds, Running, Calling
  <2> QED
      BY <1>0, <2>1, <2>2, FullStep
<1>2. run[r].i = 0
  <2>1. run[r].seen = 0
      BY <1>0 DEF Good, Prepares, Begins, Mints, Records, Reads
  <2>2. StreamOf(r) = {}
      BY <2>1 DEF StreamOf, Stream
  <2> QED
      BY <1>0, <2>2 DEF Good
<1>3. run'[r].answers = <<>> /\ run'[r].i = 0 /\ run'[r].pc = "run"
      /\ (Records(r) \/ Reads(r))
  <2>1. Records(r) \/ Reads(r)
      BY DEF Prepares, Begins, Mints, Running, Calling
  <2>2. run[r].answers = <<>>
      BY <2>1 DEF Asks, Records, Reads
  <2>3. run'[r].pc = "run"
      BY <2>1 DEF Records, Reads, Running, Calling
  <2> QED
      BY <1>2, <2>1, <2>2, <2>3 DEF Prepares, Records, Reads, Begins, Mints
<1>4. CASE Records(r)
  <2>1. run'[r].exec = r
      BY <1>4 DEF Records
  <2>2. Rest(Full(run[r].exec), 0)' = {}
      BY <1>1, <1>4, <2>1 DEF Rest
  <2> QED
      BY <1>3, <2>2, StandsFirst
<1>5. CASE Reads(r)
  <2>1. body' = body /\ store' = store /\ run'[r].seen = Len(body)
      BY <1>0, <1>5, LogFacts DEF Reads, LogSame
  <2>2. StreamOf(r)' = Full(run[r].exec)'
      BY <2>1 DEF StreamOf, Full
  <2> QED
      BY <1>3, <2>2, StandsFirst DEF Rest
<1> QED
    BY <1>3, <1>4, <1>5

(* What an owner is served keeps it standing.                              *)
LEMMA StandsServed ==
    ASSUME CoreInv, UsageIsOnlyReported, NEW r \in Runs, Moved(r), Knows(r), Owns(r),
           NEW h, NEW S, NEW b, NEW c, Stands(r, h, S, b, c),
           ServesAs(r), ~run'[r].failure
    PROVE  Standing(r)'
<1>i. PICK i, e, got : i = run[r].i /\ e = Asked(r) /\ got = Serve(S, i, e)
    OBVIOUS
<1>0. StoreInv /\ Good(r) /\ run[r].pc = "run" /\ run[r].pc \in Running /\ run[r].pc \notin Calling
    BY DEF CoreInv, AllGood, ServesAs, Running, Calling
<1>1. run[r].seen = Len(body) /\ Rest(StreamOf(r), i) # {}
    BY <1>i DEF CoreInv, OwnInv, ServesAs
<1>2. S = StreamOf(r) /\ S = Full(run[r].exec) /\ h = run[r].harness
    BY <1>1 DEF StreamOf, Full, Stands
<1>3. /\ Stays(r) /\ LogSame /\ ~run[r].failure /\ Asked(r).op \notin Leaves
      /\ run'[r].i = got.i
      /\ \/ /\ got.open
            /\ run'[r].answers = run[r].answers
            /\ run'[r].pos = got.i
            /\ run'[r].pc \in {"model", "tool"}
         \/ /\ ~got.open
            /\ Tells(r, got.answer) /\ ~got.failure
    BY <1>2, <1>i DEF ServesAs
<1>4. b = run[r].answers /\ c[Len(b)] = i /\ SameButUsage(h, b, b)
    BY <1>0, <1>1, <1>i DEF Stands
<1>5. /\ S \in SUBSET Nat /\ i \in Nat /\ IsSeq(b) /\ e = Operation(h, b)
    BY <1>0, <1>4, <1>i, StandsFor
<1>6. /\ S = Full(run[r].exec)' /\ StreamOf(r)' = S /\ Kept(S) /\ run'[r].harness = h
    BY <1>2, <1>3 DEF Full, StreamOf, Stream, LogSame, Stays, Kept
<1>7. Trace(h, S, b, c)'
    BY <1>5, <1>6, TraceStays DEF Stands
<1>8. Serve(S, i, e)' = got
    BY <1>5, <1>6, <1>i, ServeSame
<1>9. /\ IsAnswer(got.answer)
      /\ got.open => got.i = Following(S, i) /\ Rest(S, got.i) = {} /\ got.i \in S
  <2>1. /\ IsAnswer(Serve(S, i, e).answer)
        /\ Serve(S, i, e).open => Serve(S, i, e).i = Following(S, i)
      BY <1>5, ServedFrom
  <2>2. Serve(S, i, e).open => Rest(S, Serve(S, i, e).i) = {} /\ Serve(S, i, e).i \in S
      BY <1>5, ServeOutcome
  <2> QED
      BY <1>i, <2>1, <2>2
<1>10. CASE got.open
  <2>1. Rest(S, i) = {got.i}
    <3>1. got.i \in Rest(S, i) /\ \A p \in Rest(S, i) : got.i <= p
        BY <1>1, <1>2, <1>5, <1>9, <1>10, FollowingPlace DEF Rest
    <3>2. \A p \in Rest(S, i) : p \in Nat /\ p \in S /\ ~(p > got.i)
        BY <1>5, <1>9, <1>10 DEF Rest
    <3>3. got.i \in Nat
        BY <1>5, <1>9, <1>10
    <3>4. \A p \in Rest(S, i) : p = got.i
        BY <3>1, <3>2, <3>3
    <3> QED
        BY <3>1, <3>4
  <2>2. run'[r].pc \in Calling /\ run'[r].pos = got.i /\ run'[r].answers = b
      BY <1>3, <1>4, <1>10 DEF Calling
  <2> QED
      BY <1>4, <1>6, <1>7, <2>1, <2>2, StandsCalling
<1>11. CASE ~got.open
  <2>1. Tells(r, got.answer) /\ ~got.failure
      BY <1>3, <1>11
  <2>2. got.i \in S \union {0}
    <3>1. got.i = i \/ got.i \in S
        BY <1>5, <1>i, ServeOutcome
    <3>2. i \in S \union {0}
        BY <1>0, <1>2, <1>i DEF Good
    <3> QED
        BY <3>1, <3>2
  <2>3. /\ run'[r].pc = "run" /\ run'[r].answers = Append(run[r].answers, got.answer)
      BY <2>1 DEF Tells
  <2>4. Rest(StreamOf(r), run[r].i)' = {} => Rest(S, got.i) = {}
      BY <1>3, <1>6 DEF Rest
  <2>5. Operation(h, b).op \notin Leaves /\ Serve(S, c[Len(b)], Operation(h, b))' = got
      BY <1>3, <1>4, <1>5, <1>8, <1>i
  <2>6. b = run[r].answers /\ got.i = run'[r].i
      BY <1>3, <1>4
  <2> QED
      BY <1>4, <1>5, <1>6, <1>7, <1>9, <2>1, <2>2, <2>3, <2>4, <2>5, <2>6, StandsTold
<1> QED
    BY <1>10, <1>11

(* A call that is being made is served as one without an answer.           *)
LEMMA ServesOpen ==
    ASSUME NEW S \in SUBSET Nat, NEW i \in Nat, NEW e, NEW p, Rest(S, i) = {p},
           \/ e.op = "Model" /\ store.recs[p].kind = "MODEL_CALL"
           \/ e.op = "ToolCall" /\ e.key /\ store.recs[p].kind = "TOOL_CALL",
           body[p].arg = e.arg
    PROVE  LET got == Serve(S, i, e)
           IN  /\ got.i = p /\ got.answer = Error /\ ~got.failure
               /\ p \in S /\ p \in Nat /\ Rest(S, p) = {}
<1>1. p \in S /\ p \in Nat /\ p > i /\ Following(S, i) = p
  <2>1. p \in Rest(S, i) /\ p \in S /\ p \in Nat /\ p > i
    <3>1. p \in Rest(S, i)
        OBVIOUS
    <3> QED
        BY <3>1 DEF Rest
  <2>2. \A q \in Rest(S, i) : p <= q
      BY <2>1
  <2> QED
      BY <2>1, <2>2, FollowingIs
<1>2. Rest(S, p) = {}
  <2>1. ASSUME NEW q \in Rest(S, p) PROVE FALSE
    <3>1. q \in S /\ q \in Nat /\ q > p
        BY <2>1 DEF Rest
    <3>2. q > i
        BY <1>1, <3>1
    <3>3. q \in Rest(S, i)
        BY <3>1, <3>2 DEF Rest
    <3> QED
        BY <1>1, <3>1, <3>3
  <2> QED
      BY <2>1
<1>3. KindAt(S, i) = store.recs[p].kind /\ BodyAt(S, i) = body[p] /\ KindAt(S, p) = "none"
    BY <1>1, <1>2 DEF KindAt, BodyAt
<1>4. Serve(S, i, e) = Unanswered(S, p)
    BY <1>1, <1>3 DEF Serve, ServeModel, ServeToolCall
<1> QED
    BY <1>1, <1>2, <1>4 DEF Unanswered

(* A call that has just been answered is served with its answer.           *)
LEMMA ServesNoted ==
    ASSUME NEW L \in Nat, NEW S \in SUBSET (1 .. L), Kept(S), NEW i \in 0 .. L, NEW e,
           NEW p, Rest(S, i) = {p},
           \/ e.op = "Model" /\ store.recs[p].kind = "MODEL_CALL" /\ store'.recs[L + 1].kind = "OUTPUT"
           \/ /\ e.op = "ToolCall" /\ e.key /\ store.recs[p].kind = "TOOL_CALL"
              /\ store'.recs[L + 1].kind = "TOOL_RESULT" /\ body'[L + 1].arg = e.arg,
           body[p].arg = e.arg
    PROVE  Serve(S \union {L + 1}, i, e)' = Served(L + 1, Answer(body'[L + 1].arg, 0))
<1> DEFINE T == S \union {L + 1}
<1>0. S \in SUBSET Nat /\ i \in Nat
    OBVIOUS
<1>1. Following(S, i) = p /\ Rest(S, p) = {} /\ p \in S /\ KindAt(S, i) = store.recs[p].kind
      /\ BodyAt(S, i) = body[p]
  <2>0. \/ e.op = "Model" /\ store.recs[p].kind = "MODEL_CALL"
        \/ e.op = "ToolCall" /\ e.key /\ store.recs[p].kind = "TOOL_CALL"
      OBVIOUS
  <2>1. p \in S /\ p \in Nat /\ Rest(S, p) = {}
      BY <1>0, <2>0, ServesOpen
  <2>2. Following(S, i) = p
    <3>1. p \in Rest(S, i) /\ \A q \in Rest(S, i) : p <= q
        BY <2>1
    <3> QED
        BY <1>0, <3>1, FollowingIs
  <2> QED
      BY <2>1, <2>2 DEF KindAt, BodyAt
<1>2. p \in 0 .. L
    BY <1>1
<1>3. /\ KindAt(T, i)' = store.recs[p].kind /\ BodyAt(T, i)' = body[p] /\ Following(T, i) = p
    BY <1>1, ViewGrows
<1>4. KindAt(T, p)' = store'.recs[L + 1].kind
    BY <1>1, <1>2, ViewGrows
<1>5. Following(T, p) = L + 1 /\ Rest(T, L + 1) = {}
  <2>1. Rest(T, L + 1) = {}
      BY RestOfLast
  <2> QED
      BY <1>1, <1>2, <2>1, FollowingGrows
<1>6. UsageAt(T, L + 1)' = 0
    BY <1>5 DEF UsageAt, KindAt
<1> HIDE DEF T
<1>7. CASE e.op = "Model"
  <2>1. Serve(T, i, e)' = ServeModel(T, i, e)'
      BY <1>7 DEF Serve
  <2>2. ServeModel(T, i, e)' = Served(L + 1, Answer(body'[L + 1].arg, UsageAt(T, L + 1)'))
      BY <1>3, <1>4, <1>5, <1>7 DEF ServeModel
  <2> QED
      BY <1>6, <2>1, <2>2 DEF T
<1>8. CASE e.op = "ToolCall"
  <2>1. Serve(T, i, e)' = ServeToolCall(T, i, e)'
      BY <1>8 DEF Serve
  <2>2. ServeToolCall(T, i, e)' = Served(L + 1, Answer(e.arg, 0))
      BY <1>3, <1>4, <1>5, <1>8 DEF ServeToolCall
  <2> QED
      BY <1>8, <2>1, <2>2 DEF T
<1> QED
    BY <1>7, <1>8

(* An effect that has just been recorded is served.                        *)
LEMMA ServesEmitted ==
    ASSUME NEW L \in Nat, NEW S \in SUBSET (1 .. L), Kept(S), NEW i \in 0 .. L, NEW e,
           Rest(S, i) = {},
           \/ /\ e.op = "Output" /\ store'.recs[L + 1].kind = "OUTPUT"
              /\ body'[L + 1].arg = e.arg
           \/ e.op = "Report" /\ store'.recs[L + 1].kind = "TOOL_RESULT"
           \/ /\ e.op = "Usage" /\ store'.recs[L + 1].kind = "USAGE"
              /\ body'[L + 1].usage = e.usage
    PROVE  Serve(S \union {L + 1}, i, e)' = Served(L + 1, Done)
<1> DEFINE T == S \union {L + 1}
<1>1. KindAt(T, i)' = store'.recs[L + 1].kind /\ BodyAt(T, i)' = body'[L + 1]
    BY ViewGrows
<1>2. Following(T, i) = L + 1
    BY FollowingGrows
<1> HIDE DEF T
<1>3. Serve(T, i, e)' = Served(L + 1, Done)
    BY <1>1, <1>2 DEF Serve, ServeOutput, ServeReport, ServeUsage
<1> QED
    BY <1>3 DEF T

(* The execution of r, whose effects were S, has one more.                 *)
Adds(r, S, k, arg, usage) ==
    /\ Len(body) \in Nat /\ S \in SUBSET (1 .. Len(body)) /\ Kept(S)
    /\ Full(run[r].exec)' = S \union {Len(body) + 1}
    /\ store'.recs[Len(body) + 1].kind = k
    /\ body'[Len(body) + 1].arg = arg /\ body'[Len(body) + 1].usage = usage
    /\ Rest(StreamOf(r), run[r].i)' = Rest(StreamOf(r), run[r].i)

(* The effects of the execution that its owner appends to.                 *)
LEMMA OwnGrows ==
    ASSUME StoreInv, NEW r \in Runs, Good(r), Stays(r), run'[r].i = run[r].i,
           NEW k \in EffectKinds, NEW S, S = Full(run[r].exec)
    PROVE  \A arg, usage : Grows(r, k, Body(run[r].exec, arg, usage)) => Adds(r, S, k, arg, usage)
<1> SUFFICES ASSUME NEW arg, NEW usage, Grows(r, k, Body(run[r].exec, arg, usage))
             PROVE  Adds(r, S, k, arg, usage)
    OBVIOUS
<1> DEFINE n == Len(body) + 1
<1>1. Len(body) \in Nat /\ DOMAIN body = 1 .. Len(body)
    BY LogFacts
<1>2. /\ Len(body') = n /\ body'[n].exec = run[r].exec /\ body'[n].arg = arg
      /\ body'[n].usage = usage /\ store'.recs[n].kind = k
  <2>1. Len(body) \in Nat
      BY <1>1
  <2> QED
      BY <2>1, NewRecord
<1>3. \A p \in 1 .. Len(body) : body'[p] = body[p] /\ store'.recs[p] = store.recs[p]
    BY DEF Grows
<1>4. S \in SUBSET (1 .. Len(body)) /\ Kept(S)
    BY <1>3 DEF Full, Stream, Kept
<1>5. (1 .. n) = (1 .. Len(body)) \union {n}
    BY <1>1
<1> HIDE DEF n
<1>6. Full(run[r].exec)' =
        {p \in 1 .. n : body'[p].exec = run[r].exec /\ store'.recs[p].kind \in EffectKinds}
    BY <1>2 DEF Full, Stream, Stays
<1>7. Full(run[r].exec)' = S \union {n}
    BY <1>2, <1>3, <1>5, <1>6 DEF Full, Stream
<1>8. StreamOf(r)' = StreamOf(r)
  <2>1. run[r].seen \in 0 .. Len(body) /\ run'[r].seen = run[r].seen /\ run'[r].exec = run[r].exec
      BY DEF Good, Stays
  <2>2. \A p \in 1 .. run[r].seen : p \in 1 .. Len(body)
      BY <1>1, <2>1
  <2> QED
      BY <1>3, <2>1, <2>2 DEF StreamOf, Stream
<1> QED
    BY <1>1, <1>2, <1>4, <1>7, <1>8 DEF n, Rest, Adds

(* A call that was rejected.                                               *)
LEMMA StandsRejected ==
    ASSUME CoreInv, UsageIsOnlyReported, NEW r \in Runs, Knows(r),
           NEW h, NEW S, NEW b, NEW c, Stands(r, h, S, b, c), Rejects(r)
    PROVE  Standing(r)'
<1>1. PICK i, e : i = c[Len(b)] /\ e = Asked(r)
    OBVIOUS
<1>2. /\ Stays(r) /\ LogSame /\ Keyless(e) /\ Tells(r, Error) /\ run'[r].i = run[r].i
      /\ run[r].pc = "run" /\ Rest(StreamOf(r), run[r].i) = {}
    BY <1>1 DEF Rejects, Live, At
<1>3. StoreInv /\ run[r].pc \in Running /\ run[r].pc \notin Calling
    BY <1>2 DEF CoreInv, Running, Calling
<1>4. /\ IsSeq(run[r].answers) /\ S \in SUBSET Nat /\ i \in S \union {0} /\ S = Full(run[r].exec)
      /\ e.op # "Usage" => Operation(h, b) = e
    BY <1>1, <1>3, StandsFor
<1>5. Operation(h, b) = e /\ e.op \notin Leaves
    BY <1>2, <1>4 DEF Keyless, Leaves
<1>6. /\ S = Full(run[r].exec)' /\ StreamOf(r)' = StreamOf(r) /\ Kept(S) /\ run'[r].harness = h
    BY <1>2, <1>4 DEF Full, StreamOf, Stream, LogSame, Stays, Kept, Stands
<1>7. Trace(h, S, b, c)' /\ SameButUsage(h, run[r].answers, b)
    BY <1>4, <1>6, TraceStays DEF Stands
<1>8. Serve(S, i, e)' = Served(i, Error)
    BY <1>2 DEF Keyless, Serve, ServeToolCall
<1>9. Rest(S, i) = {} /\ Rest(StreamOf(r), run[r].i)' = {}
    BY <1>1, <1>2, <1>3, <1>6 DEF Stands, Rest
<1>10. /\ Served(i, Error).i = i /\ Served(i, Error).answer = Error /\ ~Served(i, Error).failure
       /\ IsAnswer(Error)
    BY DEF Served, IsAnswer
<1> QED
    BY <1>1, <1>2, <1>4, <1>5, <1>6, <1>7, <1>8, <1>9, <1>10, StandsTold DEF Tells

(* A call that failed.                                                     *)
LEMMA StandsFailed ==
    ASSUME CoreInv, UsageIsOnlyReported, NEW r \in Runs, Knows(r), Asks(r),
           NEW h, NEW S, NEW b, NEW c, Stands(r, h, S, b, c), Fails(r)
    PROVE  Standing(r)'
<1>1. PICK i, e, p : i = c[Len(b)] /\ e = Asked(r) /\ p = run[r].pos
    OBVIOUS
<1>2. /\ Stays(r) /\ LogSame /\ Tells(r, Error) /\ run'[r].i = run[r].i
      /\ run[r].pc \in {"model", "tool"}
    BY DEF Fails
<1>3. StoreInv /\ Good(r) /\ run[r].pc \in Running /\ run[r].pc \in Calling
    BY <1>2 DEF CoreInv, AllGood, Running, Calling
<1>4. /\ IsSeq(run[r].answers) /\ S \in SUBSET Nat /\ i \in Nat /\ S = Full(run[r].exec)
      /\ e.op # "Usage" => Operation(h, b) = e
    BY <1>1, <1>3, StandsFor
<1>5. /\ \/ e.op = "Model" /\ store.recs[p].kind = "MODEL_CALL"
         \/ e.op = "ToolCall" /\ e.key /\ store.recs[p].kind = "TOOL_CALL"
      /\ body[p].arg = e.arg
    BY <1>1, <1>2, <1>3 DEF Knows, Good, Asks
<1>6. Operation(h, b) = e /\ e.op \notin Leaves
    BY <1>4, <1>5 DEF Leaves
<1>7. /\ S = Full(run[r].exec)' /\ StreamOf(r)' = StreamOf(r) /\ Kept(S) /\ run'[r].harness = h
    BY <1>2, <1>4 DEF Full, StreamOf, Stream, LogSame, Stays, Kept, Stands
<1>8. Trace(h, S, b, c)' /\ SameButUsage(h, run[r].answers, b)
    BY <1>4, <1>7, TraceStays DEF Stands
<1>9. Rest(S, i) = {p} /\ Rest(StreamOf(r), run[r].i)' = {}
    BY <1>1, <1>2, <1>3, <1>7 DEF Stands, Rest, Good
<1>10. PICK got : got = Serve(S, i, e)
    OBVIOUS
<1>11. /\ got.i = p /\ got.answer = Error /\ ~got.failure /\ p \in S /\ Rest(S, p) = {}
  <2>0. S \in SUBSET Nat /\ i \in Nat /\ Rest(S, i) = {p}
      BY <1>4, <1>9
  <2>1. LET g == Serve(S, i, e)
        IN  g.i = p /\ g.answer = Error /\ ~g.failure /\ p \in S /\ Rest(S, p) = {}
      BY <1>5, <2>0, ServesOpen
  <2> QED
      BY <1>10, <2>1
<1>12. Serve(S, i, e)' = got
    BY <1>4, <1>7, <1>10, ServeSame
<1>13. IsAnswer(Error)
    BY DEF IsAnswer
<1> QED
    BY <1>1, <1>2, <1>4, <1>6, <1>7, <1>8, <1>9, <1>11, <1>12, <1>13, StandsTold DEF Tells

(* A call that was answered.                                               *)
LEMMA StandsAnswered ==
    ASSUME CoreInv, UsageIsOnlyReported, NEW r \in Runs, Knows(r),
           NEW h, NEW S, NEW b, NEW c, Stands(r, h, S, b, c), Gets(r)
    PROVE  Standing(r)'
<1>2. /\ Stays(r) /\ LogSame /\ run'[r].answers = run[r].answers /\ run'[r].pos = run[r].pos
      /\ run[r].pc \in Calling /\ run'[r].pc \in Calling
    BY DEF Gets, Calling
<1>3. StoreInv /\ run[r].pc \in Running
    BY <1>2 DEF CoreInv, Running
<1>4. S \in SUBSET Nat /\ S = Full(run[r].exec)
    BY <1>3, StandsFor
<1>5. /\ S = Full(run[r].exec)' /\ Kept(S) /\ run'[r].harness = h
    BY <1>2, <1>4 DEF Full, Stream, LogSame, Stays, Kept, Stands
<1>6. Trace(h, S, b, c)' /\ SameButUsage(h, run'[r].answers, b) /\ Rest(S, c[Len(b)]) = {run'[r].pos}
    BY <1>2, <1>4, <1>5, TraceStays DEF Stands
<1> QED
    BY <1>2, <1>5, <1>6, StandsCalling

(* An intent.                                                              *)
LEMMA StandsIntent ==
    ASSUME CoreInv, UsageIsOnlyReported, NEW r \in Runs, Knows(r), NEW k,
           NEW h, NEW S, NEW b, NEW c, Stands(r, h, S, b, c), Intends(r, k)
    PROVE  Standing(r)'
<1>1. PICK n : n = Len(body)
    OBVIOUS
<1>2. /\ Stays(r) /\ run'[r].answers = run[r].answers /\ run'[r].i = run[r].i
      /\ run'[r].pos = n + 1 /\ run[r].pc = "run" /\ Rest(StreamOf(r), run[r].i) = {}
      /\ run'[r].pc \in Calling /\ k \in EffectKinds /\ k \in Intents
      /\ Grows(r, k, Body(run[r].exec, Asked(r).arg, 0))
    BY <1>1 DEF Intends, Live, At, Calling, EffectKinds, Intents
<1>3. StoreInv /\ Good(r) /\ run[r].pc \in Running /\ run[r].pc \notin Calling
    BY <1>2 DEF CoreInv, AllGood, Running, Calling
<1>4. S = Full(run[r].exec) /\ c[Len(b)] \in 0 .. n
    BY <1>1, <1>3, StandsFor
<1>5. /\ n \in Nat /\ S \in SUBSET (1 .. n) /\ Kept(S)
      /\ Full(run[r].exec)' = S \union {n + 1} /\ store'.recs[n + 1].kind = k
  <2>1. Adds(r, S, k, Asked(r).arg, 0)
      BY <1>2, <1>3, <1>4, OwnGrows
  <2> QED
      BY <1>1, <2>1 DEF Adds
<1>6. Rest(S, c[Len(b)]) = {} /\ Trace(h, S, b, c)
    BY <1>2, <1>3 DEF Stands
<1>7. Fresh(S, k) /\ k # "USAGE"
    BY <1>2 DEF Fresh, AnswerKind, Intents
<1>8. Trace(h, S \union {n + 1}, b, c)'
    BY <1>5, <1>6, <1>7, TraceGrows
<1>9. Rest(S \union {n + 1}, c[Len(b)]) = {n + 1}
  <2>1. Rest(S \union {n + 1}, c[Len(b)]) = Rest(S, c[Len(b)]) \union {n + 1}
      BY <1>4, <1>5, RestOfLast
  <2> QED
      BY <1>6, <2>1
<1>10. run'[r].harness = h /\ SameButUsage(h, run'[r].answers, b)
    BY <1>2 DEF Stands, Stays
<1> QED
    BY <1>2, <1>5, <1>8, <1>9, <1>10, StandsCalling

(* An answer that is recorded.                                             *)
LEMMA StandsNoted ==
    ASSUME CoreInv, UsageIsOnlyReported, NEW r \in Runs, Knows(r), Asks(r), NEW k,
           NEW h, NEW S, NEW b, NEW c, Stands(r, h, S, b, c), Notes(r, k)
    PROVE  Standing(r)'
<1>1. PICK n, i, e, p, v : /\ n = Len(body) /\ i = c[Len(b)] /\ e = Asked(r) /\ p = run[r].pos
                           /\ v = run[r].reply
    OBVIOUS
<1>2. /\ Stays(r) /\ Tells(r, v) /\ run'[r].i = run[r].i
      /\ run[r].pc \in {"output", "result"} /\ k \in EffectKinds /\ k # "USAGE"
      /\ k = IF run[r].pc = "output" THEN "OUTPUT" ELSE "TOOL_RESULT"
      /\ Grows(r, k, Body(run[r].exec, v.val, 0))
    BY <1>1 DEF Notes, EffectKinds
<1>3. StoreInv /\ Good(r) /\ run[r].pc \in Running /\ run[r].pc \in Calling
    BY <1>2 DEF CoreInv, AllGood, Running, Calling
<1>4. /\ IsSeq(run[r].answers) /\ S = Full(run[r].exec) /\ i \in 0 .. n
      /\ Operation(h, run[r].answers) = e
      /\ e.op # "Usage" => Operation(h, b) = e
    BY <1>1, <1>3, StandsFor
<1>5. /\ n \in Nat /\ S \in SUBSET (1 .. n) /\ Kept(S)
      /\ Full(run[r].exec)' = S \union {n + 1} /\ store'.recs[n + 1].kind = k
      /\ body'[n + 1].arg = v.val
      /\ Rest(StreamOf(r), run[r].i)' = Rest(StreamOf(r), run[r].i)
  <2>1. Adds(r, S, k, v.val, 0)
      BY <1>2, <1>3, <1>4, OwnGrows
  <2> QED
      BY <1>1, <2>1 DEF Adds
<1>6. /\ \/ e.op = "Model" /\ store.recs[p].kind = "MODEL_CALL" /\ k = "OUTPUT"
         \/ /\ e.op = "ToolCall" /\ e.key /\ store.recs[p].kind = "TOOL_CALL"
            /\ k = "TOOL_RESULT" /\ v = Answer(e.arg, 0)
      /\ body[p].arg = e.arg
      /\ v = Answer(v.val, v.usage)
    BY <1>1, <1>2, <1>3 DEF Knows, Good, Asks
<1>7. Operation(h, b) = e /\ e.op \notin Leaves
    BY <1>4, <1>6 DEF Leaves
<1>8. Rest(S, i) = {p} /\ Rest(StreamOf(r), run[r].i)' = {} /\ Trace(h, S, b, c)
      /\ SameButUsage(h, run[r].answers, b) /\ run'[r].harness = h
    BY <1>1, <1>2, <1>3, <1>5 DEF Stands, Good, Stays
<1>9. Trace(h, S \union {n + 1}, b, c)'
    BY <1>1, <1>5, <1>8, TraceGrows
<1>10. Answer(e.arg, 0).val = e.arg
    BY DEF Answer
<1>11. Serve(S \union {n + 1}, i, e)' = Served(n + 1, Answer(v.val, 0))
    BY <1>4, <1>5, <1>6, <1>8, <1>10, ServesNoted
<1>12. PICK got : got = Served(n + 1, Answer(v.val, 0))
    OBVIOUS
<1>13. /\ got.i = n + 1 /\ got.answer = Answer(v.val, 0) /\ ~got.failure /\ IsAnswer(got.answer)
       /\ got.answer.ok /\ got.answer.val = v.val /\ v.ok
  <2>1. \A x, y : IsAnswer(Answer(x, y)) /\ Answer(x, y).ok /\ Answer(x, y).val = x
      BY DEF IsAnswer, Answer
  <2>2. got.i = n + 1 /\ got.answer = Answer(v.val, 0) /\ ~got.failure
      BY <1>12 DEF Served
  <2>3. v.ok
      BY <1>6, <2>1
  <2> QED
      BY <2>1, <2>2, <2>3
<1>14. \/ v = got.answer
       \/ /\ Operation(h, run[r].answers).op = "Model"
          /\ v.ok /\ got.answer.ok /\ v.val = got.answer.val
    BY <1>4, <1>6, <1>10, <1>13
<1>15. Rest(S \union {n + 1}, n + 1) = {} /\ n + 1 \in S \union {n + 1}
    BY <1>4, <1>5, RestOfLast
<1>16. run'[r].pc = "run" /\ run'[r].answers = Append(run[r].answers, v)
    BY <1>2 DEF Tells
<1>17. /\ Operation(h, b).op \notin Leaves
       /\ Serve(S \union {n + 1}, c[Len(b)], Operation(h, b))' = got
    BY <1>1, <1>7, <1>11, <1>12
<1>18. /\ got.i \in S \union {n + 1} \union {0}
       /\ Rest(S \union {n + 1}, got.i) = {}
    BY <1>13, <1>15
<1>19. S \union {n + 1} = Full(run[r].exec)'
    BY <1>5
<1> QED
    BY <1>4, <1>8, <1>9, <1>13, <1>14, <1>16, <1>17, <1>18, <1>19, StandsTold

(* What a harness does next is not taken for the answer of a call that     *)
(* failed.                                                                 *)
LEMMA LiveIsFresh ==
    ASSUME CoreInv, FailuresDoStandOut, UsageIsOnlyReported, LiveInv,
           NEW r \in Runs, Knows(r), Owns(r), NEW h, NEW S, NEW b, NEW c, Stands(r, h, S, b, c),
           NEW k, Emits(r, k)
    PROVE  Fresh(S, k)
<1> SUFFICES ASSUME NEW p \in S, Rest(S, p) = {}, store.recs[p].kind \in Intents,
                    k = AnswerKind(p)
             PROVE  FALSE
    BY DEF Fresh
<1>1. Live(r) /\ run[r].pc \in Running
    BY DEF Emits, Live, At, Running
<1>2. h = run[r].harness /\ S = Full(run[r].exec)
    BY DEF Stands
<1>3. FailedLast(h, run[r].answers, CallOp(p))
    BY <1>1, <1>2 DEF LiveInv
<1>4. FailuresStandOut(h, run[r].answers)
  <2>1. /\ \E s \in Settings : h \in s.harnesses
        /\ IsAnswers(run[r].answers)
      BY <1>1, StandsFor DEF CoreInv
  <2> QED
      BY <2>1 DEF FailuresDoStandOut
<1>5. Asked(r) = Operation(h, run[r].answers)
    BY <1>2 DEF Asked
<1> QED
    BY <1>3, <1>4, <1>5 DEF FailuresStandOut, CallOp, AnswerKind, Emits, Intents

(* An output or a report.                                                  *)
LEMMA StandsEmitted ==
    ASSUME CoreInv, UsageIsOnlyReported, NEW r \in Runs, Knows(r), NEW k,
           NEW h, NEW S, NEW b, NEW c, Stands(r, h, S, b, c), Fresh(S, k), Emits(r, k), k # "USAGE"
    PROVE  Standing(r)'
<1>1. PICK n, i, e : n = Len(body) /\ i = c[Len(b)] /\ e = Asked(r)
    OBVIOUS
<1>2. /\ Stays(r) /\ Tells(r, Done) /\ run'[r].i = run[r].i
      /\ run[r].pc = "run" /\ Rest(StreamOf(r), run[r].i) = {} /\ k \in EffectKinds
      /\ Grows(r, k, Body(run[r].exec, e.arg, 0))
      /\ \/ e.op = "Output" /\ k = "OUTPUT"
         \/ e.op = "Report" /\ k = "TOOL_RESULT"
    BY <1>1 DEF Emits, EffectKinds, Live, At
<1>3. StoreInv /\ Good(r) /\ run[r].pc \in Running /\ run[r].pc \notin Calling
    BY <1>2 DEF CoreInv, AllGood, Running, Calling
<1>4. /\ IsSeq(run[r].answers) /\ S = Full(run[r].exec) /\ i \in 0 .. n
      /\ Operation(h, run[r].answers) = e
      /\ e.op # "Usage" => Operation(h, b) = e
    BY <1>1, <1>3, StandsFor
<1>5. /\ n \in Nat /\ S \in SUBSET (1 .. n) /\ Kept(S)
      /\ Full(run[r].exec)' = S \union {n + 1} /\ store'.recs[n + 1].kind = k
      /\ body'[n + 1].arg = e.arg
      /\ Rest(StreamOf(r), run[r].i)' = Rest(StreamOf(r), run[r].i)
  <2>1. Adds(r, S, k, e.arg, 0)
      BY <1>2, <1>3, <1>4, OwnGrows
  <2> QED
      BY <1>1, <2>1 DEF Adds
<1>6. Operation(h, b) = e /\ e.op \notin Leaves
    BY <1>2, <1>4 DEF Leaves
<1>7. Rest(S, i) = {} /\ Rest(StreamOf(r), run[r].i)' = {} /\ Trace(h, S, b, c)
      /\ SameButUsage(h, run[r].answers, b) /\ run'[r].harness = h
    BY <1>1, <1>2, <1>3, <1>5 DEF Stands, Stays
<1>8. Trace(h, S \union {n + 1}, b, c)'
    BY <1>5, <1>7, TraceGrows
<1>9. Serve(S \union {n + 1}, i, e)' = Served(n + 1, Done)
    BY <1>2, <1>4, <1>5, <1>7, ServesEmitted
<1>10. PICK got : got = Served(n + 1, Done)
    OBVIOUS
<1>11. got.i = n + 1 /\ got.answer = Done /\ ~got.failure /\ IsAnswer(got.answer)
    BY <1>10 DEF Served, IsAnswer, Answer, Done
<1>12. Rest(S \union {n + 1}, n + 1) = {} /\ n + 1 \in S \union {n + 1}
    BY <1>4, <1>5, RestOfLast
<1>13. run'[r].pc = "run" /\ run'[r].answers = Append(run[r].answers, Done)
    BY <1>2 DEF Tells
<1>14. /\ Operation(h, b).op \notin Leaves
       /\ Serve(S \union {n + 1}, c[Len(b)], Operation(h, b))' = got
    BY <1>1, <1>6, <1>9, <1>10
<1>15. /\ got.i \in S \union {n + 1} \union {0}
       /\ Rest(S \union {n + 1}, got.i) = {}
    BY <1>11, <1>12
<1>16. S \union {n + 1} = Full(run[r].exec)'
    BY <1>5
<1> QED
    BY <1>4, <1>7, <1>8, <1>11, <1>13, <1>14, <1>15, <1>16, StandsTold

(* A report of usage: the completion before it is served with it now.      *)
LEMMA StandsReported ==
    ASSUME CoreInv, UsageIsOnlyReported, NEW r \in Runs, Knows(r),
           NEW h, NEW S, NEW b, NEW c, Stands(r, h, S, b, c), Fresh(S, "USAGE"), Emits(r, "USAGE")
    PROVE  Standing(r)'
<1>1. PICK n, i, e, a, u : /\ n = Len(body) /\ i = c[Len(b)] /\ e = Asked(r) /\ a = run[r].answers
                           /\ u = e.usage
    OBVIOUS
<1>2. /\ Stays(r) /\ Tells(r, Done) /\ run'[r].i = run[r].i
      /\ run[r].pc = "run" /\ Rest(StreamOf(r), run[r].i) = {}
      /\ Grows(r, "USAGE", Body(run[r].exec, "", u))
      /\ e.op = "Usage"
    BY <1>1 DEF Emits, Live, At
<1>3. StoreInv /\ Good(r) /\ run[r].pc \in Running /\ run[r].pc \notin Calling
    BY <1>2 DEF CoreInv, AllGood, Running, Calling
<1>4. /\ IsAnswers(a) /\ IsSeq(a) /\ IsAnswers(b) /\ Len(a) = Len(b) /\ Len(b) \in Nat
      /\ S = Full(run[r].exec) /\ i \in 0 .. n /\ Operation(h, a) = e /\ Reports(h)
    BY <1>1, <1>3, StandsFor
<1>5. /\ n \in Nat /\ S \in SUBSET (1 .. n) /\ Kept(S)
      /\ Full(run[r].exec)' = S \union {n + 1} /\ store'.recs[n + 1].kind = "USAGE"
      /\ body'[n + 1].usage = u
      /\ Rest(StreamOf(r), run[r].i)' = Rest(StreamOf(r), run[r].i)
  <2>1. Adds(r, S, "USAGE", "", u)
    <3>1. "USAGE" \in EffectKinds
        BY DEF EffectKinds
    <3> QED
        BY <1>2, <1>3, <1>4, <3>1, OwnGrows
  <2> QED
      BY <1>1, <2>1 DEF Adds
<1>6. Rest(S, i) = {} /\ Rest(StreamOf(r), run[r].i)' = {} /\ Trace(h, S, b, c)
      /\ SameButUsage(h, a, b) /\ run'[r].harness = h
    BY <1>1, <1>2, <1>3, <1>5 DEF Stands, Stays
<1>7. PICK d : /\ Trace(h, S \union {n + 1}, d, c)' /\ Len(d) = Len(b)
               /\ \A m \in 1 .. Len(b) :
                     d[m] = IF EndsWith(h, S, b, c, m) THEN Answer(b[m].val, u) ELSE b[m]
  <2>1. /\ n \in Nat /\ S \in SUBSET (1 .. n) /\ Kept(S) /\ Reports(h) /\ Trace(h, S, b, c)
        /\ store'.recs[n + 1].kind = "USAGE" /\ Fresh(S, store'.recs[n + 1].kind)
      BY <1>4, <1>5, <1>6
  <2>2. PICK d : /\ Trace(h, S \union {n + 1}, d, c)' /\ Len(d) = Len(b)
                 /\ \A m \in 1 .. Len(b) :
                       d[m] = IF EndsWith(h, S, b, c, m)
                              THEN Answer(b[m].val, body'[n + 1].usage) ELSE b[m]
      BY <2>1, TraceGetsUsage
  <2> QED
      BY <1>5, <2>2
<1>8. /\ IsAnswers(d) /\ \A x, y : Answer(x, y).ok /\ Answer(x, y).val = x /\ Answer(x, y).usage = y
    BY <1>7 DEF Trace, Answer
<1>9. ASSUME NEW m \in 1 .. Len(a)
      PROVE  /\ Nth(h, a, m).op = Nth(h, b, m).op
             /\ \/ a[m] = b[m]
                \/ Nth(h, a, m).op = "Model" /\ a[m].ok /\ b[m].ok /\ a[m].val = b[m].val
    BY <1>4, <1>6, SameNth DEF SameButUsage
<1>10. SameButUsage(h, a, d)
  <2>1. ASSUME NEW m \in 1 .. Len(a)
        PROVE  \/ a[m] = d[m]
               \/ Nth(h, a, m).op = "Model" /\ a[m].ok /\ d[m].ok /\ a[m].val = d[m].val
    <3>1. CASE EndsWith(h, S, b, c, m)
      <4>1. d[m].ok /\ d[m].val = b[m].val
          BY <1>4, <1>7, <1>8, <3>1
      <4>2. Nth(h, a, m).op = "Model" /\ b[m].ok
          BY <1>9, <3>1 DEF EndsWith
      <4>3. a[m].ok /\ a[m].val = b[m].val
          BY <1>9, <4>2
      <4> QED
          BY <4>1, <4>2, <4>3
    <3>2. CASE ~EndsWith(h, S, b, c, m)
        BY <1>4, <1>7, <1>9, <3>2
    <3> QED
        BY <3>1, <3>2
  <2> QED
      BY <1>4, <1>7, <2>1 DEF SameButUsage
<1>11. Operation(h, d).op = "Usage" /\ Operation(h, d).usage = u
  <2>1. \/ Operation(h, a) = Operation(h, d)
        \/ /\ Len(a) > 0
           /\ Operation(h, a).usage = a[Len(a)].usage
           /\ Operation(h, d).op = "Usage" /\ Operation(h, d).usage = d[Len(d)].usage
      BY <1>4, <1>8, <1>10 DEF Reports, UsageIsReported
  <2>2. ASSUME Len(a) > 0, u = a[Len(a)].usage PROVE d[Len(d)].usage = u
    <3>1. Len(a) \in 1 .. Len(a)
        BY <1>4, <2>2
    <3>2. CASE EndsWith(h, S, b, c, Len(a))
        BY <1>4, <1>7, <1>8, <3>1, <3>2
    <3>3. CASE ~EndsWith(h, S, b, c, Len(a))
      <4>1. a[Len(a)] = b[Len(a)]
          BY <1>1, <1>4, <1>6, <1>9, <3>1, <3>3 DEF EndsWith
      <4> QED
          BY <1>4, <1>7, <2>2, <3>1, <3>3, <4>1
    <3> QED
        BY <3>2, <3>3
  <2> QED
      BY <1>1, <1>2, <1>4, <2>1, <2>2
<1>12. Serve(S \union {n + 1}, i, Operation(h, d))' = Served(n + 1, Done)
    BY <1>4, <1>5, <1>6, <1>11, ServesEmitted
<1>13. PICK got : got = Served(n + 1, Done)
    OBVIOUS
<1>14. got.i = n + 1 /\ got.answer = Done /\ ~got.failure /\ IsAnswer(got.answer)
    BY <1>13 DEF Served, IsAnswer, Answer, Done
<1>15. Rest(S \union {n + 1}, n + 1) = {} /\ n + 1 \in S \union {n + 1}
    BY <1>4, <1>5, RestOfLast
<1>16. run'[r].pc = "run" /\ run'[r].answers = Append(a, Done)
    BY <1>1, <1>2 DEF Tells
<1>17. /\ Operation(h, d).op \notin Leaves
       /\ Serve(S \union {n + 1}, c[Len(d)], Operation(h, d))' = got
    BY <1>1, <1>7, <1>11, <1>12, <1>13 DEF Leaves
<1>18. /\ got.i \in S \union {n + 1} \union {0}
       /\ Rest(S \union {n + 1}, got.i) = {}
    BY <1>14, <1>15
<1>19. S \union {n + 1} = Full(run[r].exec)'
    BY <1>5
<1> QED
    BY <1>1, <1>4, <1>6, <1>7, <1>10, <1>14, <1>16, <1>17, <1>18, <1>19, StandsTold

(* Nothing but the owner's step can change what the owner's trace is of.   *)
LEMMA StandsStill ==
    ASSUME CoreInv, NEW r \in Runs, Moved(r), NEW q \in Runs, q # r, Owns(q), Standing(q)
    PROVE  Standing(q)'
<1>1. PICK h, S, b, c : Stands(q, h, S, b, c)
    BY DEF Standing
<1>2. run'[q] = run[q] /\ ~Owns(r)
    BY DEF Moved, Moves, CoreInv, OneOwner, Owns
<1>3. Keeps
  <2>1. ASSUME NEW k, NEW x, AppendsTo(r, k, x) PROVE FALSE
      BY <1>2, <2>1 DEF AppendsTo, Owns
  <2> QED
      BY <2>1, ShapeAppends DEF CoreInv
<1>4. /\ Full(run[q].exec)' = Full(run[q].exec) /\ StreamOf(q)' = StreamOf(q)
      /\ S = Full(run[q].exec) /\ Kept(S)
    BY <1>1, <1>2, <1>3 DEF Keeps, Full, StreamOf, Stream, Kept, Stands
<1>5. S \in SUBSET Nat
    BY <1>4 DEF Full, Stream
<1>6. Trace(h, S, b, c)'
    BY <1>1, <1>4, <1>5, TraceStays DEF Stands
<1>7. Stands(q, h, S, b, c)'
    BY <1>1, <1>2, <1>4, <1>6 DEF Stands, Rest
<1> QED
    BY <1>7 DEF Standing

(* The owner's own step.                                                   *)
LEMMA StandsStep ==
    ASSUME CoreInv, LiveInv, FailuresDoStandOut, UsageIsOnlyReported,
           NEW r \in Runs, Moved(r), Detail(r), Knows(r), Asks(r), Owns(r),
           run[r].pc \in Running /\ ~run[r].failure => Standing(r),
           run'[r].pc \in Running, ~run'[r].failure
    PROVE  Standing(r)'
<1>1. ASSUME Prepares(r) PROVE Standing(r)'
    BY <1>1, StandsPrepared
<1>2. ~Quits(r)
    BY DEF Quits, Departs, Running, Calling
<1>3. ASSUME ~Prepares(r), ~Quits(r) PROVE run[r].pc \in Running /\ ~run[r].failure /\ ~Refuses(r)
    BY <1>3 DEF Detail, ServesAs, Rejects, Refuses, Fails, Gets, Intends, Emits, Notes, Live, At,
                Running, Calling, CoreInv, AllGood, Good
<1>4. ASSUME ~Prepares(r) PROVE Standing(r)'
  <2>1. PICK h, S, b, c : Stands(r, h, S, b, c)
      BY <1>2, <1>3, <1>4 DEF Standing
  <2>3. ASSUME ServesAs(r) PROVE Standing(r)'
      BY <2>1, <2>3, StandsServed
  <2>4. ASSUME Rejects(r) PROVE Standing(r)'
      BY <2>1, <2>4, StandsRejected
  <2>5. ASSUME Fails(r) PROVE Standing(r)'
      BY <2>1, <2>5, StandsFailed
  <2>6. ASSUME Gets(r) PROVE Standing(r)'
      BY <2>1, <2>6, StandsAnswered
  <2>7. ASSUME NEW k, Intends(r, k) PROVE Standing(r)'
      BY <2>1, <2>7, StandsIntent
  <2>8. ASSUME NEW k, Notes(r, k) PROVE Standing(r)'
      BY <2>1, <2>8, StandsNoted
  <2>9. ASSUME NEW k, Emits(r, k) PROVE Standing(r)'
    <3>1. Fresh(S, k)
        BY <2>1, <2>9, LiveIsFresh
    <3> QED
        BY <2>1, <2>9, <3>1, StandsEmitted, StandsReported
  <2> QED
      BY <1>2, <1>3, <1>4, <2>3, <2>4, <2>5, <2>6, <2>7, <2>8, <2>9 DEF Detail
<1> QED
    BY <1>1, <1>4

(* What an owner has written is a trace of its harness.                    *)
LEMMA TraceStep ==
    ASSUME CoreInv, AllKnow, AllAsk, LiveInv, TraceInv, FailuresDoStandOut, UsageIsOnlyReported,
           NEW r \in Runs, Moved(r), Detail(r)
    PROVE  TraceInv'
<1> SUFFICES ASSUME NEW q \in Runs, Owns(q)', run'[q].pc \in Running, ~run'[q].failure
             PROVE  Standing(q)'
    BY DEF TraceInv
<1>0. StoreInv /\ AllGood
    BY DEF CoreInv
<1>1. ~Mints(r)
  <2>1. ASSUME Mints(r) PROVE FALSE
    <3>1. store'.fence = store.fence + 1 /\ store.fence \in Nat /\ run'[r].pc \notin Running
        BY <1>0, <2>1, MintEffect, LogFacts DEF Mints, StoreInv, Running, Calling
    <3>2. run[q].fence \in 0 .. store.fence /\ run'[q] = run[q]
        BY <1>0, <3>1 DEF AllGood, Good, Moved, Moves
    <3> QED
        BY <3>1, <3>2 DEF Owns
  <2> QED
      BY <2>1
<1>2. Owns(q)
  <2>1. store'.fence = store.fence /\ run'[r].fence \in {0, run[r].fence}
      BY <1>0, <1>1, FenceStep
  <2> QED
      BY <2>1 DEF Owns, Moved, Moves
<1>3. CASE q # r
    BY <1>2, <1>3, StandsStill DEF TraceInv, Moved, Moves
<1>4. CASE q = r
    BY <1>2, <1>4, StandsStep DEF TraceInv, AllKnow, AllAsk
<1> QED
    BY <1>3, <1>4

-----------------------------------------------------------------------------
(* A harness that is always the same                                       *)

(* Harness h is served all of S.                                           *)
Covered(h, S) == \E b, c : Trace(h, S, b, c) /\ Rest(S, c[Len(b)]) = {}

Alone(h) == \A q \in Runs : run[q].harness \in {"none", h}

(* The owner of execution x is at work.                                    *)
Writing(x) ==
    \E r \in Runs : Owns(r) /\ run[r].pc \in Running /\ ~run[r].failure /\ run[r].exec = x

Recorded(x, h) == \E S : S = Full(x) /\ Covered(h, S)

(* What call r serves is all of h, and r is at a place of it.              *)
Matches(r, h) ==
    \E S, a, i :
        /\ S = StreamOf(r) /\ a = run[r].answers /\ i = run[r].i
        /\ ~run[r].failure /\ Covered(h, S)
        /\ Rest(S, i) # {} => \E c : Trace(h, S, a, c) /\ c[Len(a)] = i

AloneInv ==
    \A h : Alone(h) =>
        /\ \A x \in Runs : Writing(x) \/ Recorded(x, h)
        /\ \A r \in Runs : run[r].pc \in Running => Matches(r, h)
        /\ \A r \in Runs : run[r].result # "diverged"

(* What is not written to is served as before.                             *)
LEMMA CoveredStays ==
    ASSUME NEW h, NEW S \in SUBSET Nat, Kept(S), Covered(h, S)
    PROVE  Covered(h, S)'
BY TraceStays DEF Covered, Rest

(* Nothing is served from no records.                                      *)
LEMMA CoveredNone ==
    ASSUME NEW h
    PROVE  Covered(h, {})'
BY TraceStarts DEF Covered, Rest

(* A harness that has been served a part of what it is served to the last  *)
(* asks for the next record.                                               *)
LEMMA MatchesNext ==
    ASSUME NEW S \in SUBSET Nat, NEW h, NEW a, NEW d, Trace(h, S, a, d), Covered(h, S),
           Rest(S, d[Len(a)]) # {}
    PROVE  /\ Operation(h, a).op \notin Leaves
           /\ ~Serve(S, d[Len(a)], Operation(h, a)).failure
<1>1. PICK b, c : Trace(h, S, b, c) /\ Rest(S, c[Len(b)]) = {}
    BY DEF Covered
<1>2. /\ IsSeq(a) /\ Len(a) \in Nat
      /\ \A n \in 0 .. Len(a) : d[n] \in Nat
      /\ \A n \in 0 .. Len(a) : \A m \in 0 .. n : d[m] <= d[n]
    BY TraceMoves
<1>3. IsSeq(b) /\ Len(b) \in Nat /\ \A n \in 0 .. Len(b) : c[n] \in Nat
    BY <1>1, TraceMoves
<1>4. ASSUME Len(b) <= Len(a) PROVE FALSE
  <2>0. \A n \in 0 .. Len(b) : c[n] = d[n] /\ (n > 0 => b[n] = a[n])
      BY <1>1, <1>4, OneTrace
  <2>1. \A n \in 0 .. Len(b) : c[n] = d[n]
      BY <2>0
  <2>2. Len(b) \in 0 .. Len(a) /\ Len(b) \in 0 .. Len(b) /\ Len(a) \in 0 .. Len(a)
      BY <1>2, <1>3, <1>4
  <2>3. c[Len(b)] <= d[Len(a)] /\ c[Len(b)] \in Nat /\ d[Len(a)] \in Nat
      BY <1>2, <2>1, <2>2
  <2>4. PICK x, y : x = c[Len(b)] /\ y = d[Len(a)]
      OBVIOUS
  <2>5. \A p \in S : p > y => p > x
      BY <2>3, <2>4
  <2>6. Rest(S, y) \subseteq Rest(S, x)
      BY <2>5 DEF Rest
  <2> QED
      BY <1>1, <2>4, <2>6
<1>5. Len(a) <= Len(b) /\ Len(a) + 1 \in 1 .. Len(b)
    BY <1>2, <1>3, <1>4
<1>6. \A n \in 0 .. Len(a) : d[n] = c[n] /\ (n > 0 => a[n] = b[n])
    BY <1>1, <1>5, OneTrace
<1>7. Nth(h, b, Len(a) + 1) = Operation(h, a)
  <2>1. PICK e : e = Append(a, Error)
      OBVIOUS
  <2>2. /\ IsSeq(e) /\ Len(e) = Len(a) + 1 /\ \A k \in 1 .. Len(a) : e[k] = a[k]
        /\ Nth(h, e, Len(a) + 1) = Operation(h, a)
      BY <1>2, <2>1, AppendAny, NthAppend
  <2>3. Len(a) <= Len(e) /\ \A k \in 1 .. Len(a) : e[k] = b[k]
      BY <1>2, <1>6, <2>2
  <2>4. Nth(h, e, Len(a) + 1) = Nth(h, b, Len(a) + 1)
      BY <1>2, <1>3, <1>5, <2>2, <2>3, NthBegins
  <2> QED
      BY <2>2, <2>4
<1>8. Meets(h, S, b, c, Len(a) + 1)
    BY <1>1, <1>5 DEF Trace
<1>9. d[Len(a)] = c[Len(a)] /\ (Len(a) + 1) - 1 = Len(a)
    BY <1>2, <1>6
<1> QED
    BY <1>7, <1>8, <1>9 DEF Meets

(* What an owner at work has written, up to and with the call it makes, is *)
(* what its harness is served.                                             *)
LEMMA StandsCovers ==
    ASSUME CoreInv, UsageIsOnlyReported, NEW r \in Runs, Owns(r), run[r].pc \in Running,
           Knows(r), Asks(r), Standing(r), NEW h, h = run[r].harness, Matches(r, h),
           NEW S, S = Full(run[r].exec), Kept(S)
    PROVE  Covered(h, S)'
<1>0. StoreInv /\ Good(r)
    BY DEF CoreInv, AllGood
<1>1. PICK b, c : Stands(r, h, S, b, c)
    BY DEF Standing, Stands
<1>2. /\ IsAnswers(b) /\ IsSeq(b) /\ Len(b) \in Nat
      /\ S \in SUBSET Nat /\ c[Len(b)] \in Nat
      /\ Asked(r).op # "Usage" => Operation(h, b) = Asked(r)
    BY <1>0, <1>1, StandsFor
<1>3. Trace(h, S, b, c)'
    BY <1>1, <1>2, TraceStays DEF Stands
<1>4. CASE run[r].pc \in Calling
  <2>1. PICK p, i, e : p = run[r].pos /\ i = c[Len(b)] /\ e = Operation(h, b)
      OBVIOUS
  <2>2. Rest(S, i) = {p}
      BY <1>1, <1>4, <2>1 DEF Stands
  <2>3. /\ e = Asked(r)
        /\ \/ e.op = "Model" /\ store.recs[p].kind = "MODEL_CALL"
           \/ e.op = "ToolCall" /\ e.key /\ store.recs[p].kind = "TOOL_CALL"
      BY <1>0, <1>2, <1>4, <2>1 DEF Knows, Good, Calling
  <2>4. body[p].arg = e.arg
      BY <1>4, <2>1, <2>3 DEF Asks
  <2>5. PICK got : got = Serve(S, i, e)
      OBVIOUS
  <2>6. got.i = p /\ got.answer = Error /\ ~got.failure /\ p \in S /\ p \in Nat /\ Rest(S, p) = {}
    <3>0. S \in SUBSET Nat /\ i \in Nat /\ Rest(S, i) = {p}
        BY <1>2, <2>1, <2>2
    <3>1. LET g == Serve(S, i, e)
          IN  /\ g.i = p /\ g.answer = Error /\ ~g.failure
              /\ p \in S /\ p \in Nat /\ Rest(S, p) = {}
      <4>1. /\ \/ e.op = "Model" /\ store.recs[p].kind = "MODEL_CALL"
               \/ e.op = "ToolCall" /\ e.key /\ store.recs[p].kind = "TOOL_CALL"
            /\ body[p].arg = e.arg
          BY <2>3, <2>4
      <4> QED
          BY <4>1, <3>0, ServesOpen
    <3> QED
        BY <2>5, <3>1
  <2>7. Serve(S, i, e)' = got
      BY <1>2, <2>1, <2>5, ServeSame
  <2>8. e.op \notin Leaves /\ IsAnswer(got.answer)
      BY <2>3, <2>6 DEF Leaves, IsAnswer
  <2>9. PICK d : Trace(h, S, Append(b, got.answer), d)' /\ d[Len(b) + 1] = got.i
      BY <1>3, <2>1, <2>6, <2>7, <2>8, TraceExtends
  <2>10. Len(Append(b, got.answer)) = Len(b) + 1
      BY <1>2, AppendAny
  <2> QED
      BY <2>6, <2>9, <2>10 DEF Covered, Rest
<1>5. CASE run[r].pc \notin Calling /\ Rest(StreamOf(r), run[r].i) = {}
  <2>1. Rest(S, c[Len(b)]) = {}
      BY <1>1, <1>5 DEF Stands
  <2> QED
      BY <1>3, <2>1 DEF Covered, Rest
<1>6. CASE run[r].pc \notin Calling /\ Rest(StreamOf(r), run[r].i) # {}
  <2>1. run[r].pc = "run"
      BY <1>6 DEF Running
  <2>2. run[r].seen = Len(body)
      BY <1>6, <2>1 DEF CoreInv, OwnInv
  <2>3. S = StreamOf(r)
      BY <2>2 DEF StreamOf, Full
  <2>4. Covered(h, S)
      BY <2>3 DEF Matches
  <2> QED
      BY <1>2, <2>4, CoveredStays
<1> QED
    BY <1>4, <1>5, <1>6

(* A call that runs has the one harness there is.                          *)
LEMMA HarnessIs ==
    ASSUME StoreInv, AllAsk, NEW h, Alone(h), NEW r \in Runs, run[r].pc # "idle"
    PROVE  run[r].harness = h
<1>1. run[r].harness \in setting.harnesses /\ setting \in Settings
    BY DEF AllAsk, Asks, StoreInv
<1>2. run[r].harness # "none"
    BY <1>1, TurnAssumption
<1> QED
    BY <1>2 DEF Alone

(* A harness is chosen once.                                               *)
LEMMA AloneBefore ==
    ASSUME AllAsk, NEW r \in Runs, Moved(r), Detail(r), NEW h, Alone(h)'
    PROVE  Alone(h)
<1>1. run'[r].harness = run[r].harness \/ run[r].pc = "idle"
    BY DEF Detail, Prepares, Quits, ServesAs, Rejects, Refuses, Fails, Gets, Intends, Emits,
           Notes, Stays, Begins
<1>2. run'[r].harness = run[r].harness \/ run[r].harness = "none"
    BY <1>1 DEF AllAsk, Asks
<1>3. ASSUME NEW q \in Runs PROVE run[q].harness \in {"none", h}
  <2>1. run'[q].harness \in {"none", h}
      BY DEF Alone
  <2>2. CASE q = r
      BY <1>2, <2>1, <2>2
  <2>3. CASE q # r
      BY <2>1, <2>3 DEF Moved, Moves
  <2> QED
      BY <2>2, <2>3
<1> QED
    BY <1>3 DEF Alone

(* Also the effects that an owner has written so far.                      *)
LEMMA CoversNow ==
    ASSUME CoreInv, AllKnow, AllAsk, TraceInv, AloneInv, UsageIsOnlyReported,
           NEW h, Alone(h), NEW x \in Runs, NEW S, S = Full(x), Kept(S)
    PROVE  Covered(h, S)'
<1>0. StoreInv /\ S \in SUBSET Nat
    BY LogFacts DEF CoreInv, Full, Stream
<1>1. ASSUME Recorded(x, h) PROVE Covered(h, S)'
  <2>1. Covered(h, S)
      BY <1>1 DEF Recorded
  <2> QED
      BY <1>0, <2>1, CoveredStays
<1>2. ASSUME Writing(x) PROVE Covered(h, S)'
  <2>1. PICK q \in Runs : /\ Owns(q) /\ run[q].pc \in Running /\ ~run[q].failure
                          /\ run[q].exec = x
      BY <1>2 DEF Writing
  <2>2. run[q].harness = h
      BY <1>0, <2>1, HarnessIs DEF Running, Calling
  <2>3. Knows(q) /\ Asks(q) /\ Standing(q) /\ Matches(q, h)
      BY <2>1 DEF AllKnow, AllAsk, TraceInv, AloneInv
  <2>4. S = Full(run[q].exec)
      BY <2>1
  <2> QED
      BY <2>1, <2>2, <2>3, <2>4, StandsCovers
<1> QED
    BY <1>1, <1>2 DEF AloneInv

(* What is recorded of an execution whose owner is not at work is all of   *)
(* its harness.                                                            *)
LEMMA RecordedStep ==
    ASSUME CoreInv, AllKnow, AllAsk, TraceInv, AloneInv, UsageIsOnlyReported,
           NEW h, Alone(h), NEW r \in Runs, Moved(r), Detail(r), NEW x \in Runs
    PROVE  Writing(x)' \/ Recorded(x, h)'
<1>0. /\ StoreInv /\ AllGood /\ Good(r)
      /\ \A p \in 1 .. Len(body) : body'[p] = body[p] /\ store'.recs[p] = store.recs[p]
    BY ShapeExtends DEF CoreInv, AllGood, Moved, Extended
<1>1. CASE Full(x)' = Full(x)
  <2>1. PICK S : S = Full(x)
      OBVIOUS
  <2>2. Kept(S)
      BY <1>0, <2>1, LogFacts DEF Kept, Full, Stream
  <2>3. Covered(h, S)'
      BY <2>1, <2>2, CoversNow
  <2> QED
      BY <1>1, <2>1, <2>3 DEF Recorded
<1>2. ASSUME NEW k \in EffectKinds, AppendsTo(r, k, x) PROVE Writing(x)'
  <2>1. Intends(r, k) \/ Emits(r, k) \/ Notes(r, k)
      BY <1>2, EffectDetail
  <2>2. /\ run'[r].pc \in Running /\ run'[r].failure = run[r].failure /\ ~run[r].failure
        /\ run'[r].fence = run[r].fence
      BY <1>0, <2>1 DEF Intends, Emits, Notes, Tells, Stays, Live, Running, Calling, Good
  <2>3. Owns(r)' /\ run'[r].exec = x
      BY <1>2, <2>2 DEF AppendsTo, Owns
  <2> QED
      BY <2>2, <2>3 DEF Writing
<1> QED
    BY <1>0, <1>1, <1>2, FullStep

(* A call that does not move serves what it has served.                    *)
LEMMA MatchesStill ==
    ASSUME CoreInv, NEW r \in Runs, Moved(r), NEW h, NEW q \in Runs, Matches(q, h),
           run'[q].exec = run[q].exec, run'[q].seen = run[q].seen,
           run'[q].i = run[q].i, run'[q].failure = run[q].failure,
           run'[q].answers = run[q].answers \/ Rest(StreamOf(q), run[q].i) = {}
    PROVE  Matches(q, h)'
<1>0. /\ StoreInv /\ Good(q) /\ run[q].seen \in 0 .. Len(body) /\ Extended
    BY ShapeExtends DEF CoreInv, AllGood, Good, Moved
<1>1. PICK S, a, i :
        /\ S = StreamOf(q) /\ a = run[q].answers /\ i = run[q].i
        /\ ~run[q].failure /\ Covered(h, S)
        /\ Rest(S, i) # {} => \E c : Trace(h, S, a, c) /\ c[Len(a)] = i
    BY DEF Matches
<1>2. StreamOf(q)' = S
    BY <1>0, <1>1, StreamStays DEF StreamOf
<1>3. S \in SUBSET Nat /\ S \subseteq 1 .. Len(body)
    BY <1>0, <1>1, StreamOfPlaces
<1>4. Kept(S)
    BY <1>0, <1>3 DEF Kept, Extended
<1>5. Covered(h, S)'
    BY <1>1, <1>3, <1>4, CoveredStays
<1>6. ASSUME Rest(S, i) # {} PROVE \E c : Trace(h, S, a, c)' /\ c[Len(a)] = i
    BY <1>1, <1>3, <1>4, <1>6, TraceStays
<1>7. PICK b : b = run'[q].answers
    OBVIOUS
<1>8. Rest(S, i) # {} => a = b
    BY <1>1, <1>7
<1>9. Rest(S, i) # {} => \E c : Trace(h, S, b, c)' /\ c[Len(b)] = i
    BY <1>6, <1>8
<1> QED
    BY <1>1, <1>2, <1>5, <1>7, <1>9 DEF Matches, Rest

(* A call that begins to run is at the first of what it serves.            *)
LEMMA MatchesPrepared ==
    ASSUME CoreInv, AllKnow, AllAsk, TraceInv, AloneInv, UsageIsOnlyReported,
           NEW h, Alone(h), NEW r \in Runs, Moved(r), Prepares(r), run'[r].pc \in Running
    PROVE  Matches(r, h)'
<1>0. StoreInv /\ RecInv /\ SegInv /\ Good(r) /\ Asks(r)
    BY DEF CoreInv, AllGood, AllAsk
<1>1. Records(r) \/ Reads(r)
    BY DEF Prepares, Begins, Mints, Running, Calling
<1>2. /\ run[r].answers = <<>> /\ run[r].seen = 0 /\ run[r].failure = FALSE
    BY <1>0, <1>1 DEF Asks, Good, Records, Reads, Running, Calling
<1>3. run[r].i = 0
  <2>1. StreamOf(r) = {}
      BY <1>2 DEF StreamOf, Stream
  <2> QED
      BY <1>0, <2>1 DEF Good
<1>4. run'[r].answers = <<>> /\ run'[r].i = 0 /\ ~run'[r].failure
    BY <1>1, <1>2, <1>3 DEF Prepares, Records, Reads, Begins, Mints
<1>5. PICK S : S = StreamOf(r)'
    OBVIOUS
<1>6. Covered(h, S)'
  <2>1. CASE Records(r)
    <3>0. run'[r].seen = 0
        BY <1>2, <2>1 DEF Records
    <3>1. S = {}
        BY <1>5, <3>0 DEF StreamOf, Stream
    <3> QED
        BY <3>1, CoveredNone
  <2>2. CASE Reads(r)
    <3>1. PICK x : x = LastExecution
        OBVIOUS
    <3>2. x \in Runs
        BY <1>0, <2>2, <3>1, LastExecutionIs DEF Reads
    <3>3. LogSame /\ run'[r].exec = x /\ run'[r].seen = Len(body)
        BY <1>0, <2>2, <3>1, LogFacts DEF Reads
    <3>4. S = Full(x) /\ Kept(S)
        BY <1>5, <3>3 DEF StreamOf, Full, Stream, LogSame, Kept
    <3> QED
        BY <3>2, <3>4, CoversNow
  <2> QED
      BY <1>1, <2>1, <2>2
<1>7. PICK c : c[0] = 0 /\ Len(<<>>) = 0 /\ Trace(h, S, <<>>, c)'
    BY TraceStarts
<1> QED
    BY <1>4, <1>5, <1>6, <1>7 DEF Matches

(* A call that serves is not at the end of its harness, and what it serves *)
(* is what the harness asks for.                                           *)
LEMMA AskedMatches ==
    ASSUME CoreInv, NEW r \in Runs, NEW h, h = run[r].harness, Matches(r, h),
           Rest(StreamOf(r), run[r].i) # {}
    PROVE  Asked(r).op \notin Leaves /\ ~Serve(StreamOf(r), run[r].i, Asked(r)).failure
<1>1. PICK S, a, i :
        /\ S = StreamOf(r) /\ a = run[r].answers /\ i = run[r].i
        /\ ~run[r].failure /\ Covered(h, S)
        /\ Rest(S, i) # {} => \E c : Trace(h, S, a, c) /\ c[Len(a)] = i
    BY DEF Matches
<1>2. PICK c : Trace(h, S, a, c) /\ c[Len(a)] = i
    BY <1>1
<1>3. S \in SUBSET Nat
    BY <1>1, StreamOfPlaces DEF CoreInv, AllGood
<1>4. Asked(r) = Operation(h, a)
    BY <1>1 DEF Asked
<1>5. Operation(h, a).op \notin Leaves /\ ~Serve(S, i, Operation(h, a)).failure
  <2>1. Rest(S, c[Len(a)]) # {}
      BY <1>1, <1>2
  <2>2. Operation(h, a).op \notin Leaves /\ ~Serve(S, c[Len(a)], Operation(h, a)).failure
      BY <1>1, <1>2, <1>3, <2>1, MatchesNext
  <2> QED
      BY <1>2, <2>2
<1> QED
    BY <1>1, <1>4, <1>5

(* Nor does it diverge when it is served.                                  *)
LEMMA MatchesServed ==
    ASSUME CoreInv, NEW r \in Runs, Moved(r), NEW h, h = run[r].harness, Matches(r, h),
           ServesAs(r)
    PROVE  Matches(r, h)'
<1>1. PICK S, a, i :
        /\ S = StreamOf(r) /\ a = run[r].answers /\ i = run[r].i
        /\ ~run[r].failure /\ Covered(h, S)
        /\ Rest(S, i) # {} => \E c : Trace(h, S, a, c) /\ c[Len(a)] = i
    BY DEF Matches
<1>2. PICK e, got : e = Asked(r) /\ got = Serve(S, i, e)
    OBVIOUS
<1>3. /\ Stays(r) /\ LogSame /\ Rest(S, i) # {} /\ run'[r].i = got.i
      /\ \/ got.open /\ run'[r].failure = FALSE /\ run'[r].pos = got.i
            /\ run'[r].pc \in {"model", "tool"}
         \/ ~got.open /\ run'[r].answers = Append(a, got.answer) /\ run'[r].failure = got.failure
    BY <1>1, <1>2 DEF ServesAs, Tells
<1>4. e.op \notin Leaves /\ ~got.failure /\ e = Operation(h, a)
    BY <1>1, <1>2, <1>3, AskedMatches DEF Asked
<1>5. S \in SUBSET Nat /\ i \in Nat /\ Kept(S) /\ StreamOf(r)' = S /\ i \in S \union {0}
  <2>1. S \in SUBSET Nat /\ i \in Nat /\ i \in S \union {0}
      BY <1>1, StreamOfPlaces DEF CoreInv, AllGood, Good
  <2> QED
      BY <1>1, <1>3, <2>1 DEF StreamOf, Stream, LogSame, Kept, Stays
<1>6. Covered(h, S)'
    BY <1>1, <1>5, CoveredStays
<1>7. /\ IsAnswer(got.answer) /\ got.i \in S \union {0}
  <2>1. LET g == Serve(S, i, e)
        IN  /\ IsAnswer(g.answer) /\ g.i \in Nat /\ g.i >= i
            /\ \/ g.i = i /\ Keyless(e) /\ g.answer = Error /\ ~g.open
               \/ g.i \in S /\ g.i > i /\ ~Keyless(e)
    <3>1. ~Serve(S, i, e).failure
        BY <1>2, <1>4
    <3> QED
        BY <1>5, <3>1, ServedMoves
  <2> QED
      BY <1>2, <1>5, <2>1
<1>8. CASE got.open
  <2>1. Rest(S, got.i) = {}
    <3>1. Serves(r)
        BY <1>3, <1>8
           DEF Moved, Shape, Begins, Mints, Records, Departs, Reads, Answers, Invokes, Appends,
               ServesAs, Running, Calling, LogSame
    <3> QED
        BY <1>1, <1>3, <1>8, <3>1 DEF Serves
  <2>2. PICK b : b = run'[r].answers
      OBVIOUS
  <2> QED
      BY <1>3, <1>4, <1>5, <1>6, <1>8, <2>1, <2>2 DEF Matches, Rest
<1>9. CASE ~got.open
  <2>1. PICK c : Trace(h, S, a, c) /\ c[Len(a)] = i
      BY <1>1, <1>3
  <2>2. Trace(h, S, a, c)' /\ Serve(S, c[Len(a)], Operation(h, a))' = got
    <3>1. Serve(S, i, e)' = Serve(S, i, e)
        BY <1>5, ServeSame
    <3> QED
        BY <1>2, <1>4, <1>5, <2>1, <3>1, TraceStays
  <2>3. Operation(h, a).op \notin Leaves /\ IsSeq(a)
      BY <1>4, <2>1 DEF Trace, IsAnswers
  <2>4. PICK d : Trace(h, S, Append(a, got.answer), d)' /\ d[Len(a) + 1] = got.i
      BY <1>4, <1>7, <2>2, <2>3, TraceExtends
  <2>5. PICK b : b = Append(a, got.answer)
      OBVIOUS
  <2>6. Len(b) = Len(a) + 1
      BY <2>3, <2>5, AppendAny
  <2>7. Trace(h, S, b, d)' /\ d[Len(b)] = got.i
      BY <2>4, <2>5, <2>6
  <2> QED
      BY <1>3, <1>4, <1>5, <1>6, <1>9, <2>5, <2>7 DEF Matches
<1> QED
    BY <1>3, <1>8, <1>9

(* Every call that runs serves its own harness.                            *)
LEMMA MatchesStep ==
    ASSUME CoreInv, AllKnow, AllAsk, TraceInv, AloneInv, UsageIsOnlyReported,
           NEW h, Alone(h), NEW r \in Runs, Moved(r), Detail(r),
           NEW q \in Runs, run'[q].pc \in Running
    PROVE  Matches(q, h)'
<1>0. StoreInv /\ Good(r)
    BY DEF CoreInv, AllGood
<1>1. CASE q # r
  <2>1. run'[q] = run[q]
      BY <1>1 DEF Moved, Moves
  <2>2. Matches(q, h)
      BY <2>1 DEF AloneInv
  <2> QED
      BY <2>1, <2>2, MatchesStill
<1>2. CASE q = r /\ Prepares(r)
    BY <1>2, MatchesPrepared
<1>3. CASE q = r /\ ~Prepares(r)
  <2>1. ~Quits(r)
      BY <1>3 DEF Quits, Departs, Running, Calling
  <2>2. run[r].pc \in Running
      BY <1>3, <2>1
         DEF Detail, ServesAs, Rejects, Refuses, Fails, Gets, Intends, Emits, Notes, Live, At,
             Running, Calling
  <2>3. Matches(r, h) /\ run[r].harness = h /\ ~run[r].failure
      BY <1>0, <2>2, HarnessIs DEF AloneInv, Matches, Running, Calling
  <2>4. CASE ServesAs(r)
      BY <1>3, <2>3, <2>4, MatchesServed
  <2>5. CASE ~ServesAs(r)
    <3>1. /\ Stays(r) /\ run'[r].i = run[r].i /\ run'[r].failure = run[r].failure
          /\ Rest(StreamOf(r), run[r].i) = {}
        BY <1>0, <1>3, <2>1, <2>3, <2>5
           DEF Detail, Rejects, Refuses, Fails, Gets, Intends, Emits, Notes, Live,
               Good, Calling
    <3> QED
        BY <1>3, <2>3, <3>1, MatchesStill DEF Stays
  <2> QED
      BY <2>4, <2>5
<1> QED
    BY <1>1, <1>2, <1>3

(* While there is one harness, no call diverges.                           *)
LEMMA AloneStep ==
    ASSUME CoreInv, AllKnow, AllAsk, TraceInv, AloneInv, UsageIsOnlyReported,
           NEW r \in Runs, Moved(r), Detail(r), Ends(r)
    PROVE  AloneInv'
<1> SUFFICES ASSUME NEW h, Alone(h)'
             PROVE  /\ \A x \in Runs : Writing(x)' \/ Recorded(x, h)'
                    /\ \A q \in Runs : run'[q].pc \in Running => Matches(q, h)'
                    /\ \A q \in Runs : run'[q].result # "diverged"
    BY DEF AloneInv
<1>1. Alone(h)
    BY AloneBefore
<1>2. ASSUME NEW q \in Runs, run'[q].result = "diverged" PROVE FALSE
  <2>1. run[q].result # "diverged"
      BY <1>1 DEF AloneInv
  <2>2. q = r
      BY <1>2, <2>1 DEF Moved, Moves
  <2>3. /\ run[r].pc = "run" /\ Asked(r).op \in Leaves
        /\ run[r].failure \/ Rest(StreamOf(r), run[r].i) # {}
      BY <1>2, <2>1, <2>2 DEF Ends
  <2>4. Matches(r, h) /\ run[r].harness = h /\ ~run[r].failure
      BY <1>1, <2>3, HarnessIs DEF AloneInv, Matches, Running, CoreInv
  <2> QED
      BY <2>3, <2>4, AskedMatches
<1> QED
    BY <1>1, <1>2, RecordedStep, MatchesStep

AloneCore == GivenCore /\ AllAsk /\ TraceInv /\ AloneInv

(* At first there is no harness.                                           *)
LEMMA AloneInit ==
    ASSUME Init
    PROVE  AloneCore
<1>1. GivenCore
    BY GivenInit
<1>2. body = <<>> /\ \A r \in Runs : run[r] = IdleRun
    BY DEF Init
<1>3. AllAsk
    BY <1>2 DEF AllAsk, Asks, IdleRun, Calling
<1>4. TraceInv
    BY <1>2 DEF TraceInv, IdleRun, Running, Calling
<1>5. AloneInv
  <2>1. ASSUME NEW h, NEW x \in Runs PROVE Recorded(x, h)
    <3>1. Full(x) = {}
        BY <1>2 DEF Full, Stream
    <3>2. Covered(h, {})
        BY TraceStarts DEF Covered, Rest
    <3> QED
        BY <3>1, <3>2 DEF Recorded
  <2> QED
      BY <1>2, <2>1 DEF AloneInv, IdleRun, Running, Calling
<1> QED
    BY <1>1, <1>3, <1>4, <1>5 DEF AloneCore

(* Steps that change nothing.                                              *)
LEMMA AloneStutter ==
    ASSUME AloneCore, UNCHANGED vars
    PROVE  AloneCore'
<1>0. store' = store /\ body' = body /\ run' = run /\ given' = given /\ setting' = setting
    BY DEF vars
<1>1. GivenCore'
    BY GivenStutter DEF AloneCore
<1>2. \A x : Full(x)' = Full(x)
    BY <1>0 DEF Full, Stream
<1>3. \A r \in Runs : StreamOf(r)' = StreamOf(r) /\ Asked(r)' = Asked(r) /\ Owns(r)' = Owns(r)
    BY <1>0 DEF StreamOf, Stream, Asked, Owns
<1>4. AllAsk'
    BY <1>0, <1>3 DEF AloneCore, AllAsk, Asks
<1>s. \A S \in SUBSET Nat : Kept(S)
    BY <1>0 DEF Kept
<1>5. ASSUME NEW S \in SUBSET Nat, NEW h, NEW b, NEW c, Trace(h, S, b, c)
      PROVE  Trace(h, S, b, c)'
    BY <1>5, <1>s, TraceStays
<1>6. TraceInv'
  <2> SUFFICES ASSUME NEW r \in Runs, Owns(r)', run'[r].pc \in Running, ~run'[r].failure
               PROVE  Standing(r)'
      BY DEF TraceInv
  <2>1. Standing(r)
      BY <1>0, <1>3 DEF AloneCore, TraceInv
  <2>2. PICK h, S, b, c : Stands(r, h, S, b, c)
      BY <2>1 DEF Standing
  <2>3. S \in SUBSET Nat
      BY <2>2, LogFacts DEF Stands, Full, Stream, AloneCore, GivenCore, CoreInv
  <2>4. Trace(h, S, b, c)'
      BY <1>5, <2>2, <2>3 DEF Stands
  <2>5. Stands(r, h, S, b, c)'
      BY <1>0, <1>2, <1>3, <2>2, <2>4 DEF Stands, Rest
  <2> QED
      BY <2>5 DEF Standing
<1>7. AloneInv'
  <2>0. StoreInv /\ AllGood
      BY DEF AloneCore, GivenCore, CoreInv
  <2> SUFFICES ASSUME NEW h, Alone(h)'
               PROVE  /\ \A x \in Runs : Writing(x)' \/ Recorded(x, h)'
                      /\ \A q \in Runs : run'[q].pc \in Running => Matches(q, h)'
                      /\ \A q \in Runs : run'[q].result # "diverged"
      BY DEF AloneInv
  <2>1. Alone(h)
      BY <1>0 DEF Alone
  <2>2. ASSUME NEW S \in SUBSET Nat, Covered(h, S) PROVE Covered(h, S)'
      BY <1>s, <2>2, CoveredStays
  <2>3. ASSUME NEW x \in Runs PROVE Writing(x)' \/ Recorded(x, h)'
    <3>1. CASE Writing(x)
        BY <1>0, <1>3, <3>1 DEF Writing
    <3>2. CASE Recorded(x, h)
      <4>1. PICK S : S = Full(x) /\ Covered(h, S)
          BY <3>2 DEF Recorded
      <4>2. S \in SUBSET Nat
          BY <2>0, <4>1, LogFacts DEF Full, Stream
      <4> QED
          BY <1>2, <2>2, <4>1, <4>2 DEF Recorded
    <3> QED
        BY <2>1, <3>1, <3>2 DEF AloneCore, AloneInv
  <2>4. ASSUME NEW q \in Runs, run'[q].pc \in Running PROVE Matches(q, h)'
    <3>1. Matches(q, h)
        BY <1>0, <2>1, <2>4 DEF AloneCore, AloneInv
    <3>2. PICK S, a, i :
            /\ S = StreamOf(q) /\ a = run[q].answers /\ i = run[q].i
            /\ ~run[q].failure /\ Covered(h, S)
            /\ Rest(S, i) # {} => \E c : Trace(h, S, a, c) /\ c[Len(a)] = i
        BY <3>1 DEF Matches
    <3>3. S \in SUBSET Nat
        BY <2>0, <3>2, StreamOfPlaces DEF AllGood
    <3>4. Covered(h, S)' /\ (Rest(S, i) # {} => \E c : Trace(h, S, a, c)' /\ c[Len(a)] = i)
        BY <1>5, <2>2, <3>2, <3>3
    <3> QED
        BY <1>0, <1>3, <3>2, <3>4 DEF Matches, Rest
  <2> QED
      BY <1>0, <2>1, <2>3, <2>4 DEF AloneCore, AloneInv
<1> QED
    BY <1>1, <1>4, <1>6, <1>7 DEF AloneCore

(* If failures stand out and usage is only reported, what an owner writes  *)
(* is what its harness will be served.                                     *)
LEMMA AloneKept ==
    ASSUME FailuresDoStandOut, UsageIsOnlyReported, AloneCore, [Next]_vars
    PROVE  AloneCore'
<1>0. CoreInv /\ AllKnow /\ AllAsk /\ LiveInv /\ TraceInv /\ AloneInv /\ GivenCore
    BY DEF AloneCore, GivenCore
<1>1. GivenCore'
    BY <1>0, GivenKept
<1>2. ASSUME NEW r \in Runs, Moved(r), Detail(r), Ends(r) PROVE AloneCore'
    BY <1>0, <1>1, <1>2, AsksStep, TraceStep, AloneStep DEF AloneCore
<1> QED
    BY <1>0, <1>2, NextEnds, AloneStutter

(* A harness that is always the same never diverges from what it recorded, *)
(* wherever the turn was cut, whatever failed in it and however many hosts *)
(* drove it at once, if it is as docs/harness-authoring.md asks: its       *)
(* failures stand out, and usage is reported directly after the completion *)
(* and decides nothing.                                                    *)
THEOREM OneHarnessNeverDiverges ==
    ASSUME FailuresDoStandOut, UsageIsOnlyReported
    PROVE  Spec => []SameHarnessNeverDiverges
<1>1. AloneCore => SameHarnessNeverDiverges
  <2> SUFFICES ASSUME AloneCore, NEW r \in Runs, run[r].failure \/ run[r].result = "diverged",
                      \A q \in Runs : run[q].harness \in {"none", run[r].harness}
               PROVE  FALSE
      BY DEF SameHarnessNeverDiverges
  <2>1. PICK h : h = run[r].harness
      OBVIOUS
  <2>2. Alone(h)
      BY <2>1 DEF Alone
  <2>3. run[r].result # "diverged" /\ (run[r].pc \in Running => Matches(r, h))
      BY <2>2 DEF AloneCore, AloneInv
  <2>4. run[r].failure => run[r].pc = "run"
      BY DEF AloneCore, GivenCore, CoreInv, AllGood, Good
  <2> QED
      BY <2>3, <2>4 DEF Matches, Running
<1>2. Init => AloneCore
    BY AloneInit
<1>3. AloneCore /\ [Next]_vars => AloneCore'
    BY AloneKept
<1> QED
    BY <1>1, <1>2, <1>3, PTL DEF Spec

-----------------------------------------------------------------------------
(* A turn that is complete                                                 *)

(* The owner works on a turn that is not complete.                         *)
OpenInv ==
    \A r \in Runs : Owns(r) /\ run[r].pc \in Running \union {"input"} => ~Completed(run[r].exec)

(* An END is appended by the owner of the turn, who goes away.             *)
LEMMA EndIsLast ==
    ASSUME StoreInv, AllGood, NEW r \in Runs, Moved(r), NEW x, AppendsTo(r, "END", x)
    PROVE  Departs(r)
<1>1. /\ Len(body) \in Nat /\ Len(body') = Len(body) + 1
      /\ store'.recs[Len(body) + 1].kind = "END"
    BY LogFacts DEF AppendsTo, Grows
<1>2. body' # body
    BY <1>1
<1>3. ASSUME NEW j, NEW b, Grows(r, j, b) PROVE j = "END"
    BY <1>1, <1>3 DEF Grows
<1> QED
    BY <1>2, <1>3
       DEF Moved, Shape, Begins, Mints, Records, Reads, Serves, Answers, Invokes, Appends,
           LogSame, EffectKinds

(* A turn is completed by its END and stays so.                            *)
LEMMA CompletedStep ==
    ASSUME StoreInv, AllGood, NEW r \in Runs, Moved(r), NEW x
    PROVE  /\ Completed(x) => Completed(x)'
           /\ Completed(x)' => Completed(x) \/ AppendsTo(r, "END", x)
<1>0. /\ Len(body) \in Nat /\ Len(body') \in Nat /\ Len(body) <= Len(body')
      /\ DOMAIN body = 1 .. Len(body) /\ DOMAIN body' = 1 .. Len(body')
      /\ \A p \in 1 .. Len(body) : body'[p] = body[p] /\ store'.recs[p] = store.recs[p]
    BY ShapeExtends DEF Moved, Extended
<1>1. ASSUME Completed(x) PROVE Completed(x)'
  <2>1. PICK p \in 1 .. Len(body) : body[p].exec = x /\ store.recs[p].kind = "END"
      BY <1>0, <1>1 DEF Completed, RecordsOf
  <2>2. p \in DOMAIN body' /\ body'[p].exec = x /\ store'.recs[p].kind = "END"
      BY <1>0, <2>1
  <2> QED
      BY <2>2 DEF Completed, RecordsOf
<1>2. ASSUME Completed(x)' PROVE Completed(x) \/ AppendsTo(r, "END", x)
  <2>1. PICK p \in DOMAIN body' : body'[p].exec = x /\ store'.recs[p].kind = "END"
      BY <1>2 DEF Completed, RecordsOf
  <2>2. CASE p \in 1 .. Len(body)
    <3>1. p \in DOMAIN body /\ body[p].exec = x /\ store.recs[p].kind = "END"
        BY <1>0, <2>1, <2>2
    <3> QED
        BY <3>1 DEF Completed, RecordsOf
  <2>3. CASE p \notin 1 .. Len(body)
    <3>1. PICK k, y : AppendsTo(r, k, y)
        BY <1>0, <2>1, <2>3, ShapeAppends DEF Keeps
    <3>2. PICK arg, usage : Grows(r, k, Body(y, arg, usage))
        BY <3>1 DEF AppendsTo
    <3>3. /\ Len(body') = Len(body) + 1 /\ body'[Len(body) + 1].exec = y
          /\ store'.recs[Len(body) + 1].kind = k
        BY <3>2 DEF Grows, Body
    <3>4. p = Len(body) + 1
        BY <1>0, <2>1, <2>3, <3>3
    <3>5. k = "END" /\ y = x
        BY <2>1, <3>3, <3>4
    <3> QED
        BY <3>1, <3>5
  <2> QED
      BY <2>2, <2>3
<1> QED
    BY <1>1, <1>2

(* An owner never works on a complete turn.                                *)
LEMMA OpenStep ==
    ASSUME CoreInv, OpenInv, NEW r \in Runs, Moved(r)
    PROVE  OpenInv'
<1>0. StoreInv /\ AllGood /\ RecInv /\ OneOwner /\ Good(r)
    BY DEF CoreInv, AllGood
<1> SUFFICES ASSUME NEW q \in Runs, Owns(q)', run'[q].pc \in Running \union {"input"},
                    Completed(run[q].exec)'
             PROVE  FALSE
    BY DEF OpenInv
<1>x. PICK x : x = run'[q].exec
    OBVIOUS
<1>1. Completed(x)'
    BY <1>x DEF Completed, RecordsOf
<1>2. ~AppendsTo(r, "END", x)
  <2>1. ASSUME AppendsTo(r, "END", x) PROVE FALSE
    <3>1. run'[r].pc = "done"
        BY <1>0, <2>1, EndIsLast DEF Departs
    <3>2. q # r /\ run'[q] = run[q]
        BY <3>1 DEF Running, Calling, Moved, Moves
    <3>3. run[q].fence = run[r].fence /\ run[r].fence > 0
        BY <2>1, <3>2 DEF AppendsTo, Owns
    <3>4. run[r].fence # 0
        BY <1>0, <3>3 DEF Good
    <3> QED
        BY <1>0, <3>2, <3>3, <3>4 DEF OneOwner
  <2> QED
      BY <2>1
<1>3. Completed(x)
    BY <1>0, <1>1, <1>2, CompletedStep
<1>4. ~Mints(r)
  <2>1. ASSUME Mints(r) PROVE FALSE
    <3>1. store'.fence = store.fence + 1 /\ store.fence \in Nat
          /\ run'[r].pc \notin Running \union {"input"}
        BY <1>0, <2>1, MintEffect, LogFacts DEF Mints, StoreInv, Running, Calling
    <3>2. run[q].fence \in 0 .. store.fence /\ run'[q] = run[q]
        BY <1>0, <3>1 DEF AllGood, Good, Moved, Moves
    <3> QED
        BY <3>1, <3>2 DEF Owns
  <2> QED
      BY <2>1
<1>5. Owns(q)
  <2>1. store'.fence = store.fence /\ run'[r].fence \in {0, run[r].fence}
      BY <1>0, <1>4, FenceStep
  <2> QED
      BY <2>1 DEF Owns, Moved, Moves
<1>6. CASE run[q].pc \in Running \union {"input"}
  <2>1. run'[q].exec = run[q].exec
    <3>1. run[q].exec # "none"
        BY <1>0, <1>6, TurnAssumption DEF AllGood, Good
    <3> QED
        BY <1>0, <3>1, ExecStays
  <2> QED
      BY <1>3, <1>5, <1>6, <1>x, <2>1 DEF OpenInv
<1>7. CASE run[q].pc \notin Running \union {"input"}
  <2>1. q = r
      BY <1>7 DEF Moved, Moves
  <2>2. (Records(r) /\ run[r].pc = "start") \/ Reads(r)
      BY <1>7, <2>1
         DEF Moved, Shape, Begins, Mints, Records, Departs, Serves, Answers, Invokes, Appends,
             Running, Calling
  <2>3. CASE Records(r) /\ run[r].pc = "start"
    <3>1. x = r /\ \A p \in DOMAIN body : body[p].exec # r
        BY <1>0, <1>x, <2>1, <2>3, NoRecordsBefore DEF Records
    <3> QED
        BY <1>3, <3>1 DEF Completed, RecordsOf
  <2>4. CASE Reads(r)
      BY <1>3, <1>x, <2>1, <2>4 DEF Reads
  <2> QED
      BY <2>2, <2>3, <2>4
<1> QED
    BY <1>6, <1>7

(* Harness h is served all of execution x and then returns.                *)
Ended(x, h) ==
    \E S, b, c : /\ S = Full(x) /\ Trace(h, S, b, c) /\ Rest(S, c[Len(b)]) = {}
                 /\ Operation(h, b).op = "Return"

DoneInv ==
    \A r \in Runs : run[r].result = "completed" =>
        /\ run[r].pc = "done" /\ run[r].harness \in setting.harnesses
        /\ Completed(run[r].exec) /\ Ended(run[r].exec, run[r].harness)

(* What has been written when the harness returns is what it is served.    *)
LEMMA DoneNow ==
    ASSUME CoreInv, AllKnow, AllAsk, TraceInv, UsageIsOnlyReported,
           NEW r \in Runs, Moved(r), Detail(r), Ends(r), run'[r].result = "completed"
    PROVE  /\ run'[r].pc = "done" /\ run'[r].harness \in setting'.harnesses
           /\ Completed(run[r].exec)' /\ Ended(run[r].exec, run[r].harness)'
<1>0. /\ StoreInv /\ AllGood /\ Good(r) /\ Knows(r) /\ Asks(r)
      /\ setting' = setting /\ Len(body) \in Nat
      /\ \A p \in 1 .. Len(body) : body'[p] = body[p] /\ store'.recs[p] = store.recs[p]
    BY LogFacts, ShapeExtends DEF CoreInv, AllGood, AllKnow, AllAsk, Moved, Histories, Extended
<1>1. run'[r].pc = "done"
    BY <1>0 DEF Ends, Asks
<1>2. /\ run[r].pc = "run" /\ Asked(r).op = "Return" /\ ~run[r].failure
      /\ Rest(StreamOf(r), run[r].i) = {}
      /\ Grows(r, "END", Body(run[r].exec, "", 0))
    BY <1>1 DEF Ends
<1>3. PICK x, h : x = run[r].exec /\ h = run[r].harness
    OBVIOUS
<1>4. run'[r].exec = x /\ run'[r].harness = h /\ h \in setting.harnesses
  <2>1. Quits(r)
      BY <1>1, <1>2
         DEF Detail, Prepares, Begins, Mints, Records, Reads, ServesAs, Rejects, Refuses, Fails,
             Gets, Intends, Emits, Notes, Tells, Running, Calling
  <2> QED
      BY <1>0, <1>2, <1>3, <2>1 DEF Quits, Departs, Asks
<1>5. Completed(x)'
  <2>1. /\ DOMAIN body' = 1 .. Len(body) + 1 /\ body'[Len(body) + 1].exec = x
        /\ store'.recs[Len(body) + 1].kind = "END"
    <3>2. body'[Len(body) + 1].exec = x
      <4>1. \A arg, usage : Body(x, arg, usage).exec = x
          BY DEF Body
      <4>2. body'[Len(body) + 1] = Body(x, "", 0)
          BY <1>2, <1>3 DEF Grows
      <4> QED
          BY <4>1, <4>2
    <3>3. /\ DOMAIN body' = 1 .. Len(body) + 1
          /\ store'.recs[Len(body) + 1].kind = "END"
        BY <1>2 DEF Grows
    <3> QED
        BY <3>2, <3>3
  <2>2. Len(body) + 1 \in DOMAIN body'
      BY <1>0, <2>1
  <2> QED
      BY <2>1, <2>2 DEF Completed, RecordsOf
<1>6. Full(x)' = Full(x)
  <2>1. ASSUME NEW k \in EffectKinds, AppendsTo(r, k, x) PROVE FALSE
    <3>1. store'.recs[Len(body) + 1].kind = k
        BY <2>1 DEF AppendsTo, Grows
    <3>2. store'.recs[Len(body) + 1].kind = "END"
        BY <1>2 DEF Grows
    <3> QED
        BY <3>1, <3>2 DEF EffectKinds
  <2> QED
      BY <1>0, <2>1, FullStep
<1>7. PICK S, b, c : Stands(r, h, S, b, c)
  <2>1. Owns(r) /\ run[r].pc \in Running
      BY <1>0, <1>2 DEF Grows, Good, Owns, Running
  <2> QED
      BY <1>2, <1>3, <2>1 DEF TraceInv, Standing, Stands
<1>8. S = Full(x) /\ S \in SUBSET Nat /\ Operation(h, b).op = "Return" /\ Rest(S, c[Len(b)]) = {}
  <2>1. run[r].pc \in Running
      BY <1>2 DEF Running
  <2>2. /\ S \in SUBSET Nat /\ S = Full(run[r].exec)
        /\ Asked(r).op # "Usage" => Operation(h, b) = Asked(r)
      BY <1>0, <1>7, <2>1, StandsFor
  <2> QED
      BY <1>2, <1>3, <1>7, <2>2 DEF Stands, Calling
<1>9. Trace(h, S, b, c)'
  <2>1. Kept(S)
      BY <1>0, <1>8 DEF Kept, Full, Stream
  <2> QED
      BY <1>7, <1>8, <2>1, TraceStays DEF Stands
<1>10. Ended(x, h)'
    BY <1>6, <1>8, <1>9 DEF Ended, Rest
<1> QED
    BY <1>0, <1>1, <1>4, <1>5, <1>10 DEF Ended, Completed, RecordsOf

(* Nothing is added to a turn that is complete.                            *)
LEMMA DoneStep ==
    ASSUME CoreInv, AllKnow, AllAsk, TraceInv, OpenInv, DoneInv, UsageIsOnlyReported,
           NEW r \in Runs, Moved(r), Detail(r), Ends(r)
    PROVE  DoneInv'
<1>0. /\ StoreInv /\ AllGood /\ setting' = setting /\ Len(body) \in Nat
      /\ \A p \in 1 .. Len(body) : body'[p] = body[p] /\ store'.recs[p] = store.recs[p]
    BY LogFacts, ShapeExtends DEF CoreInv, Moved, Histories, Extended
<1> SUFFICES ASSUME NEW q \in Runs, run'[q].result = "completed"
             PROVE  /\ run'[q].pc = "done" /\ run'[q].harness \in setting'.harnesses
                    /\ Completed(run[q].exec)' /\ Ended(run[q].exec, run[q].harness)'
    BY DEF DoneInv
<1>1. CASE q = r
    BY <1>1, DoneNow
<1>2. CASE q # r
  <2>1. run'[q] = run[q]
      BY <1>2 DEF Moved, Moves
  <2>2. PICK x, h : x = run[q].exec /\ h = run[q].harness
      OBVIOUS
  <2>3. /\ run[q].pc = "done" /\ h \in setting.harnesses
        /\ Completed(x) /\ Ended(x, h)
      BY <2>1, <2>2 DEF DoneInv
  <2>4. Completed(x)'
      BY <1>0, <2>3, CompletedStep
  <2>5. Full(x)' = Full(x)
    <3>1. ASSUME NEW k \in EffectKinds, AppendsTo(r, k, x) PROVE FALSE
      <4>1. /\ run[r].pc \in Running /\ run[r].exec = x
            /\ run[r].fence = store.fence /\ run[r].fence > 0
          BY <3>1 DEF AppendsTo, EffectKinds
      <4> QED
          BY <2>3, <4>1 DEF OpenInv, Owns
    <3> QED
        BY <1>0, <3>1, FullStep
  <2>6. PICK S, b, c : /\ S = Full(x) /\ Trace(h, S, b, c) /\ Rest(S, c[Len(b)]) = {}
                       /\ Operation(h, b).op = "Return"
      BY <2>3 DEF Ended
  <2>7. S \in SUBSET Nat /\ Kept(S)
      BY <1>0, <2>6 DEF Kept, Full, Stream
  <2>8. Trace(h, S, b, c)'
      BY <2>6, <2>7, TraceStays
  <2>9. Ended(x, h)'
      BY <2>5, <2>6, <2>8 DEF Ended, Rest
  <2> QED
      BY <1>0, <2>1, <2>2, <2>3, <2>4, <2>9 DEF Ended, Completed, RecordsOf
<1> QED
    BY <1>1, <1>2

-----------------------------------------------------------------------------
(* Replay                                                                  *)

(* f[n]: how far ReplayOf has followed the harness after n steps.          *)
ReplayStart == [i |-> 0, answers |-> <<>>, failure |-> FALSE, left |-> "none"]

ReplaySteps(f, S, h, B) ==
    f = [n \in 0 .. B |-> IF n = 0 THEN ReplayStart ELSE ReplayStep(S, h, f[n - 1])]

(* There is only one way to replay.                                        *)
LEMMA OneReplay ==
    ASSUME NEW B \in Nat, NEW S, NEW h, NEW f, NEW g, ReplaySteps(f, S, h, B), ReplaySteps(g, S, h, B)
    PROVE  f = g
<1>1. /\ \A n \in 0 .. B : f[n] = IF n = 0 THEN ReplayStart ELSE ReplayStep(S, h, f[n - 1])
      /\ DOMAIN f = 0 .. B /\ f = [n \in 0 .. B |-> f[n]]
    BY DEF ReplaySteps
<1>2. /\ \A n \in 0 .. B : g[n] = IF n = 0 THEN ReplayStart ELSE ReplayStep(S, h, g[n - 1])
      /\ DOMAIN g = 0 .. B /\ g = [n \in 0 .. B |-> g[n]]
    BY DEF ReplaySteps
<1> DEFINE D == {n \in 0 .. B : f[n] # g[n]}
<1>3. ASSUME D # {} PROVE FALSE
  <2>0. D \in SUBSET Nat
      OBVIOUS
  <2>1. PICK n \in D : \A m \in D : n <= m
    <3> HIDE DEF D
    <3> QED
        BY <1>3, <2>0, LeastPlace
  <2>2. n \in 0 .. B /\ f[n] # g[n]
      BY <2>1
  <2>3. n # 0
      BY <1>1, <1>2, <2>2
  <2>4. n - 1 \in 0 .. B /\ ~(n <= n - 1)
      BY <2>2, <2>3
  <2>5. f[n - 1] = g[n - 1]
      BY <2>1, <2>4
  <2> QED
      BY <1>1, <1>2, <2>2, <2>3, <2>5
<1>4. \A n \in 0 .. B : f[n] = g[n]
    BY <1>3
<1> QED
    BY <1>1, <1>2, <1>4

(* ReplayOf is the last of these steps.                                    *)
LEMMA ReplayOfIs ==
    ASSUME NEW x, NEW h, NEW S, S = Full(x), NEW B \in Nat, B = 2 * Cardinality(S) + 2,
           NEW g, ReplaySteps(g, S, h, B)
    PROVE  ReplayOf(x, h) = g[B]
<1> DEFINE F == CHOOSE f : f = [n \in 0 .. B |-> IF n = 0 THEN ReplayStart
                                                ELSE ReplayStep(S, h, f[n - 1])]
<1>1. F = g
  <2>1. \E f : ReplaySteps(f, S, h, B)
      OBVIOUS
  <2>2. ReplaySteps(F, S, h, B)
      BY <2>1 DEF ReplaySteps
  <2> QED
      BY <2>2, OneReplay
<1>2. ReplayOf(x, h) = F[B]
    BY DEF ReplayOf, ReplayStart, Full
<1> QED
    BY <1>1, <1>2

RejectionsAreHeeded ==
    \A s \in Settings : \A h \in s.harnesses : \A a : IsAnswers(a) => RejectedOnce(h, a)

Heeds(h) == \A a : IsAnswers(a) => RejectedOnce(h, a)

(* Each record answers one operation, and at most one rejected call comes  *)
(* before it.                                                              *)
LEMMA ShortTrace ==
    ASSUME NEW L \in Nat, NEW S \in SUBSET (1 .. L), NEW h, Heeds(h),
           NEW b, NEW c, Trace(h, S, b, c)
    PROVE  Len(b) <= 2 * Cardinality(S) + 1 /\ Cardinality(S) \in Nat
<1>0. S \in SUBSET Nat /\ IsFiniteSet(S) /\ Cardinality(S) \in Nat
  <2>1. IsFiniteSet(1 .. L)
      BY FS_Interval
  <2> QED
    <3>1. S \in SUBSET Nat
        OBVIOUS
    <3>2. IsFiniteSet(S)
        BY <2>1, FS_Subset
    <3> QED
        BY <3>1, <3>2, FS_CardinalityType
<1>1. /\ IsSeq(b) /\ Len(b) \in Nat /\ IsAnswers(b)
      /\ \A n \in 0 .. Len(b) : c[n] \in Nat /\ c[n] \in S \union {0}
      /\ \A n \in 1 .. Len(b) :
            \/ c[n] = c[n - 1] /\ Keyless(Nth(h, b, n)) /\ b[n] = Error
            \/ c[n] \in S /\ c[n] > c[n - 1] /\ ~Keyless(Nth(h, b, n))
    BY <1>0, TraceMoves DEF Trace
<1> DEFINE U(j) == {p \in S : p <= j}
           K(j) == Cardinality(U(j))
           W(n) == n > 0 /\ Keyless(Nth(h, b, n))
<1>2. ASSUME NEW j PROVE IsFiniteSet(U(j)) /\ K(j) \in Nat /\ K(j) <= Cardinality(S)
  <2>1. U(j) \in SUBSET S
      OBVIOUS
  <2> HIDE DEF U
  <2> QED
      BY <1>0, <2>1, FS_Subset, FS_CardinalityType
<1>3. ASSUME NEW i \in Nat, NEW j \in S, j > i PROVE K(j) >= K(i) + 1
  <2>1. U(i) \union {j} \in SUBSET U(j) /\ j \notin U(i)
    <3>1. j \in Nat /\ ~(j <= i) /\ j <= j
        BY <1>0, <1>3
    <3>2. \A p \in S : p <= i => p <= j
        BY <1>0, <1>3, <3>1
    <3>3. \A p \in U(i) \union {j} : p \in U(j)
        BY <1>3, <3>1, <3>2
    <3> QED
        BY <3>1, <3>3
  <2>2. IsFiniteSet(U(i)) /\ IsFiniteSet(U(j)) /\ K(i) \in Nat /\ K(j) \in Nat
      BY <1>2
  <2>3. Cardinality(U(i) \union {j}) = K(i) + 1
    <3> HIDE DEF U
    <3> QED
        BY <2>1, <2>2, FS_AddElement
  <2>4. Cardinality(U(i) \union {j}) <= K(j)
    <3> HIDE DEF U
    <3> QED
        BY <2>1, <2>2, FS_Subset
  <2> HIDE DEF K
  <2> QED
      BY <2>2, <2>3, <2>4
<1>4. ASSUME NEW n \in 2 .. Len(b), W(n - 1) PROVE ~W(n)
  <2>1. PICK a : a = SubSeq(b, 1, n - 1)
      OBVIOUS
  <2>2. n - 1 \in 0 .. Len(b) /\ n - 1 \in 1 .. n - 1 /\ n - 1 > 0 /\ n > 0 /\ n - 1 \in Nat
      BY <1>1
  <2>3. IsSeq(a) /\ Len(a) = n - 1 /\ \A m \in 1 .. n - 1 : a[m] = b[m] /\ Nth(h, a, m) = Nth(h, b, m)
      BY <1>1, <2>1, <2>2, NthPart
  <2>4. IsAnswers(a)
    <3>1. \A m \in 1 .. n - 1 : m \in 1 .. Len(b)
        BY <1>1
    <3> QED
        BY <1>1, <2>3, <3>1 DEF IsAnswers
  <2>5. RejectedOnce(h, a)
      BY <2>4 DEF Heeds
  <2>6. Operation(h, a) = Nth(h, b, n)
      BY <2>1 DEF Nth
  <2>7. Keyless(Nth(h, a, Len(a))) /\ Len(a) > 0
      BY <1>4, <2>2, <2>3
  <2> QED
      BY <2>5, <2>6, <2>7 DEF RejectedOnce
<1> DEFINE P(n) == n <= 2 * K(c[n]) + (IF W(n) THEN 1 ELSE 0)
           D == {n \in 0 .. Len(b) : ~P(n)}
<1>5. ASSUME D # {} PROVE FALSE
  <2>0. D \in SUBSET Nat
      BY <1>1
  <2>1. PICK n \in D : \A m \in D : n <= m
    <3> HIDE DEF D
    <3> QED
        BY <1>5, <2>0, LeastPlace
  <2>2. n \in 0 .. Len(b) /\ ~P(n)
      BY <2>1
  <2> HIDE DEF W
  <2>3. K(c[n]) \in Nat /\ K(c[n - 1]) \in Nat
      BY <1>2
  <2>4. n # 0
    <3> HIDE DEF K
    <3> QED
        BY <2>2, <2>3
  <2>5. n - 1 \in 0 .. Len(b) /\ ~(n <= n - 1) /\ n \in 1 .. Len(b) /\ n \in Nat /\ n > 0
      BY <1>1, <2>2, <2>4
  <2>6. P(n - 1)
      BY <2>1, <2>5
  <2>7. CASE W(n)
    <3>1. c[n] = c[n - 1]
        BY <1>1, <2>5, <2>7 DEF W
    <3>2. ~W(n - 1)
      <4>1. CASE n = 1
          BY <4>1 DEF W
      <4>2. CASE n # 1
        <5>1. n \in 2 .. Len(b)
            BY <1>1, <2>5, <4>2
        <5> QED
            BY <1>4, <2>7, <5>1
      <4> QED
          BY <4>1, <4>2
    <3> HIDE DEF K
    <3> QED
        BY <2>2, <2>3, <2>5, <2>6, <2>7, <3>1, <3>2
  <2>8. CASE ~W(n)
    <3>1. c[n] \in S /\ c[n] > c[n - 1] /\ c[n - 1] \in Nat
        BY <1>1, <2>5, <2>8 DEF W
    <3>2. K(c[n]) >= K(c[n - 1]) + 1
        BY <1>3, <3>1
    <3> HIDE DEF K
    <3> QED
        BY <2>2, <2>3, <2>5, <2>6, <2>8, <3>2
  <2> QED
      BY <2>7, <2>8
<1>6. P(Len(b))
  <2>1. Len(b) \in 0 .. Len(b) /\ Len(b) \notin D
    <3>1. Len(b) \in 0 .. Len(b)
        BY <1>1
    <3>2. D = {}
      <4> HIDE DEF D
      <4> QED
          BY <1>5
    <3> HIDE DEF D
    <3> QED
        BY <3>1, <3>2
  <2> HIDE DEF P
  <2> QED
      BY <2>1
<1>7. K(c[Len(b)]) \in Nat /\ K(c[Len(b)]) <= Cardinality(S)
    BY <1>2
<1> HIDE DEF K, W
<1> QED
    BY <1>0, <1>1, <1>6, <1>7

(* One more answer than the first n - 1 are the first n.                   *)
LEMMA PartGrows ==
    ASSUME NEW a, IsSeq(a), NEW n \in 1 .. Len(a)
    PROVE  Append(SubSeq(a, 1, n - 1), a[n]) = SubSeq(a, 1, n)
<1>0. Len(a) \in Nat /\ n \in 0 .. Len(a) /\ n - 1 \in 0 .. Len(a)
    BY AppendAny
<1>1. PICK p, q, t : p = SubSeq(a, 1, n - 1) /\ q = SubSeq(a, 1, n) /\ t = Append(p, a[n])
    OBVIOUS
<1>2. /\ IsSeq(p) /\ Len(p) = n - 1 /\ \A m \in 1 .. n - 1 : p[m] = a[m]
    BY <1>0, <1>1, NthPart
<1>3. q = [k \in 1 .. n |-> a[k]]
    BY <1>0, <1>1, PartOf
<1>4. /\ IsSeq(t) /\ DOMAIN t = 1 .. n /\ \A m \in 1 .. n - 1 : t[m] = a[m] /\ t[n] = a[n]
  <2>1. /\ IsSeq(t) /\ DOMAIN t = 1 .. Len(p) + 1 /\ \A m \in 1 .. Len(p) : t[m] = p[m]
        /\ t[Len(p) + 1] = a[n]
      BY <1>1, <1>2, AppendAny
  <2> QED
      BY <1>0, <1>2, <2>1
<1>5. t = [k \in 1 .. n |-> t[k]]
    BY <1>4 DEF IsSeq
<1>6. \A k \in 1 .. n : t[k] = a[k]
  <2>1. t[n] = a[n]
    <3>1. \E u : t[n] = u
        OBVIOUS
    <3>2. Len(p) + 1 = n
        BY <1>0, <1>2
    <3>3. t[Len(p) + 1] = a[n]
        BY <1>1, <1>2, AppendAny
    <3> QED
        BY <3>2, <3>3
  <2> QED
      BY <1>0, <1>4, <2>1
<1> QED
    BY <1>1, <1>3, <1>5, <1>6

(* Where a replay is that has been served n operations.                    *)
ReplayAt(b, c, n) ==
    [i |-> c[n], answers |-> SubSeq(b, 1, n), failure |-> FALSE, left |-> "none"]

ReplayEnd(b, c) == [i |-> c[Len(b)], answers |-> b, failure |-> FALSE, left |-> "Return"]

(* A trace is replayed one operation after the other.                      *)
LEMMA ReplayServes ==
    ASSUME NEW S \in SUBSET Nat, NEW h, NEW b, NEW c, Trace(h, S, b, c), NEW n \in 1 .. Len(b)
    PROVE  ReplayStep(S, h, ReplayAt(b, c, n - 1)) = ReplayAt(b, c, n)
<1>1. /\ IsSeq(b) /\ Len(b) \in Nat /\ n - 1 \in 0 .. Len(b) /\ c[n - 1] \in Nat
    BY TraceMoves
<1>2. PICK s, e, got : /\ s = ReplayAt(b, c, n - 1) /\ e = Nth(h, b, n)
                       /\ got = Serve(S, c[n - 1], e)
    OBVIOUS
<1>3. e.op \notin Leaves /\ ~got.failure /\ got.i = c[n] /\ got.answer = b[n]
    BY <1>2 DEF Trace, Meets
<1>4. got.failure = FALSE
  <2>1. Serve(S, c[n - 1], e).failure \in BOOLEAN
      BY <1>1, ServeOutcome
  <2> QED
      BY <1>2, <1>3, <2>1
<1>5. /\ s.i = c[n - 1] /\ s.answers = SubSeq(b, 1, n - 1) /\ s.failure = FALSE
      /\ e = Operation(h, s.answers)
    BY <1>2 DEF ReplayAt, Nth
<1>6. ReplayStep(S, h, s) = [s EXCEPT !.i = got.i, !.failure = got.failure,
                                      !.answers = Append(@, got.answer)]
    BY <1>2, <1>3, <1>5 DEF ReplayStep
<1>7. Append(s.answers, b[n]) = SubSeq(b, 1, n)
    BY <1>1, <1>5, PartGrows
<1>8. ReplayStep(S, h, s) = [s EXCEPT !.i = c[n], !.failure = FALSE,
                                      !.answers = SubSeq(b, 1, n)]
    BY <1>3, <1>4, <1>6, <1>7
<1> QED
    BY <1>2, <1>8 DEF ReplayAt

(* Then the harness returns.                                               *)
LEMMA ReplayReturns ==
    ASSUME NEW S \in SUBSET Nat, NEW h, NEW b, NEW c, Trace(h, S, b, c),
           Operation(h, b).op = "Return"
    PROVE  /\ ReplayStep(S, h, ReplayAt(b, c, Len(b))) = ReplayEnd(b, c)
           /\ ReplayStep(S, h, ReplayEnd(b, c)) = ReplayEnd(b, c)
<1>1. IsSeq(b) /\ Len(b) \in Nat
    BY TraceMoves
<1>2. SubSeq(b, 1, Len(b)) = b
  <2>1. Len(b) \in 0 .. Len(b)
      BY <1>1
  <2>2. SubSeq(b, 1, Len(b)) = [k \in 1 .. Len(b) |-> b[k]]
      BY <1>1, <2>1, PartOf
  <2>3. b = [k \in 1 .. Len(b) |-> b[k]]
      BY <1>1 DEF IsSeq
  <2> QED
      BY <2>2, <2>3
<1>3. PICK s : s = ReplayAt(b, c, Len(b))
    OBVIOUS
<1>4. s = [i |-> c[Len(b)], answers |-> b, failure |-> FALSE, left |-> "none"]
    BY <1>2, <1>3 DEF ReplayAt
<1>5. ReplayStep(S, h, s) = [s EXCEPT !.left = "Return"]
  <2>1. s.answers = b
      BY <1>4
  <2> QED
      BY <2>1 DEF ReplayStep, Leaves
<1>r. \A i, f, left : [[i |-> i, answers |-> b, failure |-> f, left |-> left] EXCEPT !.left = "Return"]
                        = [i |-> i, answers |-> b, failure |-> f, left |-> "Return"]
    OBVIOUS
<1>6. [s EXCEPT !.left = "Return"] = ReplayEnd(b, c)
    BY <1>4, <1>r, Zenon DEF ReplayEnd
<1>7. PICK t : t = ReplayEnd(b, c)
    OBVIOUS
<1>8. ReplayStep(S, h, t) = [t EXCEPT !.left = "Return"]
  <2>1. t.answers = b
      BY <1>7 DEF ReplayEnd
  <2> QED
      BY <2>1 DEF ReplayStep, Leaves
<1>9. [t EXCEPT !.left = "Return"] = t
    BY <1>7, <1>r, Zenon DEF ReplayEnd
<1> QED
    BY <1>3, <1>5, <1>6, <1>7, <1>8, <1>9

(* An execution of which a harness is served all before it returns         *)
(* replays.                                                                *)
LEMMA EndedReplays ==
    ASSUME StoreInv, NEW x, NEW h, Heeds(h), Ended(x, h)
    PROVE  Replays(x, h)
<1>1. PICK S, b, c : /\ S = Full(x) /\ Trace(h, S, b, c) /\ Rest(S, c[Len(b)]) = {}
                     /\ Operation(h, b).op = "Return"
    BY DEF Ended
<1>2. Len(body) \in Nat /\ S \in SUBSET (1 .. Len(body)) /\ S \in SUBSET Nat
    BY <1>1, LogFacts DEF Full, Stream
<1>3. PICK B, N : B = 2 * Cardinality(S) + 2 /\ N = Len(b)
    OBVIOUS
<1>4. B \in Nat /\ N \in Nat /\ N + 1 <= B
  <2>1. Len(b) <= 2 * Cardinality(S) + 1 /\ Cardinality(S) \in Nat
      BY <1>1, <1>2, ShortTrace
  <2>2. Len(b) \in Nat
      BY <1>1, <1>2, TraceMoves
  <2> QED
      BY <1>3, <2>1, <2>2
<1>5. PICK g : g = [n \in 0 .. B |-> IF n <= N THEN ReplayAt(b, c, n) ELSE ReplayEnd(b, c)]
    OBVIOUS
<1>6. ReplaySteps(g, S, h, B)
  <2>1. ASSUME NEW n \in 0 .. B
        PROVE  g[n] = IF n = 0 THEN ReplayStart ELSE ReplayStep(S, h, g[n - 1])
    <3>1. CASE n = 0
      <4>1. g[n] = ReplayAt(b, c, 0)
          BY <1>4, <1>5, <3>1
      <4>2. c[0] = 0 /\ IsSeq(b) /\ 0 \in 0 .. Len(b)
          BY <1>1, <1>3, <1>4 DEF Trace, IsAnswers
      <4>3. SubSeq(b, 1, 0) = <<>>
        <5>1. SubSeq(b, 1, 0) = [k \in 1 .. 0 |-> b[k]]
            BY <4>2, PartOf
        <5> QED
            BY <5>1
      <4> QED
          BY <3>1, <4>1, <4>2, <4>3 DEF ReplayAt, ReplayStart
    <3>2. CASE n # 0
      <4>0. n - 1 \in 0 .. B /\ n \in Nat /\ n - 1 \in Nat
          BY <1>4, <3>2
      <4>1. CASE n <= N
        <5>1. g[n] = ReplayAt(b, c, n) /\ g[n - 1] = ReplayAt(b, c, n - 1)
            BY <1>4, <1>5, <4>0, <4>1
        <5>2. n \in 1 .. Len(b)
            BY <1>3, <1>4, <3>2, <4>0, <4>1
        <5>3. ReplayStep(S, h, ReplayAt(b, c, n - 1)) = ReplayAt(b, c, n)
            BY <1>1, <1>2, <5>2, ReplayServes
        <5> QED
            BY <3>2, <5>1, <5>3
      <4>2. CASE n = N + 1
        <5>1. g[n] = ReplayEnd(b, c) /\ g[n - 1] = ReplayAt(b, c, Len(b))
            BY <1>3, <1>4, <1>5, <4>0, <4>2
        <5> QED
            BY <1>1, <1>2, <3>2, <5>1, ReplayReturns
      <4>3. CASE n > N + 1
        <5>1. g[n] = ReplayEnd(b, c) /\ g[n - 1] = ReplayEnd(b, c)
            BY <1>4, <1>5, <4>0, <4>3
        <5> QED
            BY <1>1, <1>2, <3>2, <5>1, ReplayReturns
      <4> QED
          BY <1>4, <4>0, <4>1, <4>2, <4>3
    <3> QED
        BY <3>1, <3>2
  <2>2. g = [n \in 0 .. B |-> g[n]]
      BY <1>5
  <2> QED
      BY <2>1, <2>2 DEF ReplaySteps
<1>7. ReplayOf(x, h) = g[B]
    BY <1>1, <1>3, <1>4, <1>6, ReplayOfIs
<1>8. g[B] = ReplayEnd(b, c)
    BY <1>4, <1>5
<1>9. PICK s : s = ReplayOf(x, h)
    OBVIOUS
<1>10. s.left = "Return" /\ s.failure = FALSE /\ s.i = c[Len(b)]
    BY <1>7, <1>8, <1>9 DEF ReplayEnd
<1> QED
    BY <1>1, <1>9, <1>10 DEF Replays, Full

ReplayCore == AloneCore /\ OpenInv /\ DoneInv

(* At first nothing is complete.                                           *)
LEMMA ReplayInit ==
    ASSUME Init
    PROVE  ReplayCore
<1>1. \A r \in Runs : run[r] = IdleRun
    BY DEF Init
<1>2. OpenInv /\ DoneInv
    BY <1>1 DEF OpenInv, DoneInv, IdleRun, Running, Calling
<1> QED
    BY <1>2, AloneInit DEF ReplayCore

(* Steps that change nothing.                                              *)
LEMMA ReplayStutter ==
    ASSUME ReplayCore, UNCHANGED vars
    PROVE  ReplayCore'
<1>0. store' = store /\ body' = body /\ run' = run /\ setting' = setting
    BY DEF vars
<1>1. AloneCore'
    BY AloneStutter DEF ReplayCore
<1>2. OpenInv'
    BY <1>0 DEF ReplayCore, OpenInv, Owns, Completed, RecordsOf
<1>3. DoneInv'
  <2> SUFFICES ASSUME NEW q \in Runs, run'[q].result = "completed"
               PROVE  /\ run'[q].pc = "done" /\ run'[q].harness \in setting'.harnesses
                      /\ Completed(run[q].exec)' /\ Ended(run[q].exec, run[q].harness)'
      BY DEF DoneInv
  <2>1. /\ run[q].pc = "done" /\ run[q].harness \in setting.harnesses
        /\ Completed(run[q].exec) /\ Ended(run[q].exec, run[q].harness)
      BY <1>0 DEF ReplayCore, DoneInv
  <2>2. PICK x, h : x = run[q].exec /\ h = run[q].harness
      OBVIOUS
  <2>3. PICK S, b, c : /\ S = Full(x) /\ Trace(h, S, b, c) /\ Rest(S, c[Len(b)]) = {}
                       /\ Operation(h, b).op = "Return"
      BY <2>1, <2>2 DEF Ended
  <2>4. S \in SUBSET Nat /\ Kept(S)
      BY <1>0, <2>3, LogFacts
         DEF Kept, Full, Stream, ReplayCore, AloneCore, GivenCore, CoreInv
  <2>5. Trace(h, S, b, c)'
      BY <2>3, <2>4, TraceStays
  <2>6. Full(x)' = Full(x)
      BY <1>0 DEF Full, Stream
  <2>7. Ended(x, h)'
      BY <2>3, <2>5, <2>6 DEF Ended, Rest
  <2> QED
      BY <1>0, <2>1, <2>2, <2>7 DEF Ended, Completed, RecordsOf
<1> QED
    BY <1>1, <1>2, <1>3 DEF ReplayCore

(* A completed turn stays what its harness is served.                      *)
LEMMA ReplayKept ==
    ASSUME FailuresDoStandOut, UsageIsOnlyReported, ReplayCore, [Next]_vars
    PROVE  ReplayCore'
<1>0. CoreInv /\ AllKnow /\ AllAsk /\ TraceInv /\ OpenInv /\ DoneInv /\ AloneCore
    BY DEF ReplayCore, AloneCore, GivenCore
<1>1. AloneCore'
    BY <1>0, AloneKept
<1>2. ASSUME NEW r \in Runs, Moved(r), Detail(r), Ends(r) PROVE ReplayCore'
    BY <1>0, <1>1, <1>2, OpenStep, DoneStep DEF ReplayCore
<1> QED
    BY <1>0, <1>2, NextEnds, ReplayStutter

(* Every completed turn replays with the harness that completed it, to the *)
(* last recorded effect and without a live call, however many incarnations *)
(* crashed, failed, were superseded or diverged on it with whatever        *)
(* harness before, if harnesses are as docs/harness-authoring.md asks and  *)
(* heed a rejected call.                                                   *)
THEOREM CompletedReplays ==
    ASSUME FailuresDoStandOut, UsageIsOnlyReported, RejectionsAreHeeded
    PROVE  Spec => []CompletedTurnReplays
<1>1. ReplayCore => CompletedTurnReplays
  <2> SUFFICES ASSUME ReplayCore, NEW r \in Runs, run[r].result = "completed"
               PROVE  Replays(run[r].exec, run[r].harness)
      BY DEF CompletedTurnReplays
  <2>1. /\ StoreInv /\ run[r].harness \in setting.harnesses
        /\ Ended(run[r].exec, run[r].harness)
      BY DEF ReplayCore, AloneCore, GivenCore, CoreInv, DoneInv
  <2>2. Heeds(run[r].harness)
      BY <2>1 DEF RejectionsAreHeeded, Heeds, StoreInv
  <2> QED
      BY <2>1, <2>2, EndedReplays
<1>2. Init => ReplayCore
    BY ReplayInit
<1>3. ReplayCore /\ [Next]_vars => ReplayCore'
    BY ReplayKept
<1> QED
    BY <1>1, <1>2, <1>3, PTL DEF Spec
=============================================================================
