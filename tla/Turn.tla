-------------------------------- MODULE Turn --------------------------------
(***************************************************************************)
(* One session's turns as the Controller journals them: Exec drives a      *)
(* harness live, Resume drives it over the effects an interrupted turn     *)
(* left in the log and continues live where they end, and Replay drives it *)
(* over the effects of a completed turn.  Incarnations crash between any   *)
(* two steps; those of other hosts may overlap.                            *)
(*                                                                         *)
(* A harness is a function of the answers it has been given: it names its  *)
(* next operation on the sink.  Several harnesses stand for one that is    *)
(* not deterministic.  Approval gates are the subject of Placement; legacy *)
(* journals and forks of an unfinished turn are left out.                  *)
(***************************************************************************)
EXTENDS LogOps, FiniteSets, SequencesExt

CONSTANTS Runs,             \* calls of Exec and Resume, each made once
          Operation(_, _),  \* harness, answers -> its next operation
          Inputs,           \* messages of an Exec
          Settings,         \* what Run may be, what the model may answer and
                            \* how many hosts drive the session
          MaxFailures       \* bound: failed calls of the model or a tool

ASSUME TurnAssumption ==
    /\ Inputs \in Nat
    /\ "none" \notin Runs
    /\ \A s \in Settings :
        /\ s.hosts \in Nat \ {0}
        /\ "none" \notin s.harnesses
        /\ \A c \in s.completions : c = [ok |-> TRUE, val |-> c.val, usage |-> c.usage]
    /\ MaxFailures \in Nat

VARIABLES setting,  \* which of the Settings this behaviour has
          store,    \* the durable state of the session
          body,     \* what each record says
          run,      \* call -> where it is and what it remembers
          calls,    \* history: record -> invocations made for that intent
          given,    \* history: intent -> the answer its owner's harness got
          failures  \* number of failed calls so far

vars == <<setting, store, body, run, calls, given, failures>>

EffectKinds == {"MODEL_CALL", "OUTPUT", "TOOL_CALL", "TOOL_RESULT", "USAGE"}

Intents == {"MODEL_CALL", "TOOL_CALL"}

(* exec names an execution by the call that started it; arg is an input    *)
(* hash, a text or a tool call's ID.                                       *)
Body(exec, arg, usage) == [exec |-> exec, arg |-> arg, usage |-> usage]

Answer(val, usage) == [ok |-> TRUE, val |-> val, usage |-> usage]

Done == Answer("", 0)

Error == [ok |-> FALSE, val |-> "", usage |-> 0]

(* last: the sequence Exec extends.  seen: the head Resume read.  i: the   *)
(* place of the last record of the stream that is consumed, 0 before the   *)
(* first.  pos, reply: the intent being carried out and its outcome.       *)
IdleRun ==
    [kind |-> "none", pc |-> "idle", harness |-> "none", exec |-> "none", fence |-> 0,
     last |-> 0, seen |-> 0, i |-> 0, answers |-> <<>>, failure |-> FALSE,
     pos |-> 0, reply |-> Error, result |-> "none"]

Init ==
    /\ setting \in Settings
    /\ store = PutSession(EmptyStore)
    /\ body = <<>>
    /\ run = [r \in Runs |-> IdleRun]
    /\ calls = <<>>
    /\ given = <<>>
    /\ failures = 0

-----------------------------------------------------------------------------
(* Reading the log *)

RecordsOf(x, kinds) ==
    {p \in DOMAIN body : body[p].exec = x /\ store.recs[p].kind \in kinds}

(* The stream of an execution up to seq n, as the places of its records:   *)
(* ERROR and lifecycle records are not effects.                            *)
Stream(x, n) ==
    {p \in 1 .. n : body[p].exec = x /\ store.recs[p].kind \in EffectKinds}

Completed(x) == RecordsOf(x, {"END"}) # {}

Executions == {x \in Runs : RecordsOf(x, {"EXECUTION_START"}) # {}}

(* Mutant: whatever inputs are there will do.                              *)
ValidInputsAny(x) == TRUE

(* START promises as many INPUT records.                                   *)
ValidInputs(x) == Cardinality(RecordsOf(x, {"INPUT"})) = Inputs

(* The last execution in first-seen order.                                 *)
LastExecution ==
    CHOOSE x \in Executions :
        \A y \in Executions : \A p \in RecordsOf(y, {"EXECUTION_START"}) :
            \E q \in RecordsOf(x, {"EXECUTION_START"}) : p <= q

-----------------------------------------------------------------------------
(* Serving recorded effects *)

(* What follows place i in the stream, and the place of the first of it.   *)
Rest(stream, i) == {p \in stream : p > i}

Following(stream, i) == CHOOSE p \in Rest(stream, i) : \A q \in Rest(stream, i) : p <= q

KindAt(stream, i) ==
    IF Rest(stream, i) = {} THEN "none" ELSE store.recs[Following(stream, i)].kind

BodyAt(stream, i) == body[Following(stream, i)]

(* Mutant: a served completion carries no usage.                           *)
UsageAtNone(stream, i) == 0

(* The USAGE recorded directly after a completion rides along with it.     *)
UsageAt(stream, i) == IF KindAt(stream, i) = "USAGE" THEN BodyAt(stream, i).usage ELSE 0

Served(i, answer) == [i |-> i, answer |-> answer, failure |-> FALSE, open |-> FALSE]

Diverged(i) == [i |-> i, answer |-> Error, failure |-> TRUE, open |-> FALSE]

(* Mutant: an intent without an answer is always carried out again.        *)
UnansweredOpen(stream, i) ==
    [i |-> i, answer |-> Error, failure |-> FALSE, open |-> TRUE]

(* The recorded intent has no answer: it is open if nothing follows it,    *)
(* else the harness went on after an error it handled.                     *)
Unanswered(stream, i) ==
    [i |-> i, answer |-> Error, failure |-> FALSE, open |-> Rest(stream, i) = {}]

ServeModel(stream, i, e) ==
    LET intent == Following(stream, i)
        output == Following(stream, intent)
    IN  IF KindAt(stream, i) # "MODEL_CALL" \/ BodyAt(stream, i).arg # e.arg
        THEN Diverged(i)
        ELSE IF KindAt(stream, intent) = "OUTPUT"
        THEN Served(output, Answer(body[output].arg, UsageAt(stream, output)))
        ELSE Unanswered(stream, intent)

ServeOutput(stream, i, e) ==
    IF KindAt(stream, i) = "OUTPUT" /\ BodyAt(stream, i).arg = e.arg
    THEN Served(Following(stream, i), Done) ELSE Diverged(i)

(* A call without a key was rejected before its intent.  The result after  *)
(* a call must carry the call's ID.                                        *)
ServeToolCall(stream, i, e) ==
    LET intent == Following(stream, i)
        result == Following(stream, intent)
    IN  IF ~e.key THEN Served(i, Error)
        ELSE IF KindAt(stream, i) # "TOOL_CALL" \/ BodyAt(stream, i).arg # e.arg
        THEN Diverged(i)
        ELSE IF KindAt(stream, intent) = "TOOL_RESULT"
        THEN IF body[result].arg = e.arg
             THEN Served(result, Answer(e.arg, 0)) ELSE Diverged(result)
        ELSE Unanswered(stream, intent)

(* Mutant: a report consumes the record after it, too.                     *)
ServeReportTwo(stream, i, e) ==
    IF KindAt(stream, i) = "TOOL_RESULT"
    THEN Served(Following(stream, i) + 1, Done) ELSE Diverged(i)

(* A report is not compared with the record.                               *)
ServeReport(stream, i, e) ==
    IF KindAt(stream, i) = "TOOL_RESULT"
    THEN Served(Following(stream, i), Done) ELSE Diverged(i)

ServeUsage(stream, i, e) ==
    IF KindAt(stream, i) = "USAGE" /\ BodyAt(stream, i).usage = e.usage
    THEN Served(Following(stream, i), Done) ELSE Diverged(i)

(* A sink has these operations and no other: the last is Usage.            *)
Serve(stream, i, e) ==
    CASE e.op = "Model"    -> ServeModel(stream, i, e)
      [] e.op = "Output"   -> ServeOutput(stream, i, e)
      [] e.op = "ToolCall" -> ServeToolCall(stream, i, e)
      [] e.op = "Report"   -> ServeReport(stream, i, e)
      [] OTHER             -> ServeUsage(stream, i, e)

Leaves == {"Return", "Raise"}

(* One operation of a replayed harness: recorded effects only, and an open *)
(* intent is an error.                                                     *)
ReplayStep(stream, h, s) ==
    LET e == Operation(h, s.answers)
        got == IF s.failure THEN Diverged(s.i) ELSE Serve(stream, s.i, e)
    IN  IF e.op \in Leaves
        THEN [s EXCEPT !.left = e.op]
        ELSE [s EXCEPT !.i = got.i, !.failure = got.failure,
                       !.answers = Append(@, got.answer)]

(* Replay of a completed execution.  A harness makes at most one operation *)
(* for each recorded effect, but for rejected calls.                       *)
ReplayOf(x, h) ==
    LET stream == Stream(x, Len(body))
        bound == 2 * Cardinality(stream) + 2
        start == [i |-> 0, answers |-> <<>>, failure |-> FALSE, left |-> "none"]
        after[n \in 0 .. bound] ==
            IF n = 0 THEN start ELSE ReplayStep(stream, h, after[n - 1])
    IN  after[bound]

Replays(x, h) ==
    LET s == ReplayOf(x, h)
    IN  s.left = "Return" /\ ~s.failure /\ Rest(Stream(x, Len(body)), s.i) = {}

-----------------------------------------------------------------------------
(* Steps *)

At(r, pc) == run[r].pc = pc

Become(r, s) == run' = [run EXCEPT ![r] = s]

(* What the call remembered goes with it.                                  *)
Leave(r, result) ==
    Become(r, [IdleRun EXCEPT !.kind = run[r].kind, !.pc = "done", !.result = result,
                              !.harness = run[r].harness, !.exec = run[r].exec])

LogUnchanged == UNCHANGED <<store, body, calls, given>>

Active == {r \in Runs : run[r].pc \notin {"idle", "done"}}

(* The operation the harness is about to make.                             *)
Asked(r) == Operation(run[r].harness, run[r].answers)

StreamOf(r) == Stream(run[r].exec, run[r].seen)

(* The recorded stream is used up: operations are carried out.             *)
Live(r) == At(r, "run") /\ ~run[r].failure /\ Rest(StreamOf(r), run[r].i) = {}

Answered(r, answer) == [run[r] EXCEPT !.pc = "run", !.answers = Append(@, answer)]

(* What the session's owner tells its harness about the intent at p.       *)
Give(r, p, answer) ==
    given' = IF run[r].fence = store.fence THEN [given EXCEPT ![p] = answer] ELSE given

CanAppend(r, at, kind) == AppendOutcome(store, at, run[r].fence, kind) = "ok"

Commit(r, kind, b) ==
    /\ store' = AppendTo(store, run[r].fence, kind)
    /\ body' = Append(body, b)
    /\ calls' = Append(calls, 0)

(* One append of a sink operation: s is the run after an accepted append;  *)
(* a refused one is an error the harness may handle.                       *)
SinkAppend(r, kind, b, s) ==
    /\ \/ /\ CanAppend(r, HeadSeq(store), kind)
          /\ Commit(r, kind, b)
          /\ given' = Append(given, Error)
          /\ Become(r, s)
       \/ /\ ~CanAppend(r, HeadSeq(store), kind)
          /\ Become(r, Answered(r, Error))
          /\ LogUnchanged
    /\ UNCHANGED <<failures, setting>>

(* The session guard of a host admits one call at a time; the calls of     *)
(* several hosts overlap, and nothing but the log tells them of each other.*)
Begin(r, kind, h) ==
    /\ At(r, "idle")
    /\ Cardinality(Active) < setting.hosts
    /\ Become(r, [run[r] EXCEPT !.kind = kind, !.pc = "mint", !.harness = h,
                                !.last = HeadSeq(store)])
    /\ LogUnchanged /\ UNCHANGED <<failures, setting>>

Mint(r) ==
    /\ At(r, "mint")
    /\ store' = NewFence(store)
    /\ Become(r, [run[r] EXCEPT !.fence = store'.fence,
                    !.pc = IF run[r].kind = "Exec" THEN "start" ELSE "read"])
    /\ UNCHANGED <<body, calls, given, failures, setting>>

(* EXECUTION_START at the head the caller named, then each INPUT after the *)
(* record before it: a refused append ends the call.                       *)
AppendInvocation(r) ==
    /\ run[r].pc \in {"start", "input"}
    /\ LET kind == IF At(r, "start") THEN "EXECUTION_START" ELSE "INPUT"
           sent == Cardinality(RecordsOf(r, {"INPUT"})) + IF At(r, "input") THEN 1 ELSE 0
       IN  \/ /\ CanAppend(r, run[r].last, kind)
              /\ Commit(r, kind, Body(r, "", 0))
              /\ given' = Append(given, Error)
              /\ Become(r, [run[r] EXCEPT !.exec = r, !.last = @ + 1,
                              !.pc = IF sent = Inputs THEN "run" ELSE "input"])
           \/ ~CanAppend(r, run[r].last, kind) /\ Leave(r, "refused") /\ LogUnchanged
    /\ UNCHANGED <<failures, setting>>

(* Resume up to har.Run: a log without a pending execution is left alone,  *)
(* and so is an invocation whose inputs were not all committed.            *)
ReadLog(r) ==
    /\ At(r, "read")
    /\ CASE Executions = {} -> Leave(r, "noop")
         [] Executions # {} /\ Completed(LastExecution) -> Leave(r, "noop")
         [] Executions # {} /\ ~Completed(LastExecution) /\ ~ValidInputs(LastExecution) ->
                Leave(r, "incomplete")
         [] OTHER -> Become(r, [run[r] EXCEPT !.pc = "run", !.exec = LastExecution,
                                              !.seen = HeadSeq(store)])
    /\ LogUnchanged /\ UNCHANGED <<failures, setting>>

-----------------------------------------------------------------------------
(* The sink of Resume while it serves *)

(* An open intent is carried out again under its own record.               *)
ServeRecorded(r) ==
    /\ At(r, "run")
    /\ ~run[r].failure
    /\ Rest(StreamOf(r), run[r].i) # {}
    /\ Asked(r).op \notin Leaves
    /\ LET got == Serve(StreamOf(r), run[r].i, Asked(r))
       IN  Become(r, IF got.open
                     THEN [run[r] EXCEPT !.i = got.i, !.pos = got.i,
                              !.pc = IF Asked(r).op = "Model" THEN "model" ELSE "tool"]
                     ELSE [Answered(r, got.answer) EXCEPT !.i = got.i,
                              !.failure = got.failure])
    /\ LogUnchanged /\ UNCHANGED <<failures, setting>>

(* Mutant: a divergence the harness has handled is forgotten.              *)
AnswerDivergedOnce(r) ==
    /\ At(r, "run")
    /\ run[r].failure
    /\ Asked(r).op \notin Leaves
    /\ Become(r, [Answered(r, Error) EXCEPT !.failure = FALSE, !.i = run[r].seen])
    /\ LogUnchanged /\ UNCHANGED <<failures, setting>>

(* Divergence is sticky: every later operation fails.                      *)
AnswerDiverged(r) ==
    /\ At(r, "run")
    /\ run[r].failure
    /\ Asked(r).op \notin Leaves
    /\ Become(r, Answered(r, Error))
    /\ LogUnchanged /\ UNCHANGED <<failures, setting>>

-----------------------------------------------------------------------------
(* The live sink *)

CallModel(r) ==
    /\ Live(r) /\ Asked(r).op = "Model"
    /\ SinkAppend(r, "MODEL_CALL", Body(run[r].exec, Asked(r).arg, 0),
                  [run[r] EXCEPT !.pc = "model", !.pos = HeadSeq(store) + 1])

(* The model is asked, for the first time or again after a cut.            *)
InvokeModel(r) ==
    /\ At(r, "model")
    /\ calls' = [calls EXCEPT ![run[r].pos] = @ + 1]
    /\ \/ /\ \E c \in setting.completions :
                Become(r, [run[r] EXCEPT !.pc = "output", !.reply = c])
          /\ UNCHANGED <<given, failures>>
       \/ /\ failures < MaxFailures
          /\ failures' = failures + 1
          /\ Become(r, Answered(r, Error))
          /\ Give(r, run[r].pos, Error)
    /\ UNCHANGED <<store, body, setting>>

(* An answer that cannot be recorded is an error to the harness.           *)
RecordAnswer(r, kind) ==
    /\ LET reply == run[r].reply
           told == [Answered(r, reply) EXCEPT !.reply = Error]
       IN  \/ /\ CanAppend(r, HeadSeq(store), kind)
              /\ Commit(r, kind, Body(run[r].exec, reply.val, 0))
              /\ given' = Append([given EXCEPT ![run[r].pos] = reply], Error)
              /\ Become(r, told)
           \/ /\ ~CanAppend(r, HeadSeq(store), kind)
              /\ Become(r, [Answered(r, Error) EXCEPT !.reply = Error])
              /\ LogUnchanged
    /\ UNCHANGED <<failures, setting>>

RecordCompletion(r) == At(r, "output") /\ RecordAnswer(r, "OUTPUT")

CallTool(r) ==
    /\ Live(r) /\ Asked(r).op = "ToolCall" /\ Asked(r).key
    /\ SinkAppend(r, "TOOL_CALL", Body(run[r].exec, Asked(r).arg, 0),
                  [run[r] EXCEPT !.pc = "tool", !.pos = HeadSeq(store) + 1])

(* Rejected before it is recorded.                                         *)
RejectTool(r) ==
    /\ Live(r) /\ Asked(r).op = "ToolCall" /\ ~Asked(r).key
    /\ Become(r, Answered(r, Error))
    /\ LogUnchanged /\ UNCHANGED <<failures, setting>>

(* The executor runs under the recorded call's key; the result takes the   *)
(* call's ID.                                                              *)
ExecTool(r) ==
    /\ At(r, "tool")
    /\ calls' = [calls EXCEPT ![run[r].pos] = @ + 1]
    /\ \/ /\ Become(r, [run[r] EXCEPT !.pc = "result",
                                      !.reply = Answer(body[run[r].pos].arg, 0)])
          /\ UNCHANGED <<given, failures>>
       \/ /\ failures < MaxFailures
          /\ failures' = failures + 1
          /\ Become(r, Answered(r, Error))
          /\ Give(r, run[r].pos, Error)
    /\ UNCHANGED <<store, body, setting>>

RecordResult(r) == At(r, "result") /\ RecordAnswer(r, "TOOL_RESULT")

LiveOutput(r) ==
    /\ Live(r) /\ Asked(r).op = "Output"
    /\ SinkAppend(r, "OUTPUT", Body(run[r].exec, Asked(r).arg, 0), Answered(r, Done))

LiveReport(r) ==
    /\ Live(r) /\ Asked(r).op = "Report"
    /\ SinkAppend(r, "TOOL_RESULT", Body(run[r].exec, Asked(r).arg, 0), Answered(r, Done))

LiveUsage(r) ==
    /\ Live(r) /\ Asked(r).op = "Usage"
    /\ SinkAppend(r, "USAGE", Body(run[r].exec, "", Asked(r).usage), Answered(r, Done))

(* Mutant: Resume does not look whether all of the stream was consumed.    *)
OutcomeUnchecked(r) ==
    IF run[r].failure THEN "diverged"
    ELSE IF Asked(r).op = "Raise" THEN "failed"
    ELSE "completed"

(* What became of a harness that returns.                                  *)
Outcome(r) ==
    IF run[r].failure THEN "diverged"
    ELSE IF Asked(r).op = "Raise" THEN "failed"
    ELSE IF Rest(StreamOf(r), run[r].i) # {} THEN "diverged"
    ELSE "completed"

(* END, or a best effort ERROR.                                            *)
Finish(r) ==
    /\ At(r, "run")
    /\ Asked(r).op \in Leaves
    /\ LET kind == IF Outcome(r) = "completed" THEN "END" ELSE "ERROR"
       IN  \/ /\ CanAppend(r, HeadSeq(store), kind)
              /\ Commit(r, kind, Body(run[r].exec, "", 0))
              /\ given' = Append(given, Error)
              /\ Leave(r, Outcome(r))
           \/ /\ ~CanAppend(r, HeadSeq(store), kind)
              /\ Leave(r, IF Outcome(r) = "completed" THEN "refused" ELSE Outcome(r))
              /\ LogUnchanged
    /\ UNCHANGED <<failures, setting>>

(* The process dies; the log and the tools keep what they have.            *)
Crash(r) ==
    /\ r \in Active
    /\ Leave(r, "crashed")
    /\ LogUnchanged /\ UNCHANGED <<failures, setting>>

RunStep(r) ==
    \/ Mint(r) \/ AppendInvocation(r) \/ ReadLog(r)
    \/ ServeRecorded(r) \/ AnswerDiverged(r)
    \/ CallModel(r) \/ InvokeModel(r) \/ RecordCompletion(r)
    \/ CallTool(r) \/ RejectTool(r) \/ ExecTool(r) \/ RecordResult(r)
    \/ LiveOutput(r) \/ LiveReport(r) \/ LiveUsage(r)
    \/ Finish(r) \/ Crash(r)

(* Every call has been made and has returned.                              *)
Quiescent == (\A r \in Runs : At(r, "done")) /\ UNCHANGED vars

Next ==
    \/ \E r \in Runs :
        \/ RunStep(r)
        \/ \E kind \in {"Exec", "Resume"}, h \in setting.harnesses : Begin(r, kind, h)
    \/ Quiescent

Spec == Init /\ [][Next]_vars

-----------------------------------------------------------------------------
(* Every variable keeps its type, and the records' bodies and histories    *)
(* keep step with the log.                                                 *)
TypeOK ==
    /\ store \in Store
    /\ Len(body) = HeadSeq(store) /\ Len(calls) = Len(body) /\ Len(given) = Len(body)
    /\ \A p \in DOMAIN body : body[p].exec \in Runs /\ calls[p] \in Nat
    /\ \A r \in Runs :
        /\ DOMAIN run[r] = DOMAIN IdleRun
        /\ run[r].exec \in Executions \union {"none"}
        /\ run[r].fence \in 0 .. store.fence
        /\ run[r].i \in StreamOf(r) \union {0}
        /\ run[r].pos \in 0 .. Len(body)
    /\ failures \in 0 .. MaxFailures

(* A harness runs only on an invocation all of whose inputs are committed, *)
(* also when the process died while Exec was recording them                *)
(* (validateInputs).                                                       *)
RunsOnAllItsInputs ==
    \A r \in Runs : run[r].exec # "none" /\ run[r].pc \notin {"start", "input", "done"} =>
        Cardinality(RecordsOf(run[r].exec, {"INPUT"})) = Inputs

(* Every completed turn replays with the harness that completed it, to the *)
(* last recorded effect, without a live call, however many incarnations,   *)
(* with whatever harness, crashed, failed or diverged on it before.        *)
CompletedTurnReplays ==
    \A r \in Runs : run[r].result = "completed" => Replays(run[r].exec, run[r].harness)

(* Recovery gives the harness what it was given before the cut: the answer *)
(* that is served for a recorded call is the one its last owner's harness  *)
(* got for it, an error it handled included (Resume; usage that was not    *)
(* recorded is served as zero).                                            *)
RecoveryServesWhatWasGiven ==
    [][\A r \in Runs :
        /\ At(r, "run")
        /\ run'[r].i > run[r].i
        /\ run'[r].pc = "run"
        /\ ~run'[r].failure
        /\ KindAt(StreamOf(r), run[r].i) \in Intents
        => LET was == given[Following(StreamOf(r), run[r].i)]
               now == Last(run'[r].answers)
           IN  was.ok = now.ok /\ was.val = now.val]_vars

(* The incarnation that owns the session calls the model or a tool only    *)
(* for an intent that is the last effect of the log: a call whose answer   *)
(* is recorded, or that a harness has left behind, is never made again.    *)
(* (One that has been superseded may still be making its last call: its    *)
(* answer is not recorded.)                                                *)
AnsweredIsNotReinvoked ==
    [][\A r \in Runs :
        /\ run[r].fence = store.fence
        /\ run[r].pc \in {"model", "tool"}
        /\ calls'[run[r].pos] > calls[run[r].pos]
        => \A p \in DOMAIN body : store.recs[p].kind \in EffectKinds => p <= run[r].pos]_vars

(* A Resume that has diverged records nothing more than its ERROR: the     *)
(* turn stays as it was for the harness that matches it.                   *)
DivergenceWritesNothing ==
    [][\A r \in Runs : run[r].failure =>
        /\ run'[r].failure \/ run'[r].result \in {"diverged", "crashed"}
        /\ (body' # body /\ run'[r] # run[r]) => store'.recs[Len(body')].kind = "ERROR"]_vars

(* A harness that is always the same never diverges from what it recorded, *)
(* wherever the turn was cut and whatever failed in it.  The harnesses are *)
(* such that no Report directly follows a failed tool call: without a      *)
(* failure receipt the report is taken for the call's result, which        *)
(* docs/harness-authoring.md tells authors.                                *)
SameHarnessNeverDiverges ==
    \A r \in Runs : run[r].failure \/ run[r].result = "diverged" =>
        \E q \in Runs : run[q].harness \notin {"none", run[r].harness}

-----------------------------------------------------------------------------
(* What docs/harness-authoring.md asks of a harness.  A harness that is    *)
(* like that cannot be misunderstood; the theorems that need it say so.    *)

(* The n-th operation of a harness that gets the answers a.                *)
Nth(h, a, n) == Operation(h, SubSeq(a, 1, n - 1))

Keyless(e) == e.op = "ToolCall" /\ ~e.key

(* The last call that was recorded failed.                                 *)
FailedLast(h, a, op) ==
    \E n \in 1 .. Len(a) :
        /\ Nth(h, a, n).op = op /\ ~Keyless(Nth(h, a, n))
        /\ ~a[n].ok
        /\ \A m \in n + 1 .. Len(a) : Keyless(Nth(h, a, m))

(* What a harness does next cannot be taken for the answer of a call that  *)
(* failed.                                                                 *)
FailuresStandOut(h, a) ==
    /\ FailedLast(h, a, "Model") => Operation(h, a).op # "Output"
    /\ FailedLast(h, a, "ToolCall") => Operation(h, a).op # "Report"

(* The answers a and b differ in the usage of completions only.            *)
SameButUsage(h, a, b) ==
    /\ Len(a) = Len(b)
    /\ \A n \in 1 .. Len(a) :
        \/ a[n] = b[n]
        \/ Nth(h, a, n).op = "Model" /\ a[n].ok /\ b[n].ok /\ a[n].val = b[n].val

(* The usage of a completion is reported directly after it, if at all, and *)
(* decides nothing: one that was not recorded is served as zero.           *)
UsageIsReported(h, a, b) ==
    SameButUsage(h, a, b) =>
        \/ Operation(h, a) = Operation(h, b)
        \/ /\ Len(a) > 0
           /\ Operation(h, a).op = "Usage" /\ Operation(h, a).usage = a[Len(a)].usage
           /\ Operation(h, b).op = "Usage" /\ Operation(h, b).usage = b[Len(b)].usage

(* A call that was rejected is not followed by another such call: ReplayOf *)
(* follows a harness that far.                                             *)
RejectedOnce(h, a) ==
    Len(a) > 0 /\ Keyless(Nth(h, a, Len(a))) => ~Keyless(Operation(h, a))
=============================================================================
