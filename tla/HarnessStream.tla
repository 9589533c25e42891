---------------------------- MODULE HarnessStream ---------------------------
(* One execution: the harness's Run, the sink it calls, and the controller *)
(* that journals what the sink is asked.                                   *)
(*                                                                         *)
(* A harness runs in the controller's process, where its sink is the       *)
(* controller's own behind sinkGuard, or behind a Connect stream.  There   *)
(* its sink is harnesswire.streamSink: each call becomes an event on the   *)
(* stream, and a model or tool call waits for a frame; ClientHarness.Run   *)
(* is the only caller of the controller's sink.  A harness may call its    *)
(* sink from goroutines that outlive Run, with contexts of their own, and  *)
(* may ignore the errors it gets.                                          *)
(*                                                                         *)
(* A call is known by its number.  The harness chooses the IDs of its tool *)
(* calls and may repeat one: all ordinary tool calls here share an ID,     *)
(* while model calls (newID) and gated calls (the controller refuses a     *)
(* repeated one) have their own.  Output, Usage and Report are one kind,   *)
(* Emit.  What the controller records per effect is in Turn.               *)
EXTENDS Naturals, Sequences, FiniteSets

CONSTANTS
    Tasks,      \* the harness's goroutines
    Main,       \* the one that runs Harness.Run
    Detached,   \* the goroutines whose contexts do not end with the stream
    Wirings,    \* TRUE: behind a stream; FALSE: in process
    Plan,       \* Plan[t]: for each call goroutine t may make, its kinds
    MaxCalls,   \* bound: sink calls
    MaxCancels, \* bound: contexts the harness cancels
    Loop,       \* ClientHarness.Run, as a caller of the controller's sink
    None

Kinds == {"Model", "Tool", "Gated", "Emit"}

ASSUME StreamAssumption ==
    /\ Main \in Tasks /\ Detached \subseteq Tasks /\ Wirings \subseteq BOOLEAN
    /\ MaxCalls \in Nat /\ MaxCancels \in Nat
    /\ \A t \in Tasks : Plan[t] \in Seq(SUBSET Kinds)
    /\ Loop \notin Tasks /\ None \notin Tasks \cup {Loop}
    /\ None \notin {"nil", "ok", "err", "park", "closed", "eof", "error",
                    "COMPLETED", "PARKED", "FAILED"}

VARIABLES
    wired,      \* whether the harness is behind a stream
    task,       \* task[t]: the goroutine's call: its step and its number
    calls,      \* calls[n]: the kind of the nth call, and the goroutine that makes it
    cancelled,  \* the calls whose context the harness cancelled
    told,       \* told[n]: how the nth call ended, and whose answer it was given
    ran,        \* what Harness.Run returned: None, "nil", "park" or "err"
    srv,        \* Server.Connect and its streamSink
    results,    \* the channel from receiveFrames to awaitResult
    stream,     \* the stream: events up, frames down, how it ends for the host
    guard,      \* sinkGuard
    host,       \* ClientHarness.Run and the controller around it
    journal     \* the records of the execution

harness == <<task, calls, cancelled, told, ran>>
vars == <<wired, harness, srv, results, stream, guard, host, journal>>

Numbers == 1..MaxCalls

(* The ID by which a reply names its call.                                 *)
ReplyID(n) == IF calls[n].kind = "Tool" THEN 0 ELSE n

Init ==
    /\ wired \in Wirings
    /\ task = [t \in Tasks |-> [pc |-> "idle", n |-> 0]]
    /\ calls = <<>>
    /\ cancelled = {}
    /\ told = [n \in Numbers |-> [how |-> None, of |-> 0]]
    /\ ran = None
    /\ srv = [st |-> "run", mu |-> None, closed |-> FALSE, parked |-> 0, failed |-> FALSE]
    /\ results = [buf |-> <<>>, closed |-> FALSE]
    /\ stream = [up |-> <<>>, down |-> <<>>, live |-> TRUE, end |-> None]
    /\ guard = [mu |-> None, closed |-> FALSE, stop |-> None]
    /\ host = [pc |-> IF wired THEN "recv" ELSE "run", n |-> 0, out |-> None]
    /\ journal = <<>>

Record(what, n) == [what |-> what, n |-> n]

-----------------------------------------------------------------------------
(* The harness.                                                            *)

(* A goroutine calls the sink; Run does so only until it returns.          *)
Call(t) ==
    /\ task[t].pc = "idle" /\ Len(calls) < MaxCalls
    /\ t = Main => ran = None
    /\ LET i == Cardinality({n \in DOMAIN calls : calls[n].by = t}) + 1 IN
       /\ i \in DOMAIN Plan[t]
       /\ \E kind \in Plan[t][i] : calls' = Append(calls, [kind |-> kind, by |-> t])
    /\ task' = [task EXCEPT ![t] = [pc |-> "lock", n |-> Len(calls) + 1]]
    /\ UNCHANGED <<wired, cancelled, told, ran, srv, results, stream, guard, host, journal>>

Cancel(t) ==
    /\ task[t].pc # "idle" /\ task[t].n \notin cancelled
    /\ Cardinality(cancelled) < MaxCancels
    /\ cancelled' = cancelled \cup {task[t].n}
    /\ UNCHANGED <<wired, task, calls, told, ran, srv, results, stream, guard, host, journal>>

(* ctx.Err() # nil, for the context of call n.                             *)
Expired(n) == n \in cancelled \/ (wired /\ ~stream.live /\ calls[n].by \notin Detached)

(* The call returns to the harness, with the answer to call of if "ok".    *)
Told(t, how, of) ==
    /\ told' = [told EXCEPT ![task[t].n] = [how |-> how, of |-> of]]
    /\ task' = [task EXCEPT ![t] = [pc |-> "idle", n |-> 0]]
    /\ UNCHANGED <<wired, calls, cancelled, ran>>

(* Run returns; it unwinds with a park only if a call of its was told one. *)
Return ==
    /\ task[Main].pc = "idle" /\ ran = None
    /\ \E res \in {"nil", "err"} \cup {told[n].how : n \in {m \in Numbers : told[m].how = "park"}} :
           ran' = res
    /\ IF wired
       THEN srv' = [srv EXCEPT !.st = "closing"] /\ UNCHANGED host
       ELSE host' = [host EXCEPT !.pc = "close"] /\ UNCHANGED srv
    /\ UNCHANGED <<wired, task, calls, cancelled, told, results, stream, guard, journal>>

-----------------------------------------------------------------------------
(* streamSink, the sink behind a stream.                                   *)

(* check's verdict on a call, in its order of precedence.                  *)
SinkError(n) ==
    CASE srv.parked # 0 -> "park"
      [] srv.parked = 0 /\ (srv.failed \/ Expired(n)) -> "err"
      [] srv.parked = 0 /\ ~srv.failed /\ ~Expired(n) /\ (srv.closed \/ srv.st # "run") -> "closed"
      [] OTHER -> None

Outcome(err) == IF err = "park" THEN "park" ELSE "err"

(* A call that waits for the lock gives up with its context.               *)
GiveUp(t) ==
    /\ task[t].pc = "lock" /\ Expired(task[t].n)
    /\ (IF wired THEN srv.mu ELSE guard.mu) # None
    /\ Told(t, "err", 0)
    /\ UNCHANGED <<srv, results, stream, guard, host, journal>>

(* Under the lock: the checks, then the event.  Send fails once the stream *)
(* is gone, which is no failure of the sink's.                             *)
Send(t) ==
    LET n == task[t].n
        err == SinkError(n)
    IN /\ wired /\ task[t].pc = "lock" /\ srv.mu = None
       /\ IF err # None \/ ~stream.live
          THEN Told(t, Outcome(err), 0) /\ UNCHANGED <<srv, stream>>
          ELSE /\ stream' = [stream EXCEPT !.up = Append(@, [kind |-> calls[n].kind, n |-> n])]
               /\ IF calls[n].kind = "Emit"
                  THEN Told(t, "ok", n) /\ UNCHANGED srv
                  ELSE /\ srv' = [srv EXCEPT !.mu = t]
                       /\ task' = [task EXCEPT ![t].pc = "await"]
                       /\ UNCHANGED <<wired, calls, cancelled, told, ran>>
       /\ UNCHANGED <<results, guard, host, journal>>

(* Report refuses a receipt that only the host may write, and stays failed.*)
RefuseReport(t) ==
    /\ wired /\ task[t].pc = "lock" /\ srv.mu = None
    /\ calls[task[t].n].kind = "Emit" /\ SinkError(task[t].n) = None
    /\ srv' = [srv EXCEPT !.failed = TRUE]
    /\ Told(t, "err", 0)
    /\ UNCHANGED <<results, stream, guard, host, journal>>

(* Mutant: a failed tool call leaves the sink usable.                      *)
FailedOnce(n, err) == [srv EXCEPT !.mu = None]

(* fail: a tool call's error is sticky, the closing of Run excepted; a     *)
(* model call's never is.                                                  *)
Failed(n, err) ==
    [srv EXCEPT !.mu = None, !.failed = @ \/ (calls[n].kind # "Model" /\ err # "closed")]

(* awaitResult without a frame: the channel is closed, the context is      *)
(* done, or Run has returned.                                              *)
AwaitNothing(t) ==
    LET n == task[t].n
        err == SinkError(n)
    IN /\ task[t].pc \in {"await", "receipt"}
       /\ err # None \/ (results.buf = <<>> /\ results.closed)
       /\ srv' = Failed(n, err)
       /\ Told(t, "err", 0)
       /\ UNCHANGED <<results, stream, guard, host, journal>>

(* Mutant: a reply of the right type is taken for this call's.             *)
ByType(f, n) ==
    CASE calls[n].kind = "Model" -> f.kind = "model"
      [] calls[n].kind = "Tool" -> f.kind = "tool"
      [] OTHER -> f.kind \in {"park", "approval", "receipt"} /\ f.id = ReplyID(n)

(* Whether frame f is a reply to call n as far as n can see.               *)
Correlates(f, n) ==
    /\ f.id = ReplyID(n)
    /\ CASE calls[n].kind = "Model" -> f.kind = "model"
         [] calls[n].kind = "Tool" -> f.kind = "tool"
         [] OTHER -> f.kind \in {"park", "approval", "receipt"}

(* awaitResult with a frame, and what Model and ToolCall make of it.  An   *)
(* approved or denied gate is an approval frame and then the receipt.      *)
AwaitFrame(t) ==
    LET n == task[t].n
        f == Head(results.buf)
        err == SinkError(n)
        expected == Correlates(f, n) /\ ((f.kind = "receipt") = (task[t].pc = "receipt"))
    IN /\ task[t].pc \in {"await", "receipt"} /\ results.buf # <<>>
       /\ results' = [results EXCEPT !.buf = <<>>]
       /\ IF err # None \/ ~expected
          THEN srv' = Failed(n, err) /\ Told(t, "err", 0)
          ELSE CASE f.kind = "park" ->
                      srv' = [srv EXCEPT !.mu = None, !.parked = n] /\ Told(t, "park", 0)
                 [] f.kind = "approval" ->
                      /\ task' = [task EXCEPT ![t].pc = "receipt"]
                      /\ UNCHANGED <<wired, calls, cancelled, told, ran, srv>>
                 [] OTHER ->
                      srv' = [srv EXCEPT !.mu = None] /\ Told(t, "ok", f.n)
       /\ UNCHANGED <<stream, guard, host, journal>>

-----------------------------------------------------------------------------
(* Server.Connect beside the harness.                                      *)

(* receiveFrames: one frame at a time into a channel of one.  The frame it *)
(* has in its hand is the first one of down; its select may still deliver  *)
(* it when the stream or Run is over.                                      *)
Receive ==
    /\ wired /\ ~results.closed
    /\ stream.down # <<>> /\ results.buf = <<>>
    /\ results' = [results EXCEPT !.buf = <<Head(stream.down)>>]
    /\ stream' = [stream EXCEPT !.down = Tail(@)]
    /\ UNCHANGED <<wired, harness, srv, guard, host, journal>>

(* Mutant: the receiver leaves its channel open.                           *)
StopReceivingSilently ==
    /\ wired /\ ~results.closed /\ ~stream.live
    /\ UNCHANGED vars

(* It closes the channel when the stream or Run is over, and drops what it *)
(* has in its hand.                                                        *)
StopReceiving ==
    /\ wired /\ ~results.closed /\ (~stream.live \/ srv.st # "run")
    /\ results' = [results EXCEPT !.closed = TRUE]
    /\ UNCHANGED <<wired, harness, srv, stream, guard, host, journal>>

(* Mutant: a park is acknowledged whatever Run returned.                   *)
EndedParked(res, parked, failed) ==
    IF parked # 0 THEN [kind |-> "PARKED", n |-> parked, status |-> "eof"]
    ELSE IF failed \/ res # "nil" THEN [kind |-> "FAILED", n |-> 0, status |-> "error"]
    ELSE [kind |-> "COMPLETED", n |-> 0, status |-> "eof"]

(* Mutant: END says what Run returned and not what the sink knows.         *)
EndedAsRun(res, parked, failed) ==
    IF parked # 0
    THEN IF res = "err" THEN [kind |-> None, n |-> 0, status |-> "error"]
         ELSE [kind |-> "PARKED", n |-> parked, status |-> "eof"]
    ELSE IF res # "nil" THEN [kind |-> "FAILED", n |-> 0, status |-> "error"]
    ELSE [kind |-> "COMPLETED", n |-> 0, status |-> "eof"]

(* How the handler ends the stream: its last event and the status.  A      *)
(* parked sink is acknowledged only when Run unwound with that park.       *)
Ended(res, parked, failed) ==
    IF parked # 0
    THEN IF res = "err" THEN [kind |-> None, n |-> 0, status |-> "error"]
         ELSE [kind |-> "PARKED", n |-> parked, status |-> "eof"]
    ELSE IF failed \/ res # "nil" THEN [kind |-> "FAILED", n |-> 0, status |-> "error"]
    ELSE [kind |-> "COMPLETED", n |-> 0, status |-> "eof"]

(* done is closed; the handler takes the lock of the sink and ends.        *)
Finish ==
    LET e == Ended(ran, srv.parked, srv.failed) IN
    /\ srv.st = "closing" /\ srv.mu = None
    /\ srv' = [srv EXCEPT !.st = "returned", !.closed = TRUE]
    /\ stream' = IF ~stream.live THEN stream
                 ELSE [stream EXCEPT !.up = IF e.kind = None THEN @ ELSE Append(@, [kind |-> e.kind, n |-> e.n]),
                                     !.end = e.status, !.live = FALSE]
    /\ UNCHANGED <<wired, harness, results, guard, host, journal>>

(* Frames that outlive the stream: the one receiveFrames has in its hand,  *)
(* if it has one.                                                          *)
InHand == {SubSeq(stream.down, 1, k) : k \in {0, 1} \cap 0 .. Len(stream.down)}

(* The connection breaks, or the caller cancels the turn: events not yet   *)
(* read may be lost, from the last one backwards.                          *)
Break ==
    /\ wired /\ (stream.live \/ stream.end = "eof")
    /\ host.pc \in {"recv", "effect", "acked", "closed"}
    /\ \E k \in 0..Len(stream.up), hand \in InHand :
           stream' = [stream EXCEPT !.up = SubSeq(@, 1, k), !.down = hand, !.live = FALSE, !.end = "error"]
    /\ UNCHANGED <<wired, harness, srv, results, guard, host, journal>>

-----------------------------------------------------------------------------
(* The controller's sink, and the effect that runs under its guard.        *)

GuardError ==
    CASE guard.stop # None -> guard.stop
      [] guard.stop = None /\ guard.closed -> "err"
      [] OTHER -> None

(* The intent is recorded and the effect begins; an Emit is one record.    *)
BeginEffect(who, n) ==
    /\ journal' = Append(journal, Record(IF calls[n].kind = "Emit" THEN "emit" ELSE "intent", n))
    /\ guard' = [guard EXCEPT !.mu = IF calls[n].kind = "Emit" THEN None ELSE who]

(* How an effect of kind k may end: with its result recorded, with an      *)
(* error, or, for a gated call, with the request recorded and a park that  *)
(* sticks; so does any failure behind a gated call's intent.               *)
EffectEnds(n, how) ==
    /\ how = "park" => calls[n].kind = "Gated"
    /\ journal' = CASE how = "ok" -> Append(journal, Record("result", n))
                    [] how = "park" -> Append(journal, Record("request", n))
                    [] OTHER -> journal
    /\ guard' = [guard EXCEPT !.mu = None,
          !.stop = IF how # "ok" /\ calls[n].kind = "Gated" THEN how ELSE @]

(* report: an Emit that reports the result of a gated call, which only the *)
(* controller may record, stops the sink for good.                         *)
ReportsGatedCall(n) ==
    /\ calls[n].kind = "Emit"
    /\ \E i \in DOMAIN journal : journal[i].what = "result" /\ calls[journal[i].n].kind = "Gated"
    /\ guard' = [guard EXCEPT !.stop = "err"]
    /\ UNCHANGED journal

(* In process: a goroutine enters the guarded sink ...                     *)
Enter(t) ==
    LET n == task[t].n IN
    /\ ~wired /\ task[t].pc = "lock" /\ guard.mu = None
    /\ IF GuardError # None \/ Expired(n)
       THEN Told(t, IF GuardError # None THEN GuardError ELSE "err", 0) /\ UNCHANGED <<guard, journal>>
       ELSE \/ /\ BeginEffect(t, n)
               /\ IF calls[n].kind = "Emit" THEN Told(t, "ok", n)
                  ELSE /\ task' = [task EXCEPT ![t].pc = "effect"]
                       /\ UNCHANGED <<wired, calls, cancelled, told, ran>>
            \/ Told(t, "err", 0) /\ (UNCHANGED <<guard, journal>> \/ ReportsGatedCall(n))
    /\ UNCHANGED <<srv, results, stream, host>>

(* ... and leaves it.                                                      *)
Leave(t) ==
    LET n == task[t].n IN
    /\ task[t].pc = "effect"
    /\ \E how \in {"ok", "err", "park"} :
           EffectEnds(n, how) /\ Told(t, how, n)
    /\ UNCHANGED <<srv, results, stream, host>>

-----------------------------------------------------------------------------
(* ClientHarness.Run.                                                      *)

(* It returns, and its context goes with it.                               *)
RunReturns(out) ==
    /\ host' = [host EXCEPT !.pc = "close", !.out = out]
    /\ \E hand \in InHand : stream' = [stream EXCEPT !.live = FALSE, !.down = hand]

(* The next event: an effect, or the end of the execution.                 *)
Dispatch ==
    LET e == Head(stream.up) IN
    /\ host.pc = "recv" /\ stream.up # <<>>
    /\ IF e.kind \in Kinds
       THEN \/ /\ BeginEffect(Loop, e.n)
               /\ stream' = [stream EXCEPT !.up = Tail(@)]
               /\ host' = [host EXCEPT !.n = e.n, !.pc = IF e.kind = "Emit" THEN "recv" ELSE "effect"]
            \/ RunReturns("err") /\ (UNCHANGED <<guard, journal>> \/ ReportsGatedCall(e.n))
       ELSE RunReturns(IF e.kind = "COMPLETED" THEN "nil" ELSE "err") /\ UNCHANGED <<guard, journal>>
    /\ UNCHANGED <<wired, harness, srv, results>>

(* Recv without an event: a clean end of the stream is a success.          *)
RecvEnd ==
    /\ host.pc = "recv" /\ stream.up = <<>> /\ stream.end # None
    /\ RunReturns(IF stream.end = "eof" THEN "nil" ELSE "err")
    /\ UNCHANGED <<wired, harness, srv, results, guard, journal>>

Frame(kind, n) == [kind |-> kind, id |-> ReplyID(n), n |-> n]

(* The frames that answer call n.                                          *)
Replies(n, how) ==
    CASE how = "park" -> <<Frame("park", n)>>
      [] how = "ok" /\ calls[n].kind = "Model" -> <<Frame("model", n)>>
      [] how = "ok" /\ calls[n].kind = "Tool" -> <<Frame("tool", n)>>
      [] OTHER -> <<Frame("approval", n), Frame("receipt", n)>>

(* The effect ends and is answered.  A Send fails if the stream is gone;   *)
(* if the handler has ended it, it may fail.                               *)
Reply ==
    LET n == host.n IN
    /\ host.pc = "effect"
    /\ \E how \in {"ok", "err", "park"} :
       /\ EffectEnds(n, how)
       /\ \/ how = "err" /\ RunReturns("err")
          \/ how # "err" /\ ~stream.live /\ RunReturns("err")
          \/ /\ how # "err" /\ (stream.live \/ srv.st = "returned")
             /\ stream' = [stream EXCEPT !.down = IF stream.live THEN @ \o Replies(n, how) ELSE @]
             /\ host' = [host EXCEPT !.pc = IF how = "park" THEN "acked" ELSE "recv"]
    /\ UNCHANGED <<wired, harness, srv, results>>

(* exchangePark: the acknowledgement of this park ...                      *)
AwaitAck ==
    /\ host.pc = "acked"
    /\ stream.up # <<>> \/ stream.end # None
    /\ IF stream.up # <<>> /\ Head(stream.up) = [kind |-> "PARKED", n |-> host.n]
       THEN stream' = [stream EXCEPT !.up = Tail(@)] /\ host' = [host EXCEPT !.pc = "closed"]
       ELSE RunReturns("err")
    /\ UNCHANGED <<wired, harness, srv, results, guard, journal>>

(* ... and then the clean end of the stream, and nothing else.             *)
AwaitClosure ==
    /\ host.pc = "closed"
    /\ stream.up # <<>> \/ stream.end # None
    /\ RunReturns(IF stream.up = <<>> /\ stream.end = "eof" THEN "park" ELSE "err")
    /\ UNCHANGED <<wired, harness, srv, results, guard, journal>>

(* Mutant: the guard is closed without draining the effect that runs.      *)
CloseAtOnce ==
    /\ host.pc = "close"
    /\ guard' = [guard EXCEPT !.closed = TRUE]
    /\ host' = [host EXCEPT !.pc = "closing", !.out = IF wired THEN @ ELSE ran]
    /\ UNCHANGED <<wired, harness, srv, results, stream, journal>>

(* guard.close drains the effect in progress.                              *)
Close ==
    /\ host.pc = "close" /\ guard.mu = None
    /\ guard' = [guard EXCEPT !.closed = TRUE]
    /\ host' = [host EXCEPT !.pc = "closing", !.out = IF wired THEN @ ELSE ran]
    /\ UNCHANGED <<wired, harness, srv, results, stream, journal>>

(* A sticky stop leaves no terminal record; a park is the outcome unless   *)
(* Run failed independently of it.                                         *)
Terminate ==
    /\ host.pc = "closing"
    /\ IF guard.stop # None
       THEN /\ journal' = journal
            /\ host' = [host EXCEPT !.pc = "over",
                  !.out = IF @ = "nil" \/ guard.stop # "park" THEN guard.stop ELSE @]
       ELSE /\ journal' = Append(journal, Record(IF host.out = "nil" THEN "end" ELSE "error", 0))
            /\ host' = [host EXCEPT !.pc = "over"]
    /\ UNCHANGED <<wired, harness, srv, results, stream, guard>>

(* Everything has returned.                                                *)
Over ==
    /\ host.pc = "over" /\ (wired => srv.st = "returned" /\ results.closed)
    /\ \A t \in Tasks : task[t].pc = "idle"
    /\ UNCHANGED vars

-----------------------------------------------------------------------------
TaskStep(t) == Send(t) \/ RefuseReport(t) \/ AwaitNothing(t) \/ AwaitFrame(t) \/ Enter(t) \/ Leave(t)

ConnectStep == Receive \/ StopReceiving \/ Finish

HostStep == Dispatch \/ RecvEnd \/ Reply \/ AwaitAck \/ AwaitClosure \/ Close \/ Terminate

Next ==
    \/ \E t \in Tasks : Call(t) \/ Cancel(t) \/ GiveUp(t) \/ TaskStep(t)
    \/ Return \/ ConnectStep \/ Break \/ HostStep \/ Over

Spec == Init /\ [][Next]_vars

FairSpec ==
    /\ Spec
    /\ \A t \in Tasks : WF_vars(TaskStep(t))
    /\ WF_vars(Return)
    /\ WF_vars(Receive) /\ WF_vars(StopReceiving) /\ WF_vars(Finish)
    /\ WF_vars(HostStep)

-----------------------------------------------------------------------------
Recorded(what, n) == \E i \in DOMAIN journal : journal[i] = Record(what, n)

(* A call is told its own answer or an error, never the answer to a call   *)
(* that was given up before: a model reply is matched by its ID, and a     *)
(* tool's, whose ID the harness may repeat, is never looked for again      *)
(* after a tool call has failed (streamSink.Model, ToolCall, fail).        *)
RepliesAnswerTheirCall ==
    \A n \in Numbers : told[n].how = "ok" => told[n].of = n

(* Whatever goroutines outlive Run, the terminal record of the execution   *)
(* is its last one, no effect is under way when it is written, and nothing *)
(* at all follows the request of a park (sinkGuard).                       *)
TurnEndsItsJournal ==
    /\ \A i \in DOMAIN journal :
          journal[i].what \in {"end", "error", "request"} => i = Len(journal)
    /\ host.pc = "over" => guard.mu = None

(* A turn recorded as completed is one whose Run returned nil, whose sink  *)
(* met no failure the harness ignored, and all of whose successful calls   *)
(* are recorded (Connect, endError, Exec).                                 *)
CompletedIsComplete ==
    Recorded("end", 0) =>
        /\ ran = "nil" /\ (wired => ~srv.failed /\ srv.parked = 0)
        /\ \A n \in Numbers : told[n].how = "ok" =>
              Recorded(IF calls[n].kind = "Emit" THEN "emit" ELSE "result", n)

(* The controller reports a park only when the harness's Run is over and   *)
(* unwound with nothing but that park, so its compute can be suspended     *)
(* (exchangePark, IsParkUnwind).                                           *)
ParkIsAgreed ==
    host.pc = "over" /\ host.out = "park" =>
        /\ ran \in {"nil", "park"}
        /\ \E n \in Numbers : Recorded("request", n) /\ (wired => srv.parked = n /\ srv.st = "returned")

(* An execution always ends at both sides, whatever breaks: no call waits  *)
(* for a reply that nobody will send, and neither side for the other.      *)
ExecutionsEnd ==
    <>(host.pc = "over" /\ (wired => srv.st = "returned"))
=============================================================================
