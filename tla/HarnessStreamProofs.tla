------------------------ MODULE HarnessStreamProofs -------------------------
(* What an execution promises whatever the harness's goroutines do and     *)
(* whenever its stream breaks: the four invariants of HarnessStream.       *)
EXTENDS HarnessStream, SequenceTheorems, TLAPS

(* Events of the harness's calls, and the handler's last one.              *)
Events == [kind : Kinds \cup {"COMPLETED", "PARKED", "FAILED"}, n : Nat]

Frames == [kind : {"model", "tool", "park", "approval", "receipt"}, id : Nat, n : Nat]

Records == [what : {"emit", "intent", "result", "request", "end", "error"}, n : Nat]

TaskType == [Tasks -> [pc : {"idle", "lock", "await", "receipt", "effect"}, n : Nat]]
CallType == [kind : Kinds, by : Tasks]
ToldType == [Numbers -> [how : {None, "ok", "err", "park"}, of : Nat]]
SinkType == [st : {"run", "closing", "returned"}, mu : Tasks \cup {None}, closed : BOOLEAN,
             parked : Nat, failed : BOOLEAN]
ResultType == [buf : Seq(Frames), closed : BOOLEAN]
StreamType == [up : Seq(Events), down : Seq(Frames), live : BOOLEAN, end : {None, "eof", "error"}]
GuardType == [mu : Tasks \cup {Loop, None}, closed : BOOLEAN, stop : {None, "err", "park"}]
HostType ==
    [pc : {"run", "recv", "effect", "acked", "closed", "close", "closing", "over"},
     n : Nat, out : {None, "nil", "err", "park"}]

TypeOK ==
    /\ wired \in BOOLEAN
    /\ task \in TaskType
    /\ calls \in Seq(CallType) /\ Len(calls) <= MaxCalls
    /\ told \in ToldType
    /\ ran \in {None, "nil", "err", "park"}
    /\ srv \in SinkType
    /\ results \in ResultType /\ Len(results.buf) <= 1
    /\ stream \in StreamType
    /\ guard \in GuardType
    /\ host \in HostType
    /\ journal \in Seq(Records)

(* The replies on their way to the harness, the oldest first.              *)
Down == results.buf \o stream.down

(* A goroutine's call is its own, and it holds the lock it is thought to.  *)
TaskInv ==
    \A t \in Tasks :
        /\ task[t].pc # "idle" => task[t].n \in DOMAIN calls /\ calls[task[t].n].by = t
        /\ task[t].pc \in {"await", "receipt"} <=> srv.mu = t
        /\ task[t].pc = "effect" <=> guard.mu = t
        /\ task[t].pc \in {"await", "receipt"} => wired
        /\ task[t].pc = "effect" => ~wired
        /\ task[t].pc \in {"await", "receipt", "effect"} => calls[task[t].n].kind # "Emit"

(* How far Run, its handler and the controller are.                        *)
PhaseInv ==
    /\ host.pc \in {"recv", "effect", "acked", "closed"} => wired
    /\ wired => host.pc # "run"
    /\ ~wired => srv.st = "run"
    /\ wired => (ran = None <=> srv.st = "run")
    /\ ~wired => (ran = None <=> host.pc = "run")
    /\ srv.closed <=> srv.st = "returned"
    /\ srv.st = "returned" => srv.mu = None /\ ~stream.live

(* One effect at a time, none once the guard is closed, and none after a   *)
(* sticky stop.                                                            *)
GuardInv ==
    /\ guard.mu = Loop <=> host.pc = "effect"
    /\ guard.closed <=> host.pc \in {"closing", "over"}
    /\ guard.closed => guard.mu = None
    /\ guard.mu # None => guard.stop = None
    /\ host.pc \in {"recv", "effect"} => guard.stop = None

(* What ends a journal is its last record.                                 *)
JournalInv ==
    /\ \A i \in DOMAIN journal :
          /\ journal[i].what \in {"end", "error", "request"} => i = Len(journal)
          /\ journal[i].what \in {"end", "error"} => host.pc = "over"
          /\ journal[i].what = "end" => host.out = "nil" /\ guard.stop = None
          /\ journal[i].what = "request" => guard.stop = "park"
    /\ guard.stop = "park" => \E n \in Numbers : Recorded("request", n)

(* What the events on the stream say is true of the sink that sent them.   *)
EventInv ==
    /\ \A i \in DOMAIN stream.up :
          LET e == stream.up[i] IN
          /\ e.kind \in Kinds => e.n \in DOMAIN calls /\ calls[e.n].kind = e.kind
          /\ e.kind \notin Kinds => i = Len(stream.up) /\ srv.st = "returned"
          /\ e.kind = "COMPLETED" => ran = "nil" /\ ~srv.failed /\ srv.parked = 0
          /\ e.kind = "PARKED" => ran \in {"nil", "park"} /\ srv.parked = e.n
    /\ stream.end = "eof" /\ host.pc \in {"recv", "effect", "acked"} =>
          stream.up # <<>> /\ stream.up[Len(stream.up)].kind \in {"COMPLETED", "PARKED"}
    /\ host.pc = "effect" => host.n \in DOMAIN calls /\ calls[host.n].kind # "Emit"
    /\ host.pc \in {"acked", "closed"} => host.n \in Numbers /\ Recorded("request", host.n)
    /\ host.pc = "closed" =>
          srv.parked = host.n /\ srv.st = "returned" /\ ran \in {"nil", "park"}

(* A reply names a call as that call was made, and is recorded.            *)
FrameInv ==
    \A i \in DOMAIN Down :
        LET f == Down[i] IN
        /\ f.n \in DOMAIN calls /\ f.id = ReplyID(f.n)
        /\ f.kind = "tool" => calls[f.n].kind = "Tool"
        /\ f.kind # "park" => Recorded("result", f.n)

(* A call is in one place: not yet sent, on its way up, running or         *)
(* answered; and an answer to a tool call comes once.                      *)
PlaceInv ==
    /\ \A i, j \in DOMAIN stream.up :
          /\ stream.up[i].kind \in Kinds /\ stream.up[j].kind \in Kinds
          /\ stream.up[i].n = stream.up[j].n
          => i = j
    /\ \A i \in DOMAIN stream.up : stream.up[i].kind \in Kinds =>
          /\ host.pc = "effect" => host.n # stream.up[i].n
          /\ \A j \in DOMAIN Down : Down[j].n # stream.up[i].n
          /\ \A t \in Tasks : task[t].pc = "lock" => task[t].n # stream.up[i].n
    /\ \A j \in DOMAIN Down :
          /\ host.pc = "effect" => host.n # Down[j].n
          /\ \A t \in Tasks : task[t].pc = "lock" => task[t].n # Down[j].n
    /\ host.pc = "effect" => \A t \in Tasks : task[t].pc = "lock" => task[t].n # host.n
    /\ \A i, j \in DOMAIN Down :
          Down[i].kind = "tool" /\ Down[j].kind = "tool" /\ Down[i].n = Down[j].n => i = j

(* The call that goroutine holding the sink waits for.                     *)
Awaited(m) == \E t \in Tasks : srv.mu = t /\ task[t].n = m

(* While the sink is usable, the only tool call under way is the one that  *)
(* waits: an earlier one that was given up would have made it fail.        *)
ToolInv ==
    ~srv.failed /\ srv.parked = 0 /\ srv.st = "run" =>
        /\ \A i \in DOMAIN stream.up : stream.up[i].kind = "Tool" => Awaited(stream.up[i].n)
        /\ host.pc = "effect" /\ calls[host.n].kind = "Tool" => Awaited(host.n)
        /\ \A j \in DOMAIN Down : Down[j].kind = "tool" => Awaited(Down[j].n)

Committed(n) == Recorded(IF calls[n].kind = "Emit" THEN "emit" ELSE "result", n)

(* Some events of the execution never reached the controller.              *)
Lost ==
    /\ ~stream.live /\ stream.end = "error"
    /\ \A i \in DOMAIN stream.up : stream.up[i].kind # "COMPLETED"

(* What a call was told is true, but for an event that is under way or lost.*)
ToldInv ==
    /\ RepliesAnswerTheirCall
    /\ \A n \in Numbers :
          /\ told[n].how # None => n \in DOMAIN calls
          /\ told[n].how = "ok" =>
                \/ Committed(n)
                \/ wired /\ Lost
                \/ wired /\ \E i \in DOMAIN stream.up : stream.up[i].kind = "Emit" /\ stream.up[i].n = n
          /\ told[n].how = "park" /\ ~wired => guard.stop = "park"
    /\ ran = "park" /\ ~wired => guard.stop = "park"

(* What ClientHarness.Run, or the harness's own Run, has returned.         *)
OutInv ==
    /\ wired /\ host.out = "nil" =>
          /\ ran = "nil" /\ ~srv.failed /\ srv.parked = 0 /\ srv.st = "returned"
          /\ guard.stop = None
          /\ \A n \in Numbers : told[n].how = "ok" => Committed(n)
    /\ wired /\ host.out = "park" =>
          /\ ran \in {"nil", "park"} /\ srv.st = "returned"
          /\ srv.parked \in Numbers /\ Recorded("request", srv.parked)
    /\ ~wired /\ host.pc \in {"run", "close"} => host.out = None
    /\ ~wired /\ host.pc = "closing" => host.out = ran
    /\ ~wired /\ host.pc = "over" =>
          /\ guard.stop = None => host.out = ran
          /\ host.out = "park" => ran \in {"nil", "park"} /\ guard.stop = "park"
    /\ host.pc \in {"recv", "effect", "acked", "closed"} => host.out = None

IInv ==
    /\ TypeOK /\ TaskInv /\ PhaseInv /\ GuardInv /\ JournalInv
    /\ EventInv /\ FrameInv /\ PlaceInv /\ ToolInv /\ ToldInv /\ OutInv

-----------------------------------------------------------------------------
(* What is recorded stays recorded.                                        *)
LEMMA RecordedStays ==
    ASSUME TypeOK, NEW rec \in Records, journal' = Append(journal, rec)
    PROVE  /\ journal' \in Seq(Records) /\ Len(journal') = Len(journal) + 1
           /\ DOMAIN journal' = 1..(Len(journal) + 1)
           /\ \A i \in DOMAIN journal : journal'[i] = journal[i] /\ i \in DOMAIN journal'
           /\ journal'[Len(journal) + 1] = rec
           /\ \A what, n : Recorded(what, n) => Recorded(what, n)'
           /\ \A what, n : Record(what, n) = rec => Recorded(what, n)'
<1>1. journal \in Seq(Records)
    BY DEF TypeOK
<1>2. /\ journal' \in Seq(Records) /\ Len(journal') = Len(journal) + 1
      /\ DOMAIN journal' = 1..(Len(journal) + 1) /\ DOMAIN journal = 1..Len(journal)
      /\ journal'[Len(journal) + 1] = rec /\ Len(journal) \in Nat
      /\ \A i \in DOMAIN journal : journal'[i] = journal[i] /\ i \in DOMAIN journal'
    BY <1>1
<1>3. Len(journal) + 1 \in DOMAIN journal'
    BY <1>2
<1> QED
    BY <1>2, <1>3 DEF Recorded, Record

(* An execution begins with nothing under way.                             *)
LEMMA InitIInv == Init => IInv
<1> SUFFICES ASSUME Init PROVE IInv
    OBVIOUS
<1> USE DEF Init
<1>1. TypeOK
    BY StreamAssumption DEF TypeOK, Numbers, Events, Frames, Records, TaskType, CallType, ToldType,
                            SinkType, ResultType, StreamType, GuardType, HostType
<1>2. Down = <<>>
    BY DEF Down
<1>3. TaskInv /\ PhaseInv /\ GuardInv
    BY StreamAssumption DEF TaskInv, PhaseInv, GuardInv
<1>4. JournalInv /\ EventInv /\ FrameInv /\ PlaceInv /\ ToolInv
    BY <1>2, StreamAssumption DEF JournalInv, EventInv, FrameInv, PlaceInv, ToolInv
<1>5. ToldInv /\ OutInv
    BY StreamAssumption DEF ToldInv, OutInv, RepliesAnswerTheirCall
<1> QED
    BY <1>1, <1>3, <1>4, <1>5 DEF IInv

(* The context of a call matters to no part of the invariant.              *)
LEMMA QuietStep ==
    ASSUME IInv, UNCHANGED <<wired, task, calls, told, ran, srv, results, stream, guard, host, journal>>
    PROVE  IInv'
<1> USE DEF IInv
<1>1. Down' = Down /\ Lost' = Lost
    BY DEF Down, Lost
<1>2. TypeOK' /\ TaskInv' /\ PhaseInv' /\ GuardInv'
    BY DEF TypeOK, TaskInv, PhaseInv, GuardInv
<1>3. JournalInv' /\ EventInv'
    BY DEF JournalInv, EventInv, Recorded
<1>4. FrameInv' /\ PlaceInv'
    BY <1>1 DEF FrameInv, PlaceInv, Recorded, ReplyID
<1>5. ToolInv'
    BY <1>1 DEF ToolInv, Awaited
<1>6. ToldInv' /\ OutInv'
    BY <1>1 DEF ToldInv, OutInv, Committed, Recorded, RepliesAnswerTheirCall
<1> QED
    BY <1>2, <1>3, <1>4, <1>5, <1>6

(* The numbers of the calls that are under way.                            *)
LEMMA TaskNumber ==
    ASSUME TypeOK, TaskInv, NEW t \in Tasks, task[t].pc # "idle"
    PROVE  /\ task[t].n \in DOMAIN calls /\ task[t].n \in Numbers /\ task[t].n \in 1..Len(calls)
           /\ calls[task[t].n].by = t
           /\ calls[task[t].n].kind \in Kinds
           /\ \A u \in Tasks : u # t /\ task[u].pc # "idle" => task[u].n # task[t].n
<1>1. /\ task[t].n \in DOMAIN calls /\ calls[task[t].n].by = t
      /\ \A u \in Tasks : task[u].pc # "idle" => calls[task[u].n].by = u
    BY DEF TaskInv
<1>2. DOMAIN calls = 1..Len(calls) /\ Len(calls) \in Nat /\ Len(calls) <= MaxCalls
    BY DEF TypeOK
<1>3. calls[task[t].n].kind \in Kinds
  <2>1. calls \in Seq(CallType)
      BY DEF TypeOK
  <2>2. calls[task[t].n] \in CallType
      BY <2>1, <1>1, <1>2, ElementOfSeq
  <2> QED
      BY <2>2 DEF CallType
<1> QED
    BY <1>1, <1>2, <1>3, StreamAssumption DEF Numbers

(* What the return of a call changes at the harness.                       *)
LEMMA ToldEffect ==
    ASSUME TypeOK, TaskInv, NEW t \in Tasks, task[t].pc # "idle",
           NEW how \in {"ok", "err", "park"}, NEW of \in Nat, Told(t, how, of)
    PROVE  /\ task' \in TaskType
           /\ task'[t].pc = "idle"
           /\ \A u \in Tasks : u # t => task'[u] = task[u]
           /\ told' \in ToldType
           /\ told'[task[t].n].how = how /\ told'[task[t].n].of = of
           /\ \A n \in Numbers : n # task[t].n => told'[n] = told[n]
           /\ wired' = wired /\ calls' = calls /\ ran' = ran
<1>1. task[t].n \in Numbers
    BY TaskNumber
<1> QED
    BY <1>1 DEF Told, TypeOK, TaskType, ToldType

(* A call that is refused changes nothing but what it was told.            *)
LEMMA RefusedKeeps ==
    ASSUME IInv, NEW t \in Tasks, task[t].pc = "lock", NEW how \in {"err", "park"}, Told(t, how, 0),
           how = "park" /\ ~wired => guard.stop = "park",
           UNCHANGED <<srv, results, stream, guard, host, journal>>
    PROVE  IInv'
<1> USE DEF IInv
<1>1. /\ task' \in TaskType
      /\ task'[t].pc = "idle"
      /\ \A u \in Tasks : u # t => task'[u] = task[u]
      /\ told' \in ToldType
      /\ told'[task[t].n].how = how
      /\ \A n \in Numbers : n # task[t].n => told'[n] = told[n]
      /\ wired' = wired /\ calls' = calls /\ ran' = ran
    BY ToldEffect
<1>2. Down' = Down /\ Lost' = Lost /\ task[t].n \in DOMAIN calls
    BY TaskNumber DEF Down, Lost
<1>3. TypeOK'
    BY <1>1 DEF TypeOK
<1>4. TaskInv'
    BY <1>1 DEF TaskInv
<1>5. PhaseInv' /\ GuardInv'
    BY <1>1 DEF PhaseInv, GuardInv
<1>6. JournalInv' /\ EventInv'
    BY <1>1 DEF JournalInv, EventInv, Recorded
<1>7. FrameInv'
    BY <1>1, <1>2 DEF FrameInv, Recorded, ReplyID
<1>8. PlaceInv'
    BY <1>1, <1>2 DEF PlaceInv
<1>9. ToolInv'
    BY <1>1, <1>2 DEF ToolInv, Awaited, TaskInv
<1>10. \A n \in Numbers : told'[n].how = "ok" => told[n].how = "ok" /\ told'[n].of = told[n].of
    BY <1>1
<1>11. ToldInv'
  <2>1. \A n : Committed(n)' <=> Committed(n)
      BY <1>1 DEF Committed, Recorded
  <2> QED
      BY <2>1, <1>1, <1>2, <1>10 DEF ToldInv, RepliesAnswerTheirCall
<1>12. OutInv'
    BY <1>1, <1>2, <1>10 DEF OutInv, Committed, Recorded
<1> QED
    BY <1>3, <1>4, <1>5, <1>6, <1>7, <1>8, <1>9, <1>11, <1>12

(* A new call has a number that nothing carries.                           *)
LEMMA CallStep ==
    ASSUME IInv, NEW t \in Tasks, Call(t)
    PROVE  IInv'
<1> USE DEF IInv
<1>1. PICK kind \in Kinds : calls' = Append(calls, [kind |-> kind, by |-> t])
    BY StreamAssumption DEF Call
<1>2. /\ task' = [task EXCEPT ![t] = [pc |-> "lock", n |-> Len(calls) + 1]]
      /\ task[t].pc = "idle" /\ Len(calls) < MaxCalls
      /\ UNCHANGED <<wired, told, ran, srv, results, stream, guard, host, journal>>
    BY DEF Call
<1>3. /\ calls' \in Seq(CallType) /\ Len(calls') = Len(calls) + 1
      /\ DOMAIN calls = 1..Len(calls) /\ DOMAIN calls' = 1..(Len(calls) + 1) /\ Len(calls) \in Nat
      /\ \A n \in DOMAIN calls : n \in DOMAIN calls' /\ calls'[n] = calls[n] /\ n # Len(calls) + 1
      /\ calls'[Len(calls) + 1].by = t
    BY <1>1 DEF TypeOK, CallType
<1>4. /\ task'[t].pc = "lock" /\ task'[t].n = Len(calls) + 1
      /\ \A u \in Tasks : u # t => task'[u] = task[u]
    BY <1>2 DEF TypeOK, TaskType
<1>5. Down' = Down /\ Lost' = Lost
    BY <1>2 DEF Down, Lost
<1>6. TypeOK'
    BY <1>2, <1>3, StreamAssumption DEF TypeOK, TaskType
<1>7. TaskInv'
  <2>1. Len(calls) + 1 \in DOMAIN calls' /\ srv.mu # t /\ guard.mu # t
      BY <1>2, <1>3 DEF TaskInv
  <2> QED
      BY <2>1, <1>2, <1>3, <1>4 DEF TaskInv
<1>8. PhaseInv' /\ GuardInv' /\ JournalInv'
    BY <1>2 DEF PhaseInv, GuardInv, JournalInv, Recorded
<1>9. EventInv'
    BY <1>2, <1>3 DEF EventInv, Recorded
<1>10. FrameInv'
    BY <1>2, <1>3, <1>5 DEF FrameInv, Recorded, ReplyID
<1>11. PlaceInv'
  <2>1. /\ \A i \in DOMAIN stream.up : stream.up[i].kind \in Kinds => stream.up[i].n # Len(calls) + 1
        /\ \A i \in DOMAIN Down : Down[i].n # Len(calls) + 1
        /\ host.pc = "effect" => host.n # Len(calls) + 1
      BY <1>3 DEF EventInv, FrameInv
  <2> QED
      BY <2>1, <1>2, <1>4, <1>5 DEF PlaceInv
<1>12. ToolInv'
  <2>1. \A m : Awaited(m) => Awaited(m)'
      BY <1>2, <1>4 DEF Awaited, TaskInv
  <2> QED
      BY <2>1, <1>2, <1>3, <1>5 DEF ToolInv, EventInv
<1>13. \A n \in Numbers : told[n].how = "ok" => (Committed(n)' <=> Committed(n))
    BY <1>2, <1>3, StreamAssumption DEF ToldInv, Committed, Recorded
<1>14. ToldInv'
    BY <1>2, <1>3, <1>5, <1>13 DEF ToldInv, RepliesAnswerTheirCall
<1>15. OutInv'
    BY <1>2, <1>13 DEF OutInv, Recorded
<1> QED
    BY <1>6, <1>7, <1>8, <1>9, <1>10, <1>11, <1>12, <1>14, <1>15

(* A goroutine that gives up waiting for the lock keeps the invariant.     *)
LEMMA GiveUpStep ==
    ASSUME IInv, NEW t \in Tasks, GiveUp(t)
    PROVE  IInv'
BY RefusedKeeps DEF GiveUp

(* The return of Run keeps the invariant.                                  *)
LEMMA ReturnStep == ASSUME IInv, Return PROVE IInv'
<1> USE DEF IInv
<1>1. PICK res \in {"nil", "err"} \cup {told[n].how : n \in {m \in Numbers : told[m].how = "park"}} :
          ran' = res
    BY DEF Return
<1>2. /\ ran = None /\ ran' \in {"nil", "err", "park"}
      /\ ran' = "park" => \E n \in Numbers : told[n].how = "park"
      /\ UNCHANGED <<wired, task, calls, told, results, stream, guard, journal>>
    BY <1>1 DEF Return
<1>3. Down' = Down /\ Lost' = Lost
    BY <1>2 DEF Down, Lost
<1>4. CASE wired
  <2>1. /\ srv' = [srv EXCEPT !.st = "closing"] /\ host' = host
        /\ srv.st = "run" /\ srv'.st = "closing" /\ srv'.mu = srv.mu /\ srv'.closed = srv.closed
        /\ srv'.failed = srv.failed /\ srv'.parked = srv.parked
      BY <1>2, <1>4 DEF Return, PhaseInv, TypeOK, SinkType
  <2>2. TypeOK' /\ TaskInv' /\ PhaseInv' /\ GuardInv' /\ JournalInv'
    <3>1. TypeOK'
        BY <1>2, <2>1 DEF TypeOK, SinkType
    <3>2. TaskInv' /\ PhaseInv'
        BY <1>2, <1>4, <2>1, StreamAssumption DEF TaskInv, PhaseInv
    <3>3. GuardInv' /\ JournalInv'
        BY <1>2, <2>1 DEF GuardInv, JournalInv, Recorded
    <3> QED
        BY <3>1, <3>2, <3>3
  <2>3. EventInv'
      BY <1>2, <2>1 DEF EventInv, Recorded, Kinds
  <2>4. FrameInv' /\ PlaceInv' /\ ToolInv'
      BY <1>2, <1>3, <2>1 DEF FrameInv, PlaceInv, ToolInv, Recorded, ReplyID
  <2>5. ToldInv'
      BY <1>2, <1>3, <1>4, <2>1 DEF ToldInv, RepliesAnswerTheirCall, Committed, Recorded
  <2>6. OutInv'
      BY <1>2, <1>4, <2>1 DEF OutInv
  <2> QED
      BY <2>2, <2>3, <2>4, <2>5, <2>6
<1>5. CASE ~wired
  <2>1. /\ host' = [host EXCEPT !.pc = "close"] /\ srv' = srv
        /\ host.pc = "run" /\ host'.pc = "close" /\ host'.n = host.n /\ host'.out = host.out
      BY <1>2, <1>5 DEF Return, PhaseInv, TypeOK, HostType
  <2>2. TypeOK' /\ TaskInv' /\ PhaseInv' /\ GuardInv' /\ JournalInv'
    <3>1. TypeOK'
        BY <1>2, <2>1 DEF TypeOK, HostType
    <3>2. TaskInv' /\ PhaseInv'
        BY <1>2, <1>5, <2>1, StreamAssumption DEF TaskInv, PhaseInv
    <3>3. GuardInv' /\ JournalInv'
        BY <1>2, <2>1 DEF GuardInv, JournalInv, Recorded
    <3> QED
        BY <3>1, <3>2, <3>3
  <2>3. EventInv'
      BY <1>2, <1>5, <2>1 DEF EventInv, Recorded, PhaseInv, Kinds
  <2>4. FrameInv' /\ PlaceInv'
      BY <1>2, <1>3, <2>1 DEF FrameInv, PlaceInv, Recorded, ReplyID
  <2>5. ToolInv'
      BY <1>2, <1>3, <2>1 DEF ToolInv, Awaited
  <2>6. ToldInv'
      BY <1>2, <1>3, <1>5, <2>1 DEF ToldInv, RepliesAnswerTheirCall, Committed, Recorded
  <2>7. OutInv'
      BY <1>2, <1>5, <2>1 DEF OutInv
  <2> QED
      BY <2>2, <2>3, <2>4, <2>5, <2>6, <2>7
<1> QED
    BY <1>4, <1>5

(* A sink that accepts a call is usable.                                   *)
LEMMA UsableSink ==
    ASSUME NEW n, SinkError(n) = None
    PROVE  srv.parked = 0 /\ ~srv.failed /\ srv.st = "run"
BY StreamAssumption DEF SinkError
-----------------------------------------------------------------------------
(* The stream with one more event.                                         *)
LEMMA Pushed ==
    ASSUME TypeOK, NEW e \in Events, stream' = [stream EXCEPT !.up = Append(@, e)]
    PROVE  /\ stream' \in StreamType
           /\ stream'.live = stream.live /\ stream'.end = stream.end /\ stream'.down = stream.down
           /\ Len(stream.up) \in Nat /\ Len(stream'.up) = Len(stream.up) + 1
           /\ DOMAIN stream.up = 1..Len(stream.up) /\ DOMAIN stream'.up = 1..(Len(stream.up) + 1)
           /\ \A i \in DOMAIN stream.up : i \in DOMAIN stream'.up /\ stream'.up[i] = stream.up[i]
           /\ Len(stream.up) + 1 \in DOMAIN stream'.up /\ stream'.up[Len(stream.up) + 1] = e
<1>1. stream \in StreamType
    BY DEF TypeOK
<1>2. /\ stream'.up = Append(stream.up, e) /\ stream.up \in Seq(Events)
      /\ stream'.live = stream.live /\ stream'.end = stream.end /\ stream'.down = stream.down
    BY <1>1 DEF StreamType
<1>3. /\ stream'.up \in Seq(Events)
      /\ Len(stream.up) \in Nat /\ Len(stream'.up) = Len(stream.up) + 1
      /\ DOMAIN stream.up = 1..Len(stream.up) /\ DOMAIN stream'.up = 1..(Len(stream.up) + 1)
      /\ \A i \in DOMAIN stream.up : i \in DOMAIN stream'.up /\ stream'.up[i] = stream.up[i]
      /\ Len(stream.up) + 1 \in DOMAIN stream'.up /\ stream'.up[Len(stream.up) + 1] = e
    BY <1>2
<1>4. stream' \in StreamType
    BY <1>1, <1>3 DEF StreamType
<1> QED
    BY <1>2, <1>3, <1>4

(* A call that the sink sends on: an Emit is over, another waits under the *)
(* lock for its reply.                                                     *)
LEMMA SentKeeps ==
    ASSUME IInv, NEW t \in Tasks, wired, task[t].pc = "lock", srv.mu = None,
           SinkError(task[t].n) = None, stream.live,
           stream' = [stream EXCEPT !.up = Append(@, [kind |-> calls[task[t].n].kind,
                 n |-> task[t].n])],
           IF calls[task[t].n].kind = "Emit"
           THEN Told(t, "ok", task[t].n) /\ srv' = srv
           ELSE /\ srv' = [srv EXCEPT !.mu = t]
                /\ task' = [task EXCEPT ![t].pc = "await"]
                /\ UNCHANGED <<wired, calls, told, ran>>,
           UNCHANGED <<results, guard, host, journal>>
    PROVE  IInv'
<1> USE DEF IInv
<1>0. PICK n : n = task[t].n
    OBVIOUS
<1> DEFINE e == [kind |-> calls[n].kind, n |-> n]
           last == Len(stream.up) + 1
<1>1. /\ n \in DOMAIN calls /\ n \in Numbers /\ calls[n].by = t /\ calls[n].kind \in Kinds /\ n \in Nat
      /\ \A u \in Tasks : u # t /\ task[u].pc # "idle" => task[u].n # n
    BY <1>0, TaskNumber DEF TypeOK, TaskType
<1>2. e \in Events
    BY <1>1 DEF Events
<1>3. /\ stream' \in StreamType
      /\ stream'.live = stream.live /\ stream'.end = stream.end /\ stream'.down = stream.down
      /\ Len(stream.up) \in Nat /\ Len(stream'.up) = last
      /\ DOMAIN stream.up = 1..Len(stream.up) /\ DOMAIN stream'.up = 1..last
      /\ \A i \in DOMAIN stream.up : i \in DOMAIN stream'.up /\ stream'.up[i] = stream.up[i]
      /\ last \in DOMAIN stream'.up /\ stream'.up[last] = e
    BY <1>0, <1>2, Pushed
<1>4. /\ srv.parked = 0 /\ ~srv.failed /\ srv.st = "run"
      /\ srv' \in SinkType /\ srv'.parked = srv.parked /\ srv'.failed = srv.failed
      /\ srv'.st = srv.st /\ srv'.closed = srv.closed
      /\ srv'.mu = IF calls[n].kind = "Emit" THEN None ELSE t
    BY <1>0, UsableSink DEF TypeOK, SinkType
<1>5. /\ task' \in TaskType
      /\ \A u \in Tasks : u # t => task'[u] = task[u]
      /\ task'[t].pc = IF calls[n].kind = "Emit" THEN "idle" ELSE "await"
      /\ calls[n].kind # "Emit" => task'[t].n = n
      /\ wired' = wired /\ calls' = calls /\ ran' = ran
      /\ told' \in ToldType
      /\ \A m \in Numbers : m # n => told'[m] = told[m]
      /\ told'[n].how = "ok" => told[n].how = "ok" \/ calls[n].kind = "Emit"
      /\ calls[n].kind = "Emit" => told'[n].how = "ok" /\ told'[n].of = n
      /\ calls[n].kind # "Emit" => told' = told
  <2>1. CASE calls[n].kind = "Emit"
      BY ZenonT(40), <2>1, <1>0, <1>1, ToldEffect
  <2>2. CASE calls[n].kind # "Emit"
    <3>1. task' = [task EXCEPT ![t].pc = "await"] /\ UNCHANGED <<wired, calls, told, ran>>
        BY <2>2, <1>0
    <3>2. task \in TaskType /\ told \in ToldType
        BY DEF TypeOK
    <3>3. /\ task' \in TaskType
          /\ \A u \in Tasks : u # t => task'[u] = task[u]
          /\ task'[t].pc = "await" /\ task'[t].n = n
        BY <3>1, <3>2, <1>0 DEF TaskType
    <3> QED
        BY <2>2, <3>1, <3>2, <3>3
  <2> QED
      BY <2>1, <2>2
<1> HIDE DEF e, last
<1>6. Down' = Down /\ host.pc # "closed" /\ \A i \in DOMAIN stream.up : stream.up[i].kind \in Kinds
    BY <1>3, <1>4 DEF Down, EventInv
<1>7. ~Lost /\ \A w, m : Recorded(w, m)' <=> Recorded(w, m)
    BY DEF Lost, Recorded
<1>8. TypeOK'
    BY <1>3, <1>4, <1>5 DEF TypeOK
<1>9. TaskInv'
    BY <1>0, <1>1, <1>4, <1>5, StreamAssumption DEF TaskInv
<1>10. PhaseInv' /\ GuardInv' /\ JournalInv'
    BY <1>3, <1>4, <1>5, <1>7 DEF PhaseInv, GuardInv, JournalInv
<1>11. EventInv'
  <2>1. ~(stream.end = "eof" /\ host.pc \in {"recv", "effect", "acked"})
    <3>1. stream.up # <<>> => Len(stream.up) \in DOMAIN stream.up
        BY DEF TypeOK, StreamType
    <3> QED
        BY <3>1, <1>6 DEF EventInv, Kinds
  <2>2. ASSUME NEW i \in DOMAIN stream'.up
        PROVE  /\ stream'.up[i].kind \in Kinds /\ stream'.up[i].n \in DOMAIN calls
               /\ calls[stream'.up[i].n].kind = stream'.up[i].kind
    <3>1. CASE i = last
        BY <3>1, <1>1, <1>3 DEF e
    <3>2. CASE i # last
        BY <3>2, <1>3, <1>6 DEF EventInv, last
    <3> QED
        BY <3>1, <3>2
  <2> QED
      BY <2>1, <2>2, <1>3, <1>5, <1>6, <1>7 DEF EventInv, Kinds
<1>12. FrameInv'
    BY <1>5, <1>6, <1>7 DEF FrameInv, ReplyID
<1>13. PlaceInv'
  <2>1. \A i \in DOMAIN stream.up : stream.up[i].n # n
      BY <1>0, <1>6 DEF PlaceInv
  <2>2. /\ \A j \in DOMAIN Down : Down[j].n # n
        /\ host.pc = "effect" => host.n # n
      BY <1>0 DEF PlaceInv
  <2>3. \A u \in Tasks : task'[u].pc = "lock" => task'[u] = task[u] /\ task[u].n # n
      BY <1>1, <1>5
  <2>4. \A i \in DOMAIN stream'.up : i # last => i \in DOMAIN stream.up /\ stream'.up[i] = stream.up[i]
      BY <1>3 DEF last
  <2>5. stream'.up[last].n = n
      BY <1>3 DEF e
  <2>6. \A i, j \in DOMAIN stream'.up : stream'.up[i].n = stream'.up[j].n => i = j
      BY <2>1, <2>4, <2>5, <1>6 DEF PlaceInv
  <2> QED
      BY <2>2, <2>3, <2>4, <2>5, <2>6, <1>6 DEF PlaceInv
<1>14. ToolInv'
  <2>1. \A m : ~Awaited(m)
      BY StreamAssumption DEF Awaited
  <2>2. /\ \A i \in DOMAIN stream.up : stream.up[i].kind # "Tool"
        /\ host.pc = "effect" => calls[host.n].kind # "Tool"
        /\ \A j \in DOMAIN Down : Down[j].kind # "tool"
      BY <1>4, <2>1 DEF ToolInv
  <2>3. calls[n].kind = "Tool" => Awaited(n)'
      BY <1>4, <1>5 DEF Awaited
  <2>4. \A i \in DOMAIN stream'.up : stream'.up[i].kind = "Tool" => i = last /\ stream'.up[i] = e
      BY <2>2, <1>3 DEF last
  <2> QED
      BY <2>2, <2>3, <2>4, <1>5, <1>6 DEF ToolInv, e
<1>15. ToldInv'
  <2>1. \A m : Committed(m)' <=> Committed(m)
      BY <1>5, <1>7 DEF Committed
  <2>2. calls[n].kind = "Emit" =>
            \E i \in DOMAIN stream'.up : stream'.up[i].kind = "Emit" /\ stream'.up[i].n = n
      BY <1>3 DEF e
  <2>3. ASSUME NEW m \in Numbers
        PROVE  /\ told'[m].how = "ok" => told'[m].of = m
               /\ told'[m].how # None => m \in DOMAIN calls
               /\ told'[m].how = "ok" =>
                    Committed(m)
                    \/ \E i \in DOMAIN stream'.up : stream'.up[i].kind = "Emit" /\ stream'.up[i].n = m
    <3>1. CASE m = n /\ calls[n].kind = "Emit"
        BY <3>1, <2>2, <1>1, <1>5
    <3>2. CASE m # n \/ calls[n].kind # "Emit"
        BY <3>2, <1>3, <1>5, <1>7 DEF ToldInv, RepliesAnswerTheirCall
    <3> QED
        BY <3>1, <3>2
  <2> QED
      BY <2>1, <2>3, <1>5 DEF ToldInv, RepliesAnswerTheirCall
<1>16. OutInv'
    BY <1>4, <1>5 DEF OutInv
<1> QED
    BY <1>8, <1>9, <1>10, <1>11, <1>12, <1>13, <1>14, <1>15, <1>16

(* A step of the sink behind a stream that takes the lock.                 *)
LEMMA SendStep ==
    ASSUME IInv, NEW t \in Tasks, Send(t)
    PROVE  IInv'
<1> USE DEF IInv
<1> DEFINE err == SinkError(task[t].n)
<1>1. CASE err # None \/ ~stream.live
  <2>1. Told(t, Outcome(err), 0) /\ UNCHANGED <<srv, results, stream, guard, host, journal>>
      BY <1>1 DEF Send
  <2>2. Outcome(err) \in {"err", "park"} /\ wired /\ task[t].pc = "lock"
      BY DEF Outcome, Send
  <2> QED
      BY <2>1, <2>2, RefusedKeeps
<1>2. CASE err = None /\ stream.live
    BY <1>2, SentKeeps DEF Send
<1> QED
    BY <1>1, <1>2 DEF TypeOK, StreamType

-----------------------------------------------------------------------------
(* The reply that is taken is the oldest one, and the others stay.         *)
LEMMA Popped ==
    ASSUME TypeOK, results.buf # <<>>, results' = [results EXCEPT !.buf = <<>>], stream' = stream
    PROVE  /\ results' \in ResultType /\ Len(results'.buf) <= 1
           /\ 1 \in DOMAIN Down /\ Down[1] = Head(results.buf) /\ Down[1] \in Frames
           /\ \A j \in DOMAIN Down' : j + 1 \in DOMAIN Down /\ Down'[j] = Down[j + 1] /\ j + 1 # 1 /\ j \in Nat
<1>1. /\ results.buf \in Seq(Frames) /\ stream.down \in Seq(Frames) /\ Len(results.buf) <= 1
      /\ results'.buf = <<>> /\ results' \in ResultType
  <2>1. results \in ResultType /\ stream \in StreamType /\ Len(results.buf) <= 1
      BY DEF TypeOK
  <2>2. <<>> \in Seq(Frames)
      OBVIOUS
  <2> QED
      BY <2>1, <2>2 DEF ResultType, StreamType
<1>2. /\ Len(results.buf) = 1 /\ Len(results'.buf) = 0 /\ Head(results.buf) = results.buf[1]
      /\ results.buf[1] \in Frames
  <2>1. Len(results.buf) \in Nat /\ Len(results.buf) # 0
      BY <1>1, EmptySeq
  <2>2. \A k \in Nat : k <= 1 /\ k # 0 => k = 1
      OBVIOUS
  <2>3. Len(results.buf) = 1
      BY <2>1, <2>2, <1>1
  <2> QED
      BY <2>3, <1>1, ElementOfSeq
<1>3. /\ Down \in Seq(Frames) /\ Len(Down) = Len(stream.down) + 1 /\ Down[1] = results.buf[1]
      /\ \A j \in 1..Len(stream.down) : Down[j + 1] = stream.down[j]
  <2>1. /\ Down \in Seq(Frames) /\ Len(Down) = Len(results.buf) + Len(stream.down)
        /\ \A i \in 1..(Len(results.buf) + Len(stream.down)) :
               Down[i] = IF i <= Len(results.buf) THEN results.buf[i] ELSE stream.down[i - Len(results.buf)]
      BY <1>1, ConcatProperties DEF Down
  <2>2. Len(stream.down) \in Nat
      BY <1>1
  <2> QED
    <3>1. Len(Down) = Len(stream.down) + 1 /\ Down[1] = results.buf[1]
        BY <2>1, <2>2, <1>2
    <3>2. ASSUME NEW j \in 1..Len(stream.down) PROVE Down[j + 1] = stream.down[j]
      <4>1. j + 1 \in 1..(1 + Len(stream.down)) /\ ~(j + 1 <= 1) /\ (j + 1) - 1 = j
          BY <2>2
      <4> QED
          BY <4>1, <2>1, <1>2
    <3> QED
        BY <2>1, <3>1, <3>2
<1>4. Down' = stream.down
    BY <1>1, ConcatEmptySeq DEF Down
<1>5. /\ DOMAIN Down = 1..(Len(stream.down) + 1) /\ DOMAIN Down' = 1..Len(stream.down)
      /\ Len(stream.down) \in Nat
    BY <1>1, <1>3, <1>4
<1> QED
    BY <1>1, <1>2, <1>3, <1>4, <1>5

(* A call that ends behind the stream while the handler is there.          *)
LEMMA EndedCallKeeps ==
    ASSUME IInv, NEW t \in Tasks, wired, task[t].pc # "idle", srv.st # "returned",
           NEW how \in {"ok", "err", "park"}, NEW of \in Nat, Told(t, how, of),
           srv.mu \in {t, None}, srv' \in SinkType, srv'.st = srv.st, srv'.closed = srv.closed,
                 srv'.mu = None,
           results' \in ResultType, Len(results'.buf) <= 1,
           \/ Down' = Down
           \/ \A j \in DOMAIN Down' : j + 1 \in DOMAIN Down /\ Down'[j] = Down[j + 1] /\ j \in Nat,
           how = "ok" => of = task[t].n /\ Committed(task[t].n),
           ToolInv', UNCHANGED <<stream, guard, host, journal>>
    PROVE  IInv'
<1> USE DEF IInv
<1>1. /\ task' \in TaskType /\ task'[t].pc = "idle"
      /\ \A u \in Tasks : u # t => task'[u] = task[u]
      /\ told' \in ToldType
      /\ told'[task[t].n].how = how /\ told'[task[t].n].of = of
      /\ \A n \in Numbers : n # task[t].n => told'[n] = told[n]
      /\ wired' = wired /\ calls' = calls /\ ran' = ran
    BY ToldEffect
<1>2. task[t].n \in DOMAIN calls /\ task[t].pc # "effect"
    BY TaskNumber DEF TaskInv
<1>3. Lost' = Lost /\ \A w, m : Recorded(w, m)' <=> Recorded(w, m)
    BY DEF Lost, Recorded
<1>4. \A m : Committed(m)' <=> Committed(m)
    BY <1>1, <1>3 DEF Committed
<1>5. TypeOK'
    BY <1>1 DEF TypeOK
<1>6. TaskInv'
  <2>1. \A u \in Tasks : u # t => srv.mu # u
      BY StreamAssumption
  <2> QED
      BY <1>1, <1>2, <2>1, StreamAssumption DEF TaskInv
<1>7. PhaseInv' /\ GuardInv' /\ JournalInv'
    BY <1>1, <1>3 DEF PhaseInv, GuardInv, JournalInv
<1>8. EventInv'
    BY <1>1, <1>3 DEF EventInv, Kinds
<1>9. FrameInv'
    BY <1>1, <1>3 DEF FrameInv, ReplyID
<1>10. \A u \in Tasks : task'[u].pc = "lock" => task'[u] = task[u]
    BY <1>1
<1>11. PlaceInv'
  <2>1. CASE Down' = Down
      BY <2>1, <1>10 DEF PlaceInv
  <2>2. CASE \A j \in DOMAIN Down' : j + 1 \in DOMAIN Down /\ Down'[j] = Down[j + 1] /\ j \in Nat
    <3>1. \A i, j \in DOMAIN Down' : i + 1 = j + 1 => i = j
        BY <2>2
    <3> QED
        BY <2>2, <3>1, <1>10 DEF PlaceInv
  <2> QED
      BY <2>1, <2>2
<1>12. ToldInv'
    BY <1>1, <1>2, <1>3, <1>4 DEF ToldInv, RepliesAnswerTheirCall
<1>13. OutInv'
    BY <1>1 DEF OutInv
<1> QED
    BY <1>5, <1>6, <1>7, <1>8, <1>9, <1>11, <1>12, <1>13

(* A refused report leaves a sink that no call can use.                    *)
LEMMA RefuseReportStep ==
    ASSUME IInv, NEW t \in Tasks, RefuseReport(t)
    PROVE  IInv'
<1> USE DEF IInv
<1>1. /\ wired /\ task[t].pc = "lock" /\ srv.mu = None /\ SinkError(task[t].n) = None
      /\ srv' = [srv EXCEPT !.failed = TRUE] /\ Told(t, "err", 0)
      /\ UNCHANGED <<results, stream, guard, host, journal>>
    BY DEF RefuseReport
<1>2. /\ srv.st = "run" /\ srv' \in SinkType /\ srv'.st = srv.st /\ srv'.closed = srv.closed
      /\ srv'.mu = None /\ srv'.failed
    BY <1>1, UsableSink DEF TypeOK, SinkType
<1>3. ToolInv' /\ Down' = Down
    BY <1>1, <1>2 DEF ToolInv, Down
<1> QED
    BY <1>1, <1>2, <1>3, EndedCallKeeps DEF TypeOK

(* No tool call is under way while a usable sink waits for another kind.   *)
LEMMA NoToolCall ==
    ASSUME IInv, NEW t \in Tasks, srv.mu = t, ~srv.failed, srv.parked = 0, srv.st = "run",
           calls[task[t].n].kind # "Tool"
    PROVE  /\ \A i \in DOMAIN stream.up : stream.up[i].kind # "Tool"
           /\ host.pc = "effect" => calls[host.n].kind # "Tool"
           /\ \A j \in DOMAIN Down : Down[j].kind # "tool"
<1>1. \A m : Awaited(m) => m = task[t].n
    BY DEF Awaited
<1> QED
    BY <1>1 DEF IInv, ToolInv, EventInv, FrameInv, Kinds

(* A failed call: a tool call's error is sticky.                           *)
LEMMA FailedKeeps ==
    ASSUME IInv, NEW t \in Tasks, task[t].pc \in {"await", "receipt"},
           srv' = Failed(task[t].n, SinkError(task[t].n)), Told(t, "err", 0),
           results' \in ResultType, Len(results'.buf) <= 1,
           \/ Down' = Down
           \/ \A j \in DOMAIN Down' : j + 1 \in DOMAIN Down /\ Down'[j] = Down[j + 1] /\ j \in Nat,
           UNCHANGED <<stream, guard, host, journal>>
    PROVE  IInv'
<1> USE DEF IInv
<1> DEFINE err == SinkError(task[t].n)
<1>1. /\ srv.mu = t /\ wired /\ srv.st # "returned" /\ ~srv.closed
    BY StreamAssumption DEF TaskInv, PhaseInv
<1>2. /\ srv' \in SinkType /\ srv'.st = srv.st /\ srv'.closed = srv.closed /\ srv'.mu = None
      /\ srv'.parked = srv.parked
      /\ srv'.failed <=> (srv.failed \/ (calls[task[t].n].kind # "Model" /\ err # "closed"))
    BY DEF Failed, TypeOK, SinkType
<1>3. err = "closed" => srv.st # "run"
    BY <1>1, StreamAssumption DEF SinkError
<1>4. ToolInv'
  <2>1. CASE srv'.failed \/ srv'.parked # 0 \/ srv'.st # "run"
      BY <2>1 DEF ToolInv
  <2>2. CASE ~srv'.failed /\ srv'.parked = 0 /\ srv'.st = "run"
    <3>1. calls[task[t].n].kind # "Tool" /\ calls' = calls
        BY <2>2, <1>2, <1>3 DEF Told
    <3>2. /\ \A i \in DOMAIN stream.up : stream.up[i].kind # "Tool"
          /\ host.pc = "effect" => calls[host.n].kind # "Tool"
          /\ \A j \in DOMAIN Down : Down[j].kind # "tool"
        BY <2>2, <3>1, <1>1, <1>2, NoToolCall
    <3> QED
        BY <3>1, <3>2 DEF ToolInv
  <2> QED
      BY <2>1, <2>2
<1> HIDE DEF err
<1> QED
    BY <1>1, <1>2, <1>4, EndedCallKeeps

(* A call that ends without a reply keeps the invariant.                   *)
LEMMA AwaitNothingStep ==
    ASSUME IInv, NEW t \in Tasks, AwaitNothing(t)
    PROVE  IInv'
<1>1. Down' = Down /\ results' = results /\ results \in ResultType /\ Len(results.buf) <= 1
    BY DEF AwaitNothing, Down, IInv, TypeOK
<1> QED
    BY <1>1, FailedKeeps DEF AwaitNothing

(* The reply a usable sink takes for its call's is the answer to that call.*)
LEMMA OwnReply ==
    ASSUME IInv, NEW t \in Tasks, srv.mu = t, ~srv.failed, srv.parked = 0, srv.st = "run",
           1 \in DOMAIN Down, Correlates(Down[1], task[t].n), Down[1].kind \notin {"park", "approval"}
    PROVE  /\ Down[1].n = task[t].n /\ Recorded("result", task[t].n)
           /\ Committed(task[t].n)
<1> USE DEF IInv
<1> DEFINE f == Down[1]
           n == task[t].n
<1>1. /\ f.n \in DOMAIN calls /\ f.id = ReplyID(f.n) /\ Recorded("result", f.n)
    BY DEF FrameInv
<1>2. /\ n \in Numbers /\ calls[n].kind # "Emit" /\ f.id = ReplyID(n) /\ n # 0
  <2>1. task[t].pc \in {"await", "receipt"}
      BY DEF TaskInv
  <2> QED
      BY <2>1, TaskNumber DEF TaskInv, Correlates, Numbers
<1>3. f.n = n
  <2>1. CASE calls[n].kind = "Tool"
    <3>1. f.kind = "tool"
        BY <2>1 DEF Correlates
    <3> QED
        BY <3>1 DEF ToolInv, Awaited
  <2>2. CASE calls[n].kind # "Tool"
      BY <2>2, <1>1, <1>2 DEF ReplyID
  <2> QED
      BY <2>1, <2>2
<1> QED
    BY <1>1, <1>2, <1>3 DEF Committed

(* The answer to a call reaches it, and no other tool call is under way.   *)
LEMMA AnsweredKeeps ==
    ASSUME IInv, NEW t \in Tasks, task[t].pc \in {"await", "receipt"}, results.buf # <<>>,
           results' = [results EXCEPT !.buf = <<>>], SinkError(task[t].n) = None,
           Correlates(Down[1], task[t].n), Down[1].kind \notin {"park", "approval"},
           srv' = [srv EXCEPT !.mu = None], Told(t, "ok", Down[1].n),
           UNCHANGED <<stream, guard, host, journal>>
    PROVE  IInv'
<1> USE DEF IInv
<1>1. /\ srv.mu = t /\ wired /\ ~srv.failed /\ srv.parked = 0 /\ srv.st = "run" /\ calls' = calls
    BY UsableSink DEF TaskInv, Told
<1>2. /\ results' \in ResultType /\ Len(results'.buf) <= 1 /\ 1 \in DOMAIN Down /\ Down[1] \in Frames
      /\ \A j \in DOMAIN Down' : j + 1 \in DOMAIN Down /\ Down'[j] = Down[j + 1] /\ j + 1 # 1 /\ j \in Nat
    BY Popped
<1>3. Down[1].n = task[t].n /\ Committed(task[t].n) /\ Down[1].n \in Nat
    BY <1>1, <1>2, OwnReply DEF Frames
<1>4. /\ srv' \in SinkType /\ srv'.st = srv.st /\ srv'.closed = srv.closed /\ srv'.mu = None
    BY DEF TypeOK, SinkType
<1>5. /\ \A i \in DOMAIN stream.up : stream.up[i].kind # "Tool"
      /\ host.pc = "effect" => calls[host.n].kind # "Tool"
      /\ \A j \in DOMAIN Down : j # 1 => Down[j].kind # "tool"
  <2>1. CASE calls[task[t].n].kind # "Tool"
      BY <2>1, <1>1, NoToolCall
  <2>2. CASE calls[task[t].n].kind = "Tool"
    <3>1. \A m : Awaited(m) => m = Down[1].n
        BY <1>1, <1>3 DEF Awaited
    <3>2. Down[1].kind = "tool"
        BY <2>2 DEF Correlates
    <3>3. ASSUME NEW i \in DOMAIN stream.up PROVE stream.up[i].kind # "Tool"
        BY <3>1, <1>1, <1>2 DEF ToolInv, PlaceInv, Kinds
    <3>4. host.pc = "effect" => calls[host.n].kind # "Tool"
        BY <3>1, <1>1, <1>2 DEF ToolInv, PlaceInv
    <3>5. ASSUME NEW j \in DOMAIN Down, j # 1 PROVE Down[j].kind # "tool"
        BY <3>1, <3>2, <3>5, <1>1, <1>2 DEF ToolInv, PlaceInv
    <3> QED
        BY <3>3, <3>4, <3>5
  <2> QED
      BY <2>1, <2>2
<1>6. ToolInv'
    BY <1>1, <1>2, <1>5 DEF ToolInv
<1> QED
    BY <1>1, <1>2, <1>3, <1>4, <1>6, EndedCallKeeps

(* The sink takes a reply, and its call ends or, after an approval, waits  *)
(* for the receipt.                                                        *)
LEMMA AwaitFrameStep ==
    ASSUME IInv, NEW t \in Tasks, AwaitFrame(t)
    PROVE  IInv'
<1> USE DEF IInv
<1> DEFINE f == Head(results.buf)
           err == SinkError(task[t].n)
           expected == Correlates(f, task[t].n) /\ ((f.kind = "receipt") = (task[t].pc = "receipt"))
<1>1. /\ task[t].pc \in {"await", "receipt"} /\ results.buf # <<>>
      /\ results' = [results EXCEPT !.buf = <<>>]
      /\ UNCHANGED <<stream, guard, host, journal>>
    BY DEF AwaitFrame
<1>2. /\ results' \in ResultType /\ Len(results'.buf) <= 1 /\ 1 \in DOMAIN Down /\ f = Down[1]
      /\ \A j \in DOMAIN Down' : j + 1 \in DOMAIN Down /\ Down'[j] = Down[j + 1] /\ j + 1 # 1 /\ j \in Nat
    BY <1>1, Popped
<1>3. CASE err # None \/ ~expected
  <2>1. srv' = Failed(task[t].n, err) /\ Told(t, "err", 0)
      BY <1>3 DEF AwaitFrame
  <2> HIDE DEF f, expected
  <2> QED
      BY <2>1, <1>1, <1>2, FailedKeeps
<1>4. CASE err = None /\ expected /\ f.kind = "park"
  <2>1. srv' = [srv EXCEPT !.mu = None, !.parked = task[t].n] /\ Told(t, "park", 0)
      BY <1>4 DEF AwaitFrame
  <2>2. srv.mu = t /\ wired /\ srv.st = "run" /\ task[t].n \in Nat /\ task[t].n # 0
      BY <1>1, <1>4, UsableSink, TaskNumber DEF TaskInv, Numbers
  <2>3. /\ srv' \in SinkType /\ srv'.st = srv.st /\ srv'.closed = srv.closed /\ srv'.mu = None
        /\ srv'.parked # 0
      BY <2>1, <2>2 DEF TypeOK, SinkType
  <2>4. ToolInv'
      BY <2>3 DEF ToolInv
  <2> HIDE DEF f, expected, err
  <2> QED
      BY <2>1, <2>2, <2>3, <2>4, <1>1, <1>2, EndedCallKeeps
<1>5. CASE err = None /\ expected /\ f.kind = "approval"
  <2>1. /\ task' = [task EXCEPT ![t].pc = "receipt"]
        /\ UNCHANGED <<wired, calls, told, ran, srv>>
      BY <1>5 DEF AwaitFrame
  <2> HIDE DEF f, expected, err
  <2>2. /\ task' \in TaskType /\ task'[t].pc = "receipt" /\ task'[t].n = task[t].n
        /\ \A u \in Tasks : u # t => task'[u] = task[u]
      BY <2>1 DEF TypeOK, TaskType
  <2>3. Lost' = Lost /\ (\A w, m : Recorded(w, m)' <=> Recorded(w, m))
        /\ (\A m : Committed(m)' <=> Committed(m)) /\ (\A m : Awaited(m) => Awaited(m)')
      BY <1>1, <2>1, <2>2 DEF Lost, Recorded, Committed, Awaited
  <2>4. TypeOK' /\ TaskInv'
      BY <1>1, <1>2, <2>1, <2>2 DEF TypeOK, TaskInv
  <2>5. PhaseInv' /\ GuardInv' /\ JournalInv' /\ EventInv'
      BY <1>1, <2>1, <2>3 DEF PhaseInv, GuardInv, JournalInv, EventInv
  <2>6. FrameInv'
      BY <1>1, <1>2, <2>1, <2>3 DEF FrameInv, ReplyID
  <2>7. PlaceInv'
    <3>1. \A i, j \in DOMAIN Down' : i + 1 = j + 1 => i = j
        BY <1>2
    <3>2. \A u \in Tasks : task'[u].pc = "lock" => task'[u] = task[u]
        BY <2>2
    <3> QED
        BY <3>1, <3>2, <1>1, <1>2 DEF PlaceInv
  <2>8. ToolInv'
      BY <1>1, <1>2, <2>1, <2>3 DEF ToolInv
  <2>9. ToldInv' /\ OutInv'
      BY <1>1, <2>1, <2>3 DEF ToldInv, OutInv, RepliesAnswerTheirCall
  <2> QED
      BY <2>4, <2>5, <2>6, <2>7, <2>8, <2>9
<1>6. CASE err = None /\ expected /\ f.kind \notin {"park", "approval"}
  <2>1. srv' = [srv EXCEPT !.mu = None] /\ Told(t, "ok", f.n)
      BY <1>6 DEF AwaitFrame
  <2>2. Correlates(f, task[t].n)
      BY <1>6
  <2> HIDE DEF f, expected
  <2> QED
      BY <2>1, <2>2, <1>1, <1>2, <1>6, AnsweredKeeps
<1> QED
    BY <1>3, <1>4, <1>5, <1>6

-----------------------------------------------------------------------------
(* The handler.                                                            *)

(* Moving a reply from the stream to the channel keeps their order.        *)
LEMMA MovedDown ==
    ASSUME TypeOK, results.buf = <<>>, stream.down # <<>>,
           results' = [results EXCEPT !.buf = <<Head(stream.down)>>],
           stream' = [stream EXCEPT !.down = Tail(@)]
    PROVE  /\ Down' = Down /\ results' \in ResultType /\ Len(results'.buf) <= 1 /\ stream' \in StreamType
           /\ stream'.up = stream.up /\ stream'.live = stream.live /\ stream'.end = stream.end
<1>1. stream.down \in Seq(Frames) /\ stream \in StreamType /\ results \in ResultType
    BY DEF TypeOK, StreamType
<1>2. /\ Head(stream.down) \in Frames /\ Tail(stream.down) \in Seq(Frames)
      /\ <<Head(stream.down)>> \in Seq(Frames) /\ Len(<<Head(stream.down)>>) = 1
    BY <1>1
<1>3. /\ results'.buf = <<Head(stream.down)>> /\ results' \in ResultType
      /\ stream'.down = Tail(stream.down) /\ stream' \in StreamType
      /\ stream'.up = stream.up /\ stream'.live = stream.live /\ stream'.end = stream.end
    BY <1>1, <1>2 DEF ResultType, StreamType
<1>4. Down = stream.down
    BY <1>1, ConcatEmptySeq DEF Down
<1>5. <<Head(stream.down)>> \o Tail(stream.down) = stream.down
    BY <1>1
<1> QED
    BY <1>2, <1>3, <1>4, <1>5 DEF Down

(* receiveFrames keeps the invariant.                                      *)
LEMMA ReceiveStep ==
    ASSUME IInv, Receive \/ StopReceiving
    PROVE  IInv'
<1> USE DEF IInv
<1>1. /\ Down' = Down /\ results' \in ResultType /\ Len(results'.buf) <= 1 /\ stream' \in StreamType
      /\ stream'.up = stream.up /\ stream'.live = stream.live /\ stream'.end = stream.end
  <2>1. CASE Receive
      BY <2>1, MovedDown DEF Receive
  <2>2. CASE StopReceiving
      BY <2>2 DEF StopReceiving, TypeOK, ResultType, Down
  <2> QED
      BY <2>1, <2>2
<1>2. UNCHANGED <<wired, task, calls, told, ran, srv, guard, host, journal>>
    BY DEF Receive, StopReceiving, harness
<1>3. Lost' = Lost /\ (\A w, m : Recorded(w, m)' <=> Recorded(w, m))
    BY <1>1, <1>2 DEF Lost, Recorded
<1>4. TypeOK'
    BY <1>1, <1>2 DEF TypeOK
<1>5. TaskInv' /\ PhaseInv' /\ GuardInv' /\ JournalInv' /\ EventInv'
    BY <1>1, <1>2, <1>3 DEF TaskInv, PhaseInv, GuardInv, JournalInv, EventInv
<1>6. FrameInv' /\ PlaceInv'
    BY <1>1, <1>2, <1>3 DEF FrameInv, PlaceInv, ReplyID
<1>7. ToolInv'
    BY <1>1, <1>2 DEF ToolInv, Awaited
<1>8. ToldInv' /\ OutInv'
  <2>1. \A m : Committed(m)' <=> Committed(m)
      BY <1>2, <1>3 DEF Committed
  <2> QED
      BY <2>1, <1>1, <1>2, <1>3 DEF ToldInv, OutInv, RepliesAnswerTheirCall
<1> QED
    BY <1>4, <1>5, <1>6, <1>7, <1>8

(* The handler's last event is true of the sink it leaves.                 *)
LEMMA EndedIs ==
    ASSUME NEW res \in {"nil", "err", "park"}, NEW parked \in Nat, NEW failed \in BOOLEAN
    PROVE  LET e == Ended(res, parked, failed) IN
           /\ e.kind \in {None, "COMPLETED", "PARKED", "FAILED"} /\ e.n \in Nat
           /\ e.status \in {"eof", "error"}
           /\ e.kind = "COMPLETED" => res = "nil" /\ ~failed /\ parked = 0
           /\ e.kind = "PARKED" => res \in {"nil", "park"} /\ parked = e.n
           /\ e.status = "eof" => e.kind \in {"COMPLETED", "PARKED"}
BY StreamAssumption DEF Ended

(* The end of the handler keeps the invariant.                             *)
LEMMA FinishStep == ASSUME IInv, Finish PROVE IInv'
<1> USE DEF IInv
<1>1. PICK e : e = Ended(ran, srv.parked, srv.failed)
    OBVIOUS
<1>2. /\ srv.st = "closing" /\ srv.mu = None
      /\ srv' = [srv EXCEPT !.st = "returned", !.closed = TRUE]
      /\ stream' = IF ~stream.live THEN stream
                   ELSE [stream EXCEPT !.up = IF e.kind = None THEN @ ELSE Append(@,
                         [kind |-> e.kind, n |-> e.n]),
                                       !.end = e.status, !.live = FALSE]
      /\ UNCHANGED <<wired, task, calls, told, ran, results, guard, host, journal>>
    BY <1>1 DEF Finish, harness
<1>3. wired /\ ran \in {"nil", "err", "park"}
    BY <1>2 DEF PhaseInv, TypeOK
<1>4. /\ e.kind \in {None, "COMPLETED", "PARKED", "FAILED"} /\ e.n \in Nat /\ e.status \in {"eof",
            "error"}
      /\ e.kind = "COMPLETED" => ran = "nil" /\ ~srv.failed /\ srv.parked = 0
      /\ e.kind = "PARKED" => ran \in {"nil", "park"} /\ srv.parked = e.n
      /\ e.status = "eof" => e.kind \in {"COMPLETED", "PARKED"}
  <2>1. srv.parked \in Nat /\ srv.failed \in BOOLEAN
      BY DEF TypeOK, SinkType
  <2> QED
      BY <2>1, <1>1, <1>3, EndedIs
<1>5. /\ srv' \in SinkType /\ srv'.st = "returned" /\ srv'.closed /\ srv'.mu = None
      /\ srv'.parked = srv.parked /\ srv'.failed = srv.failed
    BY <1>2 DEF TypeOK, SinkType
<1>6. /\ stream' \in StreamType /\ stream'.down = stream.down /\ ~stream'.live
      /\ \A i \in DOMAIN stream.up : i \in DOMAIN stream'.up /\ stream'.up[i] = stream.up[i]
      /\ stream'.end = "eof" => (stream.end = "eof" /\ stream'.up = stream.up) \/ stream.live
      /\ stream.end = "error" /\ ~stream.live => stream' = stream
      /\ \/ stream'.up = stream.up /\ (stream'.end = stream.end \/ stream'.end # "eof")
         \/ /\ e.kind # None /\ Len(stream'.up) = Len(stream.up) + 1 /\ Len(stream.up) \in Nat
            /\ DOMAIN stream'.up = 1..(Len(stream.up) + 1) /\ DOMAIN stream.up = 1..Len(stream.up)
            /\ stream'.up[Len(stream.up) + 1] = [kind |-> e.kind, n |-> e.n]
            /\ stream'.end = e.status
  <2>0. /\ stream \in StreamType /\ stream.up \in Seq(Events) /\ stream.live \in BOOLEAN
        /\ stream.end \in {None, "eof", "error"}
      BY DEF TypeOK, StreamType
  <2>1. CASE ~stream.live
      BY <2>0, <2>1, <1>2
  <2>2. CASE stream.live /\ e.kind = None
    <3>1. stream' = [stream EXCEPT !.up = @, !.end = e.status, !.live = FALSE]
        BY <2>2, <1>2
    <3> QED
        BY <3>1, <2>0, <2>2, <1>4, StreamAssumption DEF StreamType
  <2>3. CASE stream.live /\ e.kind # None
    <3> DEFINE last == [kind |-> e.kind, n |-> e.n]
    <3>1. stream' = [stream EXCEPT !.up = Append(@, last), !.end = e.status, !.live = FALSE]
        BY <2>3, <1>2
    <3>2. last \in Events
        BY <2>3, <1>4 DEF Events
    <3> HIDE DEF last
    <3>3. /\ Append(stream.up, last) \in Seq(Events) /\ Len(Append(stream.up,
                last)) = Len(stream.up) + 1
          /\ Len(stream.up) \in Nat
          /\ DOMAIN Append(stream.up,
                last) = 1..(Len(stream.up) + 1) /\ DOMAIN stream.up = 1..Len(stream.up)
          /\ Append(stream.up, last)[Len(stream.up) + 1] = last
          /\ \A i \in DOMAIN stream.up : Append(stream.up, last)[i] = stream.up[i]
                                         /\ i \in DOMAIN Append(stream.up, last)
        BY <3>2, <2>0
    <3>4. /\ stream'.up = Append(stream.up, last) /\ stream'.down = stream.down /\ ~stream'.live
          /\ stream'.end = e.status /\ stream' \in StreamType
        BY <3>1, <3>3, <2>0, <1>4 DEF StreamType
    <3> QED
        BY <3>3, <3>4, <2>3 DEF last
  <2> QED
      BY <2>1, <2>2, <2>3, <2>0
<1>7. /\ Down' = Down /\ host.pc # "closed" /\ host.out \notin {"nil", "park"}
      /\ \A i \in DOMAIN stream.up : stream.up[i].kind \in Kinds
      /\ \A w, m : Recorded(w, m)' <=> Recorded(w, m)
    BY <1>2, <1>3, <1>6 DEF Down, EventInv, OutInv, Recorded
<1>8. TypeOK'
    BY <1>2, <1>5, <1>6 DEF TypeOK
<1>9. TaskInv' /\ PhaseInv' /\ GuardInv' /\ JournalInv'
    BY <1>2, <1>3, <1>5, <1>6, <1>7 DEF TaskInv, PhaseInv, GuardInv, JournalInv
<1>10. EventInv'
  <2>1. CASE stream'.up = stream.up /\ (stream'.end = stream.end \/ stream'.end # "eof")
      BY <2>1, <1>2, <1>5, <1>7 DEF EventInv, Kinds
  <2>2. CASE /\ e.kind # None /\ Len(stream'.up) = Len(stream.up) + 1 /\ Len(stream.up) \in Nat
             /\ DOMAIN stream'.up = 1..(Len(stream.up) + 1) /\ DOMAIN stream.up = 1..Len(stream.up)
             /\ stream'.up[Len(stream.up) + 1] = [kind |-> e.kind, n |-> e.n]
             /\ stream'.end = e.status
    <3>1. \A i \in DOMAIN stream'.up : i # Len(stream.up) + 1 =>
              i \in DOMAIN stream.up /\ stream'.up[i] = stream.up[i]
        BY <2>2, <1>6
    <3>2. stream'.up # <<>>
        BY <2>2
    <3> QED
        BY <3>1, <3>2, <2>2, <1>2, <1>4, <1>5, <1>7 DEF EventInv, Kinds
  <2> QED
      BY <2>1, <2>2, <1>6
<1>11. FrameInv'
    BY <1>2, <1>7 DEF FrameInv, ReplyID
<1>12. PlaceInv'
  <2>1. \A i \in DOMAIN stream'.up : stream'.up[i].kind \in Kinds =>
            i \in DOMAIN stream.up /\ stream'.up[i] = stream.up[i]
    <3>1. e.kind \notin Kinds \/ e.kind = None
        BY <1>4 DEF Kinds
    <3> QED
        BY <3>1, <1>6
  <2> QED
      BY <2>1, <1>2, <1>7 DEF PlaceInv
<1>13. ToolInv' /\ OutInv'
    BY <1>2, <1>3, <1>5, <1>7 DEF ToolInv, OutInv
<1>14. ToldInv'
  <2>1. Lost => Lost'
      BY <1>6 DEF Lost
  <2>2. \A m : Committed(m)' <=> Committed(m)
      BY <1>2, <1>7 DEF Committed
  <2> QED
      BY <2>1, <2>2, <1>2, <1>6 DEF ToldInv, RepliesAnswerTheirCall
<1> QED
    BY <1>8, <1>9, <1>10, <1>11, <1>12, <1>13, <1>14

(* What the receiver may have in its hand is the first reply, or none.     *)
LEMMA HandPrefix ==
    ASSUME TypeOK, NEW hand \in InHand
    PROVE  /\ hand \in Seq(Frames) /\ Len(hand) \in Nat /\ Len(hand) <= Len(stream.down)
           /\ \A j \in 1..Len(hand) : hand[j] = stream.down[j]
<1>1. stream.down \in Seq(Frames) /\ Len(stream.down) \in Nat
    BY DEF TypeOK, StreamType
<1>2. PICK k \in {0, 1} \cap 0..Len(stream.down) : hand = SubSeq(stream.down, 1, k)
    BY DEF InHand
<1>3. k \in Nat /\ k <= Len(stream.down)
    BY <1>1, <1>2
<1>4. \A j \in 1..k : j \in 1..Len(stream.down) /\ 1 + j - 1 = j
    BY <1>1, <1>3
<1> QED
    BY <1>1, <1>2, <1>3, <1>4

(* The replies that are left when those on the stream are lost.            *)
LEMMA CutDown ==
    ASSUME TypeOK, stream'.down \in InHand, results' = results
    PROVE  \A j \in DOMAIN Down' : j \in DOMAIN Down /\ Down'[j] = Down[j]
<1> DEFINE b == results.buf
           d == stream.down
           h == stream'.down
<1>1. /\ b \in Seq(Frames) /\ d \in Seq(Frames) /\ Down = b \o d /\ Down' = b \o h
      /\ Len(b) \in Nat /\ Len(d) \in Nat
    BY DEF TypeOK, ResultType, StreamType, Down
<1>2. /\ h \in Seq(Frames) /\ Len(h) \in Nat /\ Len(h) <= Len(d)
      /\ \A j \in 1..Len(h) : h[j] = d[j]
    BY HandPrefix
<1> HIDE DEF b, d, h
<1>3. /\ DOMAIN Down = 1..(Len(b) + Len(d)) /\ DOMAIN Down' = 1..(Len(b) + Len(h))
      /\ \A j \in 1..(Len(b) + Len(d)) : Down[j] = IF j <= Len(b) THEN b[j] ELSE d[j - Len(b)]
      /\ \A j \in 1..(Len(b) + Len(h)) : Down'[j] = IF j <= Len(b) THEN b[j] ELSE h[j - Len(b)]
    BY <1>1, <1>2, ConcatProperties
<1>4. \A j \in 1..(Len(b) + Len(h)) :
          j \in 1..(Len(b) + Len(d)) /\ (~(j <= Len(b)) => j - Len(b) \in 1..Len(h))
    BY <1>1, <1>2
<1> QED
    BY <1>2, <1>3, <1>4

(* A stream that breaks loses its last events and all replies not yet      *)
(* received.                                                               *)
LEMMA BreakStep == ASSUME IInv, Break PROVE IInv'
<1> USE DEF IInv
<1>1. /\ wired /\ UNCHANGED <<wired, task, calls, told, ran, srv, results, guard, host, journal>>
      /\ \E k \in 0..Len(stream.up), hand \in InHand :
           stream' = [stream EXCEPT !.up = SubSeq(@, 1, k), !.down = hand, !.live = FALSE,
                 !.end = "error"]
    BY DEF Break, harness
<1>2. PICK k \in 0..Len(stream.up), hand \in InHand :
           stream' = [stream EXCEPT !.up = SubSeq(@, 1, k), !.down = hand, !.live = FALSE,
                 !.end = "error"]
    BY <1>1
<1>3. /\ stream' \in StreamType /\ stream'.down = hand /\ ~stream'.live /\ stream'.end = "error"
      /\ Len(stream'.up) = k /\ DOMAIN stream'.up = 1..k /\ DOMAIN stream.up = 1..Len(stream.up)
      /\ \A i \in DOMAIN stream'.up : i \in DOMAIN stream.up /\ stream'.up[i] = stream.up[i]
  <2>1. stream \in StreamType /\ stream.up \in Seq(Events) /\ Len(stream.up) \in Nat
      BY DEF TypeOK, StreamType
  <2>2. /\ SubSeq(stream.up, 1, k) \in Seq(Events) /\ Len(SubSeq(stream.up, 1, k)) = k
        /\ \A i \in 1..k : SubSeq(stream.up, 1, k)[i] = stream.up[i]
    <3>1. \A i \in 1..k : i \in 1..Len(stream.up) /\ 1 + i - 1 = i
        BY <2>1
    <3> QED
        BY <2>1, <3>1
  <2>3. /\ stream'.up = SubSeq(stream.up, 1, k) /\ stream'.down = hand /\ ~stream'.live
        /\ stream'.end = "error"
      BY <2>1, <1>2 DEF StreamType
  <2>4. stream' \in StreamType
    <3>1. hand \in Seq(Frames)
        BY HandPrefix
    <3> QED
        BY <2>1, <2>2, <3>1, <1>2 DEF StreamType
  <2>5. \A i \in 1..k : i \in 1..Len(stream.up)
      BY <2>1
  <2> QED
      BY <2>1, <2>2, <2>3, <2>4, <2>5
<1>4. \A j \in DOMAIN Down' : j \in DOMAIN Down /\ Down'[j] = Down[j]
    BY <1>1, <1>3, CutDown
<1>5. (\A w, m : Recorded(w, m)' <=> Recorded(w, m)) /\ (\A m : Committed(m)' <=> Committed(m))
    BY <1>1 DEF Recorded, Committed
<1>6. TypeOK'
    BY <1>1, <1>3 DEF TypeOK
<1>7. TaskInv' /\ PhaseInv' /\ GuardInv' /\ JournalInv'
    BY <1>1, <1>3, <1>5 DEF TaskInv, PhaseInv, GuardInv, JournalInv
<1>8. \A i \in DOMAIN stream'.up : i = Len(stream.up) => i = Len(stream'.up)
    BY <1>3
<1>9. EventInv'
    BY <1>1, <1>3, <1>5, <1>8 DEF EventInv
<1>10. FrameInv'
    BY <1>1, <1>4, <1>5 DEF FrameInv, ReplyID
<1>11. PlaceInv'
    BY SMTT(30), <1>1, <1>3, <1>4 DEF PlaceInv
<1>12. ToolInv'
    BY <1>1, <1>3, <1>4 DEF ToolInv, Awaited
<1>13. ToldInv'
  <2>1. Lost => Lost'
      BY <1>3 DEF Lost
  <2>2. ASSUME NEW i \in DOMAIN stream.up, i \notin DOMAIN stream'.up PROVE Lost'
    <3>1. k < Len(stream.up)
        BY <2>2, <1>3
    <3>2. \A j \in DOMAIN stream'.up : stream.up[j].kind # "COMPLETED"
        BY <3>1, <1>3 DEF EventInv, Kinds
    <3> QED
        BY <3>2, <1>3 DEF Lost
  <2> QED
      BY <2>1, <2>2, <1>1, <1>3, <1>5 DEF ToldInv, RepliesAnswerTheirCall
<1>14. OutInv'
    BY <1>1, <1>5 DEF OutInv
<1> QED
    BY <1>6, <1>7, <1>9, <1>10, <1>11, <1>12, <1>13, <1>14

-----------------------------------------------------------------------------
(* ClientHarness.Run and the controller.                                   *)

(* ClientHarness.Run returns, after whatever its last effect recorded.     *)
LEMMA RunReturnsKeeps ==
    ASSUME IInv, host.pc \in {"recv", "effect", "acked", "closed"},
           NEW out \in {"nil", "err", "park"}, RunReturns(out),
           UNCHANGED <<wired, task, calls, told, ran, srv, results>>,
           guard' \in GuardType, guard'.mu = None, guard'.closed = guard.closed,
           journal' \in Seq(Records), \A w, m : Recorded(w, m) => Recorded(w, m)', JournalInv',
           out # "err" => UNCHANGED <<guard, journal>>,
           out = "nil" =>
              /\ ran = "nil" /\ ~srv.failed /\ srv.parked = 0 /\ srv.st = "returned" /\ guard.stop = None
              /\ \A n \in Numbers : told[n].how = "ok" => Committed(n),
           out = "park" =>
              /\ ran \in {"nil", "park"} /\ srv.st = "returned"
              /\ srv.parked \in Numbers /\ Recorded("request", srv.parked)
    PROVE  IInv'
<1> USE DEF IInv
<1>1. wired /\ guard.mu \notin Tasks
    BY DEF PhaseInv, TaskInv
<1>2. /\ host' \in HostType /\ host'.pc = "close" /\ host'.out = out
      /\ stream' \in StreamType /\ stream'.up = stream.up /\ stream'.down \in InHand
      /\ ~stream'.live /\ stream'.end = stream.end
  <2>1. host \in HostType /\ stream \in StreamType
      BY DEF TypeOK
  <2>2. PICK hand \in InHand : stream' = [stream EXCEPT !.live = FALSE, !.down = hand]
      BY DEF RunReturns
  <2>3. hand \in Seq(Frames)
      BY HandPrefix
  <2> QED
      BY <2>1, <2>2, <2>3 DEF RunReturns, HostType, StreamType
<1>3. \A j \in DOMAIN Down' : j \in DOMAIN Down /\ Down'[j] = Down[j]
    BY <1>2, CutDown
<1>4. \A m : Committed(m) => Committed(m)'
    BY DEF Committed
<1>5. TypeOK'
    BY <1>2 DEF TypeOK
<1>6. TaskInv'
    BY <1>1, StreamAssumption DEF TaskInv
<1>7. PhaseInv'
    BY <1>1, <1>2 DEF PhaseInv
<1>8. GuardInv'
    BY <1>2, StreamAssumption DEF GuardInv
<1>9. EventInv'
    BY <1>2 DEF EventInv
<1>10. FrameInv'
    BY <1>3 DEF FrameInv, ReplyID
<1>11. PlaceInv'
    BY <1>2, <1>3 DEF PlaceInv
<1>12. ToolInv'
    BY <1>2, <1>3 DEF ToolInv, Awaited
<1>13. ToldInv'
  <2>1. Lost => Lost'
      BY <1>2 DEF Lost
  <2> QED
      BY <2>1, <1>1, <1>2, <1>4 DEF ToldInv, RepliesAnswerTheirCall
<1>14. OutInv'
    BY <1>1, <1>2, <1>4 DEF OutInv
<1> QED
    BY <1>5, <1>6, <1>7, <1>8, <1>9, <1>10, <1>11, <1>12, <1>13, <1>14

(* Behind a stream nobody but the loop holds the guard.                    *)
LEMMA LoopGuard ==
    ASSUME TypeOK, TaskInv, PhaseInv, GuardInv, host.pc \in {"recv", "acked", "closed"}
    PROVE  wired /\ guard.mu = None
BY DEF TypeOK, GuardType, TaskInv, PhaseInv, GuardInv

(* The stream without its first event.                                     *)
LEMMA Taken ==
    ASSUME TypeOK, stream.up # <<>>, stream' = [stream EXCEPT !.up = Tail(@)]
    PROVE  /\ stream' \in StreamType
           /\ stream'.live = stream.live /\ stream'.end = stream.end /\ stream'.down = stream.down
           /\ 1 \in DOMAIN stream.up /\ Head(stream.up) = stream.up[1] /\ Len(stream.up) \in Nat
           /\ Len(stream'.up) = Len(stream.up) - 1 /\ DOMAIN stream.up = 1..Len(stream.up)
           /\ DOMAIN stream'.up = 1..(Len(stream.up) - 1)
           /\ \A i \in DOMAIN stream'.up :
                 i \in Nat /\ i + 1 \in DOMAIN stream.up /\ stream'.up[i] = stream.up[i + 1] /\ i + 1 # 1
           /\ \A i \in DOMAIN stream.up :
                 i # 1 => i - 1 \in DOMAIN stream'.up /\ stream'.up[i - 1] = stream.up[i]
<1>1. stream \in StreamType /\ stream.up \in Seq(Events)
    BY DEF TypeOK, StreamType
<1>2. /\ Len(stream.up) \in Nat /\ Len(stream.up) # 0 /\ Head(stream.up) = stream.up[1]
      /\ DOMAIN stream.up = 1..Len(stream.up)
    BY <1>1, EmptySeq
<1>3. /\ Tail(stream.up) \in Seq(Events) /\ Len(Tail(stream.up)) = Len(stream.up) - 1
      /\ DOMAIN Tail(stream.up) = 1..(Len(stream.up) - 1)
      /\ \A i \in 1..(Len(stream.up) - 1) : Tail(stream.up)[i] = stream.up[i + 1]
    BY <1>1, <1>2, HeadTailProperties
<1>4. /\ stream'.up = Tail(stream.up) /\ stream' \in StreamType
      /\ stream'.live = stream.live /\ stream'.end = stream.end /\ stream'.down = stream.down
    BY <1>1, <1>3 DEF StreamType
<1>5. /\ \A i \in 1..(Len(stream.up) - 1) : i \in Nat /\ i + 1 \in 1..Len(stream.up) /\ i + 1 # 1
      /\ \A i \in 1..Len(stream.up) :
            i # 1 => i - 1 \in 1..(Len(stream.up) - 1) /\ (i - 1) + 1 = i
      /\ 1 \in 1..Len(stream.up)
    BY <1>2
<1> QED
    BY <1>2, <1>3, <1>4, <1>5

(* The end of an execution without a last event is a failure.              *)
LEMMA RecvEndStep == ASSUME IInv, RecvEnd PROVE IInv'
<1> USE DEF IInv
<1>1. host.pc = "recv" /\ stream.up = <<>> /\ stream.end # None
      /\ RunReturns("err") /\ UNCHANGED <<wired, task, calls, told, ran, srv, results, guard, journal>>
    BY DEF RecvEnd, harness, EventInv
<1>2. guard.mu = None /\ guard \in GuardType /\ journal \in Seq(Records)
    BY <1>1, LoopGuard DEF TypeOK
<1>3. JournalInv' /\ \A w, m : Recorded(w, m) => Recorded(w, m)'
  <2>1. host'.pc = "close" /\ host'.out = "err"
      BY <1>1 DEF RunReturns, TypeOK, HostType
  <2> QED
      BY <1>1, <2>1 DEF JournalInv, Recorded
<1> QED
    BY <1>1, <1>2, <1>3, RunReturnsKeeps

(* The acknowledgement of a park keeps the invariant.                      *)
LEMMA AwaitAckStep == ASSUME IInv, AwaitAck PROVE IInv'
<1> USE DEF IInv
<1>1. host.pc = "acked" /\ UNCHANGED <<wired, task, calls, told, ran, srv, results, guard, journal>>
    BY DEF AwaitAck, harness
<1>2. guard.mu = None /\ guard \in GuardType /\ journal \in Seq(Records) /\ wired
    BY <1>1, LoopGuard DEF TypeOK
<1>3. (\A w, m : Recorded(w, m)' <=> Recorded(w, m)) /\ (\A m : Committed(m)' <=> Committed(m))
    BY <1>1 DEF Recorded, Committed
<1>4. CASE RunReturns("err")
  <2>1. host'.pc = "close" /\ host'.out = "err"
      BY <1>4 DEF RunReturns, TypeOK, HostType
  <2>2. JournalInv'
      BY <1>1, <1>3, <2>1 DEF JournalInv
  <2> QED
      BY <1>1, <1>2, <1>3, <1>4, <2>2, RunReturnsKeeps
<1>5. CASE /\ stream.up # <<>> /\ Head(stream.up) = [kind |-> "PARKED", n |-> host.n]
           /\ stream' = [stream EXCEPT !.up = Tail(@)] /\ host' = [host EXCEPT !.pc = "closed"]
  <2>1. /\ host' \in HostType /\ host'.pc = "closed" /\ host'.n = host.n /\ host'.out = host.out
      BY <1>5 DEF TypeOK, HostType
  <2>2. /\ stream' \in StreamType
        /\ stream'.live = stream.live /\ stream'.end = stream.end /\ stream'.down = stream.down
        /\ 1 \in DOMAIN stream.up /\ Head(stream.up) = stream.up[1]
        /\ \A i \in DOMAIN stream'.up :
              i \in Nat /\ i + 1 \in DOMAIN stream.up /\ stream'.up[i] = stream.up[i + 1] /\ i + 1 # 1
        /\ DOMAIN stream'.up = 1..(Len(stream.up) - 1) /\ DOMAIN stream.up = 1..Len(stream.up)
      BY <1>5, Taken
  <2>3. /\ srv.parked = host.n /\ ran \in {"nil", "park"} /\ srv.st = "returned" /\ Len(stream.up) = 1
    <3>1. stream.up[1].kind = "PARKED" /\ stream.up[1].n = host.n /\ "PARKED" \notin Kinds
        BY <1>5, <2>2 DEF Kinds
    <3> QED
        BY <2>2, <3>1 DEF EventInv
  <2>4. DOMAIN stream'.up = {} /\ stream.up[1].kind = "PARKED"
      BY <1>5, <2>2, <2>3
  <2>5. Down' = Down /\ (Lost => Lost')
      BY <1>1, <2>2, <2>4 DEF Down, Lost
  <2>6. TypeOK'
      BY <1>1, <2>1, <2>2 DEF TypeOK
  <2>7. TaskInv' /\ PhaseInv' /\ GuardInv'
      BY <1>1, <1>2, <2>1, <2>2 DEF TaskInv, PhaseInv, GuardInv
  <2>8. JournalInv'
      BY <1>1, <1>3, <2>1 DEF JournalInv
  <2>9. EventInv'
      BY <1>1, <1>3, <2>1, <2>3, <2>4 DEF EventInv
  <2>10. FrameInv' /\ PlaceInv'
      BY <1>1, <1>3, <2>1, <2>4, <2>5 DEF FrameInv, PlaceInv, ReplyID
  <2>11. ToolInv'
      BY <1>1, <2>3 DEF ToolInv
  <2>12. ToldInv'
    <3>1. \A i \in DOMAIN stream.up : stream.up[i].kind # "Emit"
        BY <2>2, <2>3, <2>4
    <3> QED
        BY <1>1, <1>2, <1>3, <2>5, <3>1 DEF ToldInv, RepliesAnswerTheirCall
  <2>13. OutInv'
      BY <1>1, <1>2, <1>3, <2>1 DEF OutInv
  <2> QED
      BY <2>6, <2>7, <2>8, <2>9, <2>10, <2>11, <2>12, <2>13
<1> QED
    BY <1>4, <1>5 DEF AwaitAck

(* The closure after an acknowledged park keeps the invariant.             *)
LEMMA AwaitClosureStep == ASSUME IInv, AwaitClosure PROVE IInv'
<1> USE DEF IInv
<1>1. /\ host.pc = "closed" /\ UNCHANGED <<wired, task, calls, told, ran, srv, results, guard, journal>>
      /\ \E out \in {"err", "park"} : RunReturns(out)
    BY DEF AwaitClosure, harness
<1>2. PICK out \in {"err", "park"} : RunReturns(out)
    BY <1>1
<1>3. guard.mu = None /\ guard \in GuardType /\ journal \in Seq(Records)
    BY <1>1, LoopGuard DEF TypeOK
<1>4. \A w, m : Recorded(w, m)' <=> Recorded(w, m)
    BY <1>1 DEF Recorded
<1>5. JournalInv'
  <2>1. host'.pc = "close" /\ host'.out = out
      BY <1>2 DEF RunReturns, TypeOK, HostType
  <2> QED
      BY <1>1, <1>4, <2>1 DEF JournalInv
<1>6. /\ ran \in {"nil", "park"} /\ srv.st = "returned"
      /\ srv.parked \in Numbers /\ Recorded("request", srv.parked)
    BY <1>1 DEF EventInv
<1> QED
    BY <1>1, <1>2, <1>3, <1>4, <1>5, <1>6, RunReturnsKeeps

(* Behind a stream a call's intent, or an Emit, is recorded.               *)
LEMMA BegunKeeps ==
    ASSUME IInv, host.pc = "recv", stream.up # <<>>, Head(stream.up).kind \in Kinds,
           BeginEffect(Loop, Head(stream.up).n), stream' = [stream EXCEPT !.up = Tail(@)],
           host' = [host EXCEPT !.n = Head(stream.up).n,
                       !.pc = IF Head(stream.up).kind = "Emit" THEN "recv" ELSE "effect"],
           UNCHANGED <<wired, task, calls, told, ran, srv, results>>
    PROVE  IInv'
<1> USE DEF IInv
<1>0. PICK e : e = stream.up[1]
    OBVIOUS
<1>1. /\ stream' \in StreamType
      /\ stream'.live = stream.live /\ stream'.end = stream.end /\ stream'.down = stream.down
      /\ 1 \in DOMAIN stream.up /\ Head(stream.up) = e /\ Len(stream.up) \in Nat
      /\ Len(stream'.up) = Len(stream.up) - 1 /\ DOMAIN stream.up = 1..Len(stream.up)
      /\ DOMAIN stream'.up = 1..(Len(stream.up) - 1)
      /\ \A i \in DOMAIN stream'.up :
            i \in Nat /\ i + 1 \in DOMAIN stream.up /\ stream'.up[i] = stream.up[i + 1] /\ i + 1 # 1
      /\ \A i \in DOMAIN stream.up :
            i # 1 => i - 1 \in DOMAIN stream'.up /\ stream'.up[i - 1] = stream.up[i]
    BY <1>0, Taken
<1>2. e.kind \in Kinds /\ e.n \in DOMAIN calls /\ calls[e.n].kind = e.kind /\ e.n \in Nat
    BY SMTT(30), <1>0, <1>1 DEF EventInv, TypeOK
<1>3. /\ host' \in HostType /\ host'.n = e.n /\ host'.out = host.out
      /\ host'.pc = IF e.kind = "Emit" THEN "recv" ELSE "effect"
    BY <1>1, <1>2 DEF TypeOK, HostType
<1>4. PICK rec : rec = Record(IF e.kind = "Emit" THEN "emit" ELSE "intent", e.n)
    OBVIOUS
<1>5. /\ rec \in Records /\ rec.what \in {"emit", "intent"}
      /\ journal' = Append(journal, rec)
      /\ guard' = [guard EXCEPT !.mu = IF e.kind = "Emit" THEN None ELSE Loop]
    BY <1>1, <1>2, <1>4 DEF Records, Record, BeginEffect
<1>6. /\ journal' \in Seq(Records) /\ Len(journal') = Len(journal) + 1
      /\ DOMAIN journal' = 1..(Len(journal) + 1)
      /\ \A i \in DOMAIN journal : journal'[i] = journal[i] /\ i \in DOMAIN journal'
      /\ journal'[Len(journal) + 1] = rec
      /\ \A what, n : Recorded(what, n) => Recorded(what, n)'
      /\ \A what, n : Record(what, n) = rec => Recorded(what, n)'
    BY <1>5, RecordedStays
<1>7. /\ guard' \in GuardType /\ guard'.closed = guard.closed /\ guard'.stop = guard.stop
      /\ guard'.mu = IF e.kind = "Emit" THEN None ELSE Loop
      /\ guard.mu = None /\ guard.stop = None /\ ~guard.closed /\ wired /\ host.out = None
    BY <1>5, LoopGuard DEF TypeOK, GuardType, GuardInv, OutInv
<1>8. Down' = Down /\ (Lost => Lost') /\ (\A m : Committed(m) => Committed(m)')
  <2>1. Lost => Lost'
      BY <1>1 DEF Lost
  <2> QED
      BY <2>1, <1>1, <1>6 DEF Down, Committed
<1>9. TypeOK'
    BY <1>1, <1>3, <1>6, <1>7 DEF TypeOK
<1>10. TaskInv' /\ PhaseInv' /\ GuardInv'
    BY <1>1, <1>3, <1>7, StreamAssumption DEF TaskInv, PhaseInv, GuardInv
<1>11. JournalInv'
  <2>1. \A i \in DOMAIN journal : journal[i].what \notin {"end", "error", "request"}
      BY <1>7, StreamAssumption DEF JournalInv
  <2>2. ASSUME NEW i \in DOMAIN journal' PROVE journal'[i].what \notin {"end", "error", "request"}
    <3>1. CASE i \in DOMAIN journal
        BY <3>1, <2>1, <1>6
    <3>2. CASE i = Len(journal) + 1
        BY <3>2, <1>5, <1>6
    <3> QED
        BY <3>1, <3>2, <1>6 DEF TypeOK
  <2> QED
      BY <2>2, <1>7, StreamAssumption DEF JournalInv
<1>12. EventInv'
  <2>1. ASSUME NEW i \in DOMAIN stream'.up PROVE i + 1 = Len(stream.up) <=> i = Len(stream'.up)
      BY <1>1
  <2>2. stream'.end = "eof" =>
          stream'.up # <<>> /\ stream'.up[Len(stream'.up)].kind \in {"COMPLETED", "PARKED"}
    <3>1. SUFFICES ASSUME stream'.end = "eof" PROVE Len(stream.up) # 1
      <4>1. Len(stream.up) # 1 => Len(stream.up) \in DOMAIN stream.up /\ Len(stream.up) - 1 = Len(stream'.up)
                                  /\ Len(stream'.up) # 0
          BY <1>1
      <4> QED
          BY <3>1, <4>1, <1>1 DEF EventInv
    <3> QED
        BY <3>1, <1>0, <1>1, <1>2 DEF EventInv, Kinds
  <2>3. ASSUME NEW i \in DOMAIN stream'.up
        PROVE  /\ stream'.up[i].kind \in Kinds => stream'.up[i].n \in DOMAIN calls
                                                  /\ calls[stream'.up[i].n].kind = stream'.up[i].kind
               /\ stream'.up[i].kind \notin Kinds => i = Len(stream'.up) /\ srv.st = "returned"
               /\ stream'.up[i].kind = "COMPLETED" => ran = "nil" /\ ~srv.failed /\ srv.parked = 0
               /\ stream'.up[i].kind = "PARKED" => ran \in {"nil",
                     "park"} /\ srv.parked = stream'.up[i].n
    <3>1. PICK k \in DOMAIN stream.up : k = i + 1 /\ stream'.up[i] = stream.up[k]
        BY <1>1
    <3>2. /\ stream.up[k].kind \in Kinds => stream.up[k].n \in DOMAIN calls
                                           /\ calls[stream.up[k].n].kind = stream.up[k].kind
          /\ stream.up[k].kind \notin Kinds => k = Len(stream.up) /\ srv.st = "returned"
          /\ stream.up[k].kind = "COMPLETED" => ran = "nil" /\ ~srv.failed /\ srv.parked = 0
          /\ stream.up[k].kind = "PARKED" => ran \in {"nil", "park"} /\ srv.parked = stream.up[k].n
        BY DEF EventInv
    <3> QED
        BY <2>1, <3>1, <3>2
  <2> QED
      BY <2>2, <2>3, <1>2, <1>3 DEF EventInv
<1>13. FrameInv'
    BY <1>6, <1>8 DEF FrameInv, ReplyID
<1>14. PlaceInv'
  <2>1. /\ \A i \in DOMAIN stream'.up : stream'.up[i].kind \in Kinds => stream'.up[i].n # e.n
        /\ \A j \in DOMAIN Down : Down[j].n # e.n
        /\ \A t \in Tasks : task[t].pc = "lock" => task[t].n # e.n
    <3>1. ASSUME NEW i \in DOMAIN stream'.up, stream'.up[i].kind \in Kinds PROVE stream'.up[i].n # e.n
      <4>1. PICK k \in DOMAIN stream.up : k = i + 1 /\ k # 1 /\ stream'.up[i] = stream.up[k]
          BY <1>1
      <4> QED
          BY <3>1, <4>1, <1>0, <1>1, <1>2 DEF PlaceInv
    <3>2. /\ \A j \in DOMAIN Down : Down[j].n # e.n
          /\ \A t \in Tasks : task[t].pc = "lock" => task[t].n # e.n
        BY <1>0, <1>1, <1>2 DEF PlaceInv
    <3> QED
        BY <3>1, <3>2
  <2>2. \A i, j \in DOMAIN stream'.up : i + 1 = j + 1 => i = j
      BY <1>1
  <2> QED
      BY SMTT(30), <2>1, <2>2, <1>1, <1>3, <1>8 DEF PlaceInv
<1>15. ToolInv'
    BY <1>0, <1>1, <1>2, <1>3, <1>8 DEF ToolInv, Awaited
<1>16. ToldInv'
  <2>1. ASSUME NEW i \in DOMAIN stream.up, NEW m, stream.up[i].kind = "Emit", stream.up[i].n = m
        PROVE  Committed(m)' \/ \E j \in DOMAIN stream'.up : stream'.up[j].kind = "Emit" /\ stream'.up[j].n = m
    <3>1. CASE i = 1
        BY <3>1, <2>1, <1>0, <1>2, <1>4, <1>6 DEF Committed
    <3>2. CASE i # 1
        BY ZenonT(40), <3>2, <2>1, <1>1
    <3> QED
        BY <3>1, <3>2
  <2> QED
      BY <2>1, <1>7, <1>8 DEF ToldInv, RepliesAnswerTheirCall
<1>17. OutInv'
    BY <1>3, <1>7, StreamAssumption DEF OutInv
<1> QED
    BY <1>9, <1>10, <1>11, <1>12, <1>13, <1>14, <1>15, <1>16, <1>17

(* ClientHarness.Run takes an event.                                       *)
LEMMA DispatchStep == ASSUME IInv, Dispatch PROVE IInv'
<1> USE DEF IInv
<1> DEFINE e == Head(stream.up)
<1>1. host.pc = "recv" /\ stream.up # <<>> /\ UNCHANGED <<wired, task, calls, told, ran, srv, results>>
    BY DEF Dispatch, harness
<1>2. /\ guard.mu = None /\ guard \in GuardType /\ journal \in Seq(Records) /\ wired
      /\ guard.stop = None
    BY <1>1, LoopGuard DEF TypeOK, GuardInv
<1>3. \A out : RunReturns(out) => host'.pc = "close" /\ host'.out = out
    BY DEF RunReturns, TypeOK, HostType
<1>4. \A i \in DOMAIN journal : journal[i].what \notin {"end", "error", "request"}
    BY <1>1, <1>2, StreamAssumption DEF JournalInv
<1>5. CASE e.kind \in Kinds /\ RunReturns("err") /\ (UNCHANGED <<guard,
                                  journal>> \/ ReportsGatedCall(e.n))
  <2>1. /\ guard' \in GuardType /\ guard'.mu = None /\ guard'.closed = guard.closed
        /\ guard'.stop # "park" /\ journal' = journal
      BY <1>2, <1>5, StreamAssumption DEF ReportsGatedCall, GuardType
  <2>2. JournalInv' /\ \A w, m : Recorded(w, m) => Recorded(w, m)'
      BY <2>1, <1>4 DEF JournalInv, Recorded
  <2> HIDE DEF e
  <2> QED
      BY <1>1, <1>2, <1>5, <2>1, <2>2, RunReturnsKeeps
<1>6. CASE e.kind \notin Kinds
  <2>1. UNCHANGED <<guard, journal>> /\ RunReturns(IF e.kind = "COMPLETED" THEN "nil" ELSE "err")
      BY <1>6 DEF Dispatch
  <2>2. JournalInv' /\ \A w, m : Recorded(w, m) => Recorded(w, m)'
      BY <2>1, <1>2, <1>4, StreamAssumption DEF JournalInv, Recorded
  <2>3. CASE e.kind = "COMPLETED"
    <3>1. /\ stream.up \in Seq(Events) /\ 1 \in DOMAIN stream.up /\ stream.up[1].kind = "COMPLETED"
          /\ DOMAIN stream.up = 1..Len(stream.up)
        BY <2>3, <1>1 DEF TypeOK, StreamType
    <3>2. /\ ran = "nil" /\ ~srv.failed /\ srv.parked = 0 /\ srv.st = "returned" /\ Len(stream.up) = 1
        BY <3>1 DEF EventInv, Kinds
    <3>3. ~Lost /\ \A i \in DOMAIN stream.up : stream.up[i].kind # "Emit"
        BY <3>1, <3>2 DEF Lost
    <3>4. \A n \in Numbers : told[n].how = "ok" => Committed(n)
        BY <3>3 DEF ToldInv
    <3>5. RunReturns("nil")
        BY <2>1, <2>3
    <3> HIDE DEF e
    <3> QED
        BY <1>1, <1>2, <2>1, <2>2, <3>2, <3>4, <3>5, RunReturnsKeeps
  <2>4. CASE e.kind # "COMPLETED"
    <3>1. RunReturns("err")
        BY <2>1, <2>4
    <3> HIDE DEF e
    <3> QED
        BY <1>1, <1>2, <2>1, <2>2, <3>1, RunReturnsKeeps
  <2> QED
      BY <2>3, <2>4
<1>7. CASE /\ e.kind \in Kinds /\ BeginEffect(Loop, e.n)
           /\ stream' = [stream EXCEPT !.up = Tail(@)]
           /\ host' = [host EXCEPT !.n = e.n, !.pc = IF e.kind = "Emit" THEN "recv" ELSE "effect"]
    BY <1>1, <1>7, BegunKeeps
<1> QED
    BY <1>5, <1>6, <1>7 DEF Dispatch

(* What the end of an effect leaves of the guard and of the journal.       *)
LEMMA EffectEnded ==
    ASSUME TypeOK, JournalInv, host.pc # "over", guard.stop = None, ~guard.closed,
           NEW n \in DOMAIN calls, NEW how \in {"ok", "err", "park"}, EffectEnds(n, how)
    PROVE  /\ guard' \in GuardType /\ guard'.mu = None /\ guard'.closed = guard.closed
           /\ guard'.stop = IF how # "ok" /\ calls[n].kind = "Gated" THEN how ELSE None
           /\ journal' \in Seq(Records)
           /\ \A w, m : Recorded(w, m) => Recorded(w, m)'
           /\ how = "park" => Recorded("request", n)' /\ guard'.stop = "park" /\ calls[n].kind = "Gated"
           /\ how = "ok" => Recorded("result", n)'
           /\ host'.pc # "over" => JournalInv'
<1>1. n \in Nat /\ n \in Numbers /\ journal \in Seq(Records) /\ guard \in GuardType
    BY StreamAssumption DEF TypeOK, Numbers
<1>2. /\ guard' \in GuardType /\ guard'.mu = None /\ guard'.closed = guard.closed
      /\ guard'.stop = IF how # "ok" /\ calls[n].kind = "Gated" THEN how ELSE None
    BY <1>1 DEF EffectEnds, GuardType
<1>3. \A i \in DOMAIN journal : journal[i].what \notin {"end", "error", "request"}
    BY StreamAssumption DEF JournalInv
<1>4. CASE how = "err"
  <2>1. journal' = journal
      BY <1>4 DEF EffectEnds
  <2>2. JournalInv' /\ \A w, m : Recorded(w, m) => Recorded(w, m)'
      BY <1>2, <1>3, <1>4, <2>1, StreamAssumption DEF JournalInv, Recorded
  <2> QED
      BY <1>1, <1>2, <1>4, <2>1, <2>2
<1>5. CASE how \in {"ok", "park"}
  <2>1. PICK rec : rec = Record(IF how = "ok" THEN "result" ELSE "request", n)
      OBVIOUS
  <2>2. /\ rec \in Records /\ rec.what = (IF how = "ok" THEN "result" ELSE "request")
        /\ journal' = Append(journal, rec) /\ (how = "park" => calls[n].kind = "Gated")
      BY <1>1, <1>5, <2>1 DEF Records, Record, EffectEnds
  <2>3. /\ journal' \in Seq(Records) /\ Len(journal') = Len(journal) + 1
        /\ DOMAIN journal' = 1..(Len(journal) + 1)
        /\ \A i \in DOMAIN journal : journal'[i] = journal[i] /\ i \in DOMAIN journal'
        /\ journal'[Len(journal) + 1] = rec
        /\ \A w, m : Recorded(w, m) => Recorded(w, m)'
        /\ \A w, m : Record(w, m) = rec => Recorded(w, m)'
      BY <2>2, RecordedStays
  <2>4. \A i \in DOMAIN journal' : i \in DOMAIN journal \/ i = Len(journal) + 1
      BY <1>1, <2>3
  <2>5. (how = "ok" => Recorded("result", n)') /\ (how = "park" => Recorded("request", n)')
      BY <2>1, <2>3
  <2>6. \A i \in DOMAIN journal' : journal'[i].what \in {"end", "error", "request"} =>
            i = Len(journal') /\ how = "park" /\ journal'[i].what = "request"
      BY <1>3, <1>5, <2>2, <2>3, <2>4
  <2>7. JournalInv'
      BY <1>1, <1>2, <1>5, <2>2, <2>5, <2>6, StreamAssumption DEF JournalInv
  <2> QED
      BY <1>2, <1>5, <2>2, <2>3, <2>5, <2>7
<1> QED
    BY <1>4, <1>5

(* The frames that answer a call carry its number.                         *)
LEMMA RepliesAre ==
    ASSUME TypeOK, NEW n \in DOMAIN calls, calls[n].kind # "Emit", NEW how \in {"ok", "park"}
    PROVE  /\ Replies(n, how) \in Seq(Frames)
           /\ \A i \in DOMAIN Replies(n, how) :
                 /\ Replies(n, how)[i].n = n /\ Replies(n, how)[i].id = ReplyID(n)
                 /\ Replies(n, how)[i].kind = "tool" => calls[n].kind = "Tool" /\ i = 1
                 /\ Replies(n, how)[i].kind # "park" => how = "ok"
<1>1. n \in Nat /\ ReplyID(n) \in Nat
    BY DEF TypeOK, ReplyID
<1>2. \A kind \in {"model", "tool", "park", "approval", "receipt"} :
          Frame(kind, n) \in Frames /\ Frame(kind, n).n = n /\ Frame(kind, n).id = ReplyID(n)
          /\ Frame(kind, n).kind = kind
    BY <1>1 DEF Frame, Frames
<1>3. CASE how = "park"
    BY <1>2, <1>3 DEF Replies
<1>4. CASE how = "ok" /\ calls[n].kind = "Model"
    BY <1>2, <1>4 DEF Replies
<1>5. CASE how = "ok" /\ calls[n].kind = "Tool"
    BY <1>2, <1>5 DEF Replies
<1>6. CASE how = "ok" /\ calls[n].kind \notin {"Model", "Tool"}
  <2>1. Replies(n, how) = <<Frame("approval", n), Frame("receipt", n)>>
      BY <1>6 DEF Replies
  <2>2. /\ Frame("approval", n) \in Frames /\ Frame("receipt", n) \in Frames
        /\ Frame("approval", n).kind = "approval" /\ Frame("receipt", n).kind = "receipt"
        /\ Frame("approval", n).n = n /\ Frame("receipt", n).n = n
        /\ Frame("approval", n).id = ReplyID(n) /\ Frame("receipt", n).id = ReplyID(n)
      BY <1>2
  <2>3. ASSUME NEW f \in Frames, NEW g \in Frames
        PROVE  /\ <<f, g>> \in Seq(Frames)
               /\ \A i \in DOMAIN <<f, g>> : <<f, g>>[i] = f \/ <<f, g>>[i] = g
      OBVIOUS
  <2>4. /\ Replies(n, how) \in Seq(Frames)
        /\ \A i \in DOMAIN Replies(n, how) :
              Replies(n, how)[i] = Frame("approval", n) \/ Replies(n, how)[i] = Frame("receipt", n)
      BY <2>1, <2>2, <2>3
  <2> QED
      BY <1>6, <2>2, <2>4
<1> QED
    BY <1>3, <1>4, <1>5, <1>6

(* Replies that are sent come after the ones on their way.                 *)
LEMMA Answered ==
    ASSUME TypeOK, NEW new \in Seq(Frames), results' = results, stream'.down = stream.down \o new
    PROVE  /\ Down \in Seq(Frames) /\ DOMAIN Down = 1..Len(Down) /\ Len(Down) \in Nat
           /\ \A j \in DOMAIN Down : j \in DOMAIN Down' /\ Down'[j] = Down[j]
           /\ \A j \in DOMAIN Down' :
                 \/ j \in DOMAIN Down /\ Down'[j] = Down[j]
                 \/ j - Len(Down) \in DOMAIN new /\ Down'[j] = new[j - Len(Down)] /\ j \in Nat
<1>1. results.buf \in Seq(Frames) /\ stream.down \in Seq(Frames)
    BY DEF TypeOK, ResultType, StreamType
<1>2. Down' = Down \o new /\ Down \in Seq(Frames)
  <2>1. Down \in Seq(Frames)
      BY <1>1, ConcatProperties DEF Down
  <2>2. Down' = results.buf \o (stream.down \o new)
      BY DEF Down
  <2>3. results.buf \o (stream.down \o new) = (results.buf \o stream.down) \o new
    <3>1. \A s, t, u \in Seq(Frames) : (s \o t) \o u = s \o (t \o u)
        BY ConcatAssociative
    <3> QED
        BY <1>1, <3>1, Zenon
  <2> QED
      BY <2>1, <2>2, <2>3 DEF Down
<1>3. /\ Len(Down \o new) = Len(Down) + Len(new) /\ Down \o new \in Seq(Frames)
      /\ \A i \in 1..(Len(Down) + Len(new)) :
             (Down \o new)[i] = IF i <= Len(Down) THEN Down[i] ELSE new[i - Len(Down)]
    BY <1>2, ConcatProperties
<1>4. /\ Len(Down) \in Nat /\ Len(new) \in Nat /\ DOMAIN Down = 1..Len(Down) /\ DOMAIN new = 1..Len(new)
      /\ DOMAIN Down' = 1..(Len(Down) + Len(new))
    BY <1>2, <1>3
<1>5. \A a, b \in Nat : /\ \A i \in 1..a : i \in 1..(a + b) /\ i <= a
                        /\ \A i \in 1..(a + b) : i \in Nat /\ (i <= a => i \in 1..a)
                                                 /\ (~(i <= a) => i - a \in 1..b)
    OBVIOUS
<1> HIDE DEF Down
<1> QED
    BY <1>2, <1>3, <1>4, <1>5

(* An answer goes out, and ClientHarness.Run goes on to the next event or  *)
(* to the acknowledgement of the park.                                     *)
LEMMA RepliedKeeps ==
    ASSUME IInv, host.pc = "effect", NEW how \in {"ok", "park"}, EffectEnds(host.n, how),
           stream' = [stream EXCEPT !.down = IF stream.live THEN @ \o Replies(host.n, how) ELSE @],
           host' = [host EXCEPT !.pc = IF how = "park" THEN "acked" ELSE "recv"],
           UNCHANGED <<wired, task, calls, told, ran, srv, results>>
    PROVE  IInv'
<1> USE DEF IInv
<1>0. PICK n : n = host.n
    OBVIOUS
<1>1. /\ n \in DOMAIN calls /\ calls[n].kind # "Emit" /\ wired /\ n \in Numbers
      /\ guard.mu = Loop /\ guard.stop = None /\ ~guard.closed /\ host.out = None
  <2>1. n \in DOMAIN calls /\ calls[n].kind # "Emit" /\ wired
      BY <1>0 DEF EventInv, PhaseInv
  <2>2. guard.mu = Loop /\ guard.stop = None /\ ~guard.closed /\ host.out = None
      BY DEF GuardInv, OutInv
  <2>3. n \in Numbers
      BY <2>1, StreamAssumption DEF TypeOK, Numbers
  <2> QED
      BY <2>1, <2>2, <2>3
<1>2. /\ host' \in HostType /\ host'.n = n /\ host'.out = host.out
      /\ host'.pc = IF how = "park" THEN "acked" ELSE "recv"
    BY <1>0 DEF TypeOK, HostType
<1>3. /\ guard' \in GuardType /\ guard'.mu = None /\ guard'.closed = guard.closed
      /\ guard'.stop = IF how # "ok" /\ calls[n].kind = "Gated" THEN how ELSE None
      /\ journal' \in Seq(Records)
      /\ \A w, m : Recorded(w, m) => Recorded(w, m)'
      /\ how = "park" => Recorded("request", n)' /\ guard'.stop = "park"
      /\ how = "ok" => Recorded("result", n)'
      /\ JournalInv'
    BY <1>0, <1>1, <1>2, EffectEnded
<1>4. PICK new : new = IF stream.live THEN Replies(n, how) ELSE <<>>
    OBVIOUS
<1>5. /\ new \in Seq(Frames)
       /\ \A i \in DOMAIN new : /\ new[i].n = n /\ new[i].id = ReplyID(n)
                                /\ new[i].kind = "tool" => calls[n].kind = "Tool" /\ i = 1
                                /\ new[i].kind # "park" => how = "ok"
  <2>1. CASE stream.live
      BY <2>1, <1>1, <1>4, RepliesAre
  <2>2. CASE ~stream.live
      BY <2>2, <1>4
  <2> QED
      BY <2>1, <2>2
<1>6. stream' = [stream EXCEPT !.down = @ \o new]
  <2>1. CASE stream.live
      BY <2>1, <1>0, <1>4
  <2>2. CASE ~stream.live
    <3>1. stream.down \o <<>> = stream.down
        BY ConcatEmptySeq DEF TypeOK, StreamType
    <3> QED
        BY <2>2, <3>1, <1>4
  <2> QED
      BY <2>1, <2>2
<1>7. /\ stream' \in StreamType /\ stream'.down = stream.down \o new
      /\ stream'.up = stream.up /\ stream'.live = stream.live /\ stream'.end = stream.end
  <2>1. stream \in StreamType /\ stream.down \in Seq(Frames)
      BY DEF TypeOK, StreamType
  <2>2. stream.down \o new \in Seq(Frames)
      BY <2>1, <1>5, ConcatProperties
  <2> QED
      BY <2>1, <2>2, <1>6 DEF StreamType
<1>8. /\ \A j \in DOMAIN Down' :
            \/ j \in DOMAIN Down /\ Down'[j] = Down[j]
            \/ j - Len(Down) \in DOMAIN new /\ Down'[j] = new[j - Len(Down)] /\ j \in Nat
      /\ Len(Down) \in Nat
    BY <1>5, <1>7, Answered
<1>9. \A j \in DOMAIN Down' :
          \/ j \in DOMAIN Down /\ Down'[j] = Down[j]
          \/ /\ Down'[j].n = n /\ Down'[j].id = ReplyID(n)
             /\ Down'[j].kind = "tool" => calls[n].kind = "Tool" /\ j = Len(Down) + 1
             /\ Down'[j].kind # "park" => how = "ok"
    BY <1>5, <1>8
<1>10. Lost' = Lost /\ \A m : Committed(m) => Committed(m)'
    BY <1>3, <1>7 DEF Lost, Committed
<1>11. TypeOK'
    BY <1>2, <1>3, <1>7 DEF TypeOK
<1>12. TaskInv'
    BY <1>1, <1>3, StreamAssumption DEF TaskInv
<1>13. PhaseInv' /\ GuardInv'
    BY <1>1, <1>2, <1>3, <1>7, StreamAssumption DEF PhaseInv, GuardInv
<1>14. EventInv'
    BY <1>1, <1>2, <1>3, <1>7 DEF EventInv
<1>15. FrameInv'
    BY <1>1, <1>3, <1>9 DEF FrameInv, ReplyID
<1>16. PlaceInv'
  <2>1. /\ \A i \in DOMAIN stream.up : stream.up[i].kind \in Kinds => stream.up[i].n # n
        /\ \A j \in DOMAIN Down : Down[j].n # n
        /\ \A t \in Tasks : task[t].pc = "lock" => task[t].n # n
      BY <1>0 DEF PlaceInv
  <2>2. \A j \in DOMAIN Down' : Down'[j].n # n => j \in DOMAIN Down /\ Down'[j] = Down[j]
      BY <1>9
  <2>3. \A i, j \in DOMAIN Down' :
            Down'[i].kind = "tool" /\ Down'[j].kind = "tool" /\ Down'[i].n = Down'[j].n => i = j
      BY <2>1, <1>9 DEF PlaceInv
  <2>4. \A i \in DOMAIN stream'.up : stream'.up[i].kind \in Kinds =>
            /\ \A j \in DOMAIN Down' : Down'[j].n # stream'.up[i].n
            /\ \A t \in Tasks : task[t].pc = "lock" => task[t].n # stream'.up[i].n
      BY <2>1, <2>2, <1>7 DEF PlaceInv
  <2>5. \A j \in DOMAIN Down' : \A t \in Tasks : task[t].pc = "lock" => task[t].n # Down'[j].n
      BY <2>1, <2>2 DEF PlaceInv
  <2> QED
      BY <2>3, <2>4, <2>5, <1>2, <1>7 DEF PlaceInv
<1>17. ToolInv'
  <2>1. \A m : Awaited(m)' <=> Awaited(m)
      BY DEF Awaited
  <2>2. ~srv.failed /\ srv.parked = 0 /\ srv.st = "run" /\ calls[n].kind = "Tool" => Awaited(n)
      BY <1>0 DEF ToolInv
  <2> QED
      BY <2>1, <2>2, <1>2, <1>7, <1>9 DEF ToolInv
<1>18. ToldInv'
    BY <1>1, <1>7, <1>10 DEF ToldInv, RepliesAnswerTheirCall
<1>19. OutInv'
    BY <1>1, <1>2, StreamAssumption DEF OutInv
<1> QED
    BY <1>3, <1>11, <1>12, <1>13, <1>14, <1>15, <1>16, <1>17, <1>18, <1>19

(* An effect behind the stream ends.                                       *)
LEMMA ReplyStep == ASSUME IInv, Reply PROVE IInv'
<1> USE DEF IInv
<1>1. /\ host.pc = "effect" /\ UNCHANGED <<wired, task, calls, told, ran, srv, results>>
      /\ \E how \in {"ok", "err", "park"} :
         /\ EffectEnds(host.n, how)
         /\ \/ RunReturns("err")
            \/ /\ how # "err"
               /\ stream' = [stream EXCEPT !.down = IF stream.live THEN @ \o Replies(host.n,
                     how) ELSE @]
               /\ host' = [host EXCEPT !.pc = IF how = "park" THEN "acked" ELSE "recv"]
    BY DEF Reply, harness
<1>2. PICK how \in {"ok", "err", "park"} :
         /\ EffectEnds(host.n, how)
         /\ \/ RunReturns("err")
            \/ /\ how # "err"
               /\ stream' = [stream EXCEPT !.down = IF stream.live THEN @ \o Replies(host.n,
                     how) ELSE @]
               /\ host' = [host EXCEPT !.pc = IF how = "park" THEN "acked" ELSE "recv"]
    BY <1>1
<1>3. CASE RunReturns("err")
  <2>1. host.n \in DOMAIN calls /\ guard.stop = None /\ ~guard.closed
      BY <1>1 DEF EventInv, GuardInv
  <2>2. host'.pc # "over"
      BY <1>3 DEF RunReturns, TypeOK, HostType
  <2>3. /\ guard' \in GuardType /\ guard'.mu = None /\ guard'.closed = guard.closed
        /\ journal' \in Seq(Records) /\ (\A w, m : Recorded(w, m) => Recorded(w, m)') /\ JournalInv'
      BY <1>1, <1>2, <2>1, <2>2, EffectEnded
  <2> QED
      BY <1>1, <1>3, <2>3, RunReturnsKeeps
<1>4. CASE ~RunReturns("err")
    BY <1>1, <1>2, <1>4, RepliedKeeps
<1> QED
    BY <1>3, <1>4

-----------------------------------------------------------------------------
(* The harness in the controller's process.                                *)

(* A call that ends under the guard, after whatever it recorded.           *)
LEMMA LocalEndKeeps ==
    ASSUME IInv, NEW t \in Tasks, ~wired, task[t].pc # "idle", guard.mu \in {t, None},
           ~guard.closed, guard.stop = None,
           NEW how \in {"ok", "err", "park"}, NEW of \in Nat, Told(t, how, of),
           how = "ok" => of = task[t].n /\ Recorded(IF calls[of].kind = "Emit" THEN "emit" ELSE "result", of)',
           how = "park" => guard'.stop = "park",
           guard' \in GuardType, guard'.mu = None, guard'.closed = guard.closed,
           journal' \in Seq(Records), \A w, m : Recorded(w, m) => Recorded(w, m)', JournalInv',
           UNCHANGED <<srv, results, stream, host>>
    PROVE  IInv'
<1> USE DEF IInv
<1>1. /\ task' \in TaskType /\ task'[t].pc = "idle"
      /\ \A u \in Tasks : u # t => task'[u] = task[u]
      /\ told' \in ToldType
      /\ told'[task[t].n].how = how /\ told'[task[t].n].of = of
      /\ \A n \in Numbers : n # task[t].n => told'[n] = told[n]
      /\ wired' = wired /\ calls' = calls /\ ran' = ran
    BY ToldEffect
<1>2. task[t].n \in DOMAIN calls /\ task[t].pc \notin {"await", "receipt"}
    BY TaskNumber DEF TaskInv
<1>3. /\ host.pc \in {"run", "close"} /\ host.out = None
      /\ \A n \in Numbers : told[n].how # "park"
      /\ ran # "park"
  <2>1. host.pc \in {"run", "close"}
      BY DEF GuardInv, PhaseInv, TypeOK, HostType
  <2> QED
      BY <2>1, StreamAssumption DEF OutInv, ToldInv
<1>4. \A m : Committed(m) => Committed(m)'
    BY <1>1 DEF Committed
<1>5. Down' = Down /\ Lost' = Lost
    BY DEF Down, Lost
<1>6. TypeOK'
    BY <1>1 DEF TypeOK
<1>7. TaskInv'
  <2>1. \A u \in Tasks : u # t => guard.mu # u
      BY StreamAssumption
  <2> QED
      BY <1>1, <1>2, <2>1, StreamAssumption DEF TaskInv
<1>8. PhaseInv' /\ GuardInv'
    BY <1>1, <1>3, StreamAssumption DEF PhaseInv, GuardInv
<1>9. EventInv'
    BY <1>1, <1>3 DEF EventInv
<1>10. FrameInv'
    BY <1>1, <1>5 DEF FrameInv, ReplyID
<1>11. PlaceInv'
    BY <1>1, <1>3, <1>5 DEF PlaceInv
<1>12. ToolInv'
  <2>1. \A m : Awaited(m) => Awaited(m)'
      BY <1>1, <1>2 DEF Awaited, TaskInv
  <2> QED
      BY <2>1, <1>1, <1>3, <1>5 DEF ToolInv
<1>13. ToldInv'
  <2>1. \A m : how = "ok" /\ m = task[t].n => Committed(m)'
      BY DEF Committed
  <2> QED
      BY <2>1, <1>1, <1>2, <1>3, <1>4, <1>5 DEF ToldInv, RepliesAnswerTheirCall
<1>14. OutInv'
    BY <1>1, <1>3, StreamAssumption DEF OutInv
<1> QED
    BY <1>6, <1>7, <1>8, <1>9, <1>10, <1>11, <1>12, <1>13, <1>14

(* A call's effect begins in process.                                      *)
LEMMA LocalBeginKeeps ==
    ASSUME IInv, NEW t \in Tasks, ~wired, task[t].pc = "lock", guard.mu = None,
           ~guard.closed, guard.stop = None, calls[task[t].n].kind # "Emit", BeginEffect(t, task[t].n),
           task' = [task EXCEPT ![t].pc = "effect"],
           UNCHANGED <<wired, calls, told, ran, srv, results, stream, host>>
    PROVE  IInv'
<1> USE DEF IInv
<1>1. task[t].n \in DOMAIN calls /\ task[t].n \in Nat
    BY TaskNumber DEF TypeOK, TaskType
<1>2. PICK rec \in Records : journal' = Append(journal, rec) /\ rec.what = "intent"
  <2>1. Record("intent", task[t].n) \in Records /\ Record("intent", task[t].n).what = "intent"
      BY <1>1 DEF Records, Record
  <2> QED
      BY <2>1 DEF BeginEffect
<1>3. /\ guard' \in GuardType /\ guard'.mu = t /\ guard'.closed = guard.closed /\ guard'.stop = guard.stop
    BY DEF BeginEffect, TypeOK, GuardType
<1>4. /\ journal' \in Seq(Records) /\ Len(journal') = Len(journal) + 1
      /\ DOMAIN journal' = 1..(Len(journal) + 1)
      /\ \A i \in DOMAIN journal : journal'[i] = journal[i] /\ i \in DOMAIN journal'
      /\ journal'[Len(journal) + 1] = rec
      /\ \A w, n : Recorded(w, n) => Recorded(w, n)'
    BY <1>2, RecordedStays
<1>5. /\ task' \in TaskType /\ task'[t].pc = "effect" /\ task'[t].n = task[t].n
      /\ \A u \in Tasks : u # t => task'[u] = task[u]
    BY DEF TypeOK, TaskType
<1>6. host.pc \in {"run", "close"}
    BY DEF GuardInv, PhaseInv, TypeOK, HostType
<1>7. Down' = Down /\ Lost' = Lost /\ \A m : Committed(m) => Committed(m)'
    BY <1>4 DEF Down, Lost, Committed
<1>8. TypeOK'
    BY <1>3, <1>4, <1>5 DEF TypeOK
<1>9. TaskInv'
    BY <1>1, <1>3, <1>5, StreamAssumption DEF TaskInv
<1>10. PhaseInv' /\ GuardInv'
    BY <1>3, <1>6, StreamAssumption DEF PhaseInv, GuardInv
<1>11. JournalInv'
  <2>1. \A i \in DOMAIN journal : journal[i].what \notin {"end", "error", "request"}
      BY <1>6, StreamAssumption DEF JournalInv
  <2>2. \A i \in DOMAIN journal' : i \in DOMAIN journal \/ i = Len(journal) + 1
      BY <1>4 DEF TypeOK
  <2>3. \A i \in DOMAIN journal' : journal'[i].what \notin {"end", "error", "request"}
      BY <2>1, <2>2, <1>2, <1>4
  <2> QED
      BY <2>3, <1>3, StreamAssumption DEF JournalInv
<1>12. EventInv'
    BY <1>6 DEF EventInv
<1>13. FrameInv'
    BY <1>4, <1>7 DEF FrameInv, ReplyID
<1>14. PlaceInv'
    BY <1>5, <1>6, <1>7 DEF PlaceInv
<1>15. ToolInv'
  <2>1. \A m : Awaited(m) => Awaited(m)'
      BY <1>5 DEF Awaited, TaskInv
  <2> QED
      BY <2>1, <1>6, <1>7 DEF ToolInv
<1>16. ToldInv'
    BY <1>3, <1>7 DEF ToldInv, RepliesAnswerTheirCall
<1>17. OutInv'
    BY <1>6 DEF OutInv
<1> QED
    BY <1>8, <1>9, <1>10, <1>11, <1>12, <1>13, <1>14, <1>15, <1>16, <1>17

(* An Emit of a harness in process is one record.                          *)
LEMMA LocalEmitKeeps ==
    ASSUME IInv, NEW t \in Tasks, ~wired, task[t].pc = "lock", guard.mu = None,
           ~guard.closed, guard.stop = None, calls[task[t].n].kind = "Emit", BeginEffect(t, task[t].n),
           Told(t, "ok", task[t].n), UNCHANGED <<srv, results, stream, host>>
    PROVE  IInv'
<1> USE DEF IInv
<1>1. task[t].n \in DOMAIN calls /\ task[t].n \in Nat /\ host.pc \in {"run", "close"}
    BY TaskNumber DEF TypeOK, TaskType, GuardInv, PhaseInv, HostType
<1>2. PICK rec : rec = Record("emit", task[t].n)
    OBVIOUS
<1>3. rec \in Records /\ rec.what = "emit" /\ journal' = Append(journal, rec)
    BY <1>1, <1>2 DEF Records, Record, BeginEffect
<1>4. /\ guard' \in GuardType /\ guard'.mu = None /\ guard'.closed = guard.closed /\ guard'.stop = guard.stop
    BY DEF BeginEffect, TypeOK, GuardType
<1>5. /\ journal' \in Seq(Records) /\ Len(journal') = Len(journal) + 1
      /\ DOMAIN journal' = 1..(Len(journal) + 1)
      /\ \A i \in DOMAIN journal : journal'[i] = journal[i] /\ i \in DOMAIN journal'
      /\ journal'[Len(journal) + 1] = rec
      /\ \A w, n : Recorded(w, n) => Recorded(w, n)'
      /\ \A w, n : Record(w, n) = rec => Recorded(w, n)'
    BY <1>3, RecordedStays
<1>6. JournalInv'
  <2>1. \A i \in DOMAIN journal : journal[i].what \notin {"end", "error", "request"}
      BY <1>1, StreamAssumption DEF JournalInv
  <2>2. \A i \in DOMAIN journal' : i \in DOMAIN journal \/ i = Len(journal) + 1
      BY <1>5 DEF TypeOK
  <2>3. \A i \in DOMAIN journal' : journal'[i].what \notin {"end", "error", "request"}
      BY <2>1, <2>2, <1>3, <1>5
  <2> QED
      BY <2>3, <1>4, StreamAssumption DEF JournalInv
<1>7. \A n : n = task[t].n => Recorded(IF calls[n].kind = "Emit" THEN "emit" ELSE "result", n)'
  <2>1. \A n : n = task[t].n => Recorded("emit", n)'
      BY <1>2, <1>5
  <2>2. calls' = calls
      BY DEF Told
  <2> QED
      BY <2>1, <2>2
<1> QED
    BY <1>1, <1>4, <1>5, <1>6, <1>7, LocalEndKeeps

(* A goroutine enters the guarded sink.                                    *)
LEMMA EnterStep ==
    ASSUME IInv, NEW t \in Tasks, Enter(t)
    PROVE  IInv'
<1> USE DEF IInv
<1>1. ~wired /\ task[t].pc = "lock" /\ guard.mu = None /\ UNCHANGED <<srv, results, stream, host>>
    BY DEF Enter
<1>2. /\ GuardError \in {None, "err", "park"} /\ (GuardError = "park" => guard.stop = "park")
      /\ GuardError = None => guard.stop = None /\ ~guard.closed
    BY StreamAssumption DEF GuardError, TypeOK, GuardType
<1>3. CASE GuardError # None \/ Expired(task[t].n)
  <2>1. /\ Told(t, IF GuardError # None THEN GuardError ELSE "err", 0) /\ UNCHANGED <<guard, journal>>
      BY <1>3 DEF Enter
  <2>2. CASE GuardError # None
    <3>1. Told(t, GuardError, 0) /\ GuardError \in {"err", "park"}
        BY <2>1, <2>2, <1>2
    <3> QED
        BY <3>1, <2>1, <1>1, <1>2, RefusedKeeps
  <2>3. CASE GuardError = None
    <3>1. Told(t, "err", 0)
        BY <2>1, <2>3
    <3> QED
        BY <3>1, <2>1, <1>1, RefusedKeeps
  <2> QED
      BY <2>2, <2>3
<1>4. CASE GuardError = None /\ ~Expired(task[t].n)
  <2>1. \/ /\ BeginEffect(t, task[t].n)
           /\ IF calls[task[t].n].kind = "Emit" THEN Told(t, "ok", task[t].n)
              ELSE /\ task' = [task EXCEPT ![t].pc = "effect"]
                   /\ UNCHANGED <<wired, calls, told, ran>>
        \/ Told(t, "err", 0) /\ (UNCHANGED <<guard, journal>> \/ ReportsGatedCall(task[t].n))
      BY <1>4 DEF Enter
  <2>2. CASE BeginEffect(t, task[t].n) /\ calls[task[t].n].kind = "Emit" /\ Told(t, "ok", task[t].n)
      BY <2>2, <1>1, <1>2, <1>4, LocalEmitKeeps
  <2>3. CASE /\ BeginEffect(t, task[t].n) /\ calls[task[t].n].kind # "Emit"
             /\ task' = [task EXCEPT ![t].pc = "effect"] /\ UNCHANGED <<wired, calls, told, ran>>
      BY <2>3, <1>1, <1>2, <1>4, LocalBeginKeeps
  <2>4. CASE Told(t, "err", 0) /\ UNCHANGED <<guard, journal>>
      BY <2>4, <1>1, RefusedKeeps
  <2>5. CASE Told(t, "err", 0) /\ ReportsGatedCall(task[t].n)
    <3>1. /\ guard' \in GuardType /\ guard'.mu = None /\ guard'.closed = guard.closed
          /\ guard'.stop = "err" /\ journal' = journal /\ journal \in Seq(Records)
        BY <2>5, <1>1 DEF ReportsGatedCall, TypeOK, GuardType
    <3>2. \A w, m : Recorded(w, m) => Recorded(w, m)'
        BY <3>1 DEF Recorded
    <3>3. JournalInv'
      <4>1. host.pc # "over" /\ guard.stop = None /\ host' = host
          BY <1>1, <1>2, <1>4 DEF GuardInv
      <4> QED
          BY <3>1, <4>1, StreamAssumption DEF JournalInv
    <3> QED
        BY <2>5, <3>1, <3>2, <3>3, <1>1, <1>2, <1>4, LocalEndKeeps
  <2> QED
      BY <2>1, <2>2, <2>3, <2>4, <2>5
<1> QED
    BY <1>3, <1>4, <1>2

(* A goroutine leaves the guarded sink.                                    *)
LEMMA LeaveStep ==
    ASSUME IInv, NEW t \in Tasks, Leave(t)
    PROVE  IInv'
<1> USE DEF IInv
<1>1. PICK how \in {"ok", "err", "park"} : EffectEnds(task[t].n, how) /\ Told(t, how, task[t].n)
    BY DEF Leave
<1>2. task[t].pc = "effect" /\ UNCHANGED <<srv, results, stream, host>>
    BY DEF Leave
<1>3. /\ guard.mu = t /\ ~wired /\ guard.stop = None /\ ~guard.closed /\ host.pc # "over"
      /\ calls[task[t].n].kind # "Emit" /\ task[t].n \in DOMAIN calls /\ task[t].n \in Nat
    BY <1>2, TaskNumber, StreamAssumption DEF TaskInv, GuardInv, TypeOK, TaskType
<1>4. PICK n : n = task[t].n
    OBVIOUS
<1>5. /\ guard' \in GuardType /\ guard'.mu = None /\ guard'.closed = guard.closed
      /\ journal' \in Seq(Records)
      /\ \A w, m : Recorded(w, m) => Recorded(w, m)'
      /\ how = "park" => guard'.stop = "park"
      /\ how = "ok" => Recorded("result", n)'
      /\ JournalInv'
    BY <1>1, <1>2, <1>3, <1>4, EffectEnded
<1>6. how = "ok" => Recorded(IF calls[n].kind = "Emit" THEN "emit" ELSE "result", n)'
    BY <1>1, <1>3, <1>4, <1>5 DEF Told
<1> QED
    BY <1>1, <1>2, <1>3, <1>4, <1>5, <1>6, LocalEndKeeps

-----------------------------------------------------------------------------
(* The end of the execution.                                               *)

(* The guard is closed once no effect is under way.                        *)
LEMMA CloseStep == ASSUME IInv, Close PROVE IInv'
<1> USE DEF IInv
<1>1. /\ host.pc = "close" /\ guard.mu = None
      /\ guard' = [guard EXCEPT !.closed = TRUE]
      /\ host' = [host EXCEPT !.pc = "closing", !.out = IF wired THEN @ ELSE ran]
      /\ UNCHANGED <<wired, task, calls, told, ran, srv, results, stream, journal>>
    BY DEF Close, harness
<1>2. /\ guard' \in GuardType /\ guard'.mu = None /\ guard'.closed /\ guard'.stop = guard.stop
      /\ host' \in HostType /\ host'.pc = "closing" /\ host'.n = host.n
      /\ host'.out = IF wired THEN host.out ELSE ran
    BY <1>1 DEF TypeOK, GuardType, HostType
<1>3. /\ Down' = Down /\ Lost' = Lost /\ (\A w, m : Recorded(w, m)' <=> Recorded(w, m))
      /\ \A m : Committed(m)' <=> Committed(m)
    BY <1>1 DEF Down, Lost, Recorded, Committed
<1>4. TypeOK'
    BY <1>1, <1>2 DEF TypeOK
<1>5. TaskInv' /\ PhaseInv' /\ GuardInv'
    BY <1>1, <1>2, StreamAssumption DEF TaskInv, PhaseInv, GuardInv
<1>6. JournalInv'
    BY <1>1, <1>2, <1>3 DEF JournalInv
<1>7. EventInv'
    BY <1>1, <1>2 DEF EventInv
<1>8. FrameInv' /\ PlaceInv'
    BY <1>1, <1>2, <1>3 DEF FrameInv, PlaceInv, ReplyID
<1>9. ToolInv'
    BY <1>1, <1>2, <1>3 DEF ToolInv, Awaited
<1>10. ToldInv' /\ OutInv'
    BY <1>1, <1>2, <1>3 DEF ToldInv, OutInv, RepliesAnswerTheirCall
<1> QED
    BY <1>4, <1>5, <1>6, <1>7, <1>8, <1>9, <1>10

(* The terminal record, or none after a sticky stop.                       *)
LEMMA TerminateStep == ASSUME IInv, Terminate PROVE IInv'
<1> USE DEF IInv
<1>1. /\ host.pc = "closing"
      /\ UNCHANGED <<wired, task, calls, told, ran, srv, results, stream, guard>>
    BY DEF Terminate, harness
<1>2. \A i \in DOMAIN journal : journal[i].what \notin {"end", "error"}
    BY <1>1 DEF JournalInv
<1>3. /\ host' \in HostType /\ host'.pc = "over" /\ host'.n = host.n
      /\ guard.stop = None => host'.out = host.out
      /\ guard.stop # None =>
            host'.out = IF host.out = "nil" \/ guard.stop # "park" THEN guard.stop ELSE host.out
  <2>1. host \in HostType /\ guard.stop \in {None, "err", "park"}
      BY DEF TypeOK, GuardType
  <2>2. CASE guard.stop # None
      BY <2>1, <2>2 DEF Terminate, HostType
  <2>3. CASE guard.stop = None
      BY <2>1, <2>3 DEF Terminate, HostType
  <2> QED
      BY <2>2, <2>3
<1>4. /\ journal' \in Seq(Records) /\ (\A w, m : Recorded(w, m) => Recorded(w, m)') /\ JournalInv'
  <2>1. CASE guard.stop # None
    <3>1. journal' = journal
        BY <2>1 DEF Terminate
    <3> QED
        BY <3>1, <1>1, <1>2, <1>3 DEF TypeOK, JournalInv, Recorded
  <2>2. CASE guard.stop = None
    <3>1. PICK rec : rec = Record(IF host.out = "nil" THEN "end" ELSE "error", 0)
        OBVIOUS
    <3>2. /\ rec \in Records /\ journal' = Append(journal, rec)
          /\ rec.what = IF host.out = "nil" THEN "end" ELSE "error"
        BY <2>2, <3>1 DEF Terminate, Record, Records
    <3>3. /\ journal' \in Seq(Records) /\ Len(journal') = Len(journal) + 1
          /\ DOMAIN journal' = 1..(Len(journal) + 1)
          /\ \A i \in DOMAIN journal : journal'[i] = journal[i] /\ i \in DOMAIN journal'
          /\ journal'[Len(journal) + 1] = rec
          /\ \A w, n : Recorded(w, n) => Recorded(w, n)'
        BY <3>2, RecordedStays
    <3>4. \A i \in DOMAIN journal : journal[i].what \notin {"end", "error", "request"}
        BY <1>2, <2>2, StreamAssumption DEF JournalInv
    <3>5. \A i \in DOMAIN journal' : i \in DOMAIN journal \/ i = Len(journal) + 1
        BY <3>3 DEF TypeOK
    <3>6. \A i \in DOMAIN journal' : journal'[i].what \in {"end", "error", "request"} =>
              i = Len(journal') /\ journal'[i] = rec
        BY <3>3, <3>4, <3>5
    <3> QED
        BY <3>2, <3>3, <3>6, <2>2, <1>1, <1>3, StreamAssumption DEF JournalInv
  <2> QED
      BY <2>1, <2>2
<1>5. Down' = Down /\ Lost' = Lost /\ \A m : Committed(m) => Committed(m)'
    BY <1>1, <1>4 DEF Down, Lost, Committed
<1>6. TypeOK'
    BY <1>1, <1>3, <1>4 DEF TypeOK
<1>7. TaskInv' /\ PhaseInv' /\ GuardInv'
    BY <1>1, <1>3, StreamAssumption DEF TaskInv, PhaseInv, GuardInv
<1>8. EventInv'
    BY <1>1, <1>3 DEF EventInv
<1>9. FrameInv' /\ PlaceInv'
    BY <1>1, <1>3, <1>4, <1>5 DEF FrameInv, PlaceInv, ReplyID
<1>10. ToolInv'
    BY <1>1, <1>3, <1>5 DEF ToolInv, Awaited
<1>11. ToldInv'
    BY <1>1, <1>5 DEF ToldInv, RepliesAnswerTheirCall
<1>12. OutInv'
  <2>1. CASE wired
    <3>1. host'.out \in {"nil", "park"} => host'.out = host.out \/ host.out = "nil"
        BY <1>3, StreamAssumption DEF TypeOK, GuardType
    <3>2. host.out = "nil" => guard.stop = None
        BY <2>1 DEF OutInv
    <3> QED
        BY <2>1, <3>1, <3>2, <1>1, <1>3, <1>4, <1>5 DEF OutInv
  <2>2. CASE ~wired
    <3>1. host.out = ran
        BY <2>2, <1>1 DEF OutInv
    <3>2. guard.stop \in {None, "err", "park"}
        BY DEF TypeOK, GuardType
    <3> QED
        BY <2>2, <3>1, <3>2, <1>1, <1>3, StreamAssumption DEF OutInv, ToldInv
  <2> QED
      BY <2>1, <2>2
<1> QED
    BY <1>4, <1>6, <1>7, <1>8, <1>9, <1>10, <1>11, <1>12

-----------------------------------------------------------------------------
(* The invariant holds in every execution.                                 *)
THEOREM StreamInvariant == Spec => []IInv
<1>1. IInv /\ [Next]_vars => IInv'
  <2> SUFFICES ASSUME IInv, [Next]_vars PROVE IInv'
      OBVIOUS
  <2>1. ASSUME NEW t \in Tasks, Call(t) \/ Cancel(t) \/ GiveUp(t) \/ TaskStep(t) PROVE IInv'
    <3>1. CASE Cancel(t)
        BY <3>1, QuietStep DEF Cancel
    <3> QED
        BY <2>1, <3>1, CallStep, GiveUpStep, SendStep, RefuseReportStep, AwaitNothingStep,
           AwaitFrameStep, EnterStep, LeaveStep DEF TaskStep
  <2>2. CASE Return \/ ConnectStep \/ Break
      BY <2>2, ReturnStep, ReceiveStep, FinishStep, BreakStep DEF ConnectStep
  <2>3. CASE HostStep
      BY <2>3, DispatchStep, RecvEndStep, ReplyStep, AwaitAckStep, AwaitClosureStep, CloseStep,
         TerminateStep DEF HostStep
  <2>4. CASE Over \/ UNCHANGED vars
      BY <2>4, QuietStep DEF Over, vars, harness
  <2> QED
      BY <2>1, <2>2, <2>3, <2>4 DEF Next
<1> QED
    BY <1>1, InitIInv, PTL DEF Spec

(* A call is told the answer to that call or an error, however many calls  *)
(* were given up before it and whatever IDs the harness repeats.           *)
THEOREM RepliesReachTheirCall == Spec => []RepliesAnswerTheirCall
<1>1. IInv => RepliesAnswerTheirCall
    BY DEF IInv, ToldInv
<1> QED
    BY <1>1, StreamInvariant, PTL

(* The terminal record and the request of a park are the last record of    *)
(* the execution's journal, and no effect is under way at its end.         *)
THEOREM JournalsEnd == Spec => []TurnEndsItsJournal
<1>1. IInv => TurnEndsItsJournal
    BY DEF IInv, JournalInv, GuardInv, TurnEndsItsJournal
<1> QED
    BY <1>1, StreamInvariant, PTL

(* An execution recorded as completed returned nil, met no failure that    *)
(* the harness ignored, and has all its successful calls on record.        *)
THEOREM CompletionIsTrue == Spec => []CompletedIsComplete
<1>1. IInv => CompletedIsComplete
  <2> SUFFICES ASSUME IInv, Recorded("end", 0)
               PROVE  /\ ran = "nil" /\ (wired => ~srv.failed /\ srv.parked = 0)
                      /\ \A n \in Numbers : told[n].how = "ok" => Committed(n)
      BY DEF CompletedIsComplete, Committed
  <2>1. host.pc = "over" /\ host.out = "nil" /\ guard.stop = None
      BY DEF IInv, JournalInv, Recorded, Record
  <2>2. CASE wired
      BY <2>1, <2>2 DEF IInv, OutInv
  <2>3. CASE ~wired
      BY <2>1, <2>3 DEF IInv, OutInv, ToldInv
  <2> QED
      BY <2>2, <2>3
<1> QED
    BY <1>1, StreamInvariant, PTL

(* A park is reported only after the harness's Run is over and unwound     *)
(* with that park or with nil, and its request is on record.               *)
THEOREM ParksAreAgreed == Spec => []ParkIsAgreed
<1>1. IInv => ParkIsAgreed
  <2> SUFFICES ASSUME IInv, host.pc = "over", host.out = "park"
               PROVE  /\ ran \in {"nil", "park"}
                      /\ \E n \in Numbers :
                            Recorded("request", n) /\ (wired => srv.parked = n /\ srv.st = "returned")
      BY DEF ParkIsAgreed
  <2>1. CASE wired
      BY <2>1 DEF IInv, OutInv
  <2>2. CASE ~wired
    <3>1. ran \in {"nil", "park"} /\ guard.stop = "park"
        BY <2>2 DEF IInv, OutInv
    <3> QED
        BY <2>2, <3>1 DEF IInv, JournalInv
  <2> QED
      BY <2>1, <2>2
<1> QED
    BY <1>1, StreamInvariant, PTL
=============================================================================
