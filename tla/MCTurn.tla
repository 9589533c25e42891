------------------------------- MODULE MCTurn -------------------------------
(***************************************************************************)
(* Harnesses for Turn.  Each is written as a function of the number and of *)
(* the outcome of the answers it has got, as a program counter would be.   *)
(***************************************************************************)
EXTENDS Turn

CONSTANTS r1, r2, r3

ThreeRuns == {r1, r2, r3}

Alike == Permutations(ThreeRuns)

ShortAndLong == {Answer("short", 1), Answer("long", 2)}

OnlyLong == {Answer("long", 1)}

Op(op, arg, usage, key) == [op |-> op, arg |-> arg, usage |-> usage, key |-> key]

Model(hash) == Op("Model", hash, 0, FALSE)
Output(text) == Op("Output", text, 0, FALSE)
ToolCall(id) == Op("ToolCall", id, 0, TRUE)
KeylessCall(id) == Op("ToolCall", id, 0, FALSE)
Report(id) == Op("Report", id, 0, FALSE)
Usage(n) == Op("Usage", "", n, FALSE)
Return == Op("Return", "", 0, FALSE)
Raise == Op("Raise", "", 0, FALSE)

(* Asks the model, once more when that fails, and reports the usage.  For  *)
(* a long answer it calls a tool, and apologises when the tool fails.      *)
Agent(a) ==
    LET tries == IF Len(a) > 0 /\ ~a[1].ok THEN 2 ELSE 1
        n == Len(a) - tries
    IN  CASE n < 0 -> Model("question")
          [] n = 0 -> IF a[tries].ok THEN Usage(a[tries].usage) ELSE Raise
          [] n = 1 -> IF ~a[tries + 1].ok THEN Raise
                      ELSE IF a[tries].val = "long" THEN ToolCall("search") ELSE Report("note")
          [] n = 2 -> IF a[tries].val # "long" THEN Return
                      ELSE Output(IF a[tries + 2].ok THEN "found" ELSE "sorry")
          [] n > 2 -> Return

(* The agent after a change: it first tries a call without a key, calls    *)
(* another tool, and neither reports nor apologises.                       *)
Changed(a) ==
    IF a = <<>> THEN KeylessCall("fetch")
    ELSE CASE Agent(Tail(a)) = ToolCall("search") -> ToolCall("fetch")
           [] Agent(Tail(a)) \in {Report("note"), Output("sorry")} -> Return
           [] OTHER -> Agent(Tail(a))

(* Asks the model, calls a tool, and makes a note when the tool fails.     *)
Brief(a) ==
    CASE Len(a) = 0 -> Model("question")
      [] Len(a) = 1 -> IF a[1].ok THEN ToolCall("search") ELSE Raise
      [] Len(a) = 2 -> IF a[2].ok THEN Return ELSE Output("sorry")
      [] Len(a) > 2 -> Return

(* Answers itself when the model fails.                                    *)
Fallback(a) ==
    CASE Len(a) = 0 -> Model("question")
      [] Len(a) = 1 -> IF a[1].ok THEN Return ELSE Output("later")
      [] OTHER      -> Return

Operations(h, a) ==
    CASE h = "agent"    -> Agent(a)
      [] h = "changed"  -> Changed(a)
      [] h = "brief"    -> Brief(a)
      [] h = "fallback" -> Fallback(a)

With(harnesses, completions, hosts) ==
    [harnesses |-> harnesses, completions |-> completions, hosts |-> hosts]

(* One host, whose agent may be exchanged for a changed one; or two hosts, *)
(* with a briefer agent.                                                   *)
OneHostOrTwo == {With({"agent", "changed"}, ShortAndLong, 1), With({"brief"}, OnlyLong, 2)}

OneHostFallback == {With({"fallback"}, OnlyLong, 1)}

(* Whatever answers they get, the agents are as the theorems ask; the one  *)
(* that answers itself is not.                                             *)
SomeAnswers == SeqOf({Error, Done} \union ShortAndLong, 4)

ASSUME AgentsAreClear ==
    /\ \A h \in {"agent", "changed", "brief"} : \A a \in SomeAnswers :
        /\ FailuresStandOut(h, a)
        /\ RejectedOnce(h, a)
        /\ \A b \in SomeAnswers : UsageIsReported(h, a, b)
    /\ \E a \in SomeAnswers : ~FailuresStandOut("fallback", a)
=============================================================================
