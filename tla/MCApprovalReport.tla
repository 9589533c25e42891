-------------------------- MODULE MCApprovalReport --------------------------
(* A process of build 2 that may have the database open and two of build 4 *)
(* that open it; six histories, of which the run takes every prefix.       *)
EXTENDS ApprovalReport, TLC

CONSTANTS past, new1, new2, ta, tb

MCBuild == (past :> 2) @@ (new1 :> 4) @@ (new2 :> 4)

(* A gated call decided and answered; an inherited gate; evidence without  *)
(* an execution ID; a damaged record; a pending gate behind an execution   *)
(* that lacks its input, and behind one with invalid evidence.             *)
MCHistories ==
    {<<Started(1, 1), Input(1), ToolCall(1, ta, TRUE, TRUE), Request(1, ta),
       Decision(1, ta, 4, TRUE), Result(1, ta, 4, 5, FALSE)>>,
     <<Started(1, 0), ToolCall(1, ta, TRUE, TRUE), Request(1, ta), Of(NoID, "Fork")>>,
     <<ToolCall(NoID, ta, TRUE, TRUE), Request(NoID, ta)>>,
     <<Started(1, 0), Undecodable, ToolCall(1, ta, TRUE, TRUE), Request(1, ta)>>,
     <<Started(1, 1), Started(2, 0), ToolCall(2, ta, TRUE, TRUE), Request(2, ta)>>,
     <<Request(1, ta), Started(2, 0), ToolCall(2, ta, TRUE, TRUE), Request(2, ta)>>}

MCEvents ==
    {Given(e) : e \in
        {Started(1, 0), Input(1), ToolCall(1, ta, FALSE, TRUE), ToolCall(1, tb, TRUE, TRUE),
         ToolCall(1, tb, TRUE, FALSE), Request(1, ta), Request(1, tb),
         Decision(1, ta, 4, TRUE), Decision(1, ta, 4, FALSE), Decision(1, ta, 3, TRUE),
         Result(1, ta, 0, 0, FALSE), Result(1, ta, 4, 5, FALSE), Result(1, ta, 4, 5, TRUE),
         Of(1, "End"), Of(1, "Error"), Of(1, "Output"),
         Started(2, 0), Started(2, None), Bare(Input(2)), ToolCall(2, ta, TRUE, TRUE), Request(2, ta),
         Of(NoID, "Fork"), Of(NoID, "Suspend")}}
    \cup {GivenWith(ToolCall(1, tb, TRUE, TRUE), "Message"), GivenWith(Decision(1, ta, 4, TRUE), "Approval"),
          GivenWith(Request(1, ta), "Usage"), GivenWith(Of(NoID, "Fork"), "Message"),
          GivenWith(Result(1, ta, 4, 5, FALSE), "Message")}

Symmetry == Permutations({new1, new2})
=============================================================================
