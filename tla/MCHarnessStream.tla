-------------------------- MODULE MCHarnessStream ---------------------------
(* A harness whose Run makes two calls, beside a goroutine that makes one. *)
EXTENDS HarnessStream, TLC

CONSTANTS main, other

MCPlan == (main :> <<{"Model", "Tool"}, Kinds>>) @@ (other :> <<{"Tool", "Emit"}>>)
=============================================================================
