------------------------------- MODULE MCPlan -------------------------------
(***************************************************************************)
(* Values of the constants of VerificationPlan for TLC: a statement about  *)
(* tests of the user interface, one about performance, and one nothing     *)
(* proves.                                                                 *)
(***************************************************************************)
EXTENDS VerificationPlan

TestKinds == [s \in Statements |-> IF s = "screen" THEN {"test"} ELSE {}]
TwoProfiles == {[e2e |-> "custom"], [e2e |-> "custom", unit |-> "test"]}
ThreeConfigs ==
    {[required |-> {}, flows |-> {}, scenarios |-> {}],
     [required |-> {}, flows |-> {"e2e"}, scenarios |-> {}],
     [required |-> {"e2e"}, flows |-> {}, scenarios |-> {"unit"}]}
=============================================================================
