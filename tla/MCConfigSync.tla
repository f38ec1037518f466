---------------------------- MODULE MCConfigSync ----------------------------
(* ConfigSync for TLC: a field the second schema version removes and one it *)
(* locks, and a request that overrides both.                               *)
EXTENDS ConfigSync

MCContents == {[fields |-> {"f", "g"}, mandatory |-> {}],
               [fields |-> {"g"}, mandatory |-> {"g"}]}
HideBoth == [policy |-> [x \in {"f", "g"} |-> "hidden"], events |-> <<>>,
             prefill |-> ("f" :> "carryForward")]
MCPolicyRequests == {<<Fleet, HideBoth>>}
=============================================================================
