------------------------------ MODULE MCKogito ------------------------------
(***************************************************************************)
(* A process of the shape of loan_approval_kogito: a task that a remote    *)
(* agent does, a hook with a condition that may consult, and a decision    *)
(* with a static hook and an unknown task on one of its branches, and a    *)
(* gateway without a choice and a local task on the other.                 *)
(***************************************************************************)
EXTENDS KogitoService

MCFlowIds == {"yes", "no"}
MCNodes == {"check", "screen", "route", "xor", "audit", "pay", "merge", "book", "complete", "end"}
MCPoints == MCNodes \ {"xor", "end"}
MCVariables == {"score", "note"}
MCInitialValues == {<<"0">>}
MCTexts == {None, <<"0">>, <<"2">>, <<"w", ">", "w">>}

Point(kind) == [kind |-> kind, known |-> TRUE, remote |-> NoRemote, condition |-> <<>>,
                policy |-> FALSE, action |-> "continue", outputs |-> {}, flows |-> <<>>]

MCConfig ==
    [p \in MCPoints |->
        CASE p = "check"    -> [Point("task") EXCEPT !.remote = "agent0", !.outputs = {"score"}]
          [] p = "screen"   -> [Point("hook") EXCEPT !.remote = "agent0", !.policy = TRUE,
                                                     !.condition = <<"score", "<", "=", "0">>]
          [] p = "route"    -> [Point("gateway") EXCEPT !.flows = <<"yes", "no">>,
                                                        !.condition = <<"score", ">", "=", "2">>]
          [] p = "audit"    -> [Point("hook") EXCEPT !.condition = <<"score", ">", "0">>,
                                                     !.action = "skip_to"]
          [] p = "pay"      -> [Point("task") EXCEPT !.known = FALSE]
          [] p = "merge"    -> [Point("gateway") EXCEPT !.flows = <<"no">>]
          [] p = "book"     -> Point("task")
          [] p = "complete" -> Point("complete")]

MCSuccessor ==
    [n \in {"check", "screen", "route", "audit", "pay", "merge", "book", "complete"} |->
        CASE n = "check" -> "screen"
          [] n = "screen" -> "route"
          [] n = "route" -> "xor"
          [] n = "audit" -> "pay"
          [] n = "merge" -> "book"
          [] n \in {"pay", "book"} -> "complete"
          [] n = "complete" -> "end"]

MCBranches == [g \in {"xor"} |-> [f \in MCFlowIds |-> IF f = "yes" THEN "audit" ELSE "merge"]]

\* The hook may stand between the decision agent and the gateway as well.
MCSuccessorReviewed ==
    [MCSuccessor EXCEPT !["check"] = "route", !["route"] = "screen", !["screen"] = "xor"]

MCNotExposed == [p \in MCPoints |-> {}]
MCExposed == [MCNotExposed EXCEPT !["screen"] = {"gatewayDecision"}]

\* A decision of each kind: once more, to the gateway without its decision, past the report, to a
\* node that does not exist, and the messages that TERMINATE may have.
MCTargets == {"screen", "xor", "end", "nowhere"}
Decision(action, target, reason) ==
    [action |-> action, target |-> target, reason |-> reason, updates |-> {}, value |-> None]
Terminate(reasons) == {Decision("terminate", NoNode, r) : r \in reasons}
MCHookDecisions ==
    {Decision("skip_to", t, "why") : t \in MCTargets}
        \cup Terminate({"null", "why"})
        \cup {[Decision("skip_node", NoNode, "why") EXCEPT !.updates = {"score", "note"}, !.value = <<"2">>]}
MCUnexplained == Terminate(Reasons)

\* The conditions of this process are in the class for which ConditionsHold is proved.
ASSUME Comparisons
=============================================================================
