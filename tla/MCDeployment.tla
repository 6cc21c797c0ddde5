--------------------------- MODULE MCDeployment ---------------------------
(***************************************************************************)
(* Two patches, of which the second changes with the set and does not fit  *)
(* one version in its first form, and four definitions of a flow.  A       *)
(* smaller instance of each kind serves to look at the other half alone.   *)
(***************************************************************************)
EXTENDS Deployment

MCText ==
    [s \in {"s1", "s2"} |->
        [p \in 1..2 |-> CASE p = 1 -> "a" [] p = 2 /\ s = "s1" -> "b" [] p = 2 /\ s = "s2" -> "c"]]
MCDrifted == {<<"s1", 2, 2>>}

OneText == [s \in {"s1"} |-> [p \in {1} |-> "a"]]
NoDrift == {}

Entry(m, a) == [mode |-> m, agent |-> a]
Hook(l, r, c) == [located |-> l, readable |-> r, consult |-> c]

\* Every kind of task, and hooks of which one is misspelt.
Full ==
    [tasks |-> [t1 |-> Entry("", "bot"), t2 |-> Entry("native", "local"), t3 |-> Entry("task_agent", "none"),
                t4 |-> Entry("task_agent", "faulty"), t5 |-> Entry("tool", "local"), t6 |-> Entry("", "none")],
     gateways |-> [g1 |-> [mode |-> "decision_agent", consult |-> "bot"],
                   g2 |-> [mode |-> "native", consult |-> "nobody"]],
     hooks |-> [h1 |-> Hook(TRUE, TRUE, "bot"), h2 |-> Hook(TRUE, FALSE, "nobody"), h3 |-> Hook(FALSE, TRUE, "nobody")],
     declared |-> {"bot"},
     engine |-> "langgraph"]

\* The native task has become agentic; a hook consults somebody who is not declared; an unknown engine.
MCYamls ==
    {Full,
     [Full EXCEPT !.tasks.t2 = Entry("", "local"), !.gateways.g2.mode = "decision_agent"],
     [Full EXCEPT !.hooks.h1 = Hook(TRUE, TRUE, "bob")],
     [Full EXCEPT !.engine = "other"]}

OneYaml == {Full}
=============================================================================
