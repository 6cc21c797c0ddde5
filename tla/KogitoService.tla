--------------------------- MODULE KogitoService ---------------------------
(***************************************************************************)
(* Instances of one process in a Kogito service, with the static helpers   *)
(* that its script tasks call (adapters/kogito/runtime/CugaFlo.java and    *)
(* FlowRedirect.java), composed with the FlowAgent of ControlPoints.  One  *)
(* Java thread runs an instance from node to node; at a control point it   *)
(* blocks in an HTTP call of an MCP tool.  A POST of the proxy that timed  *)
(* out and was repeated leaves two instances running side by side.         *)
(***************************************************************************)
EXTENDS ControlPoints

CONSTANTS
    Nodes,            \* nodes of the process, control points included
    First,            \* the node after the start event
    Successor,        \* sequence flow out of a node with one
    Branches,         \* exclusive gateways: flow id -> node, no default flow
    EndEvents,
    TerminateTarget,  \* where the scripts of the hooks lead on TERMINATE
    Declared,         \* process variables that the BPMN declares
    InitialValues,    \* values with which a variable may start
    Exposed,          \* the service's own variables that an answer at a control point may name
    MaxJumps          \* bound: redirections of one instance

NoHalt == "no"
DefaultReason == "Hook terminated the process"

ASSUME ProcessIsWellFormed ==
    /\ Points \subseteq Nodes /\ EndEvents \subseteq Nodes /\ First \in Nodes
    /\ DOMAIN Branches \subseteq Nodes
    /\ \A g \in DOMAIN Branches : Branches[g] \in [FlowIds -> Nodes]
    /\ Successor \in [Nodes \ (DOMAIN Branches \cup EndEvents) -> Nodes]
    /\ Points \cup DOMAIN Branches \cup EndEvents = Nodes
    /\ Points \cap DOMAIN Branches = {} /\ Points \cap EndEvents = {}
    /\ EndEvents \cap DOMAIN Branches = {}
    /\ TerminateTarget \in Points /\ Config[TerminateTarget].kind = "complete"
    /\ Declared \subseteq Variables /\ InitialValues \subseteq Texts
    /\ NoNode \notin Nodes
    /\ Exposed \in [Points -> SUBSET {"gatewayDecision", "_haltReason"}]
    /\ MaxJumps \in Nat

\* The script task that calls complete_process is in front of the end event, and nothing else is.
IsCompletion(n) == n \in Points /\ Config[n].kind = "complete"

ASSUME CompletionIsTheEnd ==
    /\ First \notin EndEvents
    /\ \A n \in DOMAIN Successor : Successor[n] \in EndEvents <=> IsCompletion(n)
    /\ \A g \in DOMAIN Branches : \A f \in FlowIds : Branches[g][f] \notin EndEvents

\* The class of configurations in which no output and no state update bears the name of one of
\* the variables in which the service keeps its own decisions.  Nothing in the code enforces it.
OwnVariablesKept == \A p \in Points : Exposed[p] = {}

\* The class in which a hook that terminates says why.  Nothing enforces it either.
Explained == \A d \in HookDecisions : d.action = "terminate" => d.reason # ""

VARIABLES
    status,      \* of an instance
    todo,        \* nodes that its thread has still to trigger, the current one first
    vars,        \* its process variables
    choice,      \* gatewayDecision, the variable its exclusive gateway compares
    halt,        \* _haltReason
    jumps,       \* targets of its redirections so far
    terminated,  \* history: the reason of the hook that terminated it
    reports      \* history: the terminal states that complete_process received from it

svcVars == <<status, todo, vars, choice, halt, jumps, terminated, reports>>
kVars   == <<cpVars, svcVars>>

Reports == [halted : BOOLEAN, reason : Reasons \cup {DefaultReason}]

\* What is not declared is not there.
InitialVars ==
    {start \in [Variables -> InitialValues \cup {None}] :
       \A v \in Variables : IF v \in Declared THEN start[v] \in InitialValues ELSE start[v] = None}

Init ==
    /\ CPInit
    /\ status = [i \in Instances |-> "new"]
    /\ todo   = [i \in Instances |-> <<>>]
    /\ vars \in [Instances -> InitialVars]
    /\ choice = [i \in Instances |-> NoFlow]
    /\ halt   = [i \in Instances |-> ""]
    /\ jumps  = [i \in Instances |-> <<>>]
    /\ terminated = [i \in Instances |-> NoHalt]
    /\ reports = [i \in Instances |-> <<>>]

Current(i) == Head(todo[i])
Running(i) == status[i] = "running" /\ todo[i] # <<>>
AtPoint(i) == Running(i) /\ Current(i) \in Points

\* The thread leaves its node and goes on at the nodes ns.
GoOn(i, ns) == todo' = [todo EXCEPT ![i] = ns \o Tail(todo[i])]
Follow(i)   == GoOn(i, <<Successor[Current(i)]>>)

Fail(i) == status' = [status EXCEPT ![i] = "failed"]

Start(i) ==
    /\ status[i] = "new"
    /\ status' = [status EXCEPT ![i] = "running"]
    /\ todo' = [todo EXCEPT ![i] = <<First>>]
    /\ UNCHANGED <<vars, choice, halt, jumps, terminated, reports, cpVars>>
-----------------------------------------------------------------------------
\* CugaFlo.call: the request goes out with all of the variables.  The thread is blocked from
\* here on, so its variables are those of the request until the answer is used.
Call(i) ==
    /\ AtPoint(i)
    /\ Arrive(i)
    /\ UNCHANGED svcVars

\* No listener, an HTTP status other than 200, or an envelope without a result: the script
\* throws, and the instance is in error.
CallFails(i) ==
    /\ AtPoint(i)
    /\ phase[i] \in {"idle", "answered"}
    /\ Fail(i)
    /\ UNCHANGED <<todo, vars, choice, halt, jumps, terminated, reports, cpVars>>

\* The limit of 300 seconds, or a connection that breaks.  The handler does not notice.
CallTimesOut(i) ==
    /\ AtPoint(i)
    /\ phase[i] \notin {"idle", "answered"}
    /\ Fail(i)
    /\ UNCHANGED <<todo, vars, choice, halt, jumps, terminated, reports, cpVars>>

\* The call returns with an answer of the given kind.
Returned(i, kind) ==
    /\ AtPoint(i)
    /\ phase[i] = "answered"
    /\ Config[Current(i)].kind = kind
    /\ Leave(i)

\* asText and asInt of Jackson: a text that is written over a number becomes 0.
Coerce(new, old) ==
    IF IsNumber(old) /\ ~ IsNone(new) /\ ~ IsNumber(new) THEN <<"0">> ELSE new

\* gatewayDecision and _haltReason are process variables like any other: an answer that names
\* one of them is written over it.
Overwritten(i, name, value, values) == IF name \in Exposed[Current(i)] THEN values ELSE {value}

\* What is not declared is dropped.
WriteBack(i) ==
    /\ vars' = [vars EXCEPT ![i] =
                  [v \in Variables |-> IF v \in Declared THEN Coerce(reply[i].vars[v], vars[i][v])
                                       ELSE vars[i][v]]]
    /\ \E c \in Overwritten(i, "gatewayDecision", choice[i], FlowIds \cup {NoFlow}) :
          choice' = [choice EXCEPT ![i] = c]

KeepHalt(i) ==
    \E h \in Overwritten(i, "_haltReason", halt[i], Reasons) : halt' = [halt EXCEPT ![i] = h]

ExecuteTask(i) ==
    /\ Returned(i, "task")
    /\ WriteBack(i)
    /\ KeepHalt(i)
    /\ Follow(i)
    /\ UNCHANGED <<status, jumps, terminated, reports>>

RouteGateway(i) ==
    /\ Returned(i, "gateway")
    /\ choice' = [choice EXCEPT ![i] = reply[i].flow]
    /\ Follow(i)
    /\ UNCHANGED <<status, vars, halt, jumps, terminated, reports>>

\* Mutant of Resumption: without cancel() the flow out of the hook is taken as well.
ResumptionUncancelled(i, target) == <<target, Successor[Current(i)]>>

\* FlowRedirect.to: a blank target is a no-op; the node is looked up before anything is
\* cancelled; the calling node is cancelled before the target is triggered.
Resumption(i, target) == <<target>>

\* Mutant of To: the target is not looked up.
ToUnchecked(i, target) ==
    /\ GoOn(i, <<IF target = NoNode THEN Successor[Current(i)] ELSE target>>)
    /\ jumps' = [jumps EXCEPT ![i] = IF target = NoNode THEN @ ELSE Append(@, target)]
    /\ UNCHANGED status

\* Mutant of To: the calling node is cancelled first, and an unknown target only logged.
ToCancelledFirst(i, target) ==
    \/ /\ target = NoNode
       /\ Follow(i)
       /\ UNCHANGED <<status, jumps>>
    \/ /\ target # NoNode
       /\ GoOn(i, IF target \in Nodes THEN <<target>> ELSE <<>>)
       /\ jumps' = [jumps EXCEPT ![i] = Append(@, target)]
       /\ UNCHANGED status

To(i, target) ==
    \/ /\ target = NoNode
       /\ Follow(i)
       /\ UNCHANGED <<status, jumps>>
    \/ /\ target \notin Nodes \cup {NoNode}
       /\ Fail(i)
       /\ UNCHANGED <<todo, jumps>>
    \/ /\ target \in Nodes
       /\ GoOn(i, Resumption(i, target))
       /\ jumps' = [jumps EXCEPT ![i] = Append(@, target)]
       /\ UNCHANGED status

\* Mutant of HaltText: a missing message is read as an empty one.
HaltTextWithoutDefault(reason) == IF reason = "null" THEN "" ELSE reason

\* A missing message has a default, an empty one has none.
HaltText(reason) == IF reason = "null" THEN DefaultReason ELSE reason

\* Mutant of EvaluateHook: TERMINATE leaves the reason and continues.
EvaluateHookHaltsInNameOnly(i) ==
    LET r == reply[i]
    IN  /\ Returned(i, "hook")
        /\ WriteBack(i)
        /\ halt' = [halt EXCEPT ![i] = IF r.action = "terminate" THEN HaltText(r.reason) ELSE @]
        /\ terminated' = [terminated EXCEPT ![i] = IF r.action = "terminate" THEN r.reason ELSE @]
        /\ To(i, IF r.action = "skip_to" THEN r.target ELSE NoNode)
        /\ UNCHANGED reports

EvaluateHook(i) ==
    LET r == reply[i]
    IN  /\ Returned(i, "hook")
        /\ WriteBack(i)
        /\ \/ /\ r.action = "terminate"
              /\ halt' = [halt EXCEPT ![i] = HaltText(r.reason)]
              /\ terminated' = [terminated EXCEPT ![i] = r.reason]
              /\ To(i, TerminateTarget)
           \/ /\ r.action = "skip_to"
              /\ To(i, r.target)
              /\ KeepHalt(i)
              /\ UNCHANGED terminated
           \/ /\ r.action \notin {"terminate", "skip_to"}
              /\ To(i, NoNode)
              /\ KeepHalt(i)
              /\ UNCHANGED terminated
        /\ UNCHANGED reports

\* The terminal state of the instance, and whether it was halted, from its variables.
TerminalState(i) == [halted |-> halt[i] # "", reason |-> halt[i]]

\* complete_process is answered at once; the completion handshake is in Completion.
HandleComplete(i) ==
    /\ AtPoint(i)
    /\ phase[i] = "arrived"
    /\ Config[Current(i)].kind = "complete"
    /\ reports' = [reports EXCEPT ![i] = Append(@, TerminalState(i))]
    /\ Goto(i, "answered")
    /\ UNCHANGED <<consulted, verdict, reply, decided, agents>>
    /\ UNCHANGED <<status, todo, vars, choice, halt, jumps, terminated>>

CompleteProcess(i) ==
    /\ Returned(i, "complete")
    /\ Follow(i)
    /\ UNCHANGED <<status, vars, choice, halt, jumps, terminated, reports>>
-----------------------------------------------------------------------------
\* An exclusive gateway takes the flow whose condition equals gatewayDecision; with none, jBPM
\* finds no valid flow and the instance is in error.
TakeBranch(i) ==
    /\ Running(i)
    /\ Current(i) \in DOMAIN Branches
    /\ \/ /\ choice[i] \in FlowIds
          /\ GoOn(i, <<Branches[Current(i)][choice[i]]>>)
          /\ UNCHANGED status
       \/ /\ choice[i] \notin FlowIds
          /\ Fail(i)
          /\ UNCHANGED todo
    /\ UNCHANGED <<vars, choice, halt, jumps, terminated, reports, cpVars>>

ReachEnd(i) ==
    /\ Running(i)
    /\ Current(i) \in EndEvents
    /\ GoOn(i, <<>>)
    /\ status' = [status EXCEPT ![i] = IF Len(todo[i]) = 1 THEN "ended" ELSE @]
    /\ UNCHANGED <<vars, choice, halt, jumps, terminated, reports, cpVars>>

\* The FlowAgent's side; it goes on for an instance that has given up waiting.  The bound
\* MaxJumps is on what the hooks decide: without it they may lead an instance back for ever.
Handler(i) ==
    /\ todo[i] # <<>>
    /\ Current(i) \in Points
    /\ Handle(i, Current(i), vars[i])
    /\ reply'[i].target \in Nodes => Len(jumps[i]) < MaxJumps
    /\ UNCHANGED svcVars

Thread(i) ==
    \/ Call(i)
    \/ CallTimesOut(i)
    \/ ExecuteTask(i)
    \/ RouteGateway(i)
    \/ EvaluateHook(i)
    \/ CompleteProcess(i)
    \/ TakeBranch(i)
    \/ ReachEnd(i)

Next == \E i \in Instances : Start(i) \/ CallFails(i) \/ Handler(i) \/ HandleComplete(i) \/ Thread(i)

\* The Java thread of an instance runs, and its calls have a time limit.  Nothing is assumed of
\* agents: a model that never answers is one of the cases.
Spec == Init /\ [][Next]_kVars /\ \A i \in Instances : WF_kVars(Thread(i))
-----------------------------------------------------------------------------
\* The types of the variables of the service and of the FlowAgent.
TypeOK ==
    /\ CPTypeOK
    /\ status \in [Instances -> {"new", "running", "ended", "failed"}]
    /\ todo \in [Instances -> Seq(Nodes)]
    /\ vars \in [Instances -> Values]
    /\ choice \in [Instances -> FlowIds \cup {NoFlow}]
    /\ halt \in [Instances -> Reasons \cup {DefaultReason}]
    /\ jumps \in [Instances -> Seq(Nodes)]
    /\ terminated \in [Instances -> Reasons \cup {NoHalt}]
    /\ reports \in [Instances -> Seq(Reports)]

\* FlowRedirect.java:46: a redirected hook does not take its own flow as well, so an instance
\* is never on two paths ("A,D,B,D"), however often its hooks redirect it.
OneToken == \A i \in Instances : Len(todo[i]) <= 1

\* The FlowAgent is told of the end of an instance once at most, and at the end of every instance
\* that is not led past Task_CompleteProcess by a hook; else invoke() waits for ever.
EndIsReportedOnce ==
    \A i \in Instances :
        /\ Len(reports[i]) <= 1
        /\ status[i] = "ended" => reports[i] # <<>> \/ \E k \in DOMAIN jumps[i] : jumps[i][k] \in EndEvents

\* Decisions of concurrent instances are not mixed up: the variable that steers the gateway of
\* an instance is what was last decided for this instance, although all share one FlowAgent
\* and one table of decisions (flow_agent.py:159, CugaFlo.java:99).  It may be another one where
\* an answer names gatewayDecision (OwnVariablesKept).
FollowsOwnDecision ==
    \A i \in Instances : status[i] # "failed" /\ phase[i] = "idle" => choice[i] = decided[i]

\* The report says halted just when a hook terminated the instance, several calls before.  A hook
\* that gives no reason (Explained), and an answer that names _haltReason, break it.
HaltIsReported ==
    \A i \in Instances : \A k \in DOMAIN reports[i] :
        reports[i][k].halted <=> terminated[i] # NoHalt

\* After TERMINATE nothing of the process is done any more: no task, no decision and no hook of
\* the instance is called, only complete_process.
HaltStopsWork ==
    [][\A i \in Instances :
         terminated[i] # NoHalt /\ phase[i] = "idle" /\ phase'[i] # "idle"
            => Config[Current(i)].kind = "complete"]_kVars

\* A condition is evaluated as it reads on the variables of the calling instance, and a hook
\* acts on the instance only if its condition holds (decision_agent.py:113, flow_agent.py:177).
\* Values with a comparison sign in them are out of the claim: the sign would be cut at.
ConditionsHold ==
    \A i \in Instances : phase[i] # "idle" /\ todo[i] # <<>> =>
        LET p == Current(i)
            c == Config[p].condition
        IN  /\ verdict[i] \in {"TRUE", "FALSE"} /\ Plain(vars[i][c[1]])
                  => (verdict[i] = "TRUE" <=> Means(c, vars[i]))
            /\ Config[p].kind = "hook" /\ c # <<>> /\ reply[i].action # "continue"
                  => verdict[i] = "TRUE"

\* Remote agents see one A2A context per process, whoever calls them first; and a card is cached
\* for the life of the process: only callers that race for it before it is there fetch it twice
\* (remote_agent.py:39, 47, 86).
OneContextAndCard ==
    \A r \in Remotes :
        /\ Cardinality(sent[r]) <= 1
        /\ fetches[r] <= Cardinality(Instances)

\* Every instance that is started and that its hooks redirect finitely often (MaxJumps) comes to an
\* end, in error if need be, even if a model or a remote agent never answers (CugaFlo.java:207).
InstanceEnds == \A i \in Instances : status[i] = "running" ~> status[i] \in {"ended", "failed"}
=============================================================================
