--------------------------- MODULE ControlPoints ---------------------------
(***************************************************************************)
(* The FlowAgent at its control points: the handlers of execute_task,      *)
(* route_gateway and evaluate_hook (engine/flow_agent.py), the agents that *)
(* they ask (task_agent.py, decision_agent.py) and the remote agents that  *)
(* these may call over A2A (remote_agent.py).                              *)
(*                                                                         *)
(* A workflow engine calls a control point for an instance of the process  *)
(* and waits; several instances may be at control points at once, and the  *)
(* handlers share one FlowAgent.  A handler is a coroutine: each of its    *)
(* awaits ends an action.                                                  *)
(***************************************************************************)
EXTENDS Conditions, FiniteSets

CONSTANTS
    Instances,      \* instances of the process, at most one call each at a time
    Points,         \* control points: task, gateway, hook and completion nodes
    Config,         \* what the YAML configures at each of them, see PointConfig
    FlowIds,        \* sequence flows out of gateways
    Variables,      \* names of the process variables that agents read and write
    Texts,          \* values that a task may leave in a variable, as texts
    HookDecisions,  \* what the reasoning of a hook may return
    Targets,        \* node ids that it may name
    Remotes,        \* the remote_agents: block
    NoRemote, NoFlow, NoNode

Reasons == {"", "null", "why"}
Actions == {"continue", "skip_node", "skip_to", "swap_nodes", "terminate", "remove_node", "add_node"}

PointConfig ==
    [kind : {"task", "gateway", "hook", "complete"},
     known : BOOLEAN,                    \* the FlowAgent has an agent or a hook for it
     remote : Remotes \cup {NoRemote},   \* agent_type or human_consultation
     condition : Seq(STRING),            \* empty: none
     policy : BOOLEAN,                   \* of a hook: reasoned, not static
     action : Actions,                   \* of a static hook
     outputs : SUBSET Variables,         \* output_mapping of a task
     flows : Seq(FlowIds)]               \* available_flows of a gateway

HookDecision ==
    [action : Actions, target : Targets \cup {NoNode}, reason : Reasons,
     updates : SUBSET Variables, value : Texts]

ASSUME PointsAreConfigured ==
    /\ Config \in [Points -> PointConfig]
    /\ HookDecisions \subseteq HookDecision
    /\ IsFiniteSet(Instances)
    /\ Texts \subseteq Seq(STRING) /\ {None, <<"0">>} \subseteq Texts
    /\ NoRemote \notin Remotes /\ NoFlow \notin FlowIds /\ NoNode \notin Targets

\* The class of configurations whose conditions compare a variable with a literal.
Comparisons ==
    /\ Variables \cap Signs = {}
    /\ \A p \in Points : Config[p].condition # <<>> => Comparison(Config[p].condition, Variables)

VARIABLES
    phase,       \* where the handler of the instance's call stands
    consulted,   \* whether the agent has asked its user already
    verdict,     \* outcome of the condition at this control point
    reply,       \* answer of the handler
    decided,     \* history: the flow that was last decided for this instance
    decisions,   \* _gateway_decisions of the FlowAgent: gateway -> flow
    cards,       \* agent cards in the cache
    fetches,     \* history: successful fetches of each card
    contexts,    \* _context_ids: remote -> id, 0 if none yet
    minted,      \* number of context ids made
    sent         \* history: the context ids of the messages sent to each remote

handlers == <<phase, consulted, verdict, reply, decided>>
agents   == <<decisions, cards, fetches, contexts, minted, sent>>
cpVars   == <<handlers, agents>>

Phases == {"idle", "arrived", "thinking", "resolving", "fetching", "posting", "answered"}
Values == [Variables -> Texts]
Replies == [vars : Values, action : Actions, target : Targets \cup {NoNode},
            reason : Reasons, flow : FlowIds \cup {NoFlow}]

Plainly(ctx) == [vars |-> ctx, action |-> "continue", target |-> NoNode,
                 reason |-> "why", flow |-> NoFlow]

NoAnswer == Plainly([v \in Variables |-> None])

CPInit ==
    /\ phase     = [i \in Instances |-> "idle"]
    /\ consulted = [i \in Instances |-> FALSE]
    /\ verdict   = [i \in Instances |-> "none"]
    /\ reply     = [i \in Instances |-> NoAnswer]
    /\ decided   = [i \in Instances |-> NoFlow]
    /\ decisions = [p \in Points |-> NoFlow]
    /\ cards     = {}
    /\ fetches   = [r \in Remotes |-> 0]
    /\ contexts  = [r \in Remotes |-> 0]
    /\ minted    = 0
    /\ sent      = [r \in Remotes |-> {}]

-----------------------------------------------------------------------------
Goto(i, step) == phase' = [phase EXCEPT ![i] = step]

\* The handler returns; the engine has not seen the answer yet.
Answer(i, r) ==
    /\ Goto(i, "answered")
    /\ reply' = [reply EXCEPT ![i] = r]

\* The call reaches its handler.
Arrive(i) ==
    /\ phase[i] = "idle"
    /\ Goto(i, "arrived")
    /\ UNCHANGED <<consulted, verdict, reply, decided, agents>>

\* The answer has been used: what the handler kept for this call is gone.
Leave(i) ==
    /\ Goto(i, "idle")
    /\ consulted' = [consulted EXCEPT ![i] = FALSE]
    /\ verdict' = [verdict EXCEPT ![i] = "none"]
    /\ reply' = [reply EXCEPT ![i] = NoAnswer]
    /\ UNCHANGED <<decided, agents>>

\* Outcomes of TaskAgent.execute.  A failure leaves the variables as they are; else each mapped
\* output is the value found under its key, or the whole content, whatever that is.
Written(p, ctx, values) == [v \in Variables |-> IF v \in Config[p].outputs THEN values[v] ELSE ctx[v]]
TaskOutcomes(p, ctx) == {ctx} \cup {Written(p, ctx, values) : values \in Values}

HandleTask(i, p, ctx) ==
    /\ phase[i] = "arrived"
    /\ Config[p].kind = "task"
    /\ \/ /\ ~ Config[p].known
          /\ Answer(i, Plainly(ctx))
       \/ /\ Config[p].known
          /\ Goto(i, IF Config[p].remote = NoRemote THEN "thinking" ELSE "resolving")
          /\ UNCHANGED reply
    /\ UNCHANGED <<consulted, verdict, decided, agents>>

FinishTask(i, p, ctx) ==
    /\ phase[i] = "thinking"
    /\ Config[p].kind = "task"
    /\ \E out \in TaskOutcomes(p, ctx) : Answer(i, Plainly(out))
    /\ UNCHANGED <<consulted, verdict, decided, agents>>
-----------------------------------------------------------------------------
\* The condition node of a DecisionAgent is left out of its graph when it consults.
GatewayVerdict(p, ctx) ==
    IF Config[p].remote # NoRemote THEN "none"
    ELSE IF Config[p].condition = <<>> THEN "UNKNOWN"
    ELSE IF EvalCondition(Config[p].condition, ctx) THEN "TRUE" ELSE "FALSE"

FirstFlow(p) == IF Config[p].flows = <<>> THEN NoFlow ELSE Config[p].flows[1]

\* Mutant of RouteTo: the answer is read back from a table that all the instances share.
RouteToLatest(i, ctx, f) ==
    /\ Answer(i, [Plainly(ctx) EXCEPT !.flow =
                    IF \E p \in Points : decisions[p] # NoFlow
                    THEN decisions[CHOOSE p \in Points : decisions[p] # NoFlow] ELSE f])
    /\ decided' = [decided EXCEPT ![i] = f]

RouteTo(i, ctx, f) ==
    /\ Answer(i, [Plainly(ctx) EXCEPT !.flow = f])
    /\ decided' = [decided EXCEPT ![i] = f]

Remember(p, f) == decisions' = [decisions EXCEPT ![p] = f]

\* No agent: the first flow, which is not remembered.  No choice: no agent is asked.
HandleGateway(i, p, ctx) ==
    /\ phase[i] = "arrived"
    /\ Config[p].kind = "gateway"
    /\ \/ /\ ~ Config[p].known \/ Len(Config[p].flows) <= 1
          /\ RouteTo(i, ctx, FirstFlow(p))
          /\ IF Config[p].known THEN Remember(p, FirstFlow(p)) ELSE UNCHANGED decisions
          /\ UNCHANGED verdict
       \/ /\ Config[p].known /\ Len(Config[p].flows) > 1
          /\ Goto(i, "thinking")
          /\ verdict' = [verdict EXCEPT ![i] = GatewayVerdict(p, ctx)]
          /\ UNCHANGED <<reply, decided, decisions>>
    /\ UNCHANGED <<consulted, cards, fetches, contexts, minted, sent>>

\* The agent names a flow; an answer that names none, or an error, stands for the first.
Decide(i, p, ctx) ==
    /\ phase[i] = "thinking"
    /\ Config[p].kind = "gateway"
    /\ \E k \in DOMAIN Config[p].flows :
         /\ RouteTo(i, ctx, Config[p].flows[k])
         /\ Remember(p, Config[p].flows[k])
    /\ UNCHANGED <<consulted, verdict, cards, fetches, contexts, minted, sent>>
-----------------------------------------------------------------------------
HookVerdict(p, ctx) ==
    IF Config[p].condition = <<>> THEN "none"
    ELSE IF EvalCondition(Config[p].condition, ctx) THEN "TRUE" ELSE "FALSE"

\* A hook that is unknown, or whose condition does not hold, continues.  A static hook has an
\* action and a message, never a target.
HandleHook(i, p, ctx) ==
    /\ phase[i] = "arrived"
    /\ Config[p].kind = "hook"
    /\ LET v == IF Config[p].known THEN HookVerdict(p, ctx) ELSE "none"
       IN  /\ verdict' = [verdict EXCEPT ![i] = v]
           /\ \/ /\ ~ Config[p].known \/ v = "FALSE"
                 /\ Answer(i, Plainly(ctx))
              \/ /\ Config[p].known /\ v # "FALSE" /\ ~ Config[p].policy
                 /\ Answer(i, [Plainly(ctx) EXCEPT !.action = Config[p].action])
              \/ /\ Config[p].known /\ v # "FALSE" /\ Config[p].policy
                 /\ Goto(i, "thinking")
                 /\ UNCHANGED reply
    /\ UNCHANGED <<consulted, decided, agents>>

\* The reasoning of a hook: any decision, or CONTINUE when the answer cannot be read.
Updated(ctx, d) == [v \in Variables |-> IF v \in d.updates THEN d.value ELSE ctx[v]]

DecideHook(i, p, ctx) ==
    /\ phase[i] = "thinking"
    /\ Config[p].kind = "hook"
    /\ \/ \E d \in HookDecisions :
            Answer(i, [Plainly(Updated(ctx, d)) EXCEPT
                         !.action = d.action, !.target = d.target, !.reason = d.reason])
       \/ Answer(i, Plainly(ctx))
    /\ UNCHANGED <<consulted, verdict, decided, agents>>
-----------------------------------------------------------------------------
\* consult_user is a tool of the reasoning agent, which may call it before it answers.
\* Once is enough: a second consultation meets the same caches.
Consult(i, p) ==
    /\ phase[i] = "thinking"
    /\ Config[p].kind \in {"gateway", "hook"}
    /\ Config[p].remote # NoRemote
    /\ ~ consulted[i]
    /\ Goto(i, "resolving")
    /\ consulted' = [consulted EXCEPT ![i] = TRUE]
    /\ UNCHANGED <<verdict, reply, decided, agents>>

\* Mutant of ContextOf: a context per message.
ContextPerMessage(r) == minted + 1

\* One A2A context per remote agent, made at its first message and kept.
ContextOf(r) == IF contexts[r] = 0 THEN minted + 1 ELSE contexts[r]

Post(i, r) ==
    /\ Goto(i, "posting")
    /\ contexts' = [contexts EXCEPT ![r] = ContextOf(r)]
    /\ minted' = IF ContextOf(r) > minted THEN ContextOf(r) ELSE minted
    /\ sent' = [sent EXCEPT ![r] = @ \cup {ContextOf(r)}]

\* RemoteAgentRegistry.send up to its first await: that of the card, or that of the message.
Resolve(i, p) ==
    LET r == Config[p].remote
    IN  /\ phase[i] = "resolving"
        /\ \/ /\ r \in cards
              /\ Post(i, r)
           \/ /\ r \notin cards
              /\ Goto(i, "fetching")
              /\ UNCHANGED <<contexts, minted, sent>>
        /\ UNCHANGED <<consulted, verdict, reply, decided, decisions, cards, fetches>>

\* Mutant of Cached: the card is fetched for every invocation.
NotCached(r) == cards

Cached(r) == cards \cup {r}

CardFetched(i, p) ==
    LET r == Config[p].remote
    IN  /\ phase[i] = "fetching"
        /\ cards' = Cached(r)
        /\ fetches' = [fetches EXCEPT ![r] = @ + 1]
        /\ Post(i, r)
        /\ UNCHANGED <<consulted, verdict, reply, decided, decisions>>

\* The answer of the remote agent is the output of a task, and advice to all others.
RemoteAnswers(i, p, ctx) ==
    /\ phase[i] = "posting"
    /\ \/ /\ Config[p].kind = "task"
          /\ \E out \in TaskOutcomes(p, ctx) : Answer(i, Plainly(out))
       \/ /\ Config[p].kind # "task"
          /\ Goto(i, "thinking")
          /\ UNCHANGED reply
    /\ UNCHANGED <<consulted, verdict, decided, agents>>

\* It cannot be reached, refuses or times out: the task has failed, the consultation is done without.
RemoteFails(i, p, ctx) ==
    /\ phase[i] \in {"fetching", "posting"}
    /\ \/ /\ Config[p].kind = "task"
          /\ Answer(i, Plainly(ctx))
       \/ /\ Config[p].kind # "task"
          /\ Goto(i, "thinking")
          /\ UNCHANGED reply
    /\ UNCHANGED <<consulted, verdict, decided, agents>>

\* A step of the handler at p, called with the variables ctx.
Handle(i, p, ctx) ==
    \/ HandleTask(i, p, ctx)
    \/ FinishTask(i, p, ctx)
    \/ HandleGateway(i, p, ctx)
    \/ Decide(i, p, ctx)
    \/ HandleHook(i, p, ctx)
    \/ DecideHook(i, p, ctx)
    \/ Consult(i, p)
    \/ Resolve(i, p)
    \/ CardFetched(i, p)
    \/ RemoteAnswers(i, p, ctx)
    \/ RemoteFails(i, p, ctx)

CPTypeOK ==
    /\ phase \in [Instances -> Phases]
    /\ consulted \in [Instances -> BOOLEAN]
    /\ verdict \in [Instances -> {"none", "TRUE", "FALSE", "UNKNOWN"}]
    /\ reply \in [Instances -> Replies]
    /\ decided \in [Instances -> FlowIds \cup {NoFlow}]
    /\ decisions \in [Points -> FlowIds \cup {NoFlow}]
    /\ cards \subseteq Remotes
    /\ fetches \in [Remotes -> Nat]
    /\ contexts \in [Remotes -> Nat]
    /\ minted \in Nat
    /\ sent \in [Remotes -> SUBSET Nat]
=============================================================================
