---------------------------- MODULE LangGraphEngine ----------------------------
(***************************************************************************)
(* LangGraphWorkflowEngine: one run of one process.  The process and its   *)
(* hooks are compiled into a graph that LangGraph executes in supersteps:  *)
(* every node of the frontier runs on the same snapshot of the state, the  *)
(* writes of all of them are merged by the reducers of FlowState, and the  *)
(* successors are the next frontier.  A hook that asks for a structural    *)
(* change ends the graph; _run_graph then changes the process and compiles *)
(* and runs it again from where the hook said.                             *)
(*                                                                         *)
(* What the FlowAgent answers over MCP (task results, gateway decisions,   *)
(* hook actions) is nondeterministic, within what the scenario offers.     *)
(***************************************************************************)
EXTENDS FlowGraph

CONSTANTS
  Scenarios,       \* the processes and annotations the engine may be given
  TaskOutcomes,    \* what an execute_task call may come to
  RecursionLimit,  \* the supersteps LangGraph allows one graph
  MaxRebuilds      \* bound: the runs are explored up to this many rebuilds

ASSUME TaskOutcomesAssumption == TaskOutcomes \subseteq {"completed", "failed", "raised"}
ASSUME BoundsAssumption == RecursionLimit \in Nat /\ MaxRebuilds \in Nat

\* The parser yields well-formed processes.  A flow leads out of the start event:
\* for want of one the engine begins at whatever element it lists first.
ASSUME ProcessesAssumption ==
  \A s \in Scenarios :
    WellFormed(s.process) /\ Outgoing(s.process, s.process.start) # {}

\* The engine keeps notes of its own among the process variables.
Skip == "_skip_next_node"
RebuildSpec == "_graph_rebuild_spec"
Resume == "_resume_from_node"
OwnKeys == {Skip, RebuildSpec, Resume}

\* The scenarios in which nobody else writes them, neither the caller, nor a task,
\* nor a hook: the code does not see to it.
OwnMarksKept ==
  \A s \in Scenarios :
    /\ DOMAIN s.vars \intersect OwnKeys = {}
    /\ \A n \in s.agents : s.outputs[n] \intersect OwnKeys = {}
    /\ \A f \in DOMAIN s.answers : \A answer \in s.answers[f] :
         DOMAIN answer.sets \intersect OwnKeys = {}

VARIABLES
  scenario,  \* the scenario given: fixed for a run
  process,   \* the process as changed so far
  handlers,  \* elements with an MCP-backed handler: the agentic ones and those added
  state,     \* FlowState, merged up to the last superstep
  frontier,  \* the nodes of the current superstep
  done,      \* the nodes of the frontier that have run
  next,      \* FlowState with the writes of those nodes merged in
  targets,   \* the nodes those nodes lead to
  steps,     \* supersteps of the current graph
  rebuilds,  \* graph rebuilds so far
  phase,     \* "building", "running", "completed" or "crashed"
  trace,     \* history: the elements that ran, in order
  tokens,    \* history: the flows with a token for this superstep (see TokenGame)
  left,      \* history: the flows on which this superstep has left a token
  ended      \* history: a token has reached an end event

model == <<scenario, process, handlers>>
superstep == <<frontier, done, next, targets>>
counters == <<steps, rebuilds>>
history == <<trace, tokens, left, ended>>
vars == <<model, state, superstep, counters, phase, history>>

hooks == DOMAIN scenario.answers

\* Dictionaries: {}, {k: v}, {**old, **new} and f.get(k, default).
Empty == [k \in {} |-> NoNode]
Just(k, v) == [x \in {k} |-> v]
Updating(old, new) ==
  [k \in DOMAIN old \union DOMAIN new |-> IF k \in DOMAIN new THEN new[k] ELSE old[k]]
Lookup(f, k, default) == IF k \in DOMAIN f THEN f[k] ELSE default

Actions == {"continue", "skip_node", "skip_to", "terminate", "swap_nodes",
            "remove_node", "add_node"}
Structural == {"remove_node", "add_node"}

\* The type invariant: what a run may leave in the state and the superstep.
TypeOK ==
  /\ scenario \in Scenarios
  /\ \A n \in Elements(process) : process.kind[n] \in Kinds
  /\ frontier \subseteq GraphNodes(process, hooks)
  /\ done \subseteq frontier
  /\ \A s \in {state, next} :
       /\ \A n \in DOMAIN s.results : s.results[n] \in {"completed", "failed", "skipped"}
       /\ \A m \in s.mods : m.type \in Actions
       /\ s.halted \in BOOLEAN
  /\ steps \in 0..RecursionLimit
  /\ rebuilds \in 0..MaxRebuilds
  /\ phase \in {"building", "running", "completed", "crashed"}
  /\ tokens \union left \subseteq FlowIds(process)
  /\ ended \in BOOLEAN

Init ==
  /\ scenario \in Scenarios
  /\ process = scenario.process
  /\ handlers = scenario.agents
  /\ state = [path |-> << >>, vars |-> scenario.vars, decisions |-> Empty,
              results |-> Empty, mods |-> {}, halted |-> FALSE]
  /\ frontier = {}
  /\ done = {}
  /\ next = state
  /\ targets = {}
  /\ steps = 0
  /\ rebuilds = 0
  /\ phase = "building"
  /\ trace = << >>
  /\ tokens = {First(Outgoing(process, process.start)).id}
  /\ left = {}
  /\ ended = FALSE

Crash ==
  /\ phase' = "crashed"
  /\ UNCHANGED <<model, state, superstep, counters, history>>

-----------------------------------------------------------------------------
(* _build_graph, and the START router on the state the graph is given *)

Build ==
  /\ phase = "building"
  /\ LET resume == Lookup(state.vars, Resume, NoNode)
     IN  IF ~ Compiles(process, hooks, resume)
         THEN Crash
         ELSE /\ phase' = "running"
              /\ frontier' = {StartNode(process, hooks, resume)}
              /\ steps' = 0
              /\ UNCHANGED <<model, state, done, next, targets, rebuilds, history>>

-----------------------------------------------------------------------------
(* The nodes.  A node reads `state' and writes to the channels, here `next'. *)
(* LangGraph merges the writes of a superstep in an order of its own, at the *)
(* end; here each is merged when its node is done, in any order.             *)

Ready(n) == phase = "running" /\ n \in frontier \ done

\* Mutant of Merge: the path has no reducer, the last write stands.
MergeNoPathReducer(s, w) ==
  [path |-> w.path, vars |-> Updating(s.vars, w.vars),
   decisions |-> Updating(s.decisions, w.decisions),
   results |-> Updating(s.results, w.results),
   mods |-> s.mods \union w.mods, halted |-> s.halted \/ w.halted]

\* The reducers of FlowState.
Merge(s, w) ==
  [path |-> s.path \o w.path, vars |-> Updating(s.vars, w.vars),
   decisions |-> Updating(s.decisions, w.decisions),
   results |-> Updating(s.results, w.results),
   mods |-> s.mods \union w.mods, halted |-> s.halted \/ w.halted]

\* What a node writes, by default nothing.
NoWrite == [path |-> << >>, vars |-> Empty, decisions |-> Empty, results |-> Empty,
            mods |-> {}, halted |-> FALSE]

Write(n, w, goto) ==
  /\ done' = done \union {n}
  /\ next' = Merge(next, w)
  /\ targets' = targets \union goto
  /\ UNCHANGED <<model, state, frontier, counters, phase>>

\* Node n passes tokens from the flows in from to those in to; a token on an
\* end flow is absorbed once no hook is left on its way.
Pass(from, to, absorbed) ==
  /\ tokens' = tokens \ from
  /\ left' = left \union (to \ absorbed)
  /\ ended' = (ended \/ absorbed # {})

\* An element runs: the edges out of it lead to its successors.
Run(n, w) ==
  LET d == Lookup(Updating(state.decisions, w.decisions), n, NoNode)
      to == Ids(Routed(process, n, d))
      unhooked == EndFlows(process) \ Ids(WiredFlows(process, hooks))
  IN  /\ Write(n, [w EXCEPT !.path = <<n>>], Successors(process, hooks, n, d))
      /\ Pass(Ids(Incoming(process, n)), to, to \intersect unhooked)
      /\ trace' = Append(trace, n)

\* A task that has reached the resume point drops the mark from its own copy.
TaskVars(n) ==
  IF Lookup(state.vars, Resume, NoNode) = n
  THEN Restrict(state.vars, DOMAIN state.vars \ {Resume})
  ELSE state.vars

\* A task returns all of the process variables, as it knows them.
TaskDone(n, result, known) ==
  Run(n, [NoWrite EXCEPT !.vars = known, !.results = Just(n, result)])

\* Mutant of SkipTask: the mark is not reset.
SkipTaskAndGoOn(n) ==
  /\ Ready(n) /\ n \in Tasks(process)
  /\ Lookup(state.vars, Skip, FALSE) = TRUE
  /\ TaskDone(n, "skipped", TaskVars(n))

SkipTask(n) ==
  /\ Ready(n) /\ n \in Tasks(process)
  /\ Lookup(state.vars, Skip, FALSE) = TRUE
  /\ TaskDone(n, "skipped", Updating(TaskVars(n), Just(Skip, FALSE)))

\* Mutant of AgenticTask: no answer for a task without an agent.
AgenticTaskUnanswered(n) ==
  /\ Ready(n) /\ n \in Tasks(process) \intersect handlers \intersect scenario.agents
  /\ Lookup(state.vars, Skip, FALSE) # TRUE
  /\ \E result \in TaskOutcomes \ {"raised"} : TaskDone(n, result, TaskVars(n))

\* execute_task: the agent sets the output variables of the task, or fails and
\* sets none; a node added by a hook has no agent and fails.
AgenticTask(n) ==
  /\ Ready(n) /\ n \in Tasks(process) \intersect handlers
  /\ Lookup(state.vars, Skip, FALSE) # TRUE
  /\ \/ /\ n \in scenario.agents /\ "completed" \in TaskOutcomes
        /\ TaskDone(n, "completed",
                    Updating(TaskVars(n), [k \in scenario.outputs[n] |-> n]))
     \/ /\ n \notin scenario.agents \/ "failed" \in TaskOutcomes
        /\ TaskDone(n, "failed", TaskVars(n))
     \/ "raised" \in TaskOutcomes /\ Crash

\* Mutant of ToolTask: a task without a tool is an error.
ToolTaskNeedsTool(n) ==
  /\ Ready(n) /\ n \in Tasks(process) \ handlers
  /\ Lookup(state.vars, Skip, FALSE) # TRUE
  /\ Crash

\* A native task: the engine is given no tools, so it passes through.
ToolTask(n) ==
  /\ Ready(n) /\ n \in Tasks(process) \ handlers
  /\ Lookup(state.vars, Skip, FALSE) # TRUE
  /\ TaskDone(n, "completed", TaskVars(n))

\* A gateway that is not parallel chooses one of its outgoing flows, whether
\* the conditions or the DecisionAgent decide; without a flow and an agent to
\* ask there is nothing to index.
ExclusiveGateway(n) ==
  /\ Ready(n) /\ n \in Elements(process) /\ process.kind[n] = Exclusive
  /\ IF Outgoing(process, n) # {}
     THEN \E f \in Outgoing(process, n) :
            Run(n, [NoWrite EXCEPT !.decisions = Just(n, f.id)])
     ELSE IF n \in scenario.agents THEN Run(n, NoWrite) ELSE Crash

\* Mutant of ParallelGateway: only a split runs.
ParallelSplitOnly(n) ==
  /\ Ready(n) /\ n \in Elements(process) /\ process.kind[n] = Parallel
  /\ Several(Outgoing(process, n))
  /\ Run(n, NoWrite)

ParallelGateway(n) ==
  /\ Ready(n) /\ n \in Elements(process) /\ process.kind[n] = Parallel
  /\ Run(n, NoWrite)

-----------------------------------------------------------------------------
(* Hook nodes.  d is the answer of the FlowAgent after the permissions were *)
(* applied to it, s the state with the hook's variable updates.            *)

Continue == [action |-> "continue", target |-> NoNode, other |-> NoNode, sets |-> Empty]

\* An action that is not permitted, or is prohibited, becomes CONTINUE.
Permitted(action) ==
  IF scenario.permitted # {} /\ action \notin scenario.permitted THEN FALSE
  ELSE action \notin scenario.prohibited

\* Mutant of Permit: structural changes are not looked at.
PermitStructural(answer) ==
  IF Permitted(answer.action) \/ answer.action \in Structural THEN answer ELSE Continue

Permit(answer) == IF Permitted(answer.action) THEN answer ELSE Continue

Updated(d) == [state EXCEPT !.vars = Updating(state.vars, d.sets)]

\* A hook writes the whole state back, whatever it has changed of it.
Dump(f, s, goto) ==
  /\ Write(HookNode(f.id), s, {goto})
  /\ UNCHANGED trace

Proceed(f, s) ==
  /\ Dump(f, s, Target(process, f))
  /\ Pass({f.id}, {f.id}, {f.id} \intersect EndFlows(process))

\* The token does not get where the flow leads.
Divert(f, s, goto) ==
  /\ Dump(f, s, goto)
  /\ Pass({f.id}, {}, {})

Record(s, type, node) ==
  [s EXCEPT !.mods = s.mods \union {[type |-> type, node |-> node]}]

\* A diverting action without the node it needs proceeds as CONTINUE does.
HookContinue(f, d, s) ==
  /\ \/ d.action = "continue"
     \/ d.action \notin {"terminate", "skip_node"} /\ d.target = NoNode
  /\ Proceed(f, s)

\* Mutant of HookTerminate: the state is halted, the graph goes on.
HookTerminateLater(f, d, s) ==
  /\ d.action = "terminate"
  /\ Proceed(f, [s EXCEPT !.halted = TRUE])

HookTerminate(f, d, s) ==
  /\ d.action = "terminate"
  /\ Divert(f, [s EXCEPT !.halted = TRUE], END)

HookSkipNode(f, d, s) ==
  /\ d.action = "skip_node"
  /\ Proceed(f, [s EXCEPT !.vars = Updating(s.vars, Just(Skip, TRUE))])

\* Mutant of HookSkipTo: the jump is not recorded.
HookSkipToUnrecorded(f, d, s) ==
  /\ d.action = "skip_to" /\ d.target # NoNode
  /\ Divert(f, s, d.target)

HookSkipTo(f, d, s) ==
  /\ d.action = "skip_to" /\ d.target # NoNode
  /\ Divert(f, Record(s, "skip_to", d.target), d.target)

HookSwapNodes(f, d, s) ==
  LET goto == IF Target(process, f) = d.target THEN d.other ELSE d.target
  IN  /\ d.action = "swap_nodes" /\ d.target # NoNode
      /\ Divert(f, Record(s, "swap_nodes", goto), goto)

\* The graph ends, with the change to make and where to resume after it.
RequestRebuild(f, s, type, node, before, resume) ==
  LET spec == Just(RebuildSpec, [type |-> type, node |-> node, before |-> before])
      mark == IF resume = NoNode THEN Empty ELSE Just(Resume, resume)
  IN  Divert(f, [Record(s, type, node) EXCEPT
                   !.vars = Updating(Updating(s.vars, spec), mark)], END)

HookRemoveNode(f, d, s) ==
  LET after == {g \in Outgoing(process, d.target) : g.target \notin process.ends}
      resume == IF d.target # Target(process, f) THEN Target(process, f)
                ELSE IF after = {} THEN NoNode
                ELSE First(after).target
  IN  /\ d.action = "remove_node" /\ d.target # NoNode
      /\ RequestRebuild(f, s, "remove_node", d.target, NoNode, resume)

HookAddNode(f, d, s) ==
  /\ d.action = "add_node" /\ d.target # NoNode
  /\ RequestRebuild(f, s, "add_node", d.target, Target(process, f), d.target)

\* evaluate_hook may also answer CONTINUE, when the condition of the hook does
\* not hold, and an evaluation that fails proceeds.
EvaluateHook(f) ==
  /\ Ready(HookNode(f.id))
  /\ \E answer \in scenario.answers[f.id] \union {Continue} :
       LET d == Permit(answer)
           s == Updated(d)
       IN  \/ HookContinue(f, d, s) \/ HookTerminate(f, d, s)
           \/ HookSkipNode(f, d, s) \/ HookSkipTo(f, d, s)
           \/ HookSwapNodes(f, d, s)
           \/ HookRemoveNode(f, d, s) \/ HookAddNode(f, d, s)

-----------------------------------------------------------------------------
(* The end of a superstep, and of a graph *)

\* Mutant of NextFrontier: END is scheduled like a node.
NextFrontierWithEnd == targets

\* END, and a node that the graph does not have, are no next node.
NextFrontier == targets \intersect GraphNodes(process, hooks)

\* Two hook nodes write the fields that have no reducer: LangGraph refuses.
Conflict == Cardinality(frontier \ Elements(process)) > 1

Advance ==
  /\ phase = "running" /\ done = frontier /\ frontier # {}
  /\ IF Conflict \/ (NextFrontier # {} /\ steps = RecursionLimit)
     THEN Crash
     ELSE /\ state' = next
          /\ frontier' = NextFrontier
          /\ done' = {}
          /\ targets' = {}
          /\ steps' = IF NextFrontier = {} THEN steps ELSE steps + 1
          /\ tokens' = tokens \union left
          /\ left' = {}
          /\ UNCHANGED <<model, next, rebuilds, phase, trace, ended>>

GraphDone == phase = "running" /\ frontier = {}

Finish ==
  /\ GraphDone
  /\ RebuildSpec \notin DOMAIN state.vars
  /\ phase' = "completed"
  /\ UNCHANGED <<model, state, superstep, counters, history>>

\* _apply_graph_modification; a node added gets a task handler.  The code rebuilds
\* as often as hooks ask for it; the model is cut off at MaxRebuilds.
Rebuild ==
  /\ GraphDone /\ rebuilds < MaxRebuilds
  /\ RebuildSpec \in DOMAIN state.vars
  /\ LET spec == state.vars[RebuildSpec]
     IN  IF spec.type = "remove_node"
         THEN /\ process' = RemoveNode(process, spec.node)
              /\ UNCHANGED handlers
         ELSE /\ process' = AddNode(process, spec.node, spec.before)
              /\ handlers' = handlers \union {spec.node}
  /\ state' = [state EXCEPT !.vars = Restrict(state.vars, DOMAIN state.vars \ {RebuildSpec})]
  /\ next' = state'
  /\ rebuilds' = rebuilds + 1
  /\ phase' = "building"
  /\ tokens' = {}
  /\ UNCHANGED <<scenario, frontier, done, targets, steps, trace, left, ended>>

-----------------------------------------------------------------------------
NodeStep ==
  \/ \E n \in frontier : \/ SkipTask(n) \/ AgenticTask(n) \/ ToolTask(n)
                         \/ ExclusiveGateway(n) \/ ParallelGateway(n)
  \/ \E f \in WiredFlows(process, hooks) : EvaluateHook(f)

Next == Build \/ NodeStep \/ Advance \/ Finish \/ Rebuild

Spec == Init /\ [][Next]_vars

\* The event loop runs the nodes that are ready, and every call to the
\* FlowAgent returns or raises.
FairSpec == Spec /\ WF_vars(Next)

-----------------------------------------------------------------------------
(* Properties of every scenario *)

\* What a hook may do is governed: no trace of an action that the permissions
\* rule out, in the audit log, the results or the outcome.
PermissionsHold ==
  /\ state.halted => Permitted("terminate")
  /\ \A m \in state.mods : Permitted(m.type)
  /\ (\E n \in DOMAIN state.results : state.results[n] = "skipped") => Permitted("skip_node")
  /\ process # scenario.process => \E type \in Structural : Permitted(type)

\* A graph has asked for the rebuild that is beyond the bound.
CutOff == GraphDone /\ RebuildSpec \in DOMAIN state.vars /\ rebuilds = MaxRebuilds

\* A run comes to an end, in order, by an exception, or because the recursion
\* limit stops hooks that jump back for ever; what keeps it from ending is hooks
\* that ask for a rebuild in each graph (`while True' of _run_graph), and nothing
\* else: here it goes on to the bound.
RunEnds == <>(phase \in {"completed", "crashed"} \/ CutOff)

-----------------------------------------------------------------------------
(* Properties of sequential scenarios *)

Repeats == \E i, j \in DOMAIN trace : i < j /\ trace[i] = trace[j]
Jumped == \E m \in state.mods : m.type \in {"skip_to", "swap_nodes"}

\* "Resuming execution without replaying already-executed nodes": in a process
\* without a loop an element runs twice only if a hook jumps back.
NoReplay == Repeats => Jumped

\* The path reported repeats itself, since each hook writes the path it has read
\* to a channel that appends; but it ends in what ran, in the order it ran and
\* each element as often as it ran, through any number of hooks and graphs.
PathEndsInTrace == done = {} => IsSuffix(trace, state.path)

\* "Sequence of executed node IDs" (flow_agent_state.py): not after a hook
\* (LangGraphEngine_path.cfg).
PathIsTrace == frontier = {} => state.path = trace

InOrder ==
  \A i \in 1..(Len(trace) - 1) :
    \E f \in Flows(scenario.process) : f.source = trace[i] /\ f.target = trace[i + 1]

\* Jumps and changes of the process are in the audit log: without a record the
\* elements ran in the order of the flows of the process that was given.  Skips and
\* halts are not in the log, contrary to the documentation (DeviationsRecorded).
DiversionsRecorded == state.mods = {} => InOrder

\* "Every such deviation is [...] recorded in the audit log" (README.md): a task that
\* was skipped and a process that was halted are deviations too, without a record
\* (LangGraphEngine_audit.cfg).
DeviationsRecorded ==
  state.mods = {} =>
    /\ InOrder /\ ~ state.halted
    /\ \A n \in DOMAIN state.results : state.results[n] # "skipped"

\* "Skip the immediate next node" (README.md): a task is skipped only if a hook that may
\* answer so is on a flow into it.
SkipsTheNextNode ==
  \A n \in DOMAIN state.results :
    state.results[n] = "skipped" =>
      \E f \in Flows(scenario.process) :
        /\ f.target = n /\ f.id \in hooks
        /\ \E a \in scenario.answers[f.id] : a.action = "skip_node"

\* "Hard-halt the process immediately": nothing is left to run.
HaltIsFinal == state.halted => frontier = {}

\* The process is reported complete only if an end event was reached.
CompletesAtEnd == phase = "completed" => ended \/ state.halted

-----------------------------------------------------------------------------
(* Properties of scenarios with parallel branches *)

\* "Parallel join - waits for all incoming branches".
JoinWaits ==
  \A n \in frontier \ done :
    n \in Elements(process) /\ process.kind[n] = Parallel /\ state.mods = {} =>
      Ids(Incoming(process, n)) \subseteq tokens

\* "Dict merged across parallel branches": what a task sets is not undone by
\* a task that runs beside it.
UpdatesKept ==
  phase = "completed" =>
    \A n \in DOMAIN state.results :
      state.results[n] = "completed" /\ n \in DOMAIN scenario.outputs =>
        \A k \in scenario.outputs[n] : state.vars[k] # <<"initial">>

\* An agentic task may be waiting for an answer of its agent that raises.
CallMayRaise ==
  "raised" \in TaskOutcomes /\ \E n \in frontier \ done : n \in Tasks(process) \intersect handlers

\* Only the call of a task ends a run by an exception: not the compilation, not the
\* limit of supersteps, not a hook that writes beside a task, nor any other node.
OnlyCallsRaise == [][phase' = "crashed" => phase = "crashed" \/ CallMayRaise]_vars

\* "Adaptation tracking - lists merged across parallel branches": a run that raises
\* takes no record of an adaptation with it.
AdaptationsMerged == phase = "crashed" => next.mods \subseteq state.mods

Game == INSTANCE TokenGame WITH
  tokens <- tokens \union left,
  halted <- next.halted,
  over   <- phase = "completed"

\* The engine plays the token game.
GameSpec == Game!GameSpec
================================================================================
