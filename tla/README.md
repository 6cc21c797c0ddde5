# A verification project for CUGA FLO

TLA+ modules that model CUGA FLO, the TLC configurations that check them, and proofs
that TLAPS checks. Paths below are relative to the repository (`src/` here is the root of
the repository, `src/src/cuga_flo` its package).

CUGA FLO runs BPMN processes with a *FlowAgent* at their control points. A workflow engine
(LangGraph in process, or Kogito or Flowable behind HTTP) owns the token; at every agentic
task, gateway and hook it calls the FlowAgent back over MCP, and at the end it calls
`complete_process`. The FlowAgent starts a process by calling `run_process` of the MCP bridge.

## 1. Inventory

| Component | Code | State it keeps | Operations | In this project |
|---|---|---|---|---|
| Completion handshake | `engine/flow_agent.py` `invoke`, `mcp/bridge.py` `run_process_*`, `_handle_complete`, `_ensure_http_server`; `adapters/*/proxy.py` `start_process`; `CugaFlo.java` `completeProcess` | `_pending_completions` (one slot per process key), one future per invocation, `_http_started`, the POST in flight | invoke, run_process, complete_process, time-out, listener start | `Completion`, `InvocationService`, `CompletionProofs` |
| LangGraph engine | `engine/langgraph_engine.py`, `engine/flow_agent_state.py` | process definition (mutable through rebuilds), handlers, `FlowState` channels with reducers, marks `_skip_next_node`, `_graph_rebuild_spec`, `_resume_from_node` | build, task, gateway, hook node, superstep, rebuild | `FlowGraph`, `LangGraphEngine`, `TokenGame`, `LangGraphEngineProofs`, `LangGraphEngineSteps`, `SequentialProofs`, `TokenGameProofs` |
| FlowAgent handlers | `engine/flow_agent.py` `_handle_task`, `_handle_gateway`, `_handle_hook`, `_llm_hook_decision`; `engine/task_agent.py` | `_gateway_decisions`, the coroutine of each call | execute_task, route_gateway, evaluate_hook | `ControlPoints` |
| DecisionAgent | `engine/decision_agent.py` | none | condition evaluation, routing | `Conditions`, `ConditionsProofs`, `ControlPoints` |
| Remote agents | `engine/remote_agent.py` | `_cards`, `_context_ids` | fetch card, send, delegate, consult | `ControlPoints` |
| Kogito adapter | `adapters/kogito/runtime/*.java`, `adapters/kogito/proxy.py` | process instance, its token, its variables (`_haltReason`, `gatewayDecision`) | executeTask, routeGateway, evaluateHook, redirect, completeProcess | `KogitoService`, `KogitoProofs` (composed with `ControlPoints`); start and time-out of the POST in `Completion` |
| Process registry | `engine/process_registry.py` | two caches, modification times | register, get, hot reload | `FlowDefinitions` |
| Configuration | `engine/flow_config.py`, schemas | none | validation, engine's view, FlowAgent's view, choice of engine | `FlowDefinitions` |
| Host patch | `_hostpatch.py` | files of the host package, a marker | apply, revert, check | `HostPatch` |
| Command line | `cli/start.py`, `cli/__init__.py` | the running application | start, patch-host | `Deployment` (composes `HostPatch` and `FlowDefinitions`) |
| MCP bridge | `mcp/bridge.py` | `_http_started`, `_deployed`, registered FlowAgent and registry | the tools above, load_flow | in `Completion`, `ControlPoints`, `FlowDefinitions` |
| Flowable adapter | `adapters/flowable/proxy.py` | none here | REST calls | start and completion in `Completion` |
| BPMN parser | `engine/bpmn_parser.py` | none | XML to process definition | its result is the process record of `FlowGraph` |
| Scripts, applications | `scripts/`, `applications/` | none | examples | out of scope: no state of their own |

How they interact: `invoke` puts a future in `_pending_completions` and calls `run_process`
over MCP; the engine calls `execute_task`, `route_gateway` and `evaluate_hook` of the same
FlowAgent, then `complete_process`, whose handler resolves the future. Engine, bridge and
FlowAgent share one event loop with LangGraph; Kogito and Flowable run elsewhere and come
back through an HTTP listener that the first `run_process` starts.

What is hard in it, and what therefore has properties:

* *Two clocks in one slot.* The completion table is keyed by the process, not by the
  invocation. Overlapping calls, time-outs followed by retries, and late completions all
  meet in that slot. Correct means: a serial caller waits for ever only if its own process gives it
  no end, no terminal state answers two callers, and a caller is given the state of the process it
  started.
* *Supersteps.* LangGraph runs the nodes of a superstep on one snapshot and merges their
  writes. Joins, lost updates, and fields without a reducer depend on what falls in the
  same superstep. Correct means: the graph plays the token game of BPMN.
* *Marks.* Skipping, rebuilding and resuming are notes left in the process variables, read
  by a later node, a later graph or never. Correct means: nothing runs twice, a skip hits
  the next node, and an action that the permissions rule out leaves no mark.
* *Shared agents.* Instances of a process share one FlowAgent, one table of decisions, one
  card and one A2A context per remote agent, and a handler outlives the caller that has given
  up on it. Correct means: an instance follows its own decisions, and comes to an end.
* *Redirects from inside a node.* A Kogito hook moves the token of the instance whose script is
  calling it. Correct means: one token, nothing after a halt, and one report of the end.
* *Files that change underneath.* The YAML is read several times, by two consumers with two
  readings of it, and may be saved between them; the host package is patched in place by
  commands that may be killed. Correct means: stale definitions are noticed, what is delegated
  has a handler, and an application never runs on half a patch.
* *Structural change while running.* A hook rewrites the process, the flows get new ids and
  the graph is compiled again. Correct means: what ran does not run again, and the run ends
  at an end event or is halted.

The hazards are listed one by one, with their lines, in `PROJECT.json`.

## 2. Modules

| Module | Models |
|---|---|
| `InvocationService` | abstract: each invocation is answered once, with the terminal state of its own process or an error |
| `Completion` | the handshake, one process key |
| `MCCompletion` | its instances for TLC |
| `CompletionProofs` | proofs about it |
| `FlowGraph` | pure operators: process records, compilation rules, routing, `RemoveNode`, `AddNode`, and the classes of processes that theorems are about |
| `TokenGame` | abstract: the token game of BPMN |
| `LangGraphEngine` | one run of one process |
| `MCLangGraphEngine` | its scenarios for TLC |
| `LangGraphEngineProofs` | lemmas about `FlowGraph`; what holds of every process: permissions, types |
| `LangGraphEngineSteps` | the steps of the engine by their effect; completion |
| `SequentialProofs` | processes that do not fork: halts, path, order, replay, skips |
| `TokenGameProofs` | the refinement of `TokenGame`; what can end a run by an exception |
| `Conditions` | pure operators: the condition language of the DecisionAgent and the hooks |
| `ConditionsProofs` | what substitution, cutting and comparison come to |
| `ControlPoints` | the FlowAgent's handlers, the agents they ask, remote agents |
| `KogitoService` | instances of a Kogito process, composed with `ControlPoints` |
| `MCKogito` | its process for TLC |
| `KogitoProofs` | proofs about it |
| `HostPatch` | patch-host, on a checkout and on a wheel |
| `FlowDefinitions` | the flow definition on disk, in the registry, in the FlowAgent and in a run |
| `Deployment` | the life of an installation: composes the two |
| `MCDeployment` | its patches and definitions for TLC |
| `DeploymentProofs` | proofs about it |

Some operators are preceded by a comment "Mutant of X": each is a plausible bug in X, used in
place of it to show that a property would find that bug. They are not part of the model.

### Completion

`pending` is the slot, `future[i]` the future of invocation *i*, `instance[i]` the process
instance that it started, `pc[i]` the await at which it stands. An action is the code between
two awaits, which the event loop does not interrupt.

| Action | Code |
|---|---|
| `Invoke`, `Register`, `Deliver` | `FlowAgent.invoke` before the extraction of variables, from there to the MCP call, after the future |
| `Return` | the return and the `finally` that pops the slot, whoever's it is |
| `Launch` | `run_process` of LangGraph: `create_task` and an answer |
| `EnsureHttpServer`, `ListenerUp`, `SeeListener` | `_ensure_http_server`: the flag is set first, and only the first caller polls |
| `Post`, `PostRefused`, `PostAnswered`, `PostTimesOut` | `start_process` of a proxy: a blocking POST that lasts as long as the process |
| `Complete`, `Resolve` | `complete_process` and `_handle_complete` |
| `End`, `Fail` | the instance after its callback, or an exception in it |
| `EndUnreported` | an instance of an HTTP engine that a hook has redirected to an end event: it is over without a report, and its POST is answered as any other |

Abstractions: the initial variables, the content of a terminal state (it is the name of the
instance), and control points (an instance may fail at any time, which stands for a control
point that raises). `Deliver` returns the state or the error that `invoke` makes of an exception in reading it. Several process keys are as many independent slots. The constants say
whether callers are serial or may overlap, and whether a POST may time out.

### FlowGraph and LangGraphEngine

A process is a record of element kinds and a set of sequence flows, each with a place: the places
are the order of the flows in the file and in the engine's list, and all that the code asks of that
order is which flow comes first. The flows that a rebuild makes have places behind all the others. An
id is a sequence of strings, so that the ids that the engine composes stay distinct as they do there.
`Compiles` is what LangGraph's `compile` and `add_node` refuse. A scenario is a process
with its annotations: the elements that have an agent, for each hooked flow the answers its
hook may give, the outputs of each task, the initial variables, and the two lists of
`action_permissions`. An answer is an action with the nodes it names and the `state_updates` that come
with it (`sets`). The engine keeps its marks among the process variables, and so does the model: outputs
and updates may name them, and the scenarios in which none does are `OwnMarksKept`.

| Action | Code |
|---|---|
| `Build` | `_build_graph` with the START router and the checks of LangGraph's `compile` |
| `SkipTask`, `AgenticTask`, `ToolTask` | the task handlers: the skip mark, the MCP-backed and the native task |
| `ExclusiveGateway`, `ParallelGateway` | the gateway nodes and the router out of them |
| `EvaluateHook` with `Hook...` | `_make_hook_node`: permissions, state updates, and one operator for each `HookAction` |
| `Advance` | the end of a superstep in LangGraph: next frontier, conflicts, recursion limit |
| `Rebuild`, `Finish` | the loop of `_run_graph` |

A node reads `state`, the state merged up to the last superstep, and writes into `next`. The
writes of a superstep are merged as each node is done, so TLC tries every order of merging;
LangGraph fixes one, which the code does not rely on. `Merge` is the list of reducers.
The loop of `_run_graph` has no bound; the model stops exploring after `MaxRebuilds` rebuilds, in states that
satisfy `CutOff`.

Abstractions, all of them of data: what agents and conditions decide is nondeterministic
(an exclusive or inclusive gateway takes any of its flows, as the engine treats both alike);
`hook_evaluations`, messages and times are left out; of a set of records no order is kept. The engine is started
with an empty dictionary of tools (`mcp/bridge.py`), so a native task passes through. The
scenarios have a start flow, and only the first one is followed, as in the code. LangGraph
itself, which is not part of the repository, is modelled from its use: supersteps, reducers,
`END`, a `goto` without a node behind it, and the error on two writes to a field without
a reducer.

`trace`, `tokens`, `left` and `ended` are history variables: no guard reads them. `tokens` and
`left` are where a token game would have its tokens, for the refinement.

### Conditions and ControlPoints

A condition is a text, and a text is a sequence of tokens: a reference to a variable, a sign, a
numeral or a word. That is as much of the characters as the code looks at: it puts the text of
each variable in, cuts the result at the first operator that occurs in it, and reads the two
sides as literals. A `FlowAgent` is configured by `Config`, which has for each control point
what the YAML gives it: whether there is an agent, a remote agent to delegate to or consult, a
condition, a policy or a static action, outputs, flows.

| Action | Code |
|---|---|
| `Arrive`, `Leave` | the MCP tools of `register_flow_agent`: a call comes in, its answer is used |
| `HandleTask`, `FinishTask` | `_handle_task` up to its await, and `TaskAgent.execute` with its output mapping and its failures |
| `HandleGateway`, `Decide` | `_handle_gateway` and `DecisionAgent.route`: no agent, no choice, the condition node, the decide node with its fall-backs |
| `HandleHook`, `DecideHook` | `_handle_hook`: unknown hook, condition, static handler; `_llm_hook_decision` |
| `Consult` | the `consult_user` tool, called or not by the reasoning agent |
| `Resolve`, `CardFetched`, `RemoteAnswers`, `RemoteFails` | `RemoteAgentRegistry.send` cut at its two awaits: the card, the message |

### KogitoService

`todo[i]` is what the thread of instance *i* has still to trigger, so two entries are two tokens.
`vars`, `choice` and `halt` are its process variables, of which `gatewayDecision` and
`_haltReason` stand apart; `Exposed` says at which control points the answer may name one of these two, which
the code writes over like any other. The process is any graph of tasks, gateways and hooks with exclusive
gateways, in which the script that calls `complete_process` stands in front of each end event and
nowhere else (`CompletionIsTheEnd`), as in the process models of `applications/`.

| Action | Code |
|---|---|
| `Start` | `KogitoProxy.start_process`; a second instance is the retry of a POST that timed out, or another caller |
| `Call`, `CallFails`, `CallTimesOut` | `CugaFlo.call`: the request with all of the variables; an answer that is no result; the limit of 300 seconds |
| `ExecuteTask`, `RouteGateway`, `EvaluateHook` | the helpers of the same names after the call: write-back of declared variables with `coerce`, the decision, the action |
| `To` | `FlowRedirect.to` with `findNode` |
| `HandleComplete`, `CompleteProcess` | `complete_process` in the bridge, and `CugaFlo.completeProcess` |
| `Overwritten`, `KeepHalt` | what the write-back makes of the service's own variables, where an answer names one |
| `TakeBranch`, `ReachEnd` | jBPM, which is not in the repository: an exclusive gateway on `gatewayDecision`, an end event |
| `Handler` | the FlowAgent's side, which also goes on for an instance that has failed meanwhile |

`phase`, `consulted`, `verdict` and `reply` belong to the call of an instance and are reset when it
is left; `decisions`, `cards`, `contexts` are the FlowAgent's and shared. `decided`, `fetches`,
`sent`, `terminated`, `jumps` and `reports` are history variables: only the bound `MaxJumps` reads one.

### HostPatch

A file is untouched or holds a patch text, the whole of it, only some hunks, or hunks in a wrong
place. Each patch has a file of its own, as the vendored ones do. `Drifted` says which patch of
which set does not apply to which version of cuga-agent. `conflicted` says that some other `.py` file of the
checkout has a conflict marker, for which `apply` searches the whole of it.

| Action | Code |
|---|---|
| `BeginApply`, `ApplyOne`, `Undo`, `Mark` | `apply`: restore (checkout) or the exit when git cannot, one patch after the other with the search for conflicts (checkout) or the reverse dry run (wheel), what is undone after a failure or stays because git could not, the marker |
| `BeginRevert`, `RevertOne`, `Unmark` | `revert` |
| `Check` | `check` with `_signatures_present` |
| `Killed` | the command is killed at any of these steps, or half-way through undoing |
| `Reinstall`, `NewPatchSet`, `Restore`, `Merge` | pip and git between commands |

### FlowDefinitions and Deployment

A definition is what the YAML says of tasks, gateways, hooks, declared remote agents and the engine.
It is read by `load_flow_from_yaml`, again by `register_flow`, and by `get_flow_annotations` when a
file is newer than the last reading. `step` says where the application stands between two
readings; the author may save before each.

| Action | Code |
|---|---|
| `ReadYaml`, `RegisterFlow`, `StampFlow` | `load_flow_from_yaml`, `register_flow` cut before it takes the time |
| `AskForAgents`, `BuildAgents`, `ConnectEngine` | `get_flow_annotations` cut between the time and the file, `FlowAgent.__init__`, `to_flow_agent` |
| `AskForRun`, `StartRun`, `EndRun` | the same for a run of the LangGraph engine |
| `Save`, `SavePolicy`, `RemovePolicy` | the author |
| `Start`, `Stop` | `cuga-flo start` after its check, and the end of the application |

`TaskAgents`, `ToolTasks`, `GatewayAgents` and `Hooks` are the `create_` methods; `AgenticTasks`,
`EngineToolTasks`, `DecisionGateways` and `EngineHooks` are `to_engine_config`. They are
written from their own conditions, since the question is whether they agree. A save has a new modification
time, or an older one, as of a copy that was put back; `missed` records that a save was one that
comparing times cannot show (`Unseen`).

## 3. What is checked

| Run | Question | Result |
|---|---|---|
| `completion` | three invocations, both engines, serial or overlapping callers, time-outs | no leaked future, no shared result, HTTP callers return after their own process, a foreign result comes only from an abandoned instance, and a serial caller is answered unless a LangGraph run has died or an instance has ended without its report |
| `completion_service` | serial callers, no time-outs | types; every caller gets its own result; implements `InvocationService` |
| `completion_overlap` | does a caller always get its own result? | no (finding) |
| `engine` | one token, every hook action, four permission sets, failures | types, permissions, the path ends in what ran, no replay, diversions recorded, skips, halts, completion, and only rebuilds without end keep a run from ending |
| `engine_parallel` | parallel branches in step, also with a hook beside a task; tasks that fail or raise | implements `TokenGame`; only the calls of tasks end a run by an exception; every run ends |
| `engine_join` | does a parallel join wait for all branches? | not for branches of unequal length (finding) |
| `engine_lost_update` | are updates of parallel tasks kept? | no (finding) |
| `engine_replay` | does a rebuild never replay? | it does after the removal of the last node (finding) |
| `engine_skip` | does SKIP_NODE skip the next node? | not a gateway (finding) |
| `engine_halt` | does TERMINATE stop the process? | not the other branches (finding) |
| `kogito` | two instances of one process with a FlowAgent and a remote agent in common | types, one token, one report, own decisions, halts reported, nothing after a halt, conditions as they read, one context and card, every instance ends |
| `deployment` | patch-host under drift, conflicts, failing restores, kills, upgrades and changed sets; an application started on it, whose YAML is edited, broken, touched and put back, before and while it runs | types, runs on patched files, a failure has a cause outside of earlier commands, a stale definition is noticed, what is delegated is known |

Beside the runs there are configurations that end in a counterexample, `tlc -config <name>.cfg <module>`. Each
shows a statement of the repository that the code does not keep, or what becomes of a passing run's property
without its hypothesis.

| Configuration | Module | Property | What TLC shows | Statement |
|---|---|---|---|---|
| `Completion_unanswered` | `MCCompletion` | `AlwaysAnswered` | a hook leads an instance past its report, and its caller waits for ever | "then signals completion by calling the complete_process MCP tool" (`flow_agent.py:466-467`) |
| `Completion_listener` | `MCCompletion` | `ListensBeforeStart` | an overlapping first call starts its process before the listener is up | "expose the MCP server over HTTP so the Kogito service can call complete_process" (`bridge.py:223-224`) |
| `LangGraphEngine_path` | `MCLangGraphEngine` | `PathIsTrace` | after a hook the path repeats itself | "Ordered list of node IDs traversed so far" (`README.md:262`), "Sequence of executed node IDs" (`flow_agent_state.py:50`) |
| `LangGraphEngine_audit` | `MCLangGraphEngine` | `DeviationsRecorded` | a skip and a halt leave no record | "every such deviation is policy-governed and recorded in the audit log" (`README.md:136`, see `:264`) |
| `LangGraphEngine_marks` | `MCLangGraphEngine` | `PermissionsHold` | the state updates of a permitted hook set the mark of a prohibited action | permissions "explicitly list which hook actions are permitted or prohibited" (`README.md:140`) |
| `LangGraphEngine_lost` | `MCLangGraphEngine` | `CompletesAtEnd` | a jump to an unknown node ends the run as if complete | `is_complete`: "Whether process has reached end event" (`flow_agent_state.py:64`) |
| `LangGraphEngine_conflict` | `MCLangGraphEngine` | `AdaptationsMerged` | two hooks in one superstep end the run, and their records are lost | "lists merged across parallel branches" (`flow_agent_state.py:58`) |
| `KogitoService_halt` | `MCKogito` | `HaltIsReported` | a TERMINATE with an empty message is reported as a completion | `is_halted`: "whether process was halted by a hook" (`flow_agent_state.py:65`), "Hard-halt the process immediately" (`README.md:128`) |
| `KogitoService_overwrite` | `MCKogito` | `FollowsOwnDecision` | an answer that names the variable changes the flow taken | "the variable is the only channel between the agent's decision and the gateway" (`CugaFlo.java:82-83`) |
| `Deployment_drift` | `MCDeployment` | `FailureIsDrift` | a conflict elsewhere in the checkout makes patch-host fail | "The flow-specific region has drifted" (`_hostpatch.py:151`), "tolerant of cuga-agent drift as long as the flow-specific regions themselves do not conflict" (`_hostpatch.py:14-15`) |
| `Deployment_reload` | `MCDeployment` | `ReadOnlyAtRuntime` | a run has another definition than the FlowAgent was built from | "Loaded at startup; read-only at runtime" (`process_registry.py:4`) |

**Read the `engine` results with their scope.** `NoReplay`, `SkipsTheNextNode`, `HaltIsFinal`, `CompletesAtEnd` and
`PermissionsHold` hold for the scenarios of `Sequential`: hooks in front of tasks, nodes removed
that have a successor or are not the next node, jumps to nodes that exist, one token, and hooks that leave
the engine's marks alone. Each fails just outside of it, as `engine_replay`,
`engine_skip`, `engine_halt` and the configurations `_lost` and `_marks` show. `PathEndsInTrace` and
`DiversionsRecorded` are what is left of two statements of the documentation that the code contradicts
(`LangGraphEngine_path.cfg`, `LangGraphEngine_audit.cfg`): the reported path ends in what ran, in order, and jumps and changes of the
process have a record. `RunEnds` counts a crash as an end, and says of rebuilds only that nothing else
keeps a run from ending: a `REMOVE_NODE` that changes nothing, answered in each graph, is repeated for ever by the code.

**And those of `completion`, `kogito` and `deployment` with what they leave out on purpose.**

* `AnsweredUnlessUnreported` is about serial callers, and has as exceptions the two ways in which an instance does not
  report. `EndIsReportedOnce` is the other side of the second: a hook that skips to the end event leads its
  instance past `complete_process`, and `Completion_unanswered.cfg` shows what becomes of the caller.
* `HaltIsReported` is exact, and holds in `kogito` because its hooks give a reason (`Explained`);
  `FollowsOwnDecision` because no answer names the variable of the decision (`OwnVariablesKept`). `KogitoService_halt.cfg` and
  `KogitoService_overwrite.cfg` are the same process without these.
* `FailureHasCause` is about a `patch-host` that undoes what it did. When git cannot restore the files, `apply`
  exits before it begins, or leaves them as they are after a failure.
* `ConditionsHold` is about values without comparison signs; one with a sign is cut at it.
* `RunsOnPatchedHost` excludes two cases. On a wheel, patch(1) with `--fuzz=3` puts a hunk that
  only inserts lines in at its line number, whatever is there: under another version of
  cuga-agent, or over the text of an older patch set, `patch-host` may succeed and
  `--check` may pass on misplaced or doubled text, although it is the very advice of the check to
  re-run `patch-host` after such a change (`_hostpatch.py:120-125`). On a checkout, a `patch-host`
  killed between the last patch of a new set and the marker, followed by the installation of the old cuga-flo,
  passes the check with the files of the new set.
* `StaleIsNoticed` excludes a save between the reading of the YAML and the time stamp of its
  registration, and a file with an older modification time than was seen; both stay unnoticed until the next save.
  `DelegatesAreKnown` excludes saves since the start, after which the engine may delegate to agents the FlowAgent
  has not built (`Deployment_reload.cfg`).

Bounds. Three invocations are one to be abandoned, one to be answered by it and one to be
overwritten by either; two cannot show the third case. `RecursionLimit` stands for LangGraph's
default of 25: 8 supersteps let every line run with its hooks and once more around a jump
back, and the limit is reached. `MaxRebuilds = 2` lets a second rebuild meet the marks of the
first. It is no guard on hooks: a third may be asked for, and the run is explored up to there (`CutOff`). The
processes have two to ten elements: a line, a choice that merges, a fork and a join, and
a fork with a choice inside. Two Kogito instances are enough for one to mix up, race or outlive the
other, and the proofs cover the rest; `MaxJumps = 1` lets a hook lead its instance back, past its
decision, past its report and to a node that is not there, and every process ends in spite of it. Hooks set
variables of the process only, but for `LangGraphEngine_marks.cfg`. Two patches, of the four vendored ones, are one to
succeed and one to fail after it, or to be left when a command is killed; two versions and two sets let each change
under the other's marker. `MaxSaves = 2` gives a save to each of two readings, and the four definitions
differ in a task, a gateway and a hook, and in the engine they choose. Deadlock is not checked in `Completion`, `LangGraphEngine` and
`KogitoService`: invocations that have returned, and instances that have ended or failed, are
where the system stops. It is checked in `deployment`.

Fairness. `Completion` is weakly fair to each step that the event loop, the listener or
an engine takes without a choice; nothing is assumed of callers, failures, time-outs and redirects.
The instance itself is assumed to get through its process, unless it fails: `engine` shows that of
LangGraph runs (`RunEnds`). `LangGraphEngine` is weakly fair to its next-state relation:
the event loop runs ready nodes and every MCP call returns or raises (the calls
have no time-out of their own, so a hanging agent hangs its process; that is an assumption).
`KogitoService` is weakly fair to the Java thread of each instance and to nothing else: a thread
runs, and its calls end after 300 seconds at the latest. Agents, remote agents and the FlowAgent may be
silent for ever; `InstanceEnds` holds all the same. It depends on `MaxJumps`: the code has no limit on
redirections. `Deployment` has safety properties only.

## 4. What is proved

TLAPS checks eight modules, for every value of the constants: `CompletionProofs`, the four of
the engine, `ConditionsProofs`, `KogitoProofs` and `DeploymentProofs`. Every safety property that a
passing run checks is stated by a theorem.

*Completion.* The inductive invariant `IInv` is needed because the properties speak of results
only, and the hazard is in futures that have not been delivered. It says (`PhaseInv`) how far an instance may be for
each `pc`, so that an HTTP caller waits only after its own instance has ended; (`FutureInv`) that
an instance that has resolved a future has reported, that it has resolved at most one, and that results
are taken from futures; (`SerialInv`) that with a serial caller at most one invocation
is active, and that an instance other than its own that is still running was abandoned. From it follow
`TypeCorrect`, `NoLeak`, `NoSharing`, `SynchronousStart` and `ForeignOnlyFromAbandoned`.
With `PatientCaller` (serial callers and no time-outs) follow `OwnResults` and
`Implements`, the refinement of `InvocationService`. The assumptions are those of the
module: the names of engines and callers, and sentinels that are no invocations.

*Engine, every process* (`LangGraphEngineProofs`). `PermissionsAlwaysHold`: in no run does the
effect of an action show that the permissions rule
out. `PermissionsHold` is not inductive, because an action is first a mark in `next`, then in
`state`, and shows when a task is skipped or a graph is rebuilt. `LawInv` therefore asks of
both states that all that is recorded *or marked* in them is permitted; the lemmas show that each reducer, each task
and each hook keeps that. It has the hypothesis `OwnMarksKept`: neither callers, nor tasks, nor hooks write
the engine's own marks. The code does not enforce it, and `LangGraphEngine_marks.cfg` shows the permissions fail without it, so it
is a requirement on configurations. The other theorems about the engine have it as well, but for `EngineIsTyped`. That one needs
that a rebuild leaves a well-formed process (`RemoveNodeFact`, `AddNodeFact`, with a first flow for every
element that has one, and places behind all the rest), and that the tokens of a superstep are on flows of the process that
runs.

*Engine, by the effect of its steps* (`LangGraphEngineSteps`). Five kinds of node and seven actions of a hook
come to six effects: an element runs; a hook lets control go on, halts, jumps or ends the
graph for a rebuild; a superstep begins. `Steps` shows that every step is one of these, and
the proofs below have a case for each. `CompletionIsReal`: a run that is reported complete has reached an
end event or was halted. The invariant `EndInv` says of a graph between two supersteps
that a node that has run leads somewhere, and that only an end event, a halt or a requested rebuild leads
to `END`. It holds for every process, with parallel branches or without, as long as
`LosesNothing`: flows lead to elements or end events, and out of every element; an id that is hooked stands for one
flow; hooks jump to elements. Each part is needed: a jump to an unknown node is dropped silently.

*Engine, processes that do not fork* (`SequentialProofs`). With `OneWay` (only exclusive gateways have
several outgoing flows) at most one node runs at a time, and `HaltInv` adds that a state that is halted or to be
rebuilt leaves nothing but `END` to go to: `HaltsAtOnce`. `PathEndsInWhatRan`: hooks write the whole path back into a channel that appends, so
the path repeats itself; but a hook appends a path that ends in the trace, and an element appends itself to
both (`TailInv`), so the end of the path is the trace, in order and without a gap. `DiversionsAreRecorded`: as long as the log
is empty the process is the one given, and each node that may run is on a flow from the element
that ran last (`DevInv`). From it `NothingIsReplayed`: in a process that can be numbered in the direction
of its flows (`Acyclic`) and that no hook may change (`Fixed`), the numbers grow along the trace, so nothing runs
twice without a jump; `engine_replay` is why `Fixed` is needed. `OnlyTheNextIsSkipped`: where hooks that skip
are in front of tasks (`SkipsTasks`; `engine_skip` is why), the mark is on its way to that very task (`SkipInv`).

*Engine, refinement* (`TokenGameProofs`). `TamePlaysTheGame` is the refinement of `TokenGame` for processes
without forks and joins whose hooks may skip and terminate and no more (`Tame`): there is one token, on the flow
into the node that runs next (`TokInv`), and every step of the engine maps to a step of the game or to a stutter. A
jump or a rebuild moves the token as no step of BPMN does, so the game is not claimed of them.
`OnlyCallsEndARun` is about parallel branches as well. `CrashHasCause` lists what can end a run by an
exception; one of them, the call of a task that raises, is what the property allows. For the others `InGoodOrder` asks that the
process compiles, that control finds a flow, that no hook jumps or asks for a change of the process (hooks may skip tasks and
terminate), and that the nodes of the compiled graph have ranks that grow along its edges and do not exceed the recursion limit.
A hook on the start flow, a jump back beyond the limit and two hooks in one superstep are outside of the class, and do end runs
(`LangGraphEngine_conflict.cfg`).
Then a node of superstep *k* has rank *k* at least, and the limit is not met. That two hook nodes never run in one
superstep, where LangGraph would refuse their writes, follows from `OneWay`, or from `Levelled`: ranks
grow by one, so that branches run in step, and no two hooks have the same rank.

The classes are defined in `FlowGraph` by what a process and its hooks look like. `MCLangGraphEngine` has assumptions, which TLC evaluates on
every run, that the scenarios it checks are of them. A theorem whose name begins with `Fixed` has its
hypotheses on the process given only; its companion has them on each process that rebuilds lead to.

*Kogito.* Eight theorems, one for each safety property of the run, for every process of the
shape described above, every configuration and every number of instances. No property is
inductive: a report says something of a hook several calls back, and in between the
instance and the handler each hold a part of it. `Sound(i)` ties the two together. `Calling`: a call is
for the point where its instance stands, and only remote agents are consulted. `Moving`: one
token. `Deciding`: a gateway's answer is what was decided, until the thread has taken it over.
`Halting`: after TERMINATE only completion is left. `Reporting`: a report has been made just when the
instance is past its completion task or has jumped to an end event. The proof shows for each step that it keeps
`Sound` of its own instance, and once for all that it leaves that of the others alone (`Same`), which
is where the sharing of the FlowAgent matters. `Shared` is about remote agents: ids and fetches are counted against
the set of callers that may still be racing. Assumptions: `PointsAreConfigured`, `ProcessIsWellFormed` and
`CompletionIsTheEnd`. `OwnDecisions` has the hypothesis `OwnVariablesKept`, and `HaltIsAlwaysReported` that and `Explained`; the
other six hold without, also where answers are written over the service's variables.

*Conditions.* `ConditionsMeanWhatTheySay` adds to these the class `Comparisons`: every condition compares a variable
with a literal without signs. `ComparisonHolds` (`ConditionsProofs`) is the sequential half: putting the texts of the variables in and cutting the
result at the first operator found gives back the two sides and the operator that was written, although
`>` occurs in `>=` and operators are tried one after the other. The concurrent half is `Judged`: from the evaluation of a condition to the
use of its verdict the instance waits, others call, and its variables stay what they were.
A condition with no operator, or with more than the two sides, is evaluated by the model but is not of the class; nor is the
condition on a value with a sign in it.

*Deployment.* Five theorems, all of the properties of the run, for every number of patches, versions,
sets and definitions. The check sees a marker and signatures, so the invariant has to
say what is between them: a file whose patch fits is untouched or whole (`Fitting`), also half-way
through `apply` (`Applying`) and `Undo` (`Undoing`), and on a checkout a set's marker is written only when
all of its patches fit (`Marked`). For `FailuresHaveCauses` it also says what a failing attempt may meet: a patch that does not fit, or a
conflict elsewhere (`Disturbed`). For the definitions, what each reading found is
compared with the file by the time of the last save (`Fresh`, `Unsaved`), and the two
views of one definition are compared case by case. Assumptions: `PatchesAreGiven` and
`DefinitionsAreYaml`.

*Induction.* The library's induction theorems take an operator as a parameter, which the provers cannot
instantiate; its well-founded minimum takes a set. So the inductions that the proofs need (`Induction`,
`FiniteIsBounded`, `RanksGrow`) look at a least counterexample. `FlattenSeq`, a fold over the tokens of a text, is unfolded for the
three or four tokens of a comparison only.

*Only model-checked*: liveness (`AnsweredUnlessUnreported`, `RunEnds`, `InstanceEnds`), since the prover has
neither fairness nor ENABLED; the refinement of `TokenGame` by processes with parallel branches
(`engine_parallel`), for which the joins would have to be shown to be met in step.

## 5. What the findings say

1. `completion_overlap`: one FlowAgent must not be invoked twice at a time for one process:
   a caller may get another's state (`flow_agent.py:495`).
2. `engine_join`: a join after branches of unequal length runs more than once
   (`langgraph_engine.py:452`).
3. `engine_lost_update`: parallel tasks undo each other's variables (`flow_agent.py:147`).
4. `engine_replay`: REMOVE_NODE of the last node starts the process over
   (`langgraph_engine.py:723`).
5. `engine_skip`: SKIP_NODE in front of a gateway skips the task after it
   (`langgraph_engine.py:677`).
6. `engine_halt`: TERMINATE in one branch leaves the others running
   (`langgraph_engine.py:674`).

The configurations beside the runs show the rest:

7. `Completion_unanswered.cfg`: a redirect to an end event ends a Kogito instance without `complete_process`, and
   `invoke` waits for ever (`FlowRedirect.java:44`).
8. `Completion_listener.cfg`: an overlapping first call starts its process before there is a listener (`bridge.py:197`).
9. `LangGraphEngine_path.cfg`: after each hook the execution path holds what ran before it once more (`langgraph_engine.py:769`).
10. `LangGraphEngine_audit.cfg`: SKIP_NODE and TERMINATE leave no record (`langgraph_engine.py:677`).
11. `LangGraphEngine_marks.cfg`: state updates of a permitted hook reach the engine's own marks, and with them what is
    prohibited (`langgraph_engine.py:669`).
12. `LangGraphEngine_lost.cfg`: a jump to an unknown node ends the run as if it were complete (`langgraph_engine.py:690`).
13. `LangGraphEngine_conflict.cfg`: two hooks in one superstep end the run, and their records are lost (`langgraph_engine.py:769`).
14. `KogitoService_halt.cfg`: a TERMINATE with an empty message is reported as a completion (`CugaFlo.java:149`).
15. `KogitoService_overwrite.cfg`: an answer that names `gatewayDecision` changes the flow taken (`CugaFlo.java:126`).
16. `Deployment_drift.cfg`: any conflict marker in the checkout is reported as drift of a patch (`_hostpatch.py:147`).
17. `Deployment_reload.cfg`: the engine runs a definition that the FlowAgent was not built from (`process_registry.py:107`).

Where documents and code differ without a configuration of their own: a comment says that a Kogito script
task allows 120 seconds for a control point (`remote_agent.py:78`), and the code 300
(`CugaFlo.java:207`); `FlowableProxy.realize_hook_action` is described as suspending the instance
for SKIP_TO (`proxy.py:342-343`), and only logs.

## 6. Not modelled

* *Flowable beyond start and completion.* `adapters/flowable/proxy.py` is one REST call per method and keeps no
  state; `realize_hook_action` logs, and the redirect is left to boundary events of a BPMN model that
  Flowable runs. There is no algorithm here to check, and a model of Flowable would be invention. The
  double deployment of two first runs (`bridge.py:301`) makes a second version of the same file.
* *BPMN and YAML as text.* The parser and the loader are modelled by their results.
* *The initial variables taken from a message* (`_extract_initial_variables`) never raise and yield values of
  the declared types; they are among the initial variables.
* *Text*: prompts, policies, what a model writes, audit wording, activity tracking. The completion message is
  assembled from the shared `_gateway_decisions`, and may mention another run's.
* *Action permissions* are enforced by the LangGraph engine only; the FlowAgent stores them
  (`flow_agent.py:96`) and never reads them, so on Kogito and Flowable any hook action is possible.
  `KogitoService` therefore has no permissions.
* *Native hook handlers* given in Python answer as the static ones do.
* *Scripts, applications, pages*: no state of their own.
* The `default` path of condition routing in the LangGraph engine is subsumed by a gateway that may take any
  flow.

## 7. Plan

Done, most important behaviour first:

1. `Completion` and `InvocationService`, with the refinement proved.
2. `FlowGraph`, `LangGraphEngine`, `TokenGame`; permissions proved.
3. Violations of the documentation that the engine exposes.
4. `Conditions`, `ControlPoints`, `KogitoService`; their safety proved.
5. `HostPatch`, `FlowDefinitions`, `Deployment`; their safety proved.

6. Types, completion, halts, path, order, replay, skips, the refinement for one token, and what can end a run
   proved of the engine; conditions proved.

What would be next, in order of worth: the refinement of `TokenGame` and the waiting of joins for processes
whose parallel branches run in step (`Levelled`); the conditions of `Conditions` composed into the gateways of
`LangGraphEngine`, with the default path and the LLM's choice apart; a registry that holds several process keys.
