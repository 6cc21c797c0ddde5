-------------------------- MODULE FlowDefinitions --------------------------
(***************************************************************************)
(* The definition of a flow, from the YAML on disk to those who act on it: *)
(* FlowConfig (flow_config.py) reads it, ProcessRegistry                   *)
(* (process_registry.py) caches it and reloads it by modification time,    *)
(* FlowAgent (flow_agent.py) builds its agents from it once, and the       *)
(* LangGraph engine asks the registry again for every run.  An author may  *)
(* save a new definition at any time.                                      *)
(***************************************************************************)
EXTENDS FiniteSets, Naturals

CONSTANTS
    Yamls,     \* contents that the YAML file may have
    Remotes,   \* names of remote agents
    NoYaml,
    NoRemote,
    MaxSaves   \* bound: saves by the author

EngineTypes == {"langgraph", "flowable", "kogito"}
Builtin == {"local", "faulty"}   \* faulty: the constructor of the local agent raises

TaskEntry == [mode : {"", "native", "task_agent", "tool"}, agent : Builtin \cup Remotes \cup {"none"}]
GatewayEntry == [mode : {"native", "decision_agent"}, consult : Remotes \cup {NoRemote}]
HookEntry == [located : BOOLEAN, readable : BOOLEAN, consult : Remotes \cup {NoRemote}]

\* tasks, gateways and hooks map ids to entries.
IsYaml(y) ==
    /\ \A t \in DOMAIN y.tasks : y.tasks[t] \in TaskEntry
    /\ \A g \in DOMAIN y.gateways : y.gateways[g] \in GatewayEntry
    /\ \A h \in DOMAIN y.hooks : y.hooks[h] \in HookEntry
    /\ y.declared \subseteq Remotes
    /\ y.engine \in EngineTypes \cup {"other"}

ASSUME DefinitionsAreYaml ==
    /\ \A y \in Yamls : IsYaml(y)
    /\ NoYaml \notin Yamls
    /\ NoRemote \notin Remotes
    /\ Remotes \cap (Builtin \cup {"none"}) = {}
    /\ MaxSaves \in Nat

VARIABLES
    yaml,       \* content of the file
    saved,      \* its modification time
    policy,     \* that of the newest policy file, 0 if there is none
    now,        \* time of the last save
    step,       \* where the app stands: see Steps
    first,      \* the definition that load_flow_from_yaml read, for the type of the engine
    cache,      \* _config_cache
    stamp,      \* _config_mtimes
    seen,       \* current_mtime of the get_flow_annotations that is going on
    built,      \* the definition FlowAgent was built from
    run,        \* the annotations of the engine's run
    written,    \* history: when the YAML was saved last
    missed      \* history: the YAML was saved where no comparison of times can show it

fdVars == <<yaml, saved, policy, now, step, first, cache, stamp, seen, built, run, written, missed>>
disk   == <<yaml, saved, policy, now, written>>

Steps == {"off", "on", "registering", "stamping", "asking", "building", "connecting",
          "ready", "reading", "running", "failed"}

TheLater(a, b) == IF a > b THEN a ELSE b
MaxMtime == TheLater(saved, policy)
-----------------------------------------------------------------------------
Uses(y) ==
    {y.tasks[t].agent : t \in DOMAIN y.tasks} \ (Builtin \cup {"none"})

Consults(y) ==
    ({y.gateways[g].consult : g \in DOMAIN y.gateways}
        \cup {y.hooks[h].consult : h \in DOMAIN y.hooks}) \ {NoRemote}

\* _validate_remote_agent_names; a definition that is not valid cannot be loaded.
Valid(y) == Uses(y) \cup Consults(y) \subseteq y.declared

HasAgent(entry) == entry.agent # "none"

\* Mutant of AgenticTasks: the mode is not read.
AgenticTasksByAgent(y) == {t \in DOMAIN y.tasks : HasAgent(y.tasks[t])}

\* to_engine_config: what the engine delegates, and what it does itself.
AgenticTasks(y) ==
    {t \in DOMAIN y.tasks :
        \/ y.tasks[t].mode = "task_agent"
        \/ y.tasks[t].mode # "native" /\ HasAgent(y.tasks[t])}

EngineToolTasks(y) == DOMAIN y.tasks \ AgenticTasks(y)
DecisionGateways(y) == {g \in DOMAIN y.gateways : y.gateways[g].mode = "decision_agent"}
EngineHooks(y) == {h \in DOMAIN y.hooks : y.hooks[h].located}

\* create_task_agents: a local agent that cannot be made is logged and left out.
TaskAgents(y) ==
    {t \in DOMAIN y.tasks :
        y.tasks[t].mode # "native" /\ HasAgent(y.tasks[t]) /\ y.tasks[t].agent # "faulty"}

\* create_tool_tasks.
ToolTasks(y) ==
    {t \in DOMAIN y.tasks :
        /\ y.tasks[t].mode # "task_agent"
        /\ y.tasks[t].mode = "" => ~ HasAgent(y.tasks[t])}

\* create_gateway_agents and create_hooks: a hook whose type or action is unknown is left out.
GatewayAgents(y) == DecisionGateways(y)
Hooks(y) == {h \in DOMAIN y.hooks : y.hooks[h].located /\ y.hooks[h].readable}
-----------------------------------------------------------------------------
FDInit ==
    /\ yaml \in Yamls
    /\ saved = 1 /\ policy \in {0, 1} /\ now = 1
    /\ step = "off"
    /\ first = NoYaml /\ cache = NoYaml /\ built = NoYaml /\ run = NoYaml
    /\ stamp = 0 /\ seen = 0
    /\ written = 1
    /\ missed = FALSE

\* A file with the time t put in place after its registration and before its stamp, or one that
\* is no newer than what may have been seen.
Unseen(t) == step \notin {"on", "registering"} /\ (step = "stamping" \/ t <= now)

\* The author saves, or puts a copy back that keeps its older modification time.
Save ==
    /\ now <= MaxSaves
    /\ now' = now + 1
    /\ written' = now + 1
    /\ saved' \in 1..(now + 1)
    /\ yaml' \in Yamls
    /\ missed' = Unseen(saved')
    /\ UNCHANGED <<policy, step, first, cache, stamp, seen, built, run>>

SavePolicy ==
    /\ now <= MaxSaves
    /\ now' = now + 1
    /\ policy' = now + 1
    /\ UNCHANGED <<yaml, saved, written, step, first, cache, stamp, seen, built, run, missed>>

\* An older policy file may remain.
RemovePolicy ==
    /\ policy # 0
    /\ policy' \in 0..(policy - 1)
    /\ UNCHANGED <<yaml, saved, now, written, step, first, cache, stamp, seen, built, run, missed>>
-----------------------------------------------------------------------------
Goto(from, to) == step = from /\ step' = to

\* load_flow_from_yaml reads the file, and register_flow reads it again.
ReadYaml ==
    /\ Goto("on", IF Valid(yaml) THEN "registering" ELSE "failed")
    /\ first' = IF Valid(yaml) THEN yaml ELSE NoYaml
    /\ UNCHANGED <<disk, cache, stamp, seen, built, run, missed>>

RegisterFlow ==
    /\ Goto("registering", IF Valid(yaml) THEN "stamping" ELSE "failed")
    /\ cache' = IF Valid(yaml) THEN yaml ELSE NoYaml
    /\ UNCHANGED <<disk, first, stamp, seen, built, run, missed>>

\* After the BPMN file has been parsed.
StampFlow ==
    /\ Goto("stamping", "asking")
    /\ stamp' = MaxMtime
    /\ UNCHANGED <<disk, first, cache, seen, built, run, missed>>

\* get_flow_annotations, first the times and then the file; FlowAgent and every run call it.
Look(from, to) ==
    /\ Goto(from, to)
    /\ seen' = MaxMtime
    /\ UNCHANGED <<disk, first, cache, stamp, built, run, missed>>

Outdated == seen > stamp
LoadFails == Outdated /\ ~ Valid(yaml)

\* Mutant of Annotations: the time is noted although the file could not be loaded.
AnnotationsStampedFirst ==
    /\ stamp' = IF Outdated THEN seen ELSE stamp
    /\ cache' = IF Outdated /\ Valid(yaml) THEN yaml ELSE cache
    /\ missed' = (missed /\ ~ Outdated)

\* A file that cannot be loaded leaves the cache and its time as they are.
Annotations ==
    IF Outdated /\ Valid(yaml)
    THEN cache' = yaml /\ stamp' = seen /\ missed' = FALSE
    ELSE UNCHANGED <<cache, stamp, missed>>

AskForAgents == Look("asking", "building")

\* FlowAgent.__init__
BuildAgents ==
    /\ Goto("building", IF LoadFails THEN "failed" ELSE "connecting")
    /\ Annotations
    /\ built' = IF LoadFails THEN built ELSE cache'
    /\ UNCHANGED <<disk, first, seen, run>>

\* to_flow_agent: the type of the engine is that of the first reading.
ConnectEngine ==
    /\ step = "connecting"
    /\ step' = IF first.engine \in EngineTypes THEN "ready" ELSE "failed"
    /\ UNCHANGED <<disk, first, cache, stamp, seen, built, run, missed>>

\* A run of the LangGraph engine fetches the annotations; the others have none.
AskForRun ==
    /\ Look("ready", "reading")
    /\ first.engine = "langgraph"

StartRun ==
    /\ Goto("reading", IF LoadFails THEN "ready" ELSE "running")
    /\ Annotations
    /\ run' = IF LoadFails THEN run ELSE cache'
    /\ UNCHANGED <<disk, first, seen, built>>

EndRun ==
    /\ Goto("running", "ready")
    /\ run' = NoYaml
    /\ UNCHANGED <<disk, first, cache, stamp, seen, built, missed>>

DefinitionStep ==
    \/ Save
    \/ SavePolicy
    \/ RemovePolicy
    \/ ReadYaml
    \/ RegisterFlow
    \/ StampFlow
    \/ AskForAgents
    \/ BuildAgents
    \/ ConnectEngine
    \/ AskForRun
    \/ StartRun
    \/ EndRun

FDTypeOK ==
    /\ yaml \in Yamls
    /\ {first, cache, built, run} \subseteq Yamls \cup {NoYaml}
    /\ {saved, policy, now, written, stamp, seen} \subseteq Nat
    /\ step \in Steps
    /\ missed \in BOOLEAN
=============================================================================
