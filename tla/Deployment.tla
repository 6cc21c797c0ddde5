---------------------------- MODULE Deployment ----------------------------
(***************************************************************************)
(* The life of an installation: cuga-flo patch-host (HostPatch) and        *)
(* cuga-flo start (cli/start.py), which refuses a host that the check does *)
(* not pass and then loads a flow definition (FlowDefinitions).  Commands  *)
(* are given one at a time, and the host is changed only while no          *)
(* application runs on it.                                                 *)
(***************************************************************************)
EXTENDS HostPatch, FlowDefinitions

VARIABLES
    app,      \* "down" or "up"
    started   \* history: time of the last start

vars == <<hostVars, fdVars, app, started>>

Init ==
    /\ HPInit
    /\ FDInit
    /\ app = "down"
    /\ started = 0

\* cuga-flo start exits unless the check passes.
Start ==
    /\ app = "down" /\ cli = "none"
    /\ Check
    /\ app' = "up"
    /\ step' = "on"
    /\ started' = now
    /\ UNCHANGED <<hostVars, disk, first, cache, stamp, seen, built, run, missed>>

\* Stopped, or crashed: the registry and the FlowAgent are in memory only.
Stop ==
    /\ app = "up"
    /\ app' = "down"
    /\ step' = "off"
    /\ first' = NoYaml /\ cache' = NoYaml /\ built' = NoYaml /\ run' = NoYaml
    /\ stamp' = 0 /\ seen' = 0
    /\ missed' = FALSE
    /\ UNCHANGED <<hostVars, disk, started>>

WhileDown == app = "down" /\ HostStep /\ UNCHANGED <<fdVars, app, started>>
WhileUp == app = "up" /\ DefinitionStep /\ UNCHANGED <<hostVars, app, started>>

Next == Start \/ Stop \/ WhileDown \/ WhileUp

Spec == Init /\ [][Next]_vars
-----------------------------------------------------------------------------
\* The types of the state of the host, of the registry and of the application.
TypeOK ==
    /\ HPTypeOK
    /\ FDTypeOK
    /\ app \in {"down", "up"}
    /\ started \in Nat

\* An application runs on fully patched files only, although the check looks just for a marker and
\* for one signature per patch, and although commands are killed, fail half-way and are followed
\* by upgrades (_hostpatch.py:109).  Two cases are out of the claim.  On a wheel patch(1) puts hunks
\* in at their line numbers, so the patches must be made for this version and no other set must
\* have been there before.  On a checkout a patch-host that is killed with the files of a new set
\* written and the marker of the old one still there is not noticed when the old set comes back.
RunsOnPatchedHost ==
    app = "up" /\ ~ mixed /\ (mode = "patch" => \A f \in Files : Fits(f))
        => \A f \in Files : files[f] = Wanted(f)

\* A patch-host that fails and undoes what it did has a cause outside of the commands before it
\* (_hostpatch.py:9, "idempotent"): the patch does not fit the host, or some file of the checkout
\* has a conflict marker.  It is never one that an earlier command, killed or not, left half done;
\* a git checkout is left as it is in HEAD, and of a wheel none of the fitting patches before the
\* one that failed (_hostpatch.py:149, 166).
FailureHasCause ==
    result = "failed" /\ ~ mixed /\ cli = "none" =>
        /\ ~ Fits(at) \/ Disturbed
        /\ \A f \in Files : mode = "git" \/ (f < at /\ Fits(f)) => files[f] = Pristine

\* What patch-host tells its user: "The flow-specific region has drifted; the patch needs updating"
\* (_hostpatch.py:151).
FailureIsDrift ==
    result = "failed" /\ ~ mixed /\ cli = "none" => ~ Fits(at)

\* A definition that the registry keeps and that is not the one on disk will be reloaded at the
\* next request, whatever was saved, touched or removed in between and whether or not it could be
\* loaded before (process_registry.py:105).  There are two exceptions, which stay unnoticed until
\* the next save: one between the reading of the YAML and the stamp of its registration, and a
\* file put in place with a modification time that is not new.
StaleIsNoticed ==
    step \in {"asking", "building", "connecting", "ready", "reading", "running"} /\ ~ missed
        => cache = yaml \/ MaxMtime > stamp

\* What the engine of a run delegates is known to the FlowAgent, which was built from another
\* reading of the file by other code (flow_config.py:165, 250): unless the file was saved since the
\* start, only a task without a usable agent and a hook that cannot be read have no handler.
DelegatesAreKnown ==
    step = "running" /\ written <= started =>
        /\ \A t \in AgenticTasks(run) \ TaskAgents(built) : run.tasks[t].agent \in {"none", "faulty"}
        /\ EngineToolTasks(run) \subseteq ToolTasks(built)
        /\ DecisionGateways(run) \subseteq GatewayAgents(built)
        /\ \A h \in EngineHooks(run) \ Hooks(built) : ~ run.hooks[h].readable

\* The registry is "loaded at startup; read-only at runtime" (process_registry.py:4, 30): the engine
\* runs the definition that the FlowAgent was built from.
ReadOnlyAtRuntime == step = "running" => run = built
=============================================================================
