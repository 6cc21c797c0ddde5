-------------------------- MODULE LangGraphEngineSteps --------------------------
(***************************************************************************)
(* What the steps of LangGraphEngine do, by their effect: an element runs, *)
(* a hook proceeds, halts, jumps or ends the graph for a rebuild, a        *)
(* superstep or a graph begins or ends.  The proofs about the order of     *)
(* execution have a case for each, in place of one for every kind of node  *)
(* and every action of a hook.  All of it is about runs in which nobody     *)
(* but the engine sets its marks (OwnMarksKept).  The theorem proved from   *)
(* the steps here is that a run completes at an end event only, in every    *)
(* process.                                                                *)
(***************************************************************************)
EXTENDS LangGraphEngineProofs

USE DEF Skip, RebuildSpec, Resume, OwnKeys

-----------------------------------------------------------------------------
(* The steps, by what they do *)

SkipMarked(known) == Skip \in DOMAIN known /\ known[Skip] = TRUE

\* What marks a state the graph ends with, and what is known of the new one.
KeepsMarks(w) == {Resume, RebuildSpec} \intersect DOMAIN w.vars \subseteq DOMAIN state.vars

\* An element runs, which writes w.
ElementRuns(n, w) ==
  /\ Ready(n) /\ n \in Elements(process)
  /\ QuietWrite(w) /\ Run(n, w) /\ KeepsMarks(w)
  /\ ~ SkipMarked(w.vars)
  /\ n \in Tasks(process) => ~ SkipMarked(Updating(state.vars, w.vars))
  /\ \A m \in DOMAIN w.results :
       m = n /\ (w.results[m] = "skipped" => n \in Tasks(process) /\ SkipMarked(state.vars))

MaySkip(f) == \E a \in scenario.answers[f.id] : a.action = "skip_node"

\* A hook lets control go where the flow leads.
Proceeds(f, w, goto) ==
  /\ goto = Target(process, f)
  /\ w.mods = state.mods /\ w.halted = state.halted /\ KeepsMarks(w)
  /\ SkipMarked(w.vars) => SkipMarked(state.vars) \/ MaySkip(f)
  /\ Pass({f.id}, {f.id}, {f.id} \intersect EndFlows(process))

Halts(f, w, goto) ==
  /\ goto = END
  /\ w.mods = state.mods /\ w.halted = TRUE /\ KeepsMarks(w)
  /\ SkipMarked(w.vars) => SkipMarked(state.vars)
  /\ Pass({f.id}, {}, {})

\* It sends control to a node that an answer of the hook names.
Jumps(f, w, goto) ==
  /\ \E type \in {"skip_to", "swap_nodes"} :
       w.mods = state.mods \union {[type |-> type, node |-> goto]}
  /\ \E a \in scenario.answers[f.id] :
       /\ Permitted(a.action)
       /\ \/ a.action = "skip_to" /\ goto = a.target /\ a.target # NoNode
          \/ a.action = "swap_nodes" /\ goto \in {a.target, a.other} /\ a.target # NoNode
  /\ w.halted = state.halted /\ KeepsMarks(w)
  /\ SkipMarked(w.vars) => SkipMarked(state.vars)
  /\ Pass({f.id}, {}, {})

\* It ends the graph to have it changed.
Rebuilds(f, w, goto) ==
  /\ goto = END
  /\ \E type \in Structural : \E node :
       w.mods = state.mods \union {[type |-> type, node |-> node]}
  /\ \E a \in scenario.answers[f.id] : Permitted(a.action) /\ a.action \in Structural
  /\ RebuildSpec \in DOMAIN w.vars /\ w.halted = state.halted
  /\ SkipMarked(w.vars) => SkipMarked(state.vars)
  /\ Pass({f.id}, {}, {})

HookRuns(f, w, goto) ==
  /\ f \in WiredFlows(process, hooks) /\ Ready(HookNode(f.id))
  /\ Dump(f, w, goto) /\ IsState(w)
  /\ w.path = state.path /\ w.results = state.results
  /\ \/ Proceeds(f, w, goto) \/ Halts(f, w, goto)
     \/ Jumps(f, w, goto) \/ Rebuilds(f, w, goto)

\* A graph is built that runs.
Starts ==
  /\ phase = "building" /\ phase' = "running"
  /\ DistinctNodes(process, hooks)
  /\ \E n \in EntryTargets(process, hooks) :
       /\ n = StartNode(process, hooks, Lookup(state.vars, Resume, NoNode))
       /\ frontier' = {n}
  /\ steps' = 0
  /\ UNCHANGED <<model, state, done, next, targets, rebuilds, history>>

Advances ==
  /\ phase = "running" /\ done = frontier /\ frontier # {}
  /\ state' = next /\ next' = next
  /\ frontier' = NextFrontier /\ done' = {} /\ targets' = {}
  /\ steps' = IF NextFrontier = {} THEN steps ELSE steps + 1
  /\ tokens' = tokens \union left /\ left' = {}
  /\ UNCHANGED <<model, rebuilds, phase, trace, ended>>

\* The run ends, or nothing happens.
Rests ==
  /\ UNCHANGED <<model, state, superstep, counters, history>>
  /\ \/ phase' = phase
     \/ phase # "completed" /\ phase' = "crashed"
     \/ Finish

LEMMA UpdatedMark ==
  ASSUME NEW old, NEW new, Skip \notin DOMAIN new
  PROVE  SkipMarked(Updating(old, new)) <=> SkipMarked(old)
BY DEF SkipMarked, Updating

LEMMA TaskRuns ==
  ASSUME NEW n, NEW result, NEW known, TaskDone(n, result, known), Ready(n), n \in Tasks(process),
         IsState(state),
         {Resume, RebuildSpec} \intersect DOMAIN known \subseteq DOMAIN state.vars,
         DOMAIN state.vars \subseteq DOMAIN known \union {Resume},
         ~ SkipMarked(known),
         result = "skipped" => SkipMarked(state.vars)
  PROVE  \E w : ElementRuns(n, w)
<1> DEFINE w == [NoWrite EXCEPT !.vars = known, !.results = Just(n, result)]
<1>1. /\ QuietWrite(w) /\ w.vars = known /\ w.results = Just(n, result)
  BY DEF NoWrite, QuietWrite, IsState
<1>2. Run(n, w)
  BY DEF TaskDone
<1> HIDE DEF w
<1>3. ~ SkipMarked(Updating(state.vars, known))
  BY DEF SkipMarked, Updating
<1>4. \A m \in DOMAIN w.results : m = n /\ w.results[m] = result
  BY <1>1 DEF Just
<1>5. ElementRuns(n, w)
  BY <1>1, <1>2, <1>3, <1>4 DEF ElementRuns, KeepsMarks, Tasks
<1>6. QED BY <1>5

LEMMA ElementEffect ==
  ASSUME LawInv, OwnMarksKept, NEW n,
         \/ SkipTask(n) \/ AgenticTask(n) \/ ToolTask(n)
         \/ ExclusiveGateway(n) \/ ParallelGateway(n)
  PROVE  Crash \/ \E w : ElementRuns(n, w)
<1> DEFINE Kept(known) == /\ {Resume, RebuildSpec} \intersect DOMAIN known \subseteq DOMAIN state.vars
                          /\ DOMAIN state.vars \subseteq DOMAIN known \union {Resume}
<1>1. IsState(state) /\ scenario \in Scenarios
  BY DEF LawInv, Lawful
<1>2. Kept(TaskVars(n))
  BY DEF TaskVars, Restrict
<1>3. SkipMarked(TaskVars(n)) => SkipMarked(state.vars)
  BY DEF SkipMarked, TaskVars, Restrict
<1>4. SkipMarked(state.vars) <=> Lookup(state.vars, Skip, FALSE) = TRUE
  BY DEF SkipMarked, Lookup
<1>5. CASE SkipTask(n)
  <2> DEFINE known == Updating(TaskVars(n), Just(Skip, FALSE))
  <2>1. DOMAIN known = DOMAIN TaskVars(n) \union {Skip} /\ known[Skip] = FALSE
    BY DEF Updating, Just
  <2> HIDE DEF known
  <2>2. Kept(known) /\ ~ SkipMarked(known)
    BY <1>2, <2>1 DEF SkipMarked
  <2>3. TaskDone(n, "skipped", known) /\ Ready(n) /\ n \in Tasks(process) /\ SkipMarked(state.vars)
    BY <1>4, <1>5 DEF SkipTask, known
  <2>4. QED BY <1>1, <2>2, <2>3, TaskRuns
<1>6. CASE AgenticTask(n)
  <2>1. Ready(n) /\ n \in Tasks(process) /\ ~ SkipMarked(state.vars)
    BY <1>4, <1>6 DEF AgenticTask
  <2>2. CASE n \in scenario.agents
             /\ TaskDone(n, "completed", Updating(TaskVars(n), [k \in scenario.outputs[n] |-> n]))
    <3> DEFINE out == [k \in scenario.outputs[n] |-> n]
               known == Updating(TaskVars(n), out)
    <3>1. DOMAIN out \intersect OwnKeys = {}
      BY <2>2, ForeignOutputs
    <3>2. DOMAIN known = DOMAIN TaskVars(n) \union DOMAIN out
      BY DEF Updating
    <3>3. ~ SkipMarked(known)
      BY <1>3, <2>1, <3>1, UpdatedMark
    <3> HIDE DEF known
    <3>4. Kept(known)
      BY <1>2, <3>1, <3>2
    <3>5. QED BY <1>1, <2>1, <2>2, <3>3, <3>4, TaskRuns DEF known
  <2>3. CASE TaskDone(n, "failed", TaskVars(n))
    BY <1>1, <1>2, <1>3, <2>1, <2>3, TaskRuns
  <2>4. QED BY <1>6, <2>2, <2>3 DEF AgenticTask
<1>7. CASE ToolTask(n)
  BY <1>1, <1>2, <1>3, <1>4, <1>7, TaskRuns DEF ToolTask
<1>8. ASSUME NEW w, QuietWrite(w), w.vars = Empty, w.results = Empty, Run(n, w), Ready(n),
             n \in Elements(process), n \notin Tasks(process)
      PROVE  ElementRuns(n, w)
  BY <1>8 DEF ElementRuns, KeepsMarks, SkipMarked, Empty
<1>9. CASE ExclusiveGateway(n)
  <2>1. Ready(n) /\ n \in Elements(process) /\ n \notin Tasks(process)
    BY <1>9 DEF ExclusiveGateway, Tasks, Exclusive, Task
  <2>2. ASSUME NEW f, Run(n, [NoWrite EXCEPT !.decisions = Just(n, f.id)])
        PROVE  \E w : ElementRuns(n, w)
    <3> DEFINE w == [NoWrite EXCEPT !.decisions = Just(n, f.id)]
    <3>1. QuietWrite(w) /\ w.vars = Empty /\ w.results = Empty
      BY DEF NoWrite, QuietWrite, IsState
    <3> HIDE DEF w
    <3>2. QED BY <1>8, <2>1, <2>2, <3>1 DEF w
  <2>3. QuietWrite(NoWrite) /\ NoWrite.vars = Empty /\ NoWrite.results = Empty
    BY DEF NoWrite, QuietWrite, IsState
  <2>4. CASE Run(n, NoWrite)
    BY <1>8, <2>1, <2>3, <2>4
  <2>5. QED BY <1>9, <2>2, <2>4 DEF ExclusiveGateway
<1>10. CASE ParallelGateway(n)
  <2>1. Ready(n) /\ n \in Elements(process) /\ n \notin Tasks(process) /\ Run(n, NoWrite)
    BY <1>10 DEF ParallelGateway, Tasks, Parallel, Task
  <2>2. QuietWrite(NoWrite) /\ NoWrite.vars = Empty /\ NoWrite.results = Empty
    BY DEF NoWrite, QuietWrite, IsState
  <2>3. QED BY <1>8, <2>1, <2>2
<1>11. QED BY <1>5, <1>6, <1>7, <1>9, <1>10

\* What the marks are worth that a hook may write.
MarksAs(known) ==
  /\ {Resume, RebuildSpec} \intersect DOMAIN known \subseteq DOMAIN state.vars
  /\ SkipMarked(known) => SkipMarked(state.vars)

\* A hook starts from the state it has read, with the variables it sets.
ReadBack(s) ==
  /\ IsState(s) /\ s.path = state.path /\ s.results = state.results /\ s.mods = state.mods
  /\ s.halted = state.halted /\ MarksAs(s.vars)

LEMMA ReadBackFact ==
  ASSUME LawInv, OwnMarksKept, NEW f, f.id \in hooks,
         NEW answer \in scenario.answers[f.id] \union {Continue}
  PROVE  ReadBack(Updated(Permit(answer)))
<1> DEFINE d == Permit(answer)
<1>1. DOMAIN d.sets \intersect OwnKeys = {}
  BY PermitFacts
<1> HIDE DEF d
<1>2. MarksAs(Updating(state.vars, d.sets))
  <2>1. SkipMarked(Updating(state.vars, d.sets)) => SkipMarked(state.vars)
    BY <1>1, UpdatedMark
  <2>2. DOMAIN Updating(state.vars, d.sets) = DOMAIN state.vars \union DOMAIN d.sets
    BY DEF Updating
  <2>3. QED BY <1>1, <2>1, <2>2 DEF MarksAs
<1>3. /\ Updated(d).vars = Updating(state.vars, d.sets)
      /\ Updated(d).results = state.results /\ Updated(d).mods = state.mods
      /\ Updated(d).halted = state.halted /\ Updated(d).path = state.path /\ IsState(Updated(d))
  BY DEF Updated, LawInv, Lawful, IsState
<1>4. QED BY <1>2, <1>3 DEF ReadBack, d

LEMMA RecordFact ==
  ASSUME NEW s, ReadBack(s), NEW type, NEW node
  PROVE  LET r == Record(s, type, node)
         IN  /\ IsState(r) /\ r.path = state.path /\ r.results = state.results /\ r.halted = state.halted
             /\ r.mods = state.mods \union {[type |-> type, node |-> node]}
             /\ r.vars = s.vars
BY DEF ReadBack, Record, IsState

\* The answer that a hook acts on is a permitted one of the scenario's, or CONTINUE.
LEMMA ActedOn ==
  ASSUME NEW f, NEW answer \in scenario.answers[f.id] \union {Continue},
         Permit(answer).action # "continue"
  PROVE  Permit(answer) \in scenario.answers[f.id] /\ Permitted(Permit(answer).action)
BY DEF Permit, Continue

LEMMA RebuildEffect ==
  ASSUME NEW f, f \in WiredFlows(process, hooks), Ready(HookNode(f.id)),
         NEW s, ReadBack(s), NEW type \in Structural, NEW node, NEW before, NEW resume,
         NEW a \in scenario.answers[f.id], Permitted(a.action), a.action \in Structural,
         RequestRebuild(f, s, type, node, before, resume)
  PROVE  \E w, goto : HookRuns(f, w, goto)
<1> DEFINE spec == Just(RebuildSpec, [type |-> type, node |-> node, before |-> before])
           mark == IF resume = NoNode THEN Empty ELSE Just(Resume, resume)
           known == Updating(Updating(s.vars, spec), mark)
           r == Record(s, type, node)
           w == [r EXCEPT !.vars = known]
<1>1. DOMAIN spec = {RebuildSpec} /\ DOMAIN mark \subseteq {Resume}
  BY DEF Just, Empty
<1>2. Divert(f, w, END)
  BY DEF RequestRebuild
<1> HIDE DEF spec, mark
<1>3. RebuildSpec \in DOMAIN known
  BY <1>1 DEF Updating
<1>4. SkipMarked(known) => SkipMarked(state.vars)
  <2>1. SkipMarked(known) => SkipMarked(Updating(s.vars, spec))
    BY <1>1, UpdatedMark
  <2>2. SkipMarked(Updating(s.vars, spec)) => SkipMarked(s.vars)
    BY <1>1, UpdatedMark
  <2>3. QED BY <2>1, <2>2 DEF ReadBack, MarksAs
<1> HIDE DEF known, r
<1>5. /\ IsState(r) /\ r.path = state.path /\ r.results = state.results /\ r.halted = state.halted
      /\ r.mods = state.mods \union {[type |-> type, node |-> node]}
  BY RecordFact DEF r
<1>6. /\ IsState(w) /\ w.path = state.path /\ w.results = state.results /\ w.halted = state.halted /\ w.vars = known
      /\ w.mods = state.mods \union {[type |-> type, node |-> node]}
  BY <1>5 DEF IsState
<1> HIDE DEF w
<1>7. Rebuilds(f, w, END)
  BY <1>2, <1>3, <1>4, <1>6 DEF Rebuilds, Divert
<1>8. HookRuns(f, w, END)
  BY <1>2, <1>6, <1>7 DEF HookRuns, Divert
<1>9. QED BY <1>8

LEMMA JumpEffect ==
  ASSUME NEW f, f \in WiredFlows(process, hooks), Ready(HookNode(f.id)),
         NEW s, ReadBack(s), NEW type \in {"skip_to", "swap_nodes"}, NEW goto,
         NEW d \in scenario.answers[f.id], Permitted(d.action), d.target # NoNode,
         \/ d.action = "skip_to" /\ goto = d.target
         \/ d.action = "swap_nodes" /\ goto \in {d.target, d.other},
         Divert(f, Record(s, type, goto), goto)
  PROVE  \E w, to : HookRuns(f, w, to)
<1> DEFINE w == Record(s, type, goto)
<1>1. /\ IsState(w) /\ w.path = state.path /\ w.results = state.results /\ w.halted = state.halted
      /\ w.mods = state.mods \union {[type |-> type, node |-> goto]} /\ w.vars = s.vars
  BY RecordFact
<1> HIDE DEF w
<1>2. Jumps(f, w, goto)
  BY <1>1 DEF Jumps, KeepsMarks, ReadBack, MarksAs, Divert, w
<1>3. HookRuns(f, w, goto)
  BY <1>1, <1>2 DEF HookRuns, Divert, w
<1>4. QED BY <1>3

LEMMA HookEffect ==
  ASSUME LawInv, OwnMarksKept, NEW f \in WiredFlows(process, hooks), EvaluateHook(f)
  PROVE  \E w, goto : HookRuns(f, w, goto)
<1>1. f.id \in hooks /\ Ready(HookNode(f.id))
  BY DEF WiredFlows, EvaluateHook
<1>2. PICK answer \in scenario.answers[f.id] \union {Continue} :
        LET d == Permit(answer)
            s == Updated(d)
        IN  \/ HookContinue(f, d, s) \/ HookTerminate(f, d, s)
            \/ HookSkipNode(f, d, s) \/ HookSkipTo(f, d, s)
            \/ HookSwapNodes(f, d, s)
            \/ HookRemoveNode(f, d, s) \/ HookAddNode(f, d, s)
  BY DEF EvaluateHook
<1> DEFINE d == Permit(answer)
           s == Updated(d)
<1>3. ReadBack(s)
  BY <1>1, ReadBackFact
<1>4. d.action # "continue" => d \in scenario.answers[f.id] /\ Permitted(d.action)
  BY ActedOn
<1> HIDE DEF d, s
<1>5. CASE HookContinue(f, d, s)
  <2>1. HookRuns(f, s, Target(process, f))
    BY <1>1, <1>3, <1>5 DEF HookContinue, Proceed, HookRuns, Proceeds, ReadBack, MarksAs, KeepsMarks
  <2>2. QED BY <2>1
<1>6. CASE HookTerminate(f, d, s)
  <2> DEFINE w == [s EXCEPT !.halted = TRUE]
  <2>1. /\ w.vars = s.vars /\ w.results = state.results /\ w.mods = state.mods
        /\ w.halted = TRUE /\ IsState(w) /\ w.path = state.path
    BY <1>3 DEF ReadBack, IsState
  <2>2. Divert(f, w, END)
    BY <1>6 DEF HookTerminate
  <2> HIDE DEF w
  <2>3. HookRuns(f, w, END)
    BY <1>1, <1>3, <2>1, <2>2 DEF Divert, HookRuns, Halts, ReadBack, MarksAs, KeepsMarks
  <2>4. QED BY <2>3
<1>7. CASE HookSkipNode(f, d, s)
  <2> DEFINE w == [s EXCEPT !.vars = Updating(s.vars, Just(Skip, TRUE))]
  <2>1. /\ w.vars = Updating(s.vars, Just(Skip, TRUE)) /\ w.results = state.results
        /\ w.mods = state.mods /\ w.halted = state.halted /\ IsState(w) /\ w.path = state.path
    BY <1>3 DEF ReadBack, IsState
  <2>2. DOMAIN w.vars = DOMAIN s.vars \union {Skip}
    BY <2>1 DEF Updating, Just
  <2>3. Proceed(f, w) /\ MaySkip(f)
    BY <1>4, <1>7 DEF HookSkipNode, MaySkip
  <2> HIDE DEF w
  <2>4. HookRuns(f, w, Target(process, f))
    BY <1>1, <1>3, <2>1, <2>2, <2>3 DEF Proceed, HookRuns, Proceeds, ReadBack, MarksAs, KeepsMarks
  <2>5. QED BY <2>4
<1>8. CASE HookSkipTo(f, d, s)
  BY <1>1, <1>3, <1>4, <1>8, JumpEffect DEF HookSkipTo
<1>9. CASE HookSwapNodes(f, d, s)
  <2> DEFINE goto == IF Target(process, f) = d.target THEN d.other ELSE d.target
  <2>1. Divert(f, Record(s, "swap_nodes", goto), goto) /\ goto \in {d.target, d.other}
    BY <1>9 DEF HookSwapNodes
  <2>2. /\ d \in scenario.answers[f.id] /\ Permitted(d.action)
        /\ d.action = "swap_nodes" /\ d.target # NoNode
    BY <1>4, <1>9 DEF HookSwapNodes
  <2> HIDE DEF goto
  <2>3. QED BY <1>1, <1>3, <2>1, <2>2, JumpEffect
<1>10. CASE HookRemoveNode(f, d, s)
  <2>1. PICK resume : RequestRebuild(f, s, "remove_node", d.target, NoNode, resume)
    BY <1>10 DEF HookRemoveNode
  <2>2. d \in scenario.answers[f.id] /\ Permitted(d.action) /\ d.action \in Structural
    BY <1>4, <1>10 DEF HookRemoveNode, Structural
  <2>3. QED BY <1>1, <1>3, <2>1, <2>2, RebuildEffect DEF Structural
<1>11. CASE HookAddNode(f, d, s)
  <2>1. RequestRebuild(f, s, "add_node", d.target, Target(process, f), d.target)
    BY <1>11 DEF HookAddNode
  <2>2. d \in scenario.answers[f.id] /\ Permitted(d.action) /\ d.action \in Structural
    BY <1>4, <1>11 DEF HookAddNode, Structural
  <2>3. QED BY <1>1, <1>3, <2>1, <2>2, RebuildEffect DEF Structural
<1>12. QED BY <1>2, <1>5, <1>6, <1>7, <1>8, <1>9, <1>10, <1>11 DEF d, s

\* Every step is one of these.
LEMMA Steps ==
  ASSUME LawInv, OwnMarksKept, [Next]_vars
  PROVE  \/ Rests
         \/ Starts
         \/ \E n \in frontier : \E w : ElementRuns(n, w)
         \/ \E f, w, goto : HookRuns(f, w, goto)
         \/ Advances
         \/ Rebuild
<1>1. CASE Crash /\ phase # "completed"
  BY <1>1 DEF Crash, Rests
<1>2. CASE Build
  BY <1>1, <1>2 DEF Build, Compiles, Starts
<1>3. CASE NodeStep
  <2>1. phase # "completed"
    BY <1>3 DEF NodeStep, SkipTask, AgenticTask, ToolTask, ExclusiveGateway, ParallelGateway,
                EvaluateHook, Ready
  <2>2. QED BY <1>1, <1>3, <2>1, ElementEffect, HookEffect DEF NodeStep
<1>4. CASE Advance
  BY <1>1, <1>4 DEF Advance, Advances
<1>5. CASE Finish
  BY <1>5 DEF Finish, Rests
<1>6. CASE UNCHANGED vars
  BY <1>6 DEF vars, Rests
<1>7. QED BY <1>1, <1>2, <1>3, <1>4, <1>5, <1>6 DEF Next

-----------------------------------------------------------------------------
(* What holds between the nodes of a superstep, in every process *)

\* The marks of a structural change come with an entry in the log.
Unchanged(s) == \A m \in s.mods : m.type \notin Structural
Marked(s) == Unchanged(s) => Resume \notin DOMAIN s.vars /\ RebuildSpec \notin DOMAIN s.vars

Jumping == {"skip_to", "swap_nodes"}

\* No hook has an answer of these types that it may give.
Never(types) ==
  \A f \in hooks : \A a \in scenario.answers[f] :
    a.action \in types => ~ Permitted(a.action)

Fixed == Never(Structural)
Undiverted == Never(Jumping \union Structural)

CoreInv ==
  /\ done = {} => next = state /\ targets = {}
  /\ phase = "running" => DistinctNodes(process, hooks)
  /\ phase = "building" => done = {}
  /\ state.mods \subseteq next.mods
  /\ Marked(state) /\ Marked(next)
  /\ process # scenario.process => ~ Unchanged(state)
  /\ \A m \in next.mods : m.type \in Jumping \union Structural
  /\ Fixed => Unchanged(next)
  /\ Undiverted => next.mods = {}

LEMMA CoreInit == OwnMarksKept /\ Init => CoreInv
<1> SUFFICES ASSUME OwnMarksKept, Init PROVE CoreInv
  OBVIOUS
<1>1. state.vars = scenario.vars /\ state.mods = {} /\ next = state /\ scenario \in Scenarios
  BY DEF Init
<1>2. Marked(state)
  BY <1>1 DEF OwnMarksKept, Marked
<1>3. QED BY <1>1, <1>2 DEF Init, CoreInv, Unchanged

LEMMA NeverStep ==
  scenario' = scenario => (Fixed <=> Fixed') /\ (Undiverted <=> Undiverted')
BY DEF Fixed, Undiverted, Never, hooks, Permitted

LEMMA GoesStraight ==
  ASSUME NEW f, NEW w, NEW goto, HookRuns(f, w, goto)
  PROVE  /\ Fixed => ~ Rebuilds(f, w, goto)
         /\ Undiverted => Proceeds(f, w, goto) \/ Halts(f, w, goto)
<1>1. f.id \in hooks
  BY DEF HookRuns, WiredFlows
<1>2. Fixed => ~ Rebuilds(f, w, goto)
  BY <1>1 DEF Fixed, Never, Rebuilds
<1>3. Undiverted => ~ Jumps(f, w, goto) /\ ~ Rebuilds(f, w, goto)
  BY <1>1 DEF Undiverted, Never, Jumping, Jumps, Rebuilds
<1>4. QED BY <1>2, <1>3 DEF HookRuns

\* A node runs that writes w.
LEMMA CoreWriteStep ==
  ASSUME TypeInv, CoreInv, NEW n \in frontier, NEW w, NEW goto, Write(n, w, goto),
         w.mods = {} \/ state.mods \subseteq w.mods,
         \A m \in w.mods : m.type \in Jumping \union Structural,
         Fixed => Unchanged(w), Undiverted => w.mods = {},
         \/ {Resume, RebuildSpec} \intersect DOMAIN w.vars \subseteq DOMAIN state.vars
         \/ ~ Unchanged(w)
  PROVE  CoreInv'
<1>1. /\ state' = state /\ next' = Merge(next, w) /\ done' = done \union {n}
      /\ process' = process /\ scenario' = scenario /\ phase' = phase
  BY DEF Write, model
<1>2. next'.mods = next.mods \union w.mods /\ DOMAIN next'.vars = DOMAIN next.vars \union DOMAIN w.vars
  BY <1>1 DEF Merge, Updating
<1>3. Marked(next)'
  BY <1>2 DEF CoreInv, Marked, Unchanged
<1>4. Marked(state)' /\ hooks' = hooks
  BY <1>1 DEF CoreInv, Marked, Unchanged, hooks
<1>5. phase # "building"
  BY DEF TypeInv
<1>6. Fixed => Unchanged(next)'
  BY <1>2 DEF CoreInv, Unchanged
<1>7. QED BY <1>1, <1>2, <1>3, <1>4, <1>5, <1>6, NeverStep DEF CoreInv, Unchanged

LEMMA CoreStep == OwnMarksKept /\ TypeInv /\ LawInv /\ CoreInv /\ [Next]_vars => CoreInv'
<1> SUFFICES ASSUME OwnMarksKept, TypeInv, LawInv, CoreInv, [Next]_vars PROVE CoreInv'
  OBVIOUS
<1>1. CASE Rests
  <2>1. phase' \in {phase, "crashed", "completed"}
    BY <1>1 DEF Rests, Finish
  <2>2. QED BY <1>1, <2>1, NeverStep DEF Rests, model, superstep, CoreInv, hooks, Marked, Unchanged
<1>2. CASE Starts
  BY <1>2, NeverStep DEF Starts, model, CoreInv, hooks, Marked, Unchanged
<1>3. ASSUME NEW n \in frontier, NEW w, ElementRuns(n, w)
      PROVE  CoreInv'
  <2> DEFINE v == [w EXCEPT !.path = <<n>>]
  <2>1. v.mods = {} /\ v.vars = w.vars
    BY <1>3 DEF ElementRuns, QuietWrite, IsState
  <2>2. PICK goto : Write(n, v, goto)
    BY <1>3 DEF ElementRuns, Run
  <2> HIDE DEF v
  <2>3. {Resume, RebuildSpec} \intersect DOMAIN v.vars \subseteq DOMAIN state.vars
    BY <1>3, <2>1 DEF ElementRuns, KeepsMarks
  <2>4. Unchanged(v)
    BY <2>1 DEF Unchanged
  <2>5. QED BY <2>1, <2>2, <2>3, <2>4, CoreWriteStep
<1>4. ASSUME NEW f, NEW w, NEW goto, HookRuns(f, w, goto)
      PROVE  CoreInv'
  <2>1. HookNode(f.id) \in frontier /\ Write(HookNode(f.id), w, {goto})
    BY <1>4 DEF HookRuns, Ready, Dump
  <2>2. /\ state.mods \subseteq w.mods
        /\ KeepsMarks(w) \/ ~ Unchanged(w)
    <3>1. CASE Rebuilds(f, w, goto)
      <4>1. PICK type \in Structural : \E node :
              w.mods = state.mods \union {[type |-> type, node |-> node]}
        BY <3>1 DEF Rebuilds
      <4>2. PICK node : w.mods = state.mods \union {[type |-> type, node |-> node]}
        BY <4>1
      <4>3. [type |-> type, node |-> node] \in w.mods
        BY <4>2
      <4>4. QED BY <4>2, <4>3 DEF Unchanged
    <3>2. CASE Proceeds(f, w, goto) \/ Halts(f, w, goto) \/ Jumps(f, w, goto)
      BY <3>2 DEF Proceeds, Halts, Jumps
    <3>3. QED BY <1>4, <3>1, <3>2 DEF HookRuns
  <2>3. \A m \in w.mods : m.type \in Jumping \union Structural
    BY <1>4 DEF HookRuns, Proceeds, Halts, Jumps, Rebuilds, CoreInv, Jumping
  <2>4. Undiverted => w.mods = {}
    BY <1>4, GoesStraight DEF Proceeds, Halts, CoreInv
  <2>5. Fixed => Unchanged(w)
    <3>1. Fixed => Proceeds(f, w, goto) \/ Halts(f, w, goto) \/ Jumps(f, w, goto)
      BY <1>4, GoesStraight DEF HookRuns
    <3>2. Fixed => Unchanged(state)
      BY DEF CoreInv, Unchanged
    <3>3. "skip_to" \notin Structural /\ "swap_nodes" \notin Structural
      BY DEF Structural
    <3>4. QED BY <3>1, <3>2, <3>3 DEF Proceeds, Halts, Jumps, Unchanged
  <2>6. QED BY <2>1, <2>2, <2>3, <2>4, <2>5, CoreWriteStep DEF KeepsMarks
<1>5. CASE Advances
  BY <1>5, NeverStep DEF Advances, model, CoreInv, hooks, Marked, Unchanged
<1>6. CASE Rebuild
  <2> DEFINE known == Restrict(state.vars, DOMAIN state.vars \ {RebuildSpec})
  <2>1. /\ state' = [state EXCEPT !.vars = known] /\ next' = state' /\ targets' = targets
        /\ frontier = {} /\ done' = done /\ phase' = "building" /\ RebuildSpec \in DOMAIN state.vars
        /\ scenario' = scenario
    BY <1>6 DEF Rebuild, GraphDone
  <2>2. DOMAIN known \subseteq DOMAIN state.vars
    BY DEF Restrict
  <2> HIDE DEF known
  <2>3. state'.mods = state.mods /\ state'.vars = known /\ ~ Unchanged(state)
    BY <2>1 DEF LawInv, Lawful, IsState, CoreInv, Marked
  <2>4. done = {} /\ targets = {}
    BY <2>1 DEF TypeInv, CoreInv
  <2>5. ~ Fixed /\ ~ Undiverted
    BY <2>3 DEF CoreInv, Unchanged
  <2>6. QED BY <2>1, <2>3, <2>4, <2>5, NeverStep DEF CoreInv, Marked, Unchanged
<1>7. QED BY <1>1, <1>2, <1>3, <1>4, <1>5, <1>6, Steps

Inv == OwnMarksKept /\ TypeInv /\ LawInv /\ CoreInv

LEMMA InvInvariance ==
  ASSUME OwnMarksKept
  PROVE  Spec => []Inv
<1>1. Init => CoreInv
  BY CoreInit
<1>2. TypeInv /\ CoreInv /\ [Next]_vars => CoreInv'
  BY CoreStep DEF TypeInv
<1>3. TypeInv /\ CoreInv => Inv
  BY DEF Inv, TypeInv
<1>4. QED BY <1>1, <1>2, <1>3, TypeInvariance, PTL DEF Spec

-----------------------------------------------------------------------------
(* A topology that hooks may not change stays as it was given *)

LEMMA FixedFact ==
  Inv /\ Fixed => process = scenario.process /\ Unchanged(state) /\ Unchanged(next)
BY DEF Inv, CoreInv, Unchanged

LEMMA FixedStep ==
  ASSUME LawInv, OwnMarksKept, [Next]_vars
  PROVE  scenario' = scenario
<1>1. ASSUME NEW n, NEW w, ElementRuns(n, w)
      PROVE  scenario' = scenario
  BY <1>1 DEF ElementRuns, Run, Write, model
<1>2. ASSUME NEW f, NEW w, NEW goto, HookRuns(f, w, goto)
      PROVE  scenario' = scenario
  BY <1>2 DEF HookRuns, Dump, Write, model
<1>3. CASE Rests \/ Starts \/ Advances \/ Rebuild
  BY <1>3 DEF Rests, Starts, Advances, Rebuild, model
<1>4. QED BY <1>1, <1>2, <1>3, Steps

-----------------------------------------------------------------------------
(* The end of a run.  A graph that has nothing to run has reached an end     *)
(* event, was halted, or is about to be rebuilt: no token is just dropped.   *)

\* The graph ends with a state that is halted, or to be changed.
Closing(s) == s.halted \/ RebuildSpec \in DOMAIN s.vars

\* An id that is hooked stands for one flow.
HookedOnce(p, hooked) ==
  \A f \in Flows(p), g \in WiredFlows(p, hooked) : f.id = g.id => f = g

\* Hooks send control to elements of the process only.
JumpsInside(p) ==
  \A f \in WiredFlows(p, hooks) : \A a \in scenario.answers[f.id] :
    /\ a.action \in Jumping /\ a.target # NoNode => a.target \in Elements(p)
    /\ a.action = "swap_nodes" /\ a.target # NoNode => a.other \in Elements(p)

\* Whatever runs in process p, control has somewhere to go.
LosesNothing(p) ==
  Connected(p) /\ LeadsOn(p) /\ HookedOnce(p, hooks) /\ JumpsInside(p)

EndInv ==
  /\ done # {} => targets # {}
  /\ phase = "running" => targets \subseteq Elements(process) \union HookNodes(process, hooks) \union {END}
  /\ END \in targets => ended \/ Closing(next)
  /\ phase = "running" /\ frontier = {} => ended \/ Closing(state)
  /\ phase = "completed" => ended \/ state.halted

LEMMA EndInit == Init => EndInv
BY DEF Init, EndInv

\* Control leaves an element on some flow.
LEMMA SomeSuccessor ==
  ASSUME NEW p, WellFormed(p), NEW n, Outgoing(p, n) # {}, NEW d
  PROVE  Routed(p, n, d) # {}
BY DEF Routed

\* Closing states stay so when more is merged into them.
LEMMA ClosingMerge ==
  ASSUME NEW s, NEW w
  PROVE  Closing(Merge(s, w)) <=> Closing(s) \/ Closing(w)
BY DEF Closing, Merge, Updating

LEMMA EndElementStep ==
  ASSUME Inv, EndInv, LosesNothing(process), NEW n, NEW w, ElementRuns(n, w)
  PROVE  EndInv'
<1> DEFINE v == [w EXCEPT !.path = <<n>>]
           d == Lookup(Updating(state.decisions, w.decisions), n, NoNode)
           to == Ids(Routed(process, n, d))
           unhooked == EndFlows(process) \ Ids(WiredFlows(process, hooks))
<1>1. /\ Write(n, v, Successors(process, hooks, n, d))
      /\ Pass(Ids(Incoming(process, n)), to, to \intersect unhooked)
  BY DEF ElementRuns, Run
<1> HIDE DEF v, d
<1>2. n \in Elements(process) /\ n \in frontier /\ phase = "running" /\ DistinctNodes(process, hooks)
  BY DEF ElementRuns, Ready, Inv, CoreInv
<1>3. /\ next' = Merge(next, v) /\ state' = state /\ frontier' = frontier /\ done' = done \union {n}
      /\ targets' = targets \union Successors(process, hooks, n, d) /\ phase' = phase
      /\ process' = process /\ hooks' = hooks
  BY <1>1 DEF Write, model, hooks
<1>4. Routed(process, n, d) # {} /\ Routed(process, n, d) \subseteq Outgoing(process, n)
  BY <1>2, SomeSuccessor, RoutedFact DEF LosesNothing, LeadsOn, Inv, TypeInv
<1>5. targets' # {}
  BY <1>3, <1>4 DEF Successors
<1>6. ASSUME NEW f \in Routed(process, n, d)
      PROVE  /\ Entry(process, hooks, f)
                  \in Elements(process) \union HookNodes(process, hooks) \union {END}
             /\ Entry(process, hooks, f) = END => f.id \in to \intersect unhooked
  <2>1. f \in Flows(process)
    BY <1>4 DEF Outgoing
  <2>2. CASE f \in WiredFlows(process, hooks)
    BY <1>2, <2>2 DEF Entry, HookNodes, DistinctNodes, GraphNodes
  <2>3. CASE f \notin WiredFlows(process, hooks)
    <3>1. Entry(process, hooks, f) = Target(process, f)
      BY <2>3 DEF Entry
    <3>2. f.id \notin Ids(WiredFlows(process, hooks))
      BY <2>1, <2>3 DEF Ids, LosesNothing, HookedOnce
    <3>3. Target(process, f) = END => f.id \in EndFlows(process)
      BY <2>1 DEF EndFlows, Ids
    <3>4. Target(process, f) \in Elements(process) \union {END}
      BY <2>1 DEF Target, LosesNothing, Connected
    <3>5. QED BY <3>1, <3>2, <3>3, <3>4 DEF Ids
  <2>4. QED BY <2>2, <2>3
<1> HIDE DEF to, unhooked
<1>7. targets' \subseteq Elements(process) \union HookNodes(process, hooks) \union {END}
  BY <1>2, <1>3, <1>6 DEF EndInv, Successors
<1>8. END \in targets' => ended' \/ Closing(next')
  <2>1. CASE END \in targets
    BY <1>1, <1>3, <2>1, ClosingMerge DEF EndInv, Pass
  <2>2. CASE END \in Successors(process, hooks, n, d)
    BY <1>1, <1>6, <2>2 DEF Successors, Pass
  <2>3. QED BY <1>3, <2>1, <2>2
<1>9. QED BY <1>2, <1>3, <1>5, <1>7, <1>8 DEF EndInv

LEMMA EndHookStep ==
  ASSUME Inv, EndInv, LosesNothing(process), NEW f, NEW w, NEW goto, HookRuns(f, w, goto)
  PROVE  EndInv'
<1> DEFINE n == HookNode(f.id)
<1>1. Write(n, w, {goto})
  BY DEF HookRuns, Dump
<1>2. /\ f \in WiredFlows(process, hooks) /\ f \in Flows(process)
      /\ n \in frontier /\ phase = "running" /\ DistinctNodes(process, hooks)
  BY DEF HookRuns, Ready, Inv, CoreInv, WiredFlows
<1> HIDE DEF n
<1>3. /\ next' = Merge(next, w) /\ state' = state /\ frontier' = frontier /\ done' = done \union {n}
      /\ targets' = targets \union {goto} /\ phase' = phase
      /\ process' = process /\ hooks' = hooks
  BY <1>1 DEF Write, model, hooks
<1>4. CASE Proceeds(f, w, goto)
  <2>1. goto = END => ended'
    <3>1. goto = END => f.id \in EndFlows(process)
      BY <1>2, <1>4 DEF Proceeds, EndFlows, Ids
    <3>2. QED BY <1>4, <3>1 DEF Proceeds, Pass
  <2>2. goto \in Elements(process) \union {END}
    BY <1>2, <1>4 DEF Proceeds, Target, LosesNothing, Connected
  <2>3. ended => ended'
    BY <1>4 DEF Proceeds, Pass
  <2>4. QED BY <1>2, <1>3, <2>1, <2>2, <2>3, ClosingMerge DEF EndInv
<1>5. CASE Halts(f, w, goto) \/ Rebuilds(f, w, goto)
  <2>1. goto = END /\ Closing(w) /\ (ended => ended')
    BY <1>5 DEF Halts, Rebuilds, Closing, Pass
  <2>2. QED BY <1>2, <1>3, <2>1, ClosingMerge DEF EndInv
<1>6. CASE Jumps(f, w, goto)
  <2>1. goto \in Elements(process)
    BY <1>2, <1>6 DEF Jumps, Jumping, LosesNothing, JumpsInside
  <2>2. goto # END
    BY <1>2, <2>1 DEF DistinctNodes, GraphNodes
  <2>3. ended => ended'
    BY <1>6 DEF Jumps, Pass
  <2>4. QED BY <1>2, <1>3, <2>1, <2>2, <2>3, ClosingMerge DEF EndInv
<1>7. QED BY <1>4, <1>5, <1>6 DEF HookRuns

LEMMA EndStep == Inv /\ EndInv /\ LosesNothing(process) /\ [Next]_vars => EndInv'
<1> SUFFICES ASSUME Inv, EndInv, LosesNothing(process), [Next]_vars PROVE EndInv'
  OBVIOUS
<1>1. CASE Rests
  <2>1. UNCHANGED <<process, scenario, state, next, frontier, done, targets, ended>>
    BY <1>1 DEF Rests, model, superstep, history
  <2>2. hooks' = hooks
    BY <2>1 DEF hooks
  <2>3. CASE phase' = phase \/ phase' = "crashed"
    BY <2>1, <2>2, <2>3 DEF EndInv
  <2>4. CASE Finish
    <3>1. phase' = "completed" /\ (ended \/ state.halted)
      BY <2>4 DEF Finish, GraphDone, EndInv, Closing
    <3>2. QED BY <2>1, <3>1 DEF EndInv
  <2>5. QED BY <1>1, <2>3, <2>4 DEF Rests
<1>2. CASE Starts
  <2>1. targets = {} /\ done = {}
    BY <1>2 DEF Starts, Inv, CoreInv
  <2>2. QED BY <1>2, <2>1 DEF Starts, model, history, EndInv
<1>3. ASSUME NEW n \in frontier, NEW w, ElementRuns(n, w)
      PROVE  EndInv'
  BY <1>3, EndElementStep
<1>4. ASSUME NEW f, NEW w, NEW goto, HookRuns(f, w, goto)
      PROVE  EndInv'
  BY <1>4, EndHookStep
<1>5. CASE Advances
  <2>1. NextFrontier = {} => ended \/ Closing(next)
    BY <1>5 DEF Advances, EndInv, NextFrontier, GraphNodes
  <2>2. QED BY <1>5, <2>1 DEF Advances, model, EndInv
<1>6. CASE Rebuild
  <2>1. targets' = {} /\ done' = {} /\ phase' = "building"
    BY <1>6 DEF Rebuild, GraphDone, Inv, TypeInv, CoreInv
  <2>2. QED BY <2>1 DEF EndInv
<1>7. QED BY <1>1, <1>2, <1>3, <1>4, <1>5, <1>6, Steps DEF Inv

\* A run that is reported complete has reached an end event or was halted: as
\* long as the flows lead on and hooks jump to elements, no superstep, no hook
\* and no rebuild drops control, with parallel branches or without.
THEOREM CompletionIsReal ==
  ASSUME OwnMarksKept
  PROVE  Spec /\ []LosesNothing(process) => []CompletesAtEnd
<1>1. EndInv => CompletesAtEnd
  BY DEF EndInv, CompletesAtEnd
<1>2. QED BY <1>1, EndInit, EndStep, InvInvariance, PTL DEF Spec

\* The same, said of the process given, where it may not be changed.
THEOREM FixedCompletionIsReal ==
  ASSUME OwnMarksKept
  PROVE  Spec => [](Fixed /\ LosesNothing(scenario.process) => CompletesAtEnd)
<1> DEFINE H == Fixed /\ LosesNothing(scenario.process)
<1>1. Inv /\ [Next]_vars => (H <=> H')
  BY FixedStep, NeverStep DEF Inv, Permitted, hooks, LosesNothing, JumpsInside
<1>2. Inv /\ H => LosesNothing(process)
  BY FixedFact
<1> HIDE DEF H
<1>3. Spec => [](H => CompletesAtEnd)
  BY <1>1, <1>2, CompletionIsReal, InvInvariance, PTL DEF Spec
<1>4. QED BY <1>3 DEF H
================================================================================
