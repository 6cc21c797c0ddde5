--------------------------- MODULE SequentialProofs ---------------------------
(***************************************************************************)
(* What LangGraphEngine promises of processes in which control does not    *)
(* fork.  Only one node runs at a time there, so what a hook decides is    *)
(* what happens next; with parallel branches most of this is not true      *)
(* (see the runs engine_halt, engine_join and engine_lost_update).  Like    *)
(* the lemmas on steps, the theorems are about runs in which nobody but     *)
(* the engine sets its marks.                                              *)
(***************************************************************************)
EXTENDS LangGraphEngineSteps

USE DEF Skip, RebuildSpec, Resume, OwnKeys

-----------------------------------------------------------------------------
(* One node at a time *)

Single(S) == \A x, y \in S : x = y

\* Where control does not fork, an element leads to one node at most.
LEMMA OneSuccessor ==
  ASSUME NEW p, WellFormed(p), OneWay(p), NEW n \in Elements(p), NEW hooked, NEW d
  PROVE  /\ Single(Successors(p, hooked, n, d))
         /\ \A m \in Successors(p, hooked, n, d) :
              \E f \in Outgoing(p, n) : m = Entry(p, hooked, f)
<1>1. Routed(p, n, d) \subseteq Outgoing(p, n)
  BY RoutedFact
<1>2. ASSUME NEW f \in Routed(p, n, d), NEW g \in Routed(p, n, d)
      PROVE  Entry(p, hooked, f) = Entry(p, hooked, g)
  <2>1. f \in Flows(p) /\ g \in Flows(p) /\ f.source = n /\ g.source = n
    BY <1>1 DEF Outgoing
  <2>2. CASE f = g
    BY <2>2
  <2>3. CASE f # g
    <3>1. p.kind[n] = Exclusive /\ Several(Outgoing(p, n))
      BY <2>1, <2>3 DEF OneWay, Several, Outgoing
    <3>2. f.id = g.id
      BY <1>2, <2>3, <3>1 DEF Routed
    <3>3. f.target = g.target
      BY <2>1, <3>2 DEF OneWay
    <3>4. f \in WiredFlows(p, hooked) <=> g \in WiredFlows(p, hooked)
      BY <2>1, <3>2 DEF WiredFlows
    <3>5. QED BY <3>2, <3>3, <3>4 DEF Entry, Target
  <2>4. QED BY <2>2, <2>3
<1>3. QED BY <1>1, <1>2 DEF Successors, Single

HaltInv ==
  /\ Single(frontier) /\ Single(targets)
  /\ Closing(state) => frontier = {}
  /\ Closing(next) => done = frontier /\ targets \subseteq {END}
  /\ phase = "building" => ~ Closing(state)
  /\ \A s \in {state, next} : s.halted => RebuildSpec \notin DOMAIN s.vars

LEMMA HaltInit == OwnMarksKept /\ Init => HaltInv
<1> SUFFICES ASSUME OwnMarksKept, Init PROVE HaltInv
  OBVIOUS
<1>1. state.vars = scenario.vars /\ ~ state.halted /\ next = state /\ scenario \in Scenarios
  BY DEF Init
<1>2. ~ Closing(state)
  BY <1>1 DEF OwnMarksKept, Closing
<1>3. QED BY <1>1, <1>2 DEF Init, HaltInv, Single

\* A node that runs is alone, and finds the channels as it has read them.
LEMMA Alone ==
  ASSUME Inv, Single(frontier), NEW n, Ready(n)
  PROVE  frontier = {n} /\ done = {} /\ next = state /\ targets = {}
BY DEF Ready, Inv, TypeInv, CoreInv, Single

LEMMA HaltElementStep ==
  ASSUME Inv, HaltInv, OneWay(process), NEW n, NEW w, ElementRuns(n, w)
  PROVE  HaltInv'
<1> DEFINE v == [w EXCEPT !.path = <<n>>]
           d == Lookup(Updating(state.decisions, w.decisions), n, NoNode)
<1>1. frontier = {n} /\ done = {} /\ next = state /\ targets = {}
  BY Alone DEF ElementRuns, HaltInv
<1>2. v.halted = FALSE /\ v.vars = w.vars
  BY DEF ElementRuns, QuietWrite, IsState
<1>3. Write(n, v, Successors(process, hooks, n, d))
  BY DEF ElementRuns, Run
<1> HIDE DEF v, d
<1>4. /\ state' = state /\ next' = Merge(next, v) /\ frontier' = frontier
      /\ targets' = Successors(process, hooks, n, d) /\ phase' = phase
  BY <1>1, <1>3 DEF Write
<1>5. ~ Closing(state) /\ phase # "building"
  BY <1>1 DEF HaltInv, ElementRuns, Ready
<1>6. ~ Closing(Merge(next, v))
  BY <1>1, <1>2, <1>5 DEF ElementRuns, KeepsMarks, Closing, Merge, Updating
<1>7. Single(Successors(process, hooks, n, d))
  BY OneSuccessor DEF ElementRuns, Inv, TypeInv
<1>8. QED BY <1>4, <1>5, <1>6, <1>7 DEF HaltInv, Closing

LEMMA HaltHookStep ==
  ASSUME Inv, HaltInv, NEW f, NEW w, NEW goto, HookRuns(f, w, goto)
  PROVE  HaltInv'
<1> DEFINE n == HookNode(f.id)
<1>1. frontier = {n} /\ done = {} /\ next = state /\ targets = {}
  BY Alone DEF HookRuns, HaltInv
<1>2. Write(n, w, {goto})
  BY DEF HookRuns, Dump
<1> HIDE DEF n
<1>3. /\ state' = state /\ next' = Merge(next, w) /\ frontier' = frontier
      /\ targets' = {goto} /\ phase' = phase /\ done' = frontier
  BY <1>1, <1>2 DEF Write
<1>4. ~ Closing(state) /\ phase # "building"
  BY <1>1 DEF HaltInv, HookRuns, Ready
<1>5. /\ Merge(next, w).halted <=> w.halted
      /\ DOMAIN Merge(next, w).vars = DOMAIN state.vars \union DOMAIN w.vars
  BY <1>1, <1>4 DEF Closing, Merge, Updating
<1>6. Closing(Merge(next, w)) => goto = END
  BY <1>4, <1>5 DEF Closing, HookRuns, Proceeds, Halts, Jumps, Rebuilds, KeepsMarks
<1>7. Merge(next, w).halted => RebuildSpec \notin DOMAIN Merge(next, w).vars
  BY <1>4, <1>5 DEF Closing, HookRuns, Proceeds, Halts, Jumps, Rebuilds, KeepsMarks
<1>8. QED BY <1>3, <1>4, <1>6, <1>7 DEF HaltInv, Closing, Single

LEMMA HaltStep == Inv /\ HaltInv /\ OneWay(process) /\ [Next]_vars => HaltInv'
<1> SUFFICES ASSUME Inv, HaltInv, OneWay(process), [Next]_vars PROVE HaltInv'
  OBVIOUS
<1>1. CASE Rests
  <2>1. phase' # "building" \/ phase' = phase
    BY <1>1 DEF Rests, Finish
  <2>2. QED BY <1>1, <2>1 DEF Rests, superstep, HaltInv, Closing
<1>2. CASE Starts
  BY <1>2 DEF Starts, HaltInv, Closing, Single, Inv, CoreInv
<1>3. ASSUME NEW n \in frontier, NEW w, ElementRuns(n, w)
      PROVE  HaltInv'
  BY <1>3, HaltElementStep
<1>4. ASSUME NEW f, NEW w, NEW goto, HookRuns(f, w, goto)
      PROVE  HaltInv'
  BY <1>4, HaltHookStep
<1>5. CASE Advances
  <2>1. Closing(next) => NextFrontier = {}
    BY <1>5 DEF HaltInv, NextFrontier, Advances, Inv, CoreInv, DistinctNodes
  <2>2. Single(NextFrontier)
    BY DEF HaltInv, NextFrontier, Single
  <2>3. QED BY <1>5, <2>1, <2>2 DEF Advances, HaltInv, Closing, Single
<1>6. CASE Rebuild
  <2> DEFINE known == Restrict(state.vars, DOMAIN state.vars \ {RebuildSpec})
  <2>1. /\ state' = [state EXCEPT !.vars = known] /\ next' = state' /\ targets' = targets
        /\ frontier = {} /\ frontier' = frontier /\ done' = done /\ phase' = "building"
        /\ RebuildSpec \in DOMAIN state.vars
    BY <1>6 DEF Rebuild, GraphDone
  <2>2. RebuildSpec \notin DOMAIN known
    BY DEF Restrict
  <2> HIDE DEF known
  <2>3. state'.halted = state.halted /\ state'.vars = known /\ ~ state.halted
    BY <2>1 DEF Inv, LawInv, Lawful, IsState, HaltInv
  <2>4. QED BY <2>1, <2>2, <2>3 DEF HaltInv, Closing
<1>7. QED BY <1>1, <1>2, <1>3, <1>4, <1>5, <1>6, Steps DEF Inv

\* "Hard-halt the process immediately": as long as the process does not fork,
\* no node is scheduled once a hook has terminated it, whatever structural
\* changes were made before.
THEOREM HaltsAtOnce ==
  ASSUME OwnMarksKept
  PROVE  Spec /\ []OneWay(process) => []HaltIsFinal
<1>1. HaltInv => HaltIsFinal
  BY DEF HaltInv, HaltIsFinal, Closing
<1>2. QED BY <1>1, HaltInit, HaltStep, InvInvariance, PTL DEF Spec

\* Where no hook may change the process, it is enough that the one given does
\* not fork.
THEOREM FixedHaltsAtOnce ==
  ASSUME OwnMarksKept
  PROVE  Spec => [](Fixed /\ OneWay(scenario.process) => HaltIsFinal)
<1> DEFINE H == Fixed /\ OneWay(scenario.process)
<1>1. Inv /\ [Next]_vars => (H <=> H')
  BY FixedStep, NeverStep DEF Inv
<1>2. Inv /\ H => OneWay(process)
  BY FixedFact
<1> HIDE DEF H
<1>3. Spec => [](H => HaltIsFinal)
  BY <1>1, <1>2, HaltsAtOnce, InvInvariance, PTL DEF Spec
<1>4. QED BY <1>3 DEF H

-----------------------------------------------------------------------------
(* The path.  A hook appends the path it has read to the path, which ends in *)
(* the trace if that one did; an element appends itself to both.            *)

EndsIn(s, t) ==
  Len(s) <= Len(t) /\ \A i \in 1..Len(s) : s[i] = t[(Len(t) - Len(s)) + i]

LEMMA SuffixFact ==
  ASSUME NEW s, NEW t, IsSeq(s), IsSeq(t), EndsIn(s, t)
  PROVE  IsSuffix(s, t)
<1>1. Len(s) \in Nat /\ Len(t) \in Nat
  BY DEF IsSeq
<1>2. /\ Reverse(s) = [i \in 1..Len(s) |-> s[(Len(s) - i) + 1]]
      /\ Reverse(t) = [i \in 1..Len(t) |-> t[(Len(t) - i) + 1]]
  BY DEF Reverse
<1>3. Len(Reverse(s)) = Len(s) /\ Len(Reverse(t)) = Len(t)
  BY <1>1, <1>2
<1>4. ASSUME NEW i \in 1..Len(s)
      PROVE  Reverse(s)[i] = Reverse(t)[i]
  <2>1. (Len(s) - i) + 1 \in 1..Len(s)
    BY <1>1
  <2>2. s[(Len(s) - i) + 1] = t[(Len(t) - Len(s)) + ((Len(s) - i) + 1)]
    BY <2>1 DEF EndsIn
  <2>3. (Len(t) - Len(s)) + ((Len(s) - i) + 1) = (Len(t) - i) + 1 /\ i \in 1..Len(t)
    BY <1>1 DEF EndsIn
  <2>4. QED BY <1>2, <2>2, <2>3
<1> HIDE DEF EndsIn
<1>5. SubSeq(Reverse(s), 1, Len(s)) = SubSeq(Reverse(t), 1, Len(s))
  <2>1. \A r : SubSeq(r, 1, Len(s)) = [i \in 1..Len(s) |-> r[i]]
    BY <1>1
  <2>2. QED BY <1>4, <2>1
<1>6. QED BY <1>3, <1>5 DEF IsSuffix, IsPrefix, EndsIn

LEMMA EndsInBoth ==
  ASSUME NEW s, NEW t, IsSeq(s), IsSeq(t), EndsIn(s, t), NEW n
  PROVE  EndsIn(s \o <<n>>, t \o <<n>>)
<1> DEFINE S == ToSet(s) \union ToSet(t) \union {n}
<1>1. s \in Seq(S) /\ t \in Seq(S) /\ <<n>> \in Seq(S)
  BY DEF IsSeq
<1>2. /\ Len(s \o <<n>>) = Len(s) + 1 /\ Len(t \o <<n>>) = Len(t) + 1
      /\ Len(s) \in Nat /\ Len(t) \in Nat /\ Len(s) <= Len(t)
  BY <1>1 DEF EndsIn
<1>3. ASSUME NEW i \in 1..(Len(s) + 1)
      PROVE  (s \o <<n>>)[i] = (t \o <<n>>)[(Len(t) - Len(s)) + i]
  <2>1. CASE i = Len(s) + 1
    BY <1>1, <1>2, <2>1
  <2>2. CASE i # Len(s) + 1
    <3>1. i \in 1..Len(s) /\ (Len(t) - Len(s)) + i \in 1..Len(t)
      BY <1>2, <2>2
    <3>2. s[i] = t[(Len(t) - Len(s)) + i]
      BY <3>1 DEF EndsIn
    <3>3. /\ (s \o <<n>>)[i] = s[i]
          /\ (t \o <<n>>)[(Len(t) - Len(s)) + i] = t[(Len(t) - Len(s)) + i]
      BY <1>1, <3>1
    <3>4. QED BY <3>2, <3>3
  <2>3. QED BY <2>1, <2>2
<1>4. QED BY <1>2, <1>3 DEF EndsIn

LEMMA EndsInLonger ==
  ASSUME NEW s, NEW t, IsSeq(s), IsSeq(t), EndsIn(s, t), NEW u, IsSeq(u)
  PROVE  EndsIn(s, u \o t)
<1> DEFINE S == ToSet(u) \union ToSet(t)
<1>1. u \in Seq(S) /\ t \in Seq(S) /\ Len(s) \in Nat
  BY DEF IsSeq
<1>2. /\ Len(u \o t) = Len(u) + Len(t) /\ Len(u) \in Nat /\ Len(t) \in Nat
      /\ Len(s) <= Len(t)
  BY <1>1 DEF EndsIn
<1>3. ASSUME NEW i \in 1..Len(s)
      PROVE  s[i] = (u \o t)[((Len(u) + Len(t)) - Len(s)) + i]
  <2> DEFINE k == (Len(t) - Len(s)) + i
  <2>1. s[i] = t[k]
    BY DEF EndsIn
  <2>2. k \in 1..Len(t) /\ ((Len(u) + Len(t)) - Len(s)) + i = Len(u) + k
    BY <1>1, <1>2
  <2> HIDE DEF k
  <2>3. (u \o t)[Len(u) + k] = t[k]
    BY <1>1, <1>2, <2>2
  <2>4. QED BY <2>1, <2>2, <2>3
<1>4. QED BY <1>1, <1>2, <1>3 DEF EndsIn

TailInv == PathInv /\ EndsIn(trace, next.path)

LEMMA TailInit == Init => TailInv
BY PathInit DEF Init, TailInv, EndsIn

LEMMA TailStep == Inv /\ HaltInv /\ TailInv /\ [Next]_vars => TailInv'
<1> SUFFICES ASSUME Inv, HaltInv, TailInv, [Next]_vars PROVE EndsIn(trace, next.path)'
  BY PathStep DEF TailInv, Inv
<1>1. CASE Rests \/ Starts \/ Advances
  <2>1. next' = next /\ trace' = trace
    BY <1>1 DEF Rests, Starts, Advances, superstep, history
  <2>2. QED BY <2>1 DEF TailInv, EndsIn
<1>2. ASSUME NEW n \in frontier, NEW w, ElementRuns(n, w)
      PROVE  EndsIn(trace, next.path)'
  <2>1. next'.path = next.path \o <<n>> /\ trace' = Append(trace, n)
    BY <1>2, ElementPath DEF ElementRuns
  <2>2. trace' = trace \o <<n>>
    BY <2>1 DEF TailInv, PathInv, IsSeq
  <2>3. EndsIn(trace \o <<n>>, next.path \o <<n>>)
    BY EndsInBoth DEF TailInv, PathInv
  <2>4. QED BY <2>1, <2>2, <2>3
<1>3. ASSUME NEW f, NEW w, NEW goto, HookRuns(f, w, goto)
      PROVE  EndsIn(trace, next.path)'
  <2>1. next = state
    BY <1>3, Alone DEF HookRuns, HaltInv
  <2>2. next'.path = next.path \o state.path /\ trace' = trace
    BY <1>3, HookPath DEF HookRuns
  <2>3. EndsIn(trace, state.path \o next.path)
    BY EndsInLonger DEF TailInv, PathInv
  <2>4. QED BY <2>1, <2>2, <2>3
<1>4. CASE Rebuild
  <2> DEFINE known == Restrict(state.vars, DOMAIN state.vars \ {RebuildSpec})
  <2>1. /\ state' = [state EXCEPT !.vars = known] /\ next' = state' /\ trace' = trace
        /\ frontier = {}
    BY <1>4 DEF Rebuild, GraphDone
  <2> HIDE DEF known
  <2>2. next'.path = state.path
    BY <2>1 DEF Inv, LawInv, Lawful, IsState
  <2>3. next = state
    BY <2>1 DEF Inv, TypeInv, CoreInv
  <2>4. QED BY <2>1, <2>2, <2>3 DEF TailInv, EndsIn
<1>5. QED BY <1>1, <1>2, <1>3, <1>4, Steps DEF Inv

\* The path reported ends in what ran, in order and as often as it ran: as long as
\* control does not fork, for any number of hooks and rebuilds.  What is in front of
\* that repeats it, from the first hook on (LangGraphEngine_path.cfg).
THEOREM PathEndsInWhatRan ==
  ASSUME OwnMarksKept
  PROVE  Spec /\ []OneWay(process) => []PathEndsInTrace
<1>1. Inv /\ TailInv => PathEndsInTrace
  <2> SUFFICES ASSUME Inv, TailInv, done = {} PROVE IsSuffix(trace, state.path)
    BY DEF PathEndsInTrace
  <2>1. next = state
    BY DEF Inv, CoreInv
  <2>2. QED BY <2>1, SuffixFact DEF TailInv, PathInv
<1>2. QED BY <1>1, TailInit, TailStep, HaltInit, HaltStep, InvInvariance, PTL DEF Spec

-----------------------------------------------------------------------------
(* The audit log.  As long as it is empty, the process is the one given, and *)
(* each node that may run is where a flow leads from the element that ran    *)
(* last.                                                                     *)

\* Node n is on a flow out of the element that ran last.
OnTheWay(p, hooked, ran, n) ==
  ran # << >> =>
    /\ n \in Elements(p) => \E f \in Flows(p) : f.source = ran[Len(ran)] /\ f.target = n
    /\ \A f \in WiredFlows(p, hooked) : n = HookNode(f.id) => f.source = ran[Len(ran)]

Follows(n) == OnTheWay(process, hooks, trace, n)

DevInv ==
  /\ next.mods = {} =>
       /\ Single(frontier)
       /\ \A n \in frontier \ done : Follows(n)
       /\ \A n \in targets : Follows(n)
       /\ Single(targets)
       /\ phase = "building" => trace = << >>
  /\ state.mods = {} => InOrder /\ (next.mods # {} => done = frontier)

LEMMA DevInit == Init => DevInv
BY DEF Init, DevInv, InOrder, Single

\* The nodes on the flows out of the last element follow it.
LEMMA EntryFollows ==
  ASSUME NEW p, NEW hooked, NEW ran, DistinctNodes(p, hooked), Connected(p),
         NEW f \in Flows(p), ran # << >> => f.source = ran[Len(ran)]
  PROVE  OnTheWay(p, hooked, ran, Entry(p, hooked, f)) /\ OnTheWay(p, hooked, ran, Target(p, f))
<1>1. OnTheWay(p, hooked, ran, Target(p, f))
  <2>1. CASE f.target \in p.ends
    BY <2>1 DEF OnTheWay, Target, DistinctNodes, GraphNodes, HookNodes
  <2>2. CASE f.target \notin p.ends
    <3>1. Target(p, f) = f.target /\ f.target \in Elements(p)
      BY <2>2 DEF Target, Connected
    <3>2. \A g \in WiredFlows(p, hooked) : f.target # HookNode(g.id)
      BY <3>1 DEF DistinctNodes, HookNodes
    <3>3. QED BY <3>1, <3>2 DEF OnTheWay
  <2>3. QED BY <2>1, <2>2
<1>2. CASE f \in WiredFlows(p, hooked)
  <2>1. Entry(p, hooked, f) = HookNode(f.id) /\ HookNode(f.id) \in HookNodes(p, hooked)
    BY <1>2 DEF Entry, HookNodes
  <2>2. HookNode(f.id) \notin Elements(p)
    BY <2>1 DEF DistinctNodes
  <2>3. \A g \in WiredFlows(p, hooked) : HookNode(f.id) = HookNode(g.id) => g = f
    BY <1>2 DEF DistinctNodes
  <2>4. QED BY <1>1, <2>1, <2>2, <2>3 DEF OnTheWay
<1>3. CASE f \notin WiredFlows(p, hooked)
  BY <1>1, <1>3 DEF Entry
<1>4. QED BY <1>2, <1>3

LEMMA OrderKept ==
  ASSUME IsSeq(trace), InOrder, NEW n \in Elements(process), Follows(n),
         process = scenario.process, trace' = Append(trace, n), scenario' = scenario
  PROVE  InOrder'
<1> DEFINE S == ToSet(trace) \union {n}
<1>1. trace \in Seq(S) /\ Len(trace) \in Nat
  BY DEF IsSeq
<1>2. Len(trace') = Len(trace) + 1 /\ trace'[Len(trace) + 1] = n
  BY <1>1
<1>3. \A i \in 1..Len(trace) : trace'[i] = trace[i]
  BY <1>1
<1> SUFFICES ASSUME NEW i \in 1..(Len(trace') - 1)
             PROVE  \E f \in Flows(scenario.process) :
                      f.source = trace'[i] /\ f.target = trace'[i + 1]
  BY DEF InOrder
<1>4. CASE i = Len(trace)
  <2>1. trace # << >>
    BY <1>2, <1>4
  <2>2. PICK f \in Flows(process) : f.source = trace[Len(trace)] /\ f.target = n
    BY <2>1 DEF Follows, OnTheWay
  <2>3. trace'[i] = trace[Len(trace)] /\ trace'[i + 1] = n
    BY <1>2, <1>3, <1>4
  <2>4. QED BY <2>2, <2>3
<1>5. CASE i # Len(trace)
  <2>1. i \in 1..(Len(trace) - 1) /\ i \in 1..Len(trace) /\ i + 1 \in 1..Len(trace)
    BY <1>1, <1>2, <1>5
  <2>2. trace'[i] = trace[i] /\ trace'[i + 1] = trace[i + 1]
    BY <1>3, <2>1
  <2>3. QED BY <2>1, <2>2 DEF InOrder
<1>6. QED BY <1>4, <1>5

LEMMA DevElementStep ==
  ASSUME Inv, PathInv, DevInv, OneWay(scenario.process), Connected(scenario.process),
         NEW n, NEW w, ElementRuns(n, w)
  PROVE  DevInv'
<1> DEFINE v == [w EXCEPT !.path = <<n>>]
           d == Lookup(Updating(state.decisions, w.decisions), n, NoNode)
<1>1. v.mods = {}
  BY DEF ElementRuns, QuietWrite, IsState
<1>2. Write(n, v, Successors(process, hooks, n, d)) /\ trace' = Append(trace, n)
  BY DEF ElementRuns, Run
<1> HIDE DEF v, d
<1>3. /\ state' = state /\ next' = Merge(next, v) /\ frontier' = frontier /\ done' = done \union {n}
      /\ targets' = targets \union Successors(process, hooks, n, d) /\ phase' = phase
      /\ process' = process /\ scenario' = scenario /\ hooks' = hooks
  BY <1>2 DEF Write, model, hooks
<1>4. next'.mods = next.mods
  BY <1>1, <1>3 DEF Merge
<1>5. n \in frontier \ done /\ phase = "running" /\ n \in Elements(process)
  BY DEF ElementRuns, Ready
<1>6. CASE next.mods # {}
  <2>1. state.mods # {}
    BY <1>5, <1>6 DEF DevInv
  <2>2. QED BY <1>3, <1>4, <1>6, <2>1 DEF DevInv
<1>7. CASE next.mods = {}
  <2>1. state.mods = {} /\ process = scenario.process
    BY <1>7 DEF Inv, CoreInv, Unchanged
  <2>2. frontier = {n} /\ done = {} /\ targets = {}
    BY <1>7, Alone DEF DevInv, ElementRuns
  <2>3. InOrder'
    BY <1>2, <1>3, <1>5, <1>7, <2>1, OrderKept DEF DevInv, PathInv
  <2>4. ASSUME NEW m \in targets'
        PROVE  Follows(m)'
    <3>1. PICK f \in Outgoing(process, n) : m = Entry(process, hooks, f)
      BY <1>3, <1>5, <2>1, <2>2, OneSuccessor DEF Inv, TypeInv
    <3>2. trace' # << >> /\ trace'[Len(trace')] = n
      BY <1>2 DEF PathInv, IsSeq
    <3>3. f \in Flows(process) /\ f.source = n
      BY DEF Outgoing
    <3>4. DistinctNodes(process, hooks) /\ Connected(process)
      BY <1>5, <2>1 DEF Inv, CoreInv
    <3>5. OnTheWay(process, hooks, trace', m)
      BY <3>1, <3>2, <3>3, <3>4, EntryFollows
    <3>6. QED BY <1>3, <3>5 DEF Follows
  <2>5. Single(targets')
    BY <1>3, <1>5, <2>1, <2>2, OneSuccessor DEF Inv, TypeInv
  <2>6. Single(frontier') /\ frontier' \ done' = {}
    BY <1>3, <2>2 DEF Single
  <2>7. QED BY <1>3, <1>4, <1>5, <1>7, <2>1, <2>3, <2>4, <2>5, <2>6 DEF DevInv
<1>8. QED BY <1>6, <1>7

LEMMA DevHookStep ==
  ASSUME Inv, DevInv, Connected(scenario.process),
         NEW f, NEW w, NEW goto, HookRuns(f, w, goto)
  PROVE  DevInv'
<1> DEFINE n == HookNode(f.id)
<1>1. Write(n, w, {goto}) /\ trace' = trace
  BY DEF HookRuns, Dump
<1>2. n \in frontier \ done /\ phase = "running" /\ Ready(n) /\ f \in WiredFlows(process, hooks)
  BY DEF HookRuns, Ready
<1> HIDE DEF n
<1>3. /\ state' = state /\ next' = Merge(next, w) /\ frontier' = frontier /\ done' = done \union {n}
      /\ targets' = targets \union {goto} /\ phase' = phase
      /\ process' = process /\ scenario' = scenario /\ hooks' = hooks
  BY <1>1 DEF Write, model, hooks
<1>4. next'.mods = next.mods \union w.mods
  BY <1>3 DEF Merge
<1>5. CASE next.mods # {}
  <2>1. state.mods # {}
    BY <1>2, <1>5 DEF DevInv
  <2>2. QED BY <1>3, <1>4, <1>5, <2>1 DEF DevInv
<1>6. CASE next.mods = {}
  <2>1. state.mods = {} /\ process = scenario.process
    BY <1>6 DEF Inv, CoreInv, Unchanged
  <2>2. frontier = {n} /\ done = {} /\ targets = {}
    BY <1>2, <1>6, Alone DEF DevInv
  <2>3. InOrder'
    BY <1>1, <1>3, <1>6, <2>1 DEF DevInv, InOrder
  <2>4. ASSUME w.mods = {}
        PROVE  Follows(goto)'
    <3>1. goto \in {Target(process, f), END}
      BY <2>4 DEF HookRuns, Proceeds, Halts, Jumps, Rebuilds
    <3>2. DistinctNodes(process, hooks) /\ Connected(process)
      BY <1>2, <2>1 DEF Inv, CoreInv
    <3>3. f \in Flows(process) /\ (trace # << >> => f.source = trace[Len(trace)])
      BY <1>2, <1>6 DEF DevInv, Follows, OnTheWay, WiredFlows, n
    <3>4. Follows(Target(process, f))
      BY <3>2, <3>3, EntryFollows DEF Follows
    <3>5. Follows(END)
      BY <3>2 DEF Follows, OnTheWay, DistinctNodes, GraphNodes, HookNodes
    <3>6. Follows(goto)
      BY <3>1, <3>4, <3>5
    <3>7. QED BY <1>1, <1>3, <3>6 DEF Follows
  <2>5. /\ Single(frontier') /\ frontier' \ done' = {} /\ Single(targets') /\ done' = frontier'
        /\ targets' = {goto}
    BY <1>3, <2>2 DEF Single
  <2>6. QED BY <1>2, <1>3, <1>4, <1>6, <2>1, <2>3, <2>4, <2>5 DEF DevInv
<1>7. QED BY <1>5, <1>6

LEMMA DevStep ==
  Inv /\ PathInv /\ DevInv /\ OneWay(scenario.process) /\ Connected(scenario.process) /\ [Next]_vars
    => DevInv'
<1> SUFFICES ASSUME Inv, PathInv, DevInv, OneWay(scenario.process), Connected(scenario.process),
                    [Next]_vars
             PROVE  DevInv'
  OBVIOUS
<1>1. ASSUME NEW S, UNCHANGED <<trace, process, scenario>>, \A n \in S : Follows(n)
      PROVE  \A n \in S : Follows(n)'
  BY <1>1 DEF Follows, OnTheWay, hooks
<1>2. CASE Rests
  <2>1. phase' # "building" \/ phase' = phase
    BY <1>2 DEF Rests, Finish
  <2>2. UNCHANGED <<trace, process, scenario, state, next, frontier, done, targets>>
    BY <1>2 DEF Rests, model, superstep, history
  <2>3. next.mods = {} => /\ \A n \in frontier \ done : Follows(n)'
                          /\ \A n \in targets : Follows(n)'
    BY <1>1, <2>2 DEF DevInv
  <2>4. QED BY <2>1, <2>2, <2>3 DEF DevInv, InOrder
<1>3. CASE Starts
  <2>1. /\ UNCHANGED <<trace, process, scenario, state, next, done, targets>> /\ phase' = "running"
        /\ done = {} /\ next = state /\ targets = {} /\ phase = "building"
    BY <1>3 DEF Starts, model, history, Inv, CoreInv
  <2>2. Single(frontier')
    BY <1>3 DEF Starts, Single
  <2>3. next.mods = {} => \A n \in frontier' : Follows(n)'
    BY <2>1 DEF DevInv, Follows, OnTheWay
  <2>4. QED BY <2>1, <2>2, <2>3 DEF DevInv, InOrder
<1>4. ASSUME NEW n \in frontier, NEW w, ElementRuns(n, w)
      PROVE  DevInv'
  BY <1>4, DevElementStep
<1>5. ASSUME NEW f, NEW w, NEW goto, HookRuns(f, w, goto)
      PROVE  DevInv'
  BY <1>5, DevHookStep
<1>6. CASE Advances
  <2>1. /\ UNCHANGED <<trace, process, scenario, next, phase>> /\ state' = next
        /\ frontier' = NextFrontier /\ done' = {} /\ targets' = {} /\ phase = "running"
    BY <1>6 DEF Advances, model
  <2>2. next.mods = {} => Single(NextFrontier) /\ \A n \in NextFrontier : Follows(n)'
    BY <1>1, <2>1 DEF DevInv, NextFrontier, Single
  <2>3. next.mods = {} => state.mods = {}
    BY DEF Inv, CoreInv
  <2>4. QED BY <2>1, <2>2, <2>3 DEF DevInv, InOrder, Single
<1>7. CASE Rebuild
  <2> DEFINE known == Restrict(state.vars, DOMAIN state.vars \ {RebuildSpec})
  <2>1. state' = [state EXCEPT !.vars = known] /\ next' = state' /\ RebuildSpec \in DOMAIN state.vars
    BY <1>7 DEF Rebuild
  <2> HIDE DEF known
  <2>2. state'.mods = state.mods /\ state.mods # {}
    BY <2>1 DEF Inv, LawInv, Lawful, IsState, CoreInv, Marked, Unchanged
  <2>3. QED BY <2>1, <2>2 DEF DevInv
<1>8. QED BY <1>2, <1>3, <1>4, <1>5, <1>6, <1>7, Steps DEF Inv

LogInv ==
  /\ Inv /\ PathInv
  /\ OneWay(scenario.process) /\ Connected(scenario.process) => DevInv

LEMMA DevInvariance ==
  ASSUME OwnMarksKept
  PROVE  Spec => []LogInv
<1>1. Init /\ Inv /\ PathInv => LogInv
  BY DevInit DEF LogInv
<1>2. LogInv /\ Inv' /\ PathInv' /\ [Next]_vars => LogInv'
  <2> SUFFICES ASSUME LogInv, [Next]_vars, Inv', PathInv',
                      OneWay(scenario.process)', Connected(scenario.process)'
               PROVE  DevInv'
    BY DEF LogInv
  <2>1. scenario' = scenario
    BY FixedStep DEF LogInv, Inv
  <2>2. OneWay(scenario.process) /\ Connected(scenario.process)
    BY <2>1
  <2>3. QED BY <2>2, DevStep DEF LogInv
<1>3. Inv /\ PathInv /\ [Next]_vars => PathInv'
  BY PathStep DEF Inv
<1>4. QED BY <1>1, <1>2, <1>3, PathInit, InvInvariance, PTL DEF Spec

\* Jumps and changes of the process are in the audit log: in a process without
\* forks, as long as the log is empty each element that ran was on a flow from
\* the one before, through hooks, rebuilds and loops of any number.  (A task that
\* was skipped and a process that was halted leave no record: LangGraphEngine_audit.cfg.)
THEOREM DiversionsAreRecorded ==
  ASSUME OwnMarksKept
  PROVE  Spec => [](OneWay(scenario.process) /\ Connected(scenario.process)
                    => DiversionsRecorded)
<1>1. LogInv => (OneWay(scenario.process) /\ Connected(scenario.process) => DiversionsRecorded)
  BY DEF LogInv, DevInv, DiversionsRecorded
<1>2. QED BY <1>1, DevInvariance, PTL

-----------------------------------------------------------------------------
(* Without loops, and without jumps, nothing runs twice *)

\* The nodes can be numbered in the direction of the flows.
Acyclic(p) == \E rank : Ordered(p, rank)

LEMMA RanksGrow ==
  ASSUME IsSeq(trace), InOrder, NEW rank, Ordered(scenario.process, rank)
  PROVE  \A i, j \in 1..Len(trace) : i < j => rank[trace[i]] < rank[trace[j]]
<1> DEFINE r(i) == rank[trace[i]]
           S == {k \in Nat : \A i \in 1..Len(trace) :
                   i + k + 1 <= Len(trace) => r(i) < r(i + k + 1)}
<1>0. Len(trace) \in Nat
  BY DEF IsSeq
<1>1. ASSUME NEW i \in 1..(Len(trace) - 1)
      PROVE  r(i) \in Nat /\ r(i + 1) \in Nat /\ r(i) < r(i + 1)
  <2>1. PICK f \in Flows(scenario.process) : f.source = trace[i] /\ f.target = trace[i + 1]
    BY DEF InOrder
  <2>2. QED BY <2>1 DEF Ordered
<1> HIDE DEF r
<1>2. 0 \in S
  BY <1>0, <1>1
<1>3. ASSUME NEW k \in Nat, k \in S
      PROVE  k + 1 \in S
  <2> SUFFICES ASSUME NEW i \in 1..Len(trace), i + (k + 1) + 1 <= Len(trace)
               PROVE  r(i) < r(i + (k + 1) + 1)
    OBVIOUS
  <2>1. r(i) < r(i + k + 1)
    BY <1>0, <1>3
  <2>2. i + k + 1 \in 1..(Len(trace) - 1) /\ i \in 1..(Len(trace) - 1)
    BY <1>0
  <2>3. (i + k + 1) + 1 = i + (k + 1) + 1
    OBVIOUS
  <2>4. /\ r(i + k + 1) < r(i + (k + 1) + 1) /\ r(i) \in Nat
        /\ r(i + k + 1) \in Nat /\ r(i + (k + 1) + 1) \in Nat
    BY <1>1, <2>2, <2>3
  <2>5. QED BY <2>1, <2>4
<1>4. Nat \subseteq S
  <2> HIDE DEF S
  <2>1. QED BY <1>2, <1>3, Induction
<1>5. ASSUME NEW i \in 1..Len(trace), NEW j \in 1..Len(trace), i < j
      PROVE  r(i) < r(j)
  <2>1. (j - i) - 1 \in Nat /\ i + ((j - i) - 1) + 1 = j
    BY <1>5
  <2>2. (j - i) - 1 \in S
    BY <1>4, <2>1
  <2>3. i + ((j - i) - 1) + 1 <= Len(trace)
    BY <1>0, <2>1
  <2>4. r(i) < r(i + ((j - i) - 1) + 1)
    BY <2>2, <2>3
  <2>5. QED BY <2>1, <2>4
<1>6. QED BY <1>5 DEF r

LEMMA NoRepeat ==
  ASSUME Inv, PathInv, DevInv, Fixed, Acyclic(scenario.process)
  PROVE  NoReplay
<1> SUFFICES ASSUME ~ Jumped PROVE ~ Repeats
  BY DEF NoReplay
<1>1. state.mods = {}
  <2> SUFFICES ASSUME NEW m \in state.mods PROVE FALSE
    OBVIOUS
  <2>1. m.type \in Jumping \union Structural /\ m.type \notin Structural
    BY FixedFact DEF Inv, CoreInv, Unchanged
  <2>2. QED BY <2>1 DEF Jumping, Jumped
<1>2. InOrder /\ IsSeq(trace)
  BY <1>1 DEF DevInv, PathInv
<1>3. PICK rank : Ordered(scenario.process, rank)
  BY DEF Acyclic
<1>4. SUFFICES ASSUME NEW i \in DOMAIN trace, NEW j \in DOMAIN trace, i < j, trace[i] = trace[j]
               PROVE  FALSE
  BY DEF Repeats
<1>5. i \in 1..Len(trace) /\ j \in 1..Len(trace)
  BY <1>2 DEF IsSeq
<1>6. rank[trace[i]] < rank[trace[j]]
  BY <1>2, <1>3, <1>4, <1>5, RanksGrow
<1>7. PICK k \in 1..(Len(trace) - 1) : k = i
  BY <1>2, <1>4, <1>5 DEF IsSeq
<1>8. rank[trace[i]] \in Nat
  BY <1>2, <1>3, <1>7 DEF InOrder, Ordered
<1>9. QED BY <1>4, <1>6, <1>8

\* "Resuming execution without replaying already-executed nodes": where the
\* process has no fork and no loop, and its topology may not be changed, an
\* element runs a second time only after a jump that the log shows.
THEOREM NothingIsReplayed ==
  ASSUME OwnMarksKept
  PROVE  Spec => [](/\ OneWay(scenario.process) /\ Connected(scenario.process)
                    /\ Acyclic(scenario.process) /\ Fixed
                    => NoReplay)
<1>1. LogInv => (/\ OneWay(scenario.process) /\ Connected(scenario.process)
                 /\ Acyclic(scenario.process) /\ Fixed
                 => NoReplay)
  BY NoRepeat DEF LogInv
<1>2. QED BY <1>1, DevInvariance, PTL

-----------------------------------------------------------------------------
(* Skipping.  The mark that a hook leaves is for the task behind it, which   *)
(* runs next and takes the mark away.                                       *)

\* Hooks that may skip are on flows, of the process given, to tasks.
SkipsTasks ==
  \A f \in WiredFlows(process, hooks) :
    MaySkip(f) => f \in Flows(scenario.process) /\ f.target \in Tasks(process)

Skippable(n) == \E f \in Flows(scenario.process) : f.target = n /\ f.id \in hooks /\ MaySkip(f)

SkippedRightly(s) == \A n \in DOMAIN s.results : s.results[n] = "skipped" => Skippable(n)
SkipOnly(s) == SkipMarked(s.vars) => RebuildSpec \notin DOMAIN s.vars

SkipInv ==
  /\ SkippedRightly(state) /\ SkippedRightly(next)
  /\ SkipOnly(state) /\ SkipOnly(next)
  /\ SkipMarked(state.vars) => \A n \in frontier : n \in Tasks(process) /\ Skippable(n)
  /\ SkipMarked(next.vars) /\ done # {} =>
       \A n \in targets : n = END \/ (n \in Tasks(process) /\ Skippable(n))
  /\ phase = "building" => ~ SkipMarked(state.vars)

LEMMA SkipInit == OwnMarksKept /\ Init => SkipInv
<1> SUFFICES ASSUME OwnMarksKept, Init PROVE SkipInv
  OBVIOUS
<1>1. /\ state.vars = scenario.vars /\ state.results = Empty /\ next = state /\ scenario \in Scenarios
      /\ frontier = {} /\ done = {}
  BY DEF Init
<1>2. ~ SkipMarked(state.vars) /\ SkippedRightly(state)
  BY <1>1 DEF OwnMarksKept, SkipMarked, SkippedRightly, Empty
<1>3. QED BY <1>1, <1>2 DEF SkipInv, SkipOnly

LEMMA BothUnmarked ==
  ASSUME NEW old, NEW new, ~ SkipMarked(old), ~ SkipMarked(new)
  PROVE  ~ SkipMarked(Updating(old, new))
BY DEF SkipMarked, Updating

LEMMA SkipElementStep ==
  ASSUME Inv, HaltInv, SkipInv, NEW n, NEW w, ElementRuns(n, w)
  PROVE  SkipInv'
<1> DEFINE v == [w EXCEPT !.path = <<n>>]
<1>1. frontier = {n} /\ done = {} /\ next = state /\ targets = {}
  BY Alone DEF ElementRuns, HaltInv
<1>2. v.results = w.results /\ v.vars = w.vars
  BY DEF ElementRuns, QuietWrite, IsState
<1>3. PICK goto : Write(n, v, goto)
  BY DEF ElementRuns, Run
<1> HIDE DEF v
<1>4. /\ state' = state /\ next' = Merge(state, v) /\ frontier' = frontier /\ phase' = phase
      /\ process' = process /\ scenario' = scenario /\ hooks' = hooks /\ done' = {n}
  BY <1>1, <1>3 DEF Write, model, hooks
<1>5. /\ next'.vars = Updating(state.vars, w.vars)
      /\ next'.results = Updating(state.results, w.results)
  BY <1>2, <1>4 DEF Merge
<1>6. ~ SkipMarked(next'.vars)
  <2>1. CASE n \in Tasks(process)
    BY <1>5, <2>1 DEF ElementRuns
  <2>2. CASE n \notin Tasks(process)
    <3>1. ~ SkipMarked(state.vars)
      BY <1>1, <2>2 DEF SkipInv
    <3>2. QED BY <1>5, <3>1, BothUnmarked DEF ElementRuns
  <2>3. QED BY <2>1, <2>2
<1>7. \A m \in DOMAIN w.results : w.results[m] = "skipped" => Skippable(m)
  BY <1>1 DEF ElementRuns, SkipInv
<1>8. \A m \in DOMAIN next'.results : next'.results[m] = "skipped" => Skippable(m)
  BY <1>5, <1>7 DEF SkipInv, SkippedRightly, Updating
<1>9. \A m : Skippable(m)' <=> Skippable(m)
  BY <1>4 DEF Skippable, MaySkip
<1>10. SkippedRightly(state)' /\ SkippedRightly(next)'
  BY <1>4, <1>8, <1>9 DEF SkipInv, SkippedRightly
<1>11. SkipOnly(state)' /\ SkipOnly(next)'
  BY <1>4, <1>6 DEF SkipInv, SkipOnly
<1>12. QED BY <1>4, <1>6, <1>9, <1>10, <1>11 DEF SkipInv

LEMMA SkipHookStep ==
  ASSUME Inv, HaltInv, SkipInv, SkipsTasks, NEW f, NEW w, NEW goto, HookRuns(f, w, goto)
  PROVE  SkipInv'
<1> DEFINE n == HookNode(f.id)
<1>1. frontier = {n} /\ done = {} /\ next = state /\ targets = {}
  BY Alone DEF HookRuns, HaltInv
<1>2. Write(n, w, {goto})
  BY DEF HookRuns, Dump
<1>3. f \in WiredFlows(process, hooks) /\ n \notin Elements(process)
  BY DEF HookRuns, Ready, Inv, CoreInv, DistinctNodes, HookNodes
<1> HIDE DEF n
<1>4. /\ state' = state /\ next' = Merge(state, w) /\ frontier' = frontier /\ phase' = phase
      /\ process' = process /\ scenario' = scenario /\ hooks' = hooks /\ targets' = {goto}
  BY <1>1, <1>2 DEF Write, model, hooks
<1>5. /\ next'.vars = Updating(state.vars, w.vars)
      /\ next'.results = Updating(state.results, state.results)
  BY <1>4 DEF Merge, HookRuns
<1>6. ~ SkipMarked(state.vars)
  BY <1>1, <1>3 DEF SkipInv, Tasks
<1>7. RebuildSpec \notin DOMAIN state.vars
  BY <1>1 DEF HaltInv, Closing
<1>8. SkipMarked(next'.vars) => SkipMarked(w.vars)
  BY <1>5, <1>6, BothUnmarked
<1>9. SkipMarked(w.vars) => /\ MaySkip(f) /\ goto = Target(process, f)
                            /\ RebuildSpec \notin DOMAIN w.vars
  BY <1>6, <1>7 DEF HookRuns, Proceeds, Halts, Jumps, Rebuilds, KeepsMarks
<1>10. SkipMarked(next'.vars) => RebuildSpec \notin DOMAIN next'.vars
  BY <1>5, <1>7, <1>8, <1>9 DEF Updating
<1>11. SkipMarked(w.vars) => goto = END \/ (goto \in Tasks(process) /\ Skippable(goto))
  <2> SUFFICES ASSUME SkipMarked(w.vars), goto # END
               PROVE  goto \in Tasks(process) /\ Skippable(goto)
    OBVIOUS
  <2>1. goto = f.target /\ MaySkip(f) /\ f.id \in hooks
    BY <1>3, <1>9 DEF Target, WiredFlows
  <2>2. QED BY <1>3, <2>1 DEF SkipsTasks, Skippable
<1>12. \A m : Skippable(m)' <=> Skippable(m)
  BY <1>4 DEF Skippable, MaySkip
<1>13. SkippedRightly(state)' /\ SkippedRightly(next)'
  BY <1>4, <1>5, <1>12 DEF SkipInv, SkippedRightly, Updating
<1>14. SkipOnly(state)' /\ SkipOnly(next)'
  BY <1>4, <1>10 DEF SkipInv, SkipOnly
<1>15. QED BY <1>4, <1>6, <1>8, <1>11, <1>12, <1>13, <1>14 DEF SkipInv, HookRuns, Ready

LEMMA SkipStep == Inv /\ HaltInv /\ SkipInv /\ SkipsTasks /\ [Next]_vars => SkipInv'
<1> SUFFICES ASSUME Inv, HaltInv, SkipInv, SkipsTasks, [Next]_vars PROVE SkipInv'
  OBVIOUS
<1>1. scenario' = scenario /\ hooks' = hooks
  BY FixedStep DEF Inv, hooks
<1>2. \A m : Skippable(m)' <=> Skippable(m)
  BY <1>1 DEF Skippable, MaySkip
<1>3. CASE Rests
  <2>1. phase' # "building" \/ phase' = phase
    BY <1>3 DEF Rests, Finish
  <2>2. QED BY <1>2, <1>3, <2>1 DEF Rests, model, superstep, SkipInv, SkippedRightly, SkipOnly
<1>4. CASE Starts
  BY <1>2, <1>4 DEF Starts, model, Inv, CoreInv, SkipInv, SkippedRightly, SkipOnly
<1>5. ASSUME NEW n \in frontier, NEW w, ElementRuns(n, w)
      PROVE  SkipInv'
  BY <1>5, SkipElementStep
<1>6. ASSUME NEW f, NEW w, NEW goto, HookRuns(f, w, goto)
      PROVE  SkipInv'
  BY <1>6, SkipHookStep
<1>7. CASE Advances
  <2>1. /\ state' = next /\ next' = next /\ process' = process /\ frontier' = NextFrontier
        /\ done' = {} /\ phase' = "running" /\ done # {}
    BY <1>7 DEF Advances, model
  <2>2. END \notin NextFrontier /\ NextFrontier \subseteq targets
    BY <1>7 DEF Advances, NextFrontier, Inv, CoreInv, DistinctNodes
  <2>3. SkippedRightly(state)' /\ SkippedRightly(next)' /\ SkipOnly(state)' /\ SkipOnly(next)'
    BY <1>2, <2>1 DEF SkipInv, SkippedRightly, SkipOnly
  <2>4. QED BY <1>2, <2>1, <2>2, <2>3 DEF SkipInv
<1>8. CASE Rebuild
  <2> DEFINE known == Restrict(state.vars, DOMAIN state.vars \ {RebuildSpec})
  <2>1. /\ state' = [state EXCEPT !.vars = known] /\ next' = state' /\ targets' = targets
        /\ frontier = {} /\ done' = done /\ RebuildSpec \in DOMAIN state.vars
    BY <1>8 DEF Rebuild, GraphDone
  <2>2. SkipMarked(known) => SkipMarked(state.vars)
    BY DEF SkipMarked, Restrict
  <2> HIDE DEF known
  <2>3. state'.results = state.results /\ state'.vars = known
    BY <2>1 DEF Inv, LawInv, Lawful, IsState
  <2>4. ~ SkipMarked(known) /\ done = {}
    BY <2>1, <2>2 DEF SkipInv, SkipOnly, Inv, TypeInv
  <2>5. SkippedRightly(state)' /\ SkippedRightly(next)' /\ SkipOnly(state)' /\ SkipOnly(next)'
    BY <1>2, <2>1, <2>3, <2>4 DEF SkipInv, SkippedRightly, SkipOnly
  <2>6. QED BY <2>1, <2>3, <2>4, <2>5 DEF SkipInv
<1>9. QED BY <1>3, <1>4, <1>5, <1>6, <1>7, <1>8, Steps DEF Inv

\* "Skip the immediate next node": where control does not fork and hooks that may
\* skip are in front of tasks, a task is skipped only if such a hook is on a flow
\* into it: no mark outlives the task it is for.
THEOREM OnlyTheNextIsSkipped ==
  ASSUME OwnMarksKept
  PROVE  Spec /\ [](OneWay(process) /\ SkipsTasks) => []SkipsTheNextNode
<1>1. SkipInv => SkipsTheNextNode
  BY DEF SkipInv, SkippedRightly, Skippable, MaySkip, SkipsTheNextNode
<1>2. QED BY <1>1, HaltInit, HaltStep, SkipInit, SkipStep, InvInvariance, PTL DEF Spec

\* The same, said of the process given, where it may not be changed.
THEOREM FixedOnlyTheNextIsSkipped ==
  ASSUME OwnMarksKept
  PROVE  Spec => [](/\ Fixed /\ OneWay(scenario.process)
                    /\ \A f \in Flows(scenario.process) :
                         f.id \in hooks /\ MaySkip(f) => f.target \in Tasks(scenario.process)
                    => SkipsTheNextNode)
<1> DEFINE H == /\ Fixed /\ OneWay(scenario.process)
                /\ \A f \in Flows(scenario.process) :
                     f.id \in hooks /\ MaySkip(f) => f.target \in Tasks(scenario.process)
<1>1. Inv /\ [Next]_vars => (H <=> H')
  BY FixedStep, NeverStep DEF Inv, hooks, MaySkip
<1>2. Inv /\ H => OneWay(process) /\ SkipsTasks
  BY FixedFact DEF SkipsTasks, WiredFlows
<1> HIDE DEF H
<1>3. Spec => [](H => SkipsTheNextNode)
  BY <1>1, <1>2, OnlyTheNextIsSkipped, InvInvariance, PTL DEF Spec
<1>4. QED BY <1>3 DEF H
================================================================================
