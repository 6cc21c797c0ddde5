------------------------------- MODULE FlowGraph -------------------------------
(***************************************************************************)
(* BPMN processes, and the LangGraph graph that the engine compiles them   *)
(* into (_build_graph, _add_edges_with_hooks).  Pure operators: the state  *)
(* machines that run the graph are in LangGraphEngine and TokenGame.       *)
(*                                                                         *)
(* A process p is a record with                                            *)
(*   kind   function from task and gateway ids to a kind                   *)
(*   flows  set of sequence flows [id, source, target, place]; places are  *)
(*          the order of the flows in the file, and in the engine's list   *)
(*   start  id of the start event          ends  ids of the end events     *)
(* An id is a sequence of strings, so that the ids the engine composes     *)
(* ("hook_" + flow id, "bypass__a__to__b") are ids as well.                *)
(***************************************************************************)
EXTENDS SequencesExt, Naturals, FiniteSets

END == <<"END">>          \* LangGraph's END
NoNode == << >>           \* an id that a hook answer leaves out

Exclusive == "exclusive"  \* exclusiveGateway, and inclusiveGateway alike
Parallel == "parallel"
Task == "task"            \* all the task types of BPMN
Kinds == {Exclusive, Parallel, Task}

Elements(p) == DOMAIN p.kind
Tasks(p) == {n \in Elements(p) : p.kind[n] = Task}
Flows(p) == p.flows
Ids(flows) == {f.id : f \in flows}
FlowIds(p) == Ids(Flows(p))

Outgoing(p, n) == {f \in Flows(p) : f.source = n}
Incoming(p, n) == {f \in Flows(p) : f.target = n}

\* What reading a BPMN file yields, and what the engine makes of it later.
WellFormed(p) ==
  /\ p = [kind |-> p.kind, flows |-> p.flows, start |-> p.start, ends |-> p.ends]
  /\ \A n \in Elements(p) : p.kind[n] \in Kinds
  /\ IsFiniteSet(Flows(p))
  /\ \A f \in Flows(p) :
       /\ f = [id |-> f.id, source |-> f.source, target |-> f.target, place |-> f.place]
       /\ f.place \in Nat

First(flows) == CHOOSE f \in flows : \A g \in flows : f.place <= g.place
Several(flows) == \E f, g \in flows : f # g

\* A task with several outgoing flows forks without a gateway.
ImplicitFork(p, n) ==
  n \in Elements(p) /\ p.kind[n] = Task /\ Several(Outgoing(p, n))

-----------------------------------------------------------------------------
(* Compilation.  A hook on a flow becomes a node of its own on the edge.   *)

HookNode(id) == <<"hook">> \o id

Target(p, f) == IF f.target \in p.ends THEN END ELSE f.target
EndFlows(p) == Ids({f \in Flows(p) : Target(p, f) = END})

\* The hooks that are wired: none on a start flow, none on an implicit fork.
WiredFlows(p, hooks) ==
  {f \in Flows(p) : /\ f.id \in hooks
                    /\ f.source # p.start
                    /\ ~ ImplicitFork(p, f.source)}

HookNodes(p, hooks) == {HookNode(f.id) : f \in WiredFlows(p, hooks)}
GraphNodes(p, hooks) == Elements(p) \union HookNodes(p, hooks)

\* The node that the edge for flow f leads to.
Entry(p, hooks, f) ==
  IF f \in WiredFlows(p, hooks) THEN HookNode(f.id) ELSE Target(p, f)

\* The nodes the START router may choose, hooks of implicit forks included.
EntryTargets(p, hooks) ==
  Elements(p) \union
  {HookNode(f.id) : f \in {g \in Flows(p) : g.id \in hooks /\ g.source # p.start}}

\* A start flow is followed to its target or its hook, END or not; without one
\* the engine begins at the first element that it happens to list.
NaturalEntry(p, hooks) ==
  LET f == First(Outgoing(p, p.start))
  IN  IF Outgoing(p, p.start) # {}
      THEN IF f.id \in hooks THEN HookNode(f.id) ELSE f.target
      ELSE IF Elements(p) # {} THEN CHOOSE n \in Elements(p) : TRUE
      ELSE NoNode

\* Mutant of StartNode: a rebuilt graph starts over.
StartOver(p, hooks, resume) == NaturalEntry(p, hooks)

StartNode(p, hooks, resume) ==
  IF resume # NoNode /\ resume \in EntryTargets(p, hooks) THEN resume ELSE NaturalEntry(p, hooks)

\* add_node takes a name once, and not that of the end.
DistinctNodes(p, hooks) ==
  /\ END \notin GraphNodes(p, hooks)
  /\ Elements(p) \intersect HookNodes(p, hooks) = {}
  /\ \A f, g \in WiredFlows(p, hooks) : HookNode(f.id) = HookNode(g.id) => f = g

\* The edges, other than those of START and those that a hook follows.
EdgesJoinNodes(p, hooks) ==
  \A f \in Flows(p) :
    f.source # p.start =>
      /\ f.source \in Elements(p)
      /\ Entry(p, hooks, f) \in GraphNodes(p, hooks) \union {END}

\* compile() refuses an edge or an entry target that is not a node, the START
\* router one that is not an entry target.
Compiles(p, hooks, resume) ==
  /\ DistinctNodes(p, hooks)
  /\ EdgesJoinNodes(p, hooks)
  /\ EntryTargets(p, hooks) \subseteq GraphNodes(p, hooks)
  /\ StartNode(p, hooks, resume) \in EntryTargets(p, hooks)

\* Mutant of Routed: every gateway takes a single flow.
RoutedToOne(p, n, decided) ==
  LET out == Outgoing(p, n)
      chosen == {f \in out : f.id = decided}
  IN  IF out = {} THEN {} ELSE {First(IF chosen # {} THEN chosen ELSE out)}

\* The flows along which control leaves element n: a gateway that is not
\* parallel takes the flow decided, the first one if that is none of its own.
Routed(p, n, decided) ==
  LET out == Outgoing(p, n)
      chosen == {f \in out : f.id = decided}
  IN  IF p.kind[n] # Exclusive \/ ~ Several(out) THEN out
      ELSE IF chosen # {} THEN chosen
      ELSE {First(out)}

Successors(p, hooks, n, decided) ==
  {Entry(p, hooks, f) : f \in Routed(p, n, decided)}

-----------------------------------------------------------------------------
(* Structural changes (_apply_graph_modification) *)

\* A number greater than all places.
Room(p) == 1 + Max({f.place : f \in Flows(p)} \union {0})

BypassFlow(in, out, place) ==
  [out EXCEPT !.id = <<"bypass">> \o in.source \o <<"to">> \o out.target,
              !.source = in.source, !.place = place]

Apart(p, n) == {f \in Flows(p) : f.source # n /\ f.target # n}

\* Mutant of RemoveNode: nothing goes around the node.
RemoveOnly(p, n) ==
  [p EXCEPT !.kind = Restrict(p.kind, Elements(p) \ {n}),
            !.flows = Apart(p, n)]

\* Every predecessor of n is connected to every successor, behind all the rest.
Bypasses(p, n) ==
  {BypassFlow(in, out, Room(p) * (1 + in.place) + out.place) :
     in \in Incoming(p, n), out \in Outgoing(p, n)}

RemoveNode(p, n) ==
  [p EXCEPT !.kind = Restrict(p.kind, Elements(p) \ {n}),
            !.flows = Apart(p, n) \union Bypasses(p, n)]

ViaFlow(f, n, place) ==
  [f EXCEPT !.id = f.id \o <<"via">> \o n, !.target = n, !.place = place]

\* Task n goes between every predecessor of `before' and `before'.
AddNode(p, n, before) ==
  LET in == Incoming(p, before)
      last == [id |-> <<"flow">> \o n \o <<"to">> \o before,
               source |-> n, target |-> before, place |-> 2 * Room(p)]
  IN  [p EXCEPT !.kind = [m \in Elements(p) \union {n} |->
                            IF m = n THEN Task ELSE p.kind[m]],
                !.flows = (Flows(p) \ in)
                            \union {ViaFlow(f, n, Room(p) + f.place) : f \in in}
                            \union {last}]

-----------------------------------------------------------------------------
(* Classes of processes that theorems are about *)

\* Control does not fork: only exclusive gateways have several flows out of
\* them, and an id stands for one direction.
OneWay(p) ==
  \A f, g \in Flows(p) :
    f.source = g.source =>
      /\ f.source \in Elements(p) /\ p.kind[f.source] # Exclusive => f = g
      /\ f.id = g.id => f.target = g.target

\* Nor does it join: what is parallel is passed by one token.
OneIn(p) ==
  \A f, g \in Flows(p) :
    f.target = g.target /\ f.target \in Elements(p) /\ p.kind[f.target] = Parallel => f = g

UniqueIds(p) == \A f, g \in Flows(p) : f.id = g.id => f = g

\* Every flow leads to an element or an end event.
Connected(p) == \A f \in Flows(p) : f.target \in Elements(p) \union p.ends

\* Control finds a flow out of every element.
LeadsOn(p) == \A n \in Elements(p) : Outgoing(p, n) # {}

\* Every flow leads from a lower to a higher rank: there is no loop.
Ordered(p, rank) ==
  \A f \in Flows(p) :
    /\ rank[f.source] \in Nat /\ rank[f.target] \in Nat
    /\ rank[f.source] < rank[f.target]

\* The edges of the graph that p is compiled to, but for those of START.
GraphEdges(p, hooks) ==
  {<<f.source, Entry(p, hooks, f)>> : f \in {g \in Flows(p) : g.source \in Elements(p)}}
  \union {<<HookNode(f.id), Target(p, f)>> : f \in WiredFlows(p, hooks)}

\* Every edge between nodes leads to a higher rank, none beyond the limit.
Climbs(p, hooks, rank, limit) ==
  /\ \A n \in GraphNodes(p, hooks) : rank[n] \in 0..limit
  /\ \A e \in GraphEdges(p, hooks) :
       e[2] \in GraphNodes(p, hooks) => rank[e[1]] < rank[e[2]]

\* All paths to a node are equally long, so that branches run in step, and no
\* two hooks are equally far from the start.
Levelled(p, hooks, rank) ==
  /\ rank[StartNode(p, hooks, NoNode)] = 0
  /\ \A e \in GraphEdges(p, hooks) :
       e[2] \in GraphNodes(p, hooks) => rank[e[2]] = rank[e[1]] + 1
  /\ \A m, n \in HookNodes(p, hooks) : rank[m] = rank[n] => m = n

================================================================================
