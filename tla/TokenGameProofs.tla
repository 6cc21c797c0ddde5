---------------------------- MODULE TokenGameProofs ----------------------------
(***************************************************************************)
(* The engine plays the token game of BPMN, for processes in which control *)
(* neither forks nor joins and whose hooks may skip tasks and terminate,   *)
(* and no more.  The invariant: there is one token, on the flow into the   *)
(* node that runs next, until it is absorbed by an end event or the        *)
(* process is halted.  With parallel branches the game is only checked     *)
(* (run engine_parallel), and not always played (run engine_join).         *)
(*                                                                         *)
(* The second theorem is about parallel branches too: nothing but a call   *)
(* to the FlowAgent can end the run of a process in good order by an       *)
(* exception.  Both are about runs in which nobody but the engine sets its *)
(* marks.                                                                  *)
(***************************************************************************)
EXTENDS SequentialProofs

USE DEF Skip, RebuildSpec, Resume, OwnKeys

LEMMA SameGame ==
  ASSUME NEW p, NEW n, NEW S
  PROVE  /\ Game!Ids(S) = Ids(S)
         /\ Game!Incoming(p, n) = Incoming(p, n) /\ Game!Outgoing(p, n) = Outgoing(p, n)
         /\ Game!EndFlows(p) = EndFlows(p) /\ Game!Elements(p) = Elements(p)
         /\ Game!Parallel = Parallel /\ Game!Exclusive = Exclusive
BY DEF Game!Ids, Ids, Game!Incoming, Incoming, Game!Outgoing, Outgoing, Game!EndFlows, EndFlows,
       Game!Elements, Elements, Game!Parallel, Parallel, Game!Exclusive, Exclusive,
       Game!Flows, Flows, Game!Target, Target, Game!END, END

\* Hooks that change neither the order of execution nor the process, and a
\* process whose one token goes on along one flow.
Tame ==
  LET p == scenario.process
  IN  /\ Undiverted
      /\ OneWay(p) /\ OneIn(p) /\ UniqueIds(p) /\ Connected(p) /\ LeadsOn(p)
      /\ \A f \in Outgoing(p, p.start) : f.id \notin hooks /\ f.target \in Elements(p)

LEMMA TameFact ==
  ASSUME Inv, Tame
  PROVE  /\ state.mods = {} /\ next.mods = {}
         /\ Resume \notin DOMAIN state.vars /\ RebuildSpec \notin DOMAIN state.vars
         /\ process = scenario.process
<1>1. next.mods = {}
  BY DEF Inv, CoreInv, Tame
<1>2. state.mods = {}
  BY <1>1 DEF Inv, CoreInv
<1>3. QED BY <1>1, <1>2 DEF Inv, CoreInv, Marked, Unchanged

LEMMA TameStep ==
  ASSUME Inv, [Next]_vars
  PROVE  Tame <=> Tame'
<1>1. scenario' = scenario /\ hooks' = hooks
  BY FixedStep DEF Inv, hooks
<1>2. QED BY <1>1, NeverStep DEF Tame

\* Node n runs on a token on flow t.
Waits(n, t) ==
  \/ n \in Elements(process) /\ \E f \in Flows(process) : f.id = t /\ f.target = n
  \/ \E f \in WiredFlows(process, hooks) : f.id = t /\ HookNode(f.id) = n

TokInv ==
  /\ phase = "building" =>
       left = {} /\ tokens = {First(Outgoing(process, process.start)).id}
  /\ phase = "running" /\ frontier # {} /\ done = {} =>
       left = {} /\ \E t : tokens = {t} /\ \A n \in frontier : Waits(n, t)
  /\ phase = "running" /\ done # {} =>
       /\ tokens = {}
       /\ \/ left = {} /\ targets = {END}
          \/ \E t, m : left = {t} /\ targets = {m} /\ Waits(m, t)
  /\ phase = "running" /\ frontier = {} => tokens = {} /\ left = {}
  /\ phase = "completed" => tokens = {} /\ left = {}

LEMMA TokInit == Init => TokInv
BY DEF Init, TokInv

\* What an element of a tame process does to the token in front of it.
LEMMA OneToken ==
  ASSUME Inv, HaltInv, TokInv, Tame, NEW n, NEW w, ElementRuns(n, w)
  PROVE  /\ frontier = {n} /\ done = {} /\ next = state /\ phase = "running" /\ n \in Elements(process)
         /\ left = {}
         /\ \E t : /\ tokens = {t} /\ tokens' = {}
                   /\ t \in Ids(Incoming(process, n))
                   /\ process.kind[n] = Parallel => Ids(Incoming(process, n)) = {t}
<1>1. frontier = {n} /\ done = {} /\ next = state /\ targets = {}
  BY Alone DEF ElementRuns, HaltInv
<1>2. phase = "running" /\ n \in Elements(process) /\ DistinctNodes(process, hooks)
  BY DEF ElementRuns, Ready, Inv, CoreInv
<1>3. PICK t : tokens = {t} /\ Waits(n, t) /\ left = {}
  BY <1>1, <1>2 DEF TokInv
<1>4. \A f \in WiredFlows(process, hooks) : HookNode(f.id) # n
  BY <1>2 DEF DistinctNodes, HookNodes
<1>5. PICK f \in Flows(process) : f.id = t /\ f.target = n
  BY <1>3, <1>4 DEF Waits
<1>6. f \in Incoming(process, n)
  BY <1>5 DEF Incoming
<1>7. t \in Ids(Incoming(process, n))
  BY <1>5, <1>6 DEF Ids
<1>8. process.kind[n] = Parallel => Ids(Incoming(process, n)) = {t}
  <2> SUFFICES ASSUME process.kind[n] = Parallel, NEW g \in Incoming(process, n)
               PROVE  g.id = t
    BY <1>7 DEF Ids
  <2>1. OneIn(process)
    BY TameFact DEF Tame
  <2>2. g = f
    BY <1>2, <1>5, <1>6, <2>1 DEF OneIn, Incoming
  <2>3. QED BY <1>5, <2>2
<1>9. tokens' = {}
  BY <1>3, <1>7 DEF ElementRuns, Run, Pass
<1>10. QED BY <1>1, <1>2, <1>3, <1>7, <1>8, <1>9

\* And what it leaves.
LEMMA OneLeft ==
  ASSUME Inv, Tame, NEW n \in Elements(process), NEW d, DistinctNodes(process, hooks)
  PROVE  \E f \in Outgoing(process, n) :
           /\ Ids(Routed(process, n, d)) = {f.id}
           /\ Successors(process, hooks, n, d) = {Entry(process, hooks, f)}
<1>1. OneWay(process) /\ UniqueIds(process) /\ LeadsOn(process) /\ WellFormed(process)
  BY TameFact DEF Tame, Inv, TypeInv
<1>2. Routed(process, n, d) # {} /\ Routed(process, n, d) \subseteq Outgoing(process, n)
  BY <1>1, SomeSuccessor, RoutedFact DEF LeadsOn
<1>3. PICK f : f \in Routed(process, n, d)
  BY <1>2
<1>4. ASSUME NEW g \in Routed(process, n, d)
      PROVE  g = f
  <2>1. f \in Flows(process) /\ g \in Flows(process) /\ f.source = n /\ g.source = n
    BY <1>2, <1>3 DEF Outgoing
  <2>2. CASE process.kind[n] # Exclusive
    BY <1>1, <2>1, <2>2 DEF OneWay
  <2>3. CASE process.kind[n] = Exclusive /\ f # g
    <3>1. Several(Outgoing(process, n))
      BY <2>1, <2>3 DEF Several, Outgoing
    <3>2. f.id = g.id
      BY <1>3, <2>3, <3>1 DEF Routed
    <3>3. QED BY <1>1, <2>1, <3>2 DEF UniqueIds
  <2>4. QED BY <2>2, <2>3
<1>5. Routed(process, n, d) = {f} /\ f \in Outgoing(process, n)
  BY <1>2, <1>3, <1>4
<1>6. QED BY <1>5 DEF Ids, Successors

\* Where a token on flow f is bound for.
LEMMA Landing ==
  ASSUME Inv, Tame, DistinctNodes(process, hooks), NEW f \in Flows(process)
  PROVE  /\ f.id \in EndFlows(process) <=> Target(process, f) = END
         /\ f.id \in Ids(WiredFlows(process, hooks)) <=> f \in WiredFlows(process, hooks)
         /\ Target(process, f) # END => Waits(Target(process, f), f.id)
         /\ f \in WiredFlows(process, hooks) => Waits(HookNode(f.id), f.id)
         /\ Entry(process, hooks, f) = END <=>
              f \notin WiredFlows(process, hooks) /\ Target(process, f) = END
<1>1. UniqueIds(process) /\ Connected(process)
  BY TameFact DEF Tame
<1>2. f.id \in EndFlows(process) <=> Target(process, f) = END
  BY <1>1 DEF EndFlows, Ids, UniqueIds
<1>3. f.id \in Ids(WiredFlows(process, hooks)) <=> f \in WiredFlows(process, hooks)
  BY <1>1 DEF WiredFlows, Ids, UniqueIds
<1>4. Target(process, f) # END => Waits(Target(process, f), f.id)
  BY <1>1 DEF Target, Connected, Waits
<1>5. f \in WiredFlows(process, hooks) => Waits(HookNode(f.id), f.id)
  BY DEF Waits
<1>6. f \in WiredFlows(process, hooks) => HookNode(f.id) # END
  BY DEF DistinctNodes, GraphNodes, HookNodes
<1>7. Entry(process, hooks, f) = END <=> f \notin WiredFlows(process, hooks) /\ Target(process, f) = END
  BY <1>6 DEF Entry
<1>8. QED BY <1>2, <1>3, <1>4, <1>5, <1>7

\* The token that an element leaves: none on a flow to an end event, one on
\* the flow into the next node otherwise.
Leaves(n, f, absorbed) ==
  /\ left' = {f.id} \ absorbed
  /\ ended' = (ended \/ absorbed # {})
  /\ targets' = {Entry(process, hooks, f)}
  /\ IF Entry(process, hooks, f) = END THEN left' = {}
     ELSE left' = {f.id} /\ Waits(Entry(process, hooks, f), f.id)
  /\ process.kind[n] # Exclusive => Ids(Outgoing(process, n)) = {f.id}

LEMMA ElementLeaves ==
  ASSUME Inv, HaltInv, TokInv, Tame, NEW n, NEW w, ElementRuns(n, w)
  PROVE  \E f \in Outgoing(process, n) :
           \E absorbed \in SUBSET ({f.id} \intersect EndFlows(process)) : Leaves(n, f, absorbed)
<1> DEFINE d == Lookup(Updating(state.decisions, w.decisions), n, NoNode)
           unhooked == EndFlows(process) \ Ids(WiredFlows(process, hooks))
<1>1. /\ \E v : Write(n, v, Successors(process, hooks, n, d))
      /\ Pass(Ids(Incoming(process, n)), Ids(Routed(process, n, d)),
              Ids(Routed(process, n, d)) \intersect unhooked)
  BY DEF ElementRuns, Run
<1>2. n \in Elements(process) /\ DistinctNodes(process, hooks) /\ left = {} /\ targets = {}
  BY OneToken, Alone DEF ElementRuns, Ready, Inv, CoreInv, HaltInv
<1> HIDE DEF d
<1>3. PICK f \in Outgoing(process, n) :
        /\ Ids(Routed(process, n, d)) = {f.id}
        /\ Successors(process, hooks, n, d) = {Entry(process, hooks, f)}
  BY <1>2, OneLeft
<1> DEFINE absorbed == {f.id} \intersect unhooked
<1>4. /\ left' = {f.id} \ absorbed
      /\ ended' = (ended \/ absorbed # {})
      /\ targets' = {Entry(process, hooks, f)}
  BY <1>1, <1>2, <1>3 DEF Pass, Write
<1>5. f \in Flows(process)
  BY DEF Outgoing
<1>6. absorbed # {} <=> Entry(process, hooks, f) = END
  BY <1>2, <1>5, Landing
<1>7. Entry(process, hooks, f) # END => Waits(Entry(process, hooks, f), f.id)
  <2>1. CASE f \in WiredFlows(process, hooks)
    BY <1>2, <1>5, <2>1, Landing DEF Entry
  <2>2. CASE f \notin WiredFlows(process, hooks)
    BY <1>2, <1>5, <2>2, Landing DEF Entry
  <2>3. QED BY <2>1, <2>2
<1>8. process.kind[n] # Exclusive => Ids(Outgoing(process, n)) = {f.id}
  BY <1>3 DEF Routed
<1>9. absorbed \in SUBSET ({f.id} \intersect EndFlows(process)) /\ (absorbed # {} => absorbed = {f.id})
  OBVIOUS
<1> HIDE DEF absorbed
<1>10. Leaves(n, f, absorbed)
  BY <1>4, <1>6, <1>7, <1>8, <1>9 DEF Leaves
<1>11. QED BY <1>9, <1>10

\* A hook of a tame process lets the token on, or takes it away.
LEMMA HookLeaves ==
  ASSUME Inv, HaltInv, TokInv, Tame, NEW f, NEW w, NEW goto, HookRuns(f, w, goto)
  PROVE  /\ tokens = {f.id} /\ left = {} /\ tokens' = {} /\ targets' = {goto}
         /\ f \in Flows(process) /\ phase = "running" /\ done = {} /\ frontier # {} /\ next = state
         /\ \/ /\ Proceeds(f, w, goto)
               /\ IF f.id \in EndFlows(process) THEN left' = {} /\ ended' = TRUE /\ goto = END
                  ELSE left' = {f.id} /\ ended' = ended /\ Waits(goto, f.id)
            \/ Halts(f, w, goto) /\ left' = {} /\ ended' = ended
<1> DEFINE n == HookNode(f.id)
<1>1. frontier = {n} /\ done = {} /\ next = state /\ targets = {}
  BY Alone DEF HookRuns, HaltInv
<1>2. /\ f \in WiredFlows(process, hooks) /\ f \in Flows(process) /\ phase = "running"
      /\ DistinctNodes(process, hooks)
  BY DEF HookRuns, Ready, Inv, CoreInv, WiredFlows
<1>3. n \notin Elements(process)
  BY <1>2 DEF DistinctNodes, HookNodes
<1>4. PICK t : tokens = {t} /\ Waits(n, t) /\ left = {}
  BY <1>1, <1>2 DEF TokInv
<1>5. t = f.id
  BY <1>2, <1>3, <1>4 DEF Waits, DistinctNodes
<1>6. targets' = {goto} /\ process' = process /\ next' = Merge(next, w)
  BY <1>1 DEF HookRuns, Dump, Write, model
<1>7. CASE Proceeds(f, w, goto)
  <2>1. /\ tokens' = {} /\ left' = {f.id} \ ({f.id} \intersect EndFlows(process))
        /\ ended' = (ended \/ {f.id} \intersect EndFlows(process) # {})
        /\ goto = Target(process, f)
    BY <1>4, <1>5, <1>7 DEF Proceeds, Pass
  <2>2. ended \in BOOLEAN
    BY DEF Inv, TypeInv
  <2>3. QED BY <1>1, <1>2, <1>4, <1>5, <1>6, <1>7, <2>1, <2>2, Landing
<1>8. CASE Halts(f, w, goto)
  <2>1. tokens' = {} /\ left' = {} /\ ended' = (ended \/ FALSE)
    BY <1>4, <1>5, <1>8 DEF Halts, Pass
  <2>2. ended \in BOOLEAN
    BY DEF Inv, TypeInv
  <2>3. QED BY <1>1, <1>2, <1>4, <1>5, <1>6, <1>8, <2>1, <2>2
<1>9. QED BY <1>7, <1>8, GoesStraight DEF Tame

LEMMA TokStep == Inv /\ HaltInv /\ TokInv /\ Tame /\ [Next]_vars => TokInv'
<1> SUFFICES ASSUME Inv, HaltInv, TokInv, Tame, [Next]_vars PROVE TokInv'
  OBVIOUS
<1>1. ASSUME process' = process, hooks' = hooks
      PROVE  \A n, t : Waits(n, t)' <=> Waits(n, t)
  BY <1>1 DEF Waits
<1>2. CASE Rests
  <2>1. UNCHANGED <<process, hooks, state, next, frontier, done, targets, tokens, left>>
    BY <1>2 DEF Rests, model, superstep, history, hooks
  <2>2. CASE phase' = phase
    BY <1>1, <2>1, <2>2 DEF TokInv
  <2>3. CASE phase' = "crashed"
    BY <2>3 DEF TokInv
  <2>4. CASE Finish
    <3>1. phase' = "completed" /\ phase = "running" /\ frontier = {}
      BY <2>4 DEF Finish, GraphDone
    <3>2. QED BY <2>1, <3>1 DEF TokInv
  <2>5. QED BY <1>2, <2>2, <2>3, <2>4 DEF Rests
<1>3. CASE Starts
  <2> PICK f : f = First(Outgoing(process, process.start))
    OBVIOUS
  <2>1. /\ UNCHANGED <<process, hooks, tokens, left>> /\ phase = "building" /\ phase' = "running"
        /\ done' = {}
    BY <1>3 DEF Starts, model, history, hooks, Inv, CoreInv
  <2>2. process = scenario.process /\ Resume \notin DOMAIN state.vars
    BY TameFact
  <2>3. Outgoing(process, process.start) # {} /\ WellFormed(process)
    BY <2>2, ProcessesAssumption DEF Inv, LawInv
  <2>4. f \in Outgoing(process, process.start)
    BY <2>3, FirstFact DEF Outgoing, WellFormed
  <2>5. f.id \notin hooks /\ f.target \in Elements(process) /\ f \in Flows(process)
    BY <2>2, <2>4 DEF Tame, Outgoing
  <2>6. frontier' = {f.target}
    BY <1>3, <2>2, <2>3, <2>5 DEF Starts, StartNode, NaturalEntry, Lookup
  <2>7. tokens' = {f.id} /\ left' = {}
    BY <2>1 DEF TokInv
  <2>8. Waits(f.target, f.id)'
    BY <1>1, <2>1, <2>5 DEF Waits
  <2>9. QED BY <2>1, <2>6, <2>7, <2>8 DEF TokInv
<1>4. ASSUME NEW n \in frontier, NEW w, ElementRuns(n, w)
      PROVE  TokInv'
  <2>1. /\ frontier' = frontier /\ done' = done \union {n} /\ phase' = phase
        /\ process' = process /\ hooks' = hooks
    BY <1>4 DEF ElementRuns, Run, Write, model, hooks
  <2>2. tokens' = {} /\ phase = "running"
    BY <1>4, OneToken
  <2>3. PICK f \in Outgoing(process, n) :
          /\ targets' = {Entry(process, hooks, f)}
          /\ IF Entry(process, hooks, f) = END THEN left' = {}
             ELSE left' = {f.id} /\ Waits(Entry(process, hooks, f), f.id)
    BY <1>4, ElementLeaves DEF Leaves
  <2>4. QED BY <1>1, <2>1, <2>2, <2>3 DEF TokInv
<1>5. ASSUME NEW f, NEW w, NEW goto, HookRuns(f, w, goto)
      PROVE  TokInv'
  <2>1. /\ frontier' = frontier /\ done' # {} /\ phase' = phase
        /\ process' = process /\ hooks' = hooks
    BY <1>5 DEF HookRuns, Dump, Write, model, hooks
  <2>2. /\ tokens' = {} /\ phase = "running" /\ targets' = {goto} /\ frontier # {}
        /\ \/ left' = {} /\ goto = END
           \/ left' = {f.id} /\ Waits(goto, f.id)
    <3>1. CASE Proceeds(f, w, goto) /\ IF f.id \in EndFlows(process) THEN left' = {} /\ goto = END
                                      ELSE left' = {f.id} /\ Waits(goto, f.id)
      BY <1>5, <3>1, HookLeaves
    <3>2. CASE Halts(f, w, goto) /\ left' = {}
      <4>1. goto = END
        BY <3>2 DEF Halts
      <4>2. QED BY <1>5, <3>2, <4>1, HookLeaves
    <3>3. QED BY <1>5, <3>1, <3>2, HookLeaves
  <2>3. QED BY <1>1, <2>1, <2>2 DEF TokInv
<1>6. CASE Advances
  <2>1. /\ process' = process /\ hooks' = hooks /\ phase = "running" /\ phase' = "running"
        /\ frontier' = NextFrontier /\ done' = {} /\ left' = {} /\ tokens' = tokens \union left
        /\ done # {} /\ DistinctNodes(process, hooks)
    BY <1>6 DEF Advances, model, hooks, Inv, CoreInv
  <2>2. CASE left = {} /\ targets = {END}
    <3>1. NextFrontier = {} /\ tokens' = {}
      BY <2>1, <2>2 DEF TokInv, NextFrontier, DistinctNodes
    <3>2. QED BY <2>1, <3>1 DEF TokInv
  <2>3. ASSUME NEW t, NEW m, left = {t}, targets = {m}, Waits(m, t)
        PROVE  TokInv'
    <3>1. NextFrontier = {m} /\ tokens' = {t}
      BY <2>1, <2>3 DEF TokInv, NextFrontier, Waits, GraphNodes, HookNodes
    <3>2. QED BY <1>1, <2>1, <2>3, <3>1 DEF TokInv
  <2>4. QED BY <2>1, <2>2, <2>3 DEF TokInv
<1>7. CASE Rebuild
  BY <1>7, TameFact DEF Rebuild
<1>8. QED BY <1>2, <1>3, <1>4, <1>5, <1>6, <1>7, Steps DEF Inv

-----------------------------------------------------------------------------
(* The refinement *)

LEMMA GameStep ==
  Inv /\ HaltInv /\ TokInv /\ Tame /\ [Next]_vars
    => [Game!GameNext]_(Game!gameVars)
<1> SUFFICES ASSUME Inv, HaltInv, TokInv, Tame, [Next]_vars
             PROVE  [Game!GameNext]_(Game!gameVars)
  OBVIOUS
<1> USE DEF Game!GameNext, Game!gameVars
<1>1. CASE Rests
  <2>1. UNCHANGED <<process, next, tokens, left, ended>>
    BY <1>1 DEF Rests, model, superstep, history
  <2>2. CASE phase' = phase \/ (phase # "completed" /\ phase' = "crashed")
    BY <2>1, <2>2
  <2>3. CASE Finish
    <3>1. tokens \union left = {} /\ phase' = "completed"
      BY <2>3 DEF Finish, GraphDone, TokInv
    <3>2. QED BY <2>1, <3>1 DEF Game!Over
  <2>4. QED BY <1>1, <2>2, <2>3 DEF Rests
<1>2. CASE Starts
  BY <1>2 DEF Starts, model, history
<1>3. ASSUME NEW n \in frontier, NEW w, ElementRuns(n, w)
      PROVE  Game!Fire(n) /\ n \in Game!Elements(process)
  <2>1. PICK t : /\ tokens = {t} /\ tokens' = {} /\ left = {}
                 /\ t \in Ids(Incoming(process, n))
                 /\ process.kind[n] = Parallel => Ids(Incoming(process, n)) = {t}
    BY <1>3, OneToken
  <2>2. PICK f \in Outgoing(process, n) :
          \E absorbed \in SUBSET ({f.id} \intersect EndFlows(process)) : Leaves(n, f, absorbed)
    BY <1>3, ElementLeaves
  <2>3. PICK absorbed \in SUBSET ({f.id} \intersect EndFlows(process)) : Leaves(n, f, absorbed)
    BY <2>2
  <2>4. {t} \in Game!Consumable(n)
    BY <2>1, SameGame DEF Game!Consumable
  <2>5. {f.id} \in Game!Producible(n)
    <3>1. f.id \in Ids(Outgoing(process, n))
      BY DEF Ids
    <3>2. Game!Producible(n) = IF process.kind[n] = Exclusive
                               THEN {{i} : i \in Ids(Outgoing(process, n))}
                               ELSE {Ids(Outgoing(process, n))}
      BY SameGame DEF Game!Producible
    <3>3. QED BY <2>3, <3>1, <3>2 DEF Leaves
  <2>6. n \in Elements(process) /\ next = state
    BY <1>3, OneToken
  <2>7. process' = process /\ next'.halted = next.halted /\ phase' = phase
    <3>1. PICK v, goto : Write(n, v, goto) /\ v.halted = FALSE
      BY <1>3 DEF ElementRuns, QuietWrite, IsState, Run
    <3>2. process' = process /\ next' = Merge(next, v) /\ phase' = phase
      BY <3>1 DEF Write, model
    <3>3. next'.halted = (next.halted \/ FALSE)
      BY <3>1, <3>2 DEF Merge
    <3>4. QED BY <3>2, <3>3 DEF Inv, LawInv, Lawful
  <2>8. /\ absorbed \in SUBSET ({f.id} \intersect Game!EndFlows(process))
        /\ tokens' \union left' = ((tokens \union left) \ {t}) \union ({f.id} \ absorbed)
    BY <2>1, <2>3, SameGame DEF Leaves
  <2>9. QED BY <2>3, <2>4, <2>5, <2>6, <2>7, <2>8, SameGame DEF Game!Fire, Leaves
<1>4. ASSUME NEW f, NEW w, NEW goto, HookRuns(f, w, goto)
      PROVE  [Game!GameNext]_(Game!gameVars)
  <2>1. process' = process /\ next' = Merge(next, w) /\ phase' = phase
    BY <1>4 DEF HookRuns, Dump, Write, model
  <2>2. /\ tokens = {f.id} /\ left = {} /\ tokens' = {} /\ next = state
        /\ \/ /\ Proceeds(f, w, goto)
              /\ IF f.id \in EndFlows(process) THEN left' = {} /\ ended' = TRUE
                 ELSE left' = {f.id} /\ ended' = ended
           \/ Halts(f, w, goto) /\ left' = {} /\ ended' = ended
    BY <1>4, HookLeaves
  <2>3. CASE Halts(f, w, goto) /\ left' = {} /\ ended' = ended
    <3>1. w.halted = TRUE
      BY <2>3 DEF Halts
    <3>2. next'.halted = TRUE
      BY <2>1, <3>1 DEF Merge
    <3>3. tokens' \union left' = {} /\ UNCHANGED <<process, ended, phase = "completed">>
      BY <2>1, <2>2, <2>3
    <3>4. Game!Halt
      BY <3>2, <3>3 DEF Game!Halt
    <3>5. QED BY <3>4
  <2>4. CASE /\ Proceeds(f, w, goto)
             /\ IF f.id \in EndFlows(process) THEN left' = {} /\ ended' = TRUE
                ELSE left' = {f.id} /\ ended' = ended
    <3>1. w.halted = next.halted
      BY <2>2, <2>4 DEF Proceeds
    <3>2. next'.halted = next.halted
      BY <2>1, <3>1 DEF Merge, Inv, LawInv, Lawful
    <3>3. CASE f.id \in EndFlows(process)
      <4>1. /\ f.id \in (tokens \union left) \intersect Game!EndFlows(process)
            /\ tokens' \union left' = (tokens \union left) \ {f.id}
        BY <2>2, <2>4, <3>3, SameGame
      <4>2. Game!Arrive(f.id)
        BY <2>1, <2>4, <3>2, <3>3, <4>1 DEF Game!Arrive
      <4>3. QED BY <4>1, <4>2
    <3>4. CASE f.id \notin EndFlows(process)
      <4>1. tokens' \union left' = tokens \union left /\ ended' = ended
        BY <2>2, <2>4, <3>4
      <4>2. QED BY <2>1, <3>2, <4>1
    <3>5. QED BY <3>3, <3>4
  <2>5. QED BY <2>2, <2>3, <2>4
<1>5. CASE Advances
  BY <1>5 DEF Advances, model
<1>6. CASE Rebuild
  BY <1>6, TameFact DEF Rebuild
<1>7. QED BY <1>1, <1>2, <1>3, <1>4, <1>5, <1>6, Steps DEF Inv

\* The engine plays the token game with every tame process: whatever its graph,
\* its agents and the answers of its hooks are, every step that it takes is one
\* that BPMN allows, and it is over only when the token is gone.
THEOREM TamePlaysTheGame ==
  ASSUME OwnMarksKept
  PROVE  Spec /\ Tame => GameSpec
<1>1. Init => Game!GameInit
  BY DEF Init, Game!GameInit, Game!First, First, Game!Outgoing, Outgoing, Game!Flows, Flows
<1>2. Inv /\ [Next]_vars => (Tame <=> Tame')
  BY TameStep
<1>3. Inv /\ Tame => OneWay(process)
  BY TameFact DEF Tame
<1>4. QED BY <1>1, <1>2, <1>3, TokInit, TokStep, HaltInit, HaltStep, GameStep,
             InvInvariance, PTL DEF Spec, GameSpec, Game!GameSpec

-----------------------------------------------------------------------------
(* Only calls raise.  A graph that climbs is left before the limit; hook     *)
(* nodes do not meet if control does not fork, or if the branches run in     *)
(* step.                                                                    *)

\* What can end a run that has begun by an exception.
CauseOfCrash ==
  \/ /\ phase = "building"
     /\ ~ Compiles(process, hooks, Lookup(state.vars, Resume, NoNode))
  \/ CallMayRaise
  \/ \E n \in Elements(process) : Outgoing(process, n) = {}
  \/ phase = "running" /\ done = frontier /\ Conflict
  \/ phase = "running" /\ done = frontier /\ NextFrontier # {} /\ steps = RecursionLimit

LEMMA CrashHasCause ==
  ASSUME [Next]_vars, phase # "crashed", phase' = "crashed"
  PROVE  CauseOfCrash
<1>1. CASE Build
  BY <1>1 DEF Build, CauseOfCrash
<1>2. ASSUME NEW n, NEW w, Run(n, w)
      PROVE  phase' = phase
  BY <1>2 DEF Run, Write
<1>3. ASSUME NEW n \in frontier, SkipTask(n) \/ AgenticTask(n) \/ ToolTask(n)
      PROVE  CauseOfCrash
  BY <1>2, <1>3 DEF SkipTask, AgenticTask, ToolTask, TaskDone, Ready, CallMayRaise, CauseOfCrash
<1>4. ASSUME NEW n \in frontier, ExclusiveGateway(n) \/ ParallelGateway(n)
      PROVE  CauseOfCrash
  BY <1>2, <1>4 DEF ExclusiveGateway, ParallelGateway, CauseOfCrash
<1>5. ASSUME NEW f \in WiredFlows(process, hooks), EvaluateHook(f)
      PROVE  FALSE
  BY <1>5 DEF EvaluateHook, HookContinue, HookTerminate, HookSkipNode, HookSkipTo, HookSwapNodes,
              HookRemoveNode, HookAddNode, RequestRebuild, Proceed, Divert, Dump, Write
<1>6. CASE Advance
  BY <1>6 DEF Advance, CauseOfCrash
<1>7. CASE Finish \/ Rebuild \/ UNCHANGED vars
  BY <1>7 DEF Finish, Rebuild, vars
<1>8. QED BY <1>1, <1>3, <1>4, <1>5, <1>6, <1>7 DEF Next, NodeStep

\* The ranks of the graph that the process given is compiled to.
Ranks(rank) ==
  LET p == scenario.process
  IN  /\ Climbs(p, hooks, rank, RecursionLimit)
      /\ OneWay(p) \/ Levelled(p, hooks, rank)

\* A process that is in order: it compiles, control finds its way, and no hook may
\* jump or ask for a change of the process (it may skip tasks and terminate).
InGoodOrder ==
  /\ Undiverted /\ LeadsOn(scenario.process)
  /\ Compiles(scenario.process, hooks, NoNode)
  /\ \E rank : Ranks(rank)

\* A node at rank r may be s supersteps from the start.
Within(rank, n, s) ==
  /\ s <= rank[n]
  /\ Levelled(scenario.process, hooks, rank) => rank[n] = s

RankInv ==
  \E rank :
    /\ Ranks(rank)
    /\ phase = "running" =>
         /\ \A n \in frontier : Within(rank, n, steps)
         /\ \A n \in targets \intersect GraphNodes(process, hooks) : Within(rank, n, steps + 1)

LEMMA GoodOrderFact ==
  ASSUME Inv, InGoodOrder
  PROVE  /\ process = scenario.process
         /\ Resume \notin DOMAIN state.vars /\ RebuildSpec \notin DOMAIN state.vars
BY DEF Inv, CoreInv, InGoodOrder, Marked, Unchanged

LEMMA GoodOrderStep ==
  ASSUME Inv, [Next]_vars
  PROVE  InGoodOrder <=> InGoodOrder'
<1>1. scenario' = scenario /\ hooks' = hooks
  BY FixedStep DEF Inv, hooks
<1>2. ASSUME NEW rank
      PROVE  Ranks(rank) <=> Ranks(rank)'
  BY <1>1 DEF Ranks
<1>3. QED BY <1>1, <1>2, NeverStep DEF InGoodOrder

\* Two nodes of a superstep that are both hooks are the same.
LEMMA OneHook ==
  ASSUME Inv, InGoodOrder, OneWay(scenario.process) => HaltInv, RankInv,
         phase = "running"
  PROVE  ~ Conflict
<1> DEFINE H == frontier \ Elements(process)
<1>1. process = scenario.process
  BY GoodOrderFact
<1>2. PICK rank : Ranks(rank) /\ \A n \in frontier : Within(rank, n, steps)
  BY DEF RankInv
<1>3. H \subseteq HookNodes(process, hooks)
  BY DEF Inv, TypeInv, GraphNodes
<1>4. ASSUME NEW m \in H, NEW n \in H
      PROVE  m = n
  <2>1. CASE OneWay(scenario.process)
    BY <2>1 DEF HaltInv, Single
  <2>2. CASE Levelled(scenario.process, hooks, rank)
    <3>1. rank[m] = rank[n]
      BY <1>2, <2>2 DEF Within
    <3>2. QED BY <1>1, <1>3, <2>2, <3>1 DEF Levelled
  <2>3. QED BY <1>2, <2>1, <2>2 DEF Ranks
<1> HIDE DEF H
<1>5. H = {} \/ \E m : H = {m}
  BY <1>4
<1>6. Cardinality(H) <= 1
  BY <1>5, FS_EmptySet, FS_Singleton
<1>7. Cardinality(H) \in Nat
  BY <1>5, FS_EmptySet, FS_Singleton
<1>8. QED BY <1>6, <1>7 DEF Conflict, H

\* A graph is left before it has taken too many supersteps.
LEMMA BelowLimit ==
  ASSUME Inv, InGoodOrder, RankInv, phase = "running", NextFrontier # {}
  PROVE  steps # RecursionLimit
<1>1. PICK rank : /\ Ranks(rank)
                  /\ \A n \in targets \intersect GraphNodes(process, hooks) : Within(rank, n, steps + 1)
  BY DEF RankInv
<1>2. PICK n \in targets \intersect GraphNodes(process, hooks) : TRUE
  BY DEF NextFrontier
<1>3. steps + 1 <= rank[n] /\ rank[n] \in 0..RecursionLimit
  BY <1>1, <1>2, GoodOrderFact DEF Within, Ranks, Climbs
<1>4. steps \in Nat /\ RecursionLimit \in Nat
  BY BoundsAssumption DEF Inv, TypeInv
<1>5. QED BY <1>3, <1>4

LEMMA Calm ==
  ASSUME Inv, InGoodOrder, OneWay(scenario.process) => HaltInv, RankInv, [Next]_vars,
         phase # "crashed", phase' = "crashed"
  PROVE  CallMayRaise
<1>1. process = scenario.process /\ Resume \notin DOMAIN state.vars
  BY GoodOrderFact
<1>2. Compiles(process, hooks, Lookup(state.vars, Resume, NoNode))
  BY <1>1 DEF InGoodOrder, Lookup
<1>3. \A n \in Elements(process) : Outgoing(process, n) # {}
  BY <1>1 DEF InGoodOrder, LeadsOn
<1>4. phase = "running" => ~ Conflict
  BY OneHook
<1>5. phase = "running" /\ NextFrontier # {} => steps # RecursionLimit
  BY BelowLimit
<1>6. CauseOfCrash
  BY CrashHasCause
<1>7. QED BY <1>2, <1>3, <1>4, <1>5, <1>6 DEF CauseOfCrash

\* An edge leads one superstep further.
LEMMA Further ==
  ASSUME Inv, InGoodOrder, NEW rank, Ranks(rank), NEW n, NEW m, NEW s \in Nat,
         n \in GraphNodes(process, hooks), m \in GraphNodes(process, hooks),
         <<n, m>> \in GraphEdges(process, hooks), Within(rank, n, s)
  PROVE  Within(rank, m, s + 1)
<1>1. process = scenario.process
  BY GoodOrderFact
<1>2. rank[n] \in Nat /\ rank[m] \in Nat
  BY <1>1, BoundsAssumption DEF Ranks, Climbs
<1> DEFINE e == <<n, m>>
<1>3. e[1] = n /\ e[2] = m /\ e \in GraphEdges(process, hooks)
  OBVIOUS
<1> HIDE DEF e
<1>4. rank[n] < rank[m]
  BY <1>1, <1>3 DEF Ranks, Climbs
<1>5. Levelled(scenario.process, hooks, rank) => rank[m] = rank[n] + 1
  BY <1>1, <1>3 DEF Levelled
<1>6. s + 1 <= rank[m]
  BY <1>2, <1>4 DEF Within
<1>7. Levelled(scenario.process, hooks, rank) => rank[m] = s + 1
  BY <1>5 DEF Within
<1>8. QED BY <1>6, <1>7 DEF Within

\* The nodes to which node n leads are on edges out of n.
LEMMA RankWriteStep ==
  ASSUME Inv, InGoodOrder, RankInv, NEW n, NEW w, NEW goto, Ready(n), Write(n, w, goto),
         \A m \in goto \intersect GraphNodes(process, hooks) : <<n, m>> \in GraphEdges(process, hooks)
  PROVE  RankInv'
<1>1. /\ scenario' = scenario /\ process' = process /\ hooks' = hooks /\ phase' = phase
      /\ frontier' = frontier /\ targets' = targets \union goto /\ steps' = steps
  BY DEF Write, model, counters, hooks
<1>2. phase = "running" /\ n \in frontier /\ n \in GraphNodes(process, hooks) /\ steps \in Nat
  BY BoundsAssumption DEF Ready, Inv, TypeInv
<1>3. PICK rank :
        /\ Ranks(rank)
        /\ \A x \in frontier : Within(rank, x, steps)
        /\ \A x \in targets \intersect GraphNodes(process, hooks) : Within(rank, x, steps + 1)
  BY <1>2 DEF RankInv
<1>4. \A m \in goto \intersect GraphNodes(process, hooks) : Within(rank, m, steps + 1)
  BY <1>2, <1>3, Further
<1>5. Ranks(rank)' /\ \A x, s : Within(rank, x, s)' <=> Within(rank, x, s)
  BY <1>1, <1>3 DEF Ranks, Within
<1>6. \A x \in frontier' : Within(rank, x, steps)'
  BY <1>1, <1>3, <1>5
<1>7. \A x \in (targets \intersect GraphNodes(process, hooks))' : Within(rank, x, steps + 1)'
  BY <1>1, <1>3, <1>4, <1>5
<1>8. QED BY <1>5, <1>6, <1>7 DEF RankInv

LEMMA RankStep ==
  ASSUME Inv, InGoodOrder, RankInv, [Next]_vars
  PROVE  RankInv'
<1>1. process = scenario.process /\ DOMAIN state.vars \intersect {Resume, RebuildSpec} = {}
  BY GoodOrderFact
<1>2. hooks' = hooks /\ scenario' = scenario
  BY FixedStep DEF hooks, Inv
<1>3. \A rank : /\ Ranks(rank) <=> Ranks(rank)'
                /\ \A x, s : Within(rank, x, s)' <=> Within(rank, x, s)
  BY <1>2 DEF Ranks, Within
<1>4. steps \in Nat
  BY BoundsAssumption DEF Inv, TypeInv
<1>5. CASE Rests
  <2>1. UNCHANGED <<process, frontier, targets, steps>> /\ (phase' = "running" => phase = "running")
    BY <1>5 DEF Rests, model, superstep, counters, Finish
  <2>2. PICK rank :
          /\ Ranks(rank)
          /\ phase = "running" =>
               /\ \A n \in frontier : Within(rank, n, steps)
               /\ \A n \in targets \intersect GraphNodes(process, hooks) : Within(rank, n, steps + 1)
    BY DEF RankInv
  <2>3. QED BY <1>2, <1>3, <2>1, <2>2 DEF RankInv
<1>6. CASE Starts
  <2> PICK n : n = StartNode(process, hooks, NoNode)
    OBVIOUS
  <2>1. frontier' = {n} /\ targets' = {} /\ steps' = 0
    BY <1>1, <1>6 DEF Starts, Lookup, Inv, CoreInv
  <2>2. n \in GraphNodes(process, hooks)
    BY <1>1 DEF InGoodOrder, Compiles
  <2>3. PICK rank : Ranks(rank)
    BY DEF RankInv
  <2>4. Within(rank, n, 0)
    <3>1. rank[n] \in 0..RecursionLimit
      BY <1>1, <2>2, <2>3 DEF Ranks, Climbs
    <3>2. Levelled(scenario.process, hooks, rank) => rank[n] = 0
      BY <1>1 DEF Levelled
    <3>3. QED BY <3>1, <3>2, BoundsAssumption DEF Within
  <2>5. QED BY <1>3, <2>1, <2>3, <2>4 DEF RankInv
<1>7. ASSUME NEW n \in frontier, NEW w, ElementRuns(n, w)
      PROVE  RankInv'
  <2> DEFINE d == Lookup(Updating(state.decisions, w.decisions), n, NoNode)
  <2>1. PICK v : Write(n, v, Successors(process, hooks, n, d))
    BY <1>7 DEF ElementRuns, Run
  <2>2. Ready(n) /\ n \in Elements(process) /\ WellFormed(process) /\ LeadsOn(process)
    BY <1>1, <1>7 DEF ElementRuns, Inv, TypeInv, InGoodOrder
  <2> HIDE DEF d
  <2>3. Routed(process, n, d) \subseteq Outgoing(process, n)
    BY <2>2, RoutedFact DEF LeadsOn
  <2>4. ASSUME NEW m \in Successors(process, hooks, n, d)
        PROVE  <<n, m>> \in GraphEdges(process, hooks)
    BY <2>2, <2>3 DEF Successors, Outgoing, GraphEdges
  <2>5. QED BY <2>1, <2>2, <2>4, RankWriteStep
<1>8. ASSUME NEW f, NEW w, NEW goto, HookRuns(f, w, goto)
      PROVE  RankInv'
  <2>1. /\ Write(HookNode(f.id), w, {goto}) /\ Ready(HookNode(f.id))
        /\ f \in WiredFlows(process, hooks)
    BY <1>8 DEF HookRuns, Dump
  <2>2. goto \in {Target(process, f), END}
    <3>1. Proceeds(f, w, goto) \/ Halts(f, w, goto)
      BY <1>8, GoesStraight DEF InGoodOrder
    <3>2. QED BY <3>1 DEF Proceeds, Halts
  <2>3. END \notin GraphNodes(process, hooks)
    BY <1>1 DEF InGoodOrder, Compiles, DistinctNodes
  <2>4. <<HookNode(f.id), Target(process, f)>> \in GraphEdges(process, hooks)
    BY <2>1 DEF GraphEdges
  <2>5. QED BY <2>1, <2>2, <2>3, <2>4, RankWriteStep
<1>9. CASE Advances
  <2>1. /\ frontier' = targets \intersect GraphNodes(process, hooks) /\ targets' = {}
        /\ frontier' # {} => steps' = steps + 1
        /\ phase = "running"
    BY <1>9 DEF Advances, NextFrontier
  <2>2. PICK rank :
          /\ Ranks(rank)
          /\ \A n \in targets \intersect GraphNodes(process, hooks) : Within(rank, n, steps + 1)
    BY <2>1 DEF RankInv
  <2>3. \A n \in frontier' : Within(rank, n, steps')
    BY <2>1, <2>2
  <2>4. QED BY <1>3, <2>1, <2>2, <2>3 DEF RankInv
<1>10. CASE Rebuild
  BY <1>1, <1>10 DEF Rebuild
<1>11. QED BY <1>5, <1>6, <1>7, <1>8, <1>9, <1>10, Steps DEF Inv

\* Only the call of a task ends the run of a process in good order by an exception,
\* whatever its tasks come to and its gateways decide: it compiles once, its paths
\* fit the recursion limit, and LangGraph never finds two hook nodes in one superstep.
THEOREM OnlyCallsEndARun ==
  ASSUME OwnMarksKept
  PROVE  Spec /\ InGoodOrder => OnlyCallsRaise
<1> DEFINE O == OneWay(scenario.process)
           A == phase' = "crashed" => phase = "crashed" \/ CallMayRaise
<1>1. Init /\ InGoodOrder => RankInv
  BY DEF Init, InGoodOrder, RankInv
<1>2. Inv /\ InGoodOrder /\ O /\ HaltInv /\ [Next]_vars => HaltInv'
  BY HaltStep, GoodOrderFact
<1>3. Inv /\ InGoodOrder /\ RankInv /\ [Next]_vars => RankInv'
  BY RankStep
<1>4. Inv /\ [Next]_vars => (InGoodOrder <=> InGoodOrder') /\ (O <=> O')
  BY GoodOrderStep, FixedStep DEF Inv
<1>5. Inv /\ InGoodOrder /\ (O => HaltInv) /\ RankInv /\ [Next]_vars => A
  BY Calm
<1>6. Init => HaltInv
  BY HaltInit
<1> HIDE DEF O
<1>7. QED BY <1>1, <1>2, <1>3, <1>4, <1>5, <1>6, InvInvariance, PTL DEF Spec, OnlyCallsRaise
================================================================================
