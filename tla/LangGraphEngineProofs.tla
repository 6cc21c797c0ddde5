------------------------- MODULE LangGraphEngineProofs -------------------------
(***************************************************************************)
(* What holds in every run of LangGraphEngine, whatever the process, the   *)
(* hooks and the answers of the FlowAgent: the types, and the permissions  *)
(* as long as nobody but the engine sets the marks it keeps among the      *)
(* variables (OwnMarksKept).                                               *)
(*                                                                         *)
(* The first part is about processes alone (FlowGraph): a first flow       *)
(* exists, and a structural change leaves a well-formed process.  The      *)
(* library's induction theorems take an operator as a parameter; the       *)
(* well-founded minimum (WFMin) takes a set, so an induction is done here  *)
(* by looking at the least counterexample.                                 *)
(*                                                                         *)
(* PermissionsHold is not inductive: an action is recorded where a later   *)
(* step reads it (the skip mark, the rebuild spec) before it shows, and    *)
(* what a hook writes waits in `next' for the end of the superstep.  So    *)
(* the invariant asks of both states that all they record is permitted.    *)
(***************************************************************************)
EXTENDS LangGraphEngine, FiniteSetTheorems, WellFoundedInduction, TLAPS

-----------------------------------------------------------------------------
(* Numbers and finite sets *)

LEMMA NatOrderIsWellFounded ==
  IsWellFoundedOn({pair \in Nat \X Nat : pair[1] < pair[2]}, Nat)
BY NatLessThanWellFounded DEF OpToRel

\* Every set of numbers has a least one.
LEMMA LeastNumber ==
  ASSUME NEW S, S \subseteq Nat, S # {}
  PROVE  \E x \in S : \A y \in S : x <= y
<1> DEFINE R == {pair \in Nat \X Nat : pair[1] < pair[2]}
<1>1. PICK x \in S : \A y \in S : ~ (<<y, x>> \in R)
  BY NatOrderIsWellFounded, WFMin
<1>2. ASSUME NEW y \in S PROVE x <= y
  <2>1. x \in Nat /\ y \in Nat
    OBVIOUS
  <2>2. <<y, x>> \in Nat \X Nat /\ <<y, x>>[1] = y /\ <<y, x>>[2] = x
    BY <2>1
  <2>3. ~ (y < x)
    BY <1>1, <2>2
  <2>4. QED BY <2>1, <2>3
<1>3. QED BY <1>2

\* What holds for 0 and for the successor of every number it holds for holds for all.
LEMMA Induction ==
  ASSUME NEW S, 0 \in S, \A n \in Nat : n \in S => n + 1 \in S
  PROVE  Nat \subseteq S
<1> DEFINE C == Nat \ S
<1>1. SUFFICES ASSUME C # {} PROVE FALSE
  OBVIOUS
<1>2. PICK n \in C : \A m \in C : n <= m
  BY <1>1, LeastNumber
<1>3. n \in Nat /\ n # 0
  BY <1>2
<1>4. n - 1 \in Nat /\ n - 1 \notin C
  BY <1>2, <1>3
<1>5. QED BY <1>2, <1>3, <1>4

\* A finite set of numbers has a bound.
LEMMA FiniteIsBounded ==
  ASSUME NEW S, S \subseteq Nat, IsFiniteSet(S)
  PROVE  \E k \in Nat : \A x \in S : x <= k
<1> DEFINE HasBound(T) == \E k \in Nat : \A x \in T : x <= k
           Bounded == {n \in Nat : \A T \in SUBSET Nat :
                         IsFiniteSet(T) /\ Cardinality(T) = n => HasBound(T)}
<1>1. 0 \in Bounded
  BY FS_EmptySet
<1>2. ASSUME NEW n \in Nat, n \in Bounded PROVE n + 1 \in Bounded
  <2>1. ASSUME NEW T \in SUBSET Nat, IsFiniteSet(T), Cardinality(T) = n + 1
        PROVE  HasBound(T)
    <3>1. T # {}
      BY <2>1, FS_EmptySet, n + 1 # 0
    <3>2. PICK x \in T : TRUE
      BY <3>1
    <3> DEFINE U == T \ {x}
    <3>3. IsFiniteSet(U) /\ Cardinality(U) = n /\ U \in SUBSET Nat
      <4>1. IsFiniteSet(U) /\ Cardinality(U) = Cardinality(T) - 1
        BY <2>1, <3>2, FS_RemoveElement
      <4>2. QED BY <2>1, <4>1
    <3>4. PICK k \in Nat : \A y \in U : y <= k
      BY <1>2, <3>3
    <3>5. k + x \in Nat /\ \A y \in T : y <= k + x
      BY <3>2, <3>4
    <3>6. QED BY <3>5
  <2> HIDE DEF HasBound
  <2>2. QED BY <2>1
<1> HIDE DEF Bounded
<1>3. Nat \subseteq Bounded
  BY <1>1, <1>2, Induction
<1>4. Cardinality(S) \in Nat
  BY FS_CardinalityType
<1>5. QED BY <1>3, <1>4 DEF Bounded

LEMMA MaxOfFinite ==
  ASSUME NEW S, S \subseteq Nat, S # {}, IsFiniteSet(S)
  PROVE  Max(S) \in S /\ \A x \in S : x <= Max(S)
<1> DEFINE B == {k \in Nat : \A x \in S : x <= k}
<1>1. B \subseteq Nat /\ B # {}
  BY FiniteIsBounded
<1>2. PICK k \in B : \A j \in B : k <= j
  BY <1>1, LeastNumber
<1>3. k \in S
  <2> SUFFICES ASSUME k \notin S PROVE FALSE
    OBVIOUS
  <2>1. PICK x \in S : TRUE
    OBVIOUS
  <2>2. x \in Nat /\ k \in Nat /\ x <= k /\ x # k
    BY <1>2, <2>1
  <2>3. k - 1 \in Nat /\ \A y \in S : y <= k - 1
    BY <1>2, <2>2
  <2>4. QED BY <1>2, <2>2, <2>3
<1>4. \E x \in S : \A y \in S : x >= y
  BY <1>2, <1>3
<1>5. Max(S) \in S /\ \A y \in S : Max(S) >= y
  BY <1>4 DEF Max
<1>6. QED BY <1>5

\* The values of a function on a finite set are finitely many.
LEMMA FiniteImage ==
  ASSUME NEW S, IsFiniteSet(S), NEW f, f = [x \in S |-> f[x]]
  PROVE  IsFiniteSet({f[x] : x \in S})
<1> DEFINE T == {f[x] : x \in S}
<1>1. f \in Surjection(S, T)
  BY DEF Surjection
<1>2. QED BY <1>1, FS_Surjection
-----------------------------------------------------------------------------
(* Processes *)

LEMMA FirstFact ==
  ASSUME NEW S, S # {}, \A f \in S : f.place \in Nat
  PROVE  First(S) \in S
<1> DEFINE P == {f.place : f \in S}
<1>1. PICK k \in P : \A j \in P : k <= j
  BY LeastNumber
<1>2. PICK f \in S : f.place = k
  BY <1>1
<1>3. \A g \in S : f.place <= g.place
  BY <1>1, <1>2
<1>4. QED BY <1>2, <1>3 DEF First

LEMMA RoomFact ==
  ASSUME NEW p, WellFormed(p)
  PROVE  Room(p) \in Nat
<1> DEFINE P == {f.place : f \in Flows(p)}
<1>1. IsFiniteSet(P)
  <2> DEFINE place == [f \in Flows(p) |-> f.place]
  <2>1. place = [f \in Flows(p) |-> place[f]] /\ {place[f] : f \in Flows(p)} = P
    OBVIOUS
  <2> HIDE DEF place
  <2>2. IsFiniteSet(Flows(p))
    BY DEF WellFormed
  <2>3. QED BY <2>1, <2>2, FiniteImage
<1>2. IsFiniteSet(P \union {0})
  BY <1>1, FS_AddElement
<1>3. P \union {0} \subseteq Nat
  BY DEF WellFormed
<1>4. Max(P \union {0}) \in Nat
  BY <1>2, <1>3, MaxOfFinite
<1>5. QED BY <1>4 DEF Room

\* The flows that control takes out of an element are flows out of it.
LEMMA RoutedFact ==
  ASSUME NEW p, WellFormed(p), NEW n, NEW decided
  PROVE  Routed(p, n, decided) \subseteq Outgoing(p, n)
<1>1. Several(Outgoing(p, n)) => First(Outgoing(p, n)) \in Outgoing(p, n)
  BY FirstFact DEF Several, Outgoing, WellFormed
<1>2. QED BY <1>1 DEF Routed

LEMMA BypassesFinite ==
  ASSUME NEW p, WellFormed(p), NEW n
  PROVE  IsFiniteSet(Bypasses(p, n))
<1> DEFINE ins == Incoming(p, n)
           outs == Outgoing(p, n)
           bypass == [x \in ins \X outs |->
                        BypassFlow(x[1], x[2], Room(p) * (1 + x[1].place) + x[2].place)]
<1>1. IsFiniteSet(ins) /\ IsFiniteSet(outs)
  BY FS_Subset DEF Incoming, Outgoing, WellFormed
<1>2. IsFiniteSet(ins \X outs)
  BY <1>1, FS_Product
<1>3. bypass = [x \in ins \X outs |-> bypass[x]]
  OBVIOUS
<1>4. Bypasses(p, n) \subseteq {bypass[x] : x \in ins \X outs}
  <2> SUFFICES ASSUME NEW in \in ins, NEW out \in outs
               PROVE  BypassFlow(in, out, Room(p) * (1 + in.place) + out.place)
                        \in {bypass[x] : x \in ins \X outs}
    BY DEF Bypasses
  <2>1. <<in, out>> \in ins \X outs
    OBVIOUS
  <2>2. bypass[<<in, out>>] = BypassFlow(in, out, Room(p) * (1 + in.place) + out.place)
    BY <2>1
  <2> HIDE DEF bypass
  <2>3. QED BY <2>1, <2>2
<1> HIDE DEF bypass
<1>5. IsFiniteSet({bypass[x] : x \in ins \X outs})
  BY <1>2, <1>3, FiniteImage
<1>6. QED BY <1>4, <1>5, FS_Subset

\* Flow f goes around n, from where one flow comes to where another one goes.
GoesAround(f, p, n) ==
  \E in \in Incoming(p, n), out \in Outgoing(p, n), place \in Nat :
    f = [id |-> <<"bypass">> \o in.source \o <<"to">> \o out.target,
         source |-> in.source, target |-> out.target, place |-> place]

LEMMA BypassesFact ==
  ASSUME NEW p, WellFormed(p), NEW n, NEW f \in Bypasses(p, n)
  PROVE  GoesAround(f, p, n)
<1> DEFINE place(in, out) == Room(p) * (1 + in.place) + out.place
<1>1. PICK in \in Incoming(p, n), out \in Outgoing(p, n) : f = BypassFlow(in, out, place(in, out))
  BY DEF Bypasses
<1>2. in \in Flows(p) /\ out \in Flows(p)
  BY DEF Incoming, Outgoing
<1>3. place(in, out) \in Nat
  BY <1>2, RoomFact DEF WellFormed
<1>4. out = [id |-> out.id, source |-> out.source, target |-> out.target, place |-> out.place]
  BY <1>2 DEF WellFormed
<1> HIDE DEF place
<1>5. f = [id |-> <<"bypass">> \o in.source \o <<"to">> \o out.target,
           source |-> in.source, target |-> out.target, place |-> place(in, out)]
  BY <1>1, <1>4 DEF BypassFlow
<1>6. QED BY <1>3, <1>5 DEF GoesAround

LEMMA RemoveNodeFact ==
  ASSUME NEW p, WellFormed(p), NEW n
  PROVE  LET q == RemoveNode(p, n)
         IN  /\ WellFormed(q)
             /\ q.start = p.start /\ q.ends = p.ends
             /\ Elements(q) = Elements(p) \ {n}
             /\ \A m \in Elements(q) : q.kind[m] = p.kind[m]
             /\ Flows(q) = Apart(p, n) \union Bypasses(p, n)
<1> DEFINE q == RemoveNode(p, n)
<1>1. q = [kind |-> Restrict(p.kind, Elements(p) \ {n}),
           flows |-> Apart(p, n) \union Bypasses(p, n),
           start |-> p.start, ends |-> p.ends]
  <2> DEFINE kind == Restrict(p.kind, Elements(p) \ {n})
             flows == Apart(p, n) \union Bypasses(p, n)
  <2>1. q = [p EXCEPT !.kind = kind, !.flows = flows]
    BY DEF RemoveNode
  <2> HIDE DEF q, kind, flows
  <2>2. p = [kind |-> p.kind, flows |-> p.flows, start |-> p.start, ends |-> p.ends]
    BY DEF WellFormed
  <2>3. q = [kind |-> kind, flows |-> flows, start |-> p.start, ends |-> p.ends]
    BY <2>1, <2>2
  <2>4. QED BY <2>3 DEF kind, flows
<1> HIDE DEF q
<1>2. Elements(q) = Elements(p) \ {n}
  BY <1>1 DEF Elements, Restrict
<1>3. \A m \in Elements(q) : q.kind[m] = p.kind[m]
  BY <1>1, <1>2 DEF Restrict
<1>4. IsFiniteSet(Flows(q))
  <2>1. IsFiniteSet(Apart(p, n))
    BY FS_Subset DEF Apart, WellFormed
  <2>2. QED BY <1>1, <2>1, BypassesFinite, FS_Union DEF Flows
<1>5. ASSUME NEW f \in Flows(q)
      PROVE  /\ f = [id |-> f.id, source |-> f.source, target |-> f.target, place |-> f.place]
             /\ f.place \in Nat
  <2>1. CASE f \in Apart(p, n)
    BY <2>1 DEF Apart, WellFormed
  <2>2. CASE f \in Bypasses(p, n)
    <3>1. GoesAround(f, p, n)
      BY <2>2, BypassesFact
    <3>2. QED BY <3>1 DEF GoesAround
  <2>3. QED BY <1>1, <2>1, <2>2 DEF Flows
<1>6. WellFormed(q)
  BY <1>1, <1>2, <1>3, <1>4, <1>5 DEF WellFormed
<1>7. QED BY <1>1, <1>2, <1>3, <1>6 DEF q, Flows

\* The flow out of a task that a hook adds.
LastFlow(p, n, before) ==
  [id |-> <<"flow">> \o n \o <<"to">> \o before, source |-> n, target |-> before,
   place |-> 2 * Room(p)]

Redirected(p, n, before) ==
  {ViaFlow(f, n, Room(p) + f.place) : f \in Incoming(p, before)}

LEMMA RedirectedFinite ==
  ASSUME NEW p, WellFormed(p), NEW n, NEW before
  PROVE  IsFiniteSet(Redirected(p, n, before))
<1> DEFINE ins == Incoming(p, before)
           via == [f \in ins |-> ViaFlow(f, n, Room(p) + f.place)]
<1>1. IsFiniteSet(ins)
  BY FS_Subset DEF Incoming, WellFormed
<1>2. via = [f \in ins |-> via[f]] /\ {via[f] : f \in ins} = Redirected(p, n, before)
  BY DEF Redirected
<1> HIDE DEF via
<1>3. QED BY <1>1, <1>2, FiniteImage

\* Flow f leads to n instead of `before'.
LeadsVia(f, p, n, before) ==
  \E in \in Incoming(p, before), place \in Nat :
    f = [id |-> in.id \o <<"via">> \o n, source |-> in.source, target |-> n,
         place |-> place]

LEMMA RedirectedFact ==
  ASSUME NEW p, WellFormed(p), NEW n, NEW before, NEW f \in Redirected(p, n, before)
  PROVE  LeadsVia(f, p, n, before)
<1>1. PICK in \in Incoming(p, before) : f = ViaFlow(in, n, Room(p) + in.place)
  BY DEF Redirected
<1>2. in \in Flows(p)
  BY DEF Incoming
<1>3. Room(p) + in.place \in Nat
  BY <1>2, RoomFact DEF WellFormed
<1>4. in = [id |-> in.id, source |-> in.source, target |-> in.target, place |-> in.place]
  BY <1>2 DEF WellFormed
<1>5. f = [id |-> in.id \o <<"via">> \o n, source |-> in.source, target |-> n,
           place |-> Room(p) + in.place]
  BY <1>1, <1>4 DEF ViaFlow
<1>6. QED BY <1>3, <1>5 DEF LeadsVia

LEMMA AddNodeFact ==
  ASSUME NEW p, WellFormed(p), NEW n, NEW before
  PROVE  LET q == AddNode(p, n, before)
         IN  /\ WellFormed(q)
             /\ q.start = p.start /\ q.ends = p.ends
             /\ Elements(q) = Elements(p) \union {n}
             /\ \A m \in Elements(q) : q.kind[m] = IF m = n THEN Task ELSE p.kind[m]
             /\ Flows(q) = (Flows(p) \ Incoming(p, before)) \union Redirected(p, n, before)
                             \union {LastFlow(p, n, before)}
<1> DEFINE q == AddNode(p, n, before)
           kind == [m \in Elements(p) \union {n} |-> IF m = n THEN Task ELSE p.kind[m]]
           flows == (Flows(p) \ Incoming(p, before)) \union Redirected(p, n, before)
                      \union {LastFlow(p, n, before)}
<1>1. q = [kind |-> kind, flows |-> flows, start |-> p.start, ends |-> p.ends]
  <2>1. q = [p EXCEPT !.kind = kind, !.flows = flows]
    BY DEF AddNode, Redirected, LastFlow
  <2> HIDE DEF q, kind, flows
  <2>2. p = [kind |-> p.kind, flows |-> p.flows, start |-> p.start, ends |-> p.ends]
    BY DEF WellFormed
  <2>3. QED BY <2>1, <2>2
<1> HIDE DEF q
<1>2. Elements(q) = Elements(p) \union {n}
  BY <1>1 DEF Elements
<1>3. \A m \in Elements(q) : q.kind[m] = IF m = n THEN Task ELSE p.kind[m]
  BY <1>1, <1>2
<1>4. IsFiniteSet(Flows(q))
  <2>1. IsFiniteSet(Flows(p) \ Incoming(p, before))
    BY FS_Difference DEF WellFormed
  <2>2. IsFiniteSet((Flows(p) \ Incoming(p, before)) \union Redirected(p, n, before))
    BY <2>1, RedirectedFinite, FS_Union
  <2>3. QED BY <1>1, <2>2, FS_AddElement DEF Flows
<1>5. ASSUME NEW f \in Flows(q)
      PROVE  /\ f = [id |-> f.id, source |-> f.source, target |-> f.target, place |-> f.place]
             /\ f.place \in Nat
  <2>1. CASE f \in Flows(p)
    BY <2>1 DEF WellFormed
  <2>2. CASE f \in Redirected(p, n, before)
    <3>1. LeadsVia(f, p, n, before)
      BY <2>2, RedirectedFact
    <3>2. QED BY <3>1 DEF LeadsVia
  <2>3. CASE f = LastFlow(p, n, before)
    BY <2>3, RoomFact DEF LastFlow
  <2>4. QED BY <1>1, <2>1, <2>2, <2>3 DEF Flows
<1>6. \A m \in Elements(q) : q.kind[m] \in Kinds
  BY <1>2, <1>3 DEF WellFormed, Kinds
<1>7. WellFormed(q)
  BY <1>1, <1>4, <1>5, <1>6 DEF WellFormed
<1>8. QED BY <1>1, <1>2, <1>3, <1>7 DEF q, Flows

-----------------------------------------------------------------------------
(* The permissions *)

IsState(s) ==
  DOMAIN s = {"path", "vars", "decisions", "results", "mods", "halted"}

ChangePermitted == \E type \in Structural : Permitted(type)

NoIllegalVars(known) == OwnMarksKept =>
  /\ Skip \in DOMAIN known /\ known[Skip] = TRUE => Permitted("skip_node")
  /\ RebuildSpec \in DOMAIN known => ChangePermitted

Lawful(s) ==
  /\ IsState(s)
  /\ s.halted \in BOOLEAN
  /\ s.halted = TRUE => Permitted("terminate")
  /\ \A m \in s.mods : Permitted(m.type)
  /\ OwnMarksKept =>
       \A n \in DOMAIN s.results : s.results[n] = "skipped" => Permitted("skip_node")
  /\ NoIllegalVars(s.vars)

LawInv ==
  /\ scenario \in Scenarios
  /\ Lawful(state)
  /\ Lawful(next)
  /\ OwnMarksKept /\ process # scenario.process => ChangePermitted

USE DEF Skip, RebuildSpec, Resume, OwnKeys

-----------------------------------------------------------------------------
(* Lemmas about the operators *)

\* Variables without a mark of an illegal action, updated with others of the
\* kind, are still without.
LEMMA UpdatingVars ==
  ASSUME NEW old, NEW new, NoIllegalVars(old), NoIllegalVars(new)
  PROVE  NoIllegalVars(Updating(old, new))
<1> DEFINE u == Updating(old, new)
<1>1. ASSUME OwnMarksKept, Skip \in DOMAIN u, u[Skip] = TRUE
      PROVE  Permitted("skip_node")
  <2>1. CASE Skip \in DOMAIN new
    <3>1. new[Skip] = TRUE
      BY <1>1, <2>1 DEF Updating
    <3>2. QED BY <1>1, <2>1, <3>1 DEF NoIllegalVars
  <2>2. CASE Skip \notin DOMAIN new
    <3>1. Skip \in DOMAIN old /\ old[Skip] = TRUE
      BY <1>1, <2>2 DEF Updating
    <3>2. QED BY <1>1, <3>1 DEF NoIllegalVars
  <2>3. QED BY <2>1, <2>2
<1>2. OwnMarksKept /\ RebuildSpec \in DOMAIN u => ChangePermitted
  BY DEF Updating, NoIllegalVars
<1>3. QED BY <1>1, <1>2 DEF NoIllegalVars

\* The reducers merge two lawful states into a lawful one.
LEMMA MergeLawful ==
  ASSUME NEW s, NEW w, Lawful(s), Lawful(w)
  PROVE  Lawful(Merge(s, w))
<1>1. NoIllegalVars(Updating(s.vars, w.vars))
  BY UpdatingVars DEF Lawful
<1>2. OwnMarksKept => \A n \in DOMAIN Updating(s.results, w.results) :
        Updating(s.results, w.results)[n] = "skipped" => Permitted("skip_node")
  BY DEF Lawful, Updating
<1>3. QED BY <1>1, <1>2 DEF Lawful, Merge, IsState

\* Variables that are not the engine's own mark nothing.
LEMMA ForeignVars ==
  ASSUME NEW known, OwnMarksKept => DOMAIN known \intersect OwnKeys = {}
  PROVE  NoIllegalVars(known)
BY DEF NoIllegalVars

\* Neither a task nor the caller sets one of the engine's own.
LEMMA ForeignOutputs ==
  ASSUME LawInv, NEW n \in scenario.agents
  PROVE  OwnMarksKept => DOMAIN [k \in scenario.outputs[n] |-> n] \intersect OwnKeys = {}
BY DEF LawInv, OwnMarksKept

LEMMA EmptyLawful == Lawful(NoWrite)
BY DEF Lawful, NoWrite, IsState, NoIllegalVars, Empty

-----------------------------------------------------------------------------
(* The steps *)

\* A node that writes something lawful preserves the invariant.
LEMMA WriteStep ==
  ASSUME LawInv, NEW n, NEW w, NEW goto, Write(n, w, goto), Lawful(w)
  PROVE  LawInv'
<1>1. Lawful(Merge(next, w))
  BY MergeLawful DEF LawInv
<1>2. /\ scenario' = scenario /\ process' = process /\ state' = state
      /\ next' = Merge(next, w)
  BY DEF Write, model
<1>3. Lawful(state)' /\ Lawful(next)'
  BY <1>1, <1>2 DEF LawInv, Lawful, Permitted, NoIllegalVars, ChangePermitted, IsState
<1>4. QED BY <1>2, <1>3 DEF LawInv, ChangePermitted, Permitted

\* So does an element, which writes no path but its own.
LEMMA RunStep ==
  ASSUME LawInv, NEW n, NEW w, Run(n, w), Lawful(w)
  PROVE  LawInv'
<1>1. Lawful([w EXCEPT !.path = <<n>>])
  BY DEF Lawful, IsState
<1>2. PICK goto : Write(n, [w EXCEPT !.path = <<n>>], goto)
  BY DEF Run
<1>3. QED BY <1>1, <1>2, WriteStep

LEMMA TaskVarsLawful ==
  ASSUME LawInv, NEW n
  PROVE  NoIllegalVars(TaskVars(n))
BY DEF LawInv, Lawful, NoIllegalVars, TaskVars, Restrict

\* A task may report that it was skipped only if it may be skipped.
LEMMA TaskDoneStep ==
  ASSUME LawInv, NEW n, NEW result, NEW known, TaskDone(n, result, known),
         NoIllegalVars(known), OwnMarksKept /\ result = "skipped" => Permitted("skip_node")
  PROVE  LawInv'
<1> DEFINE w == [NoWrite EXCEPT !.vars = known, !.results = Just(n, result)]
<1>1. /\ w.vars = known /\ w.results = Just(n, result) /\ w.mods = {}
      /\ w.halted = FALSE /\ IsState(w)
  BY DEF NoWrite, IsState
<1> HIDE DEF w
<1>2. OwnMarksKept =>
        \A m \in DOMAIN w.results : w.results[m] = "skipped" => Permitted("skip_node")
  BY <1>1 DEF Just
<1>3. Lawful(w)
  BY <1>1, <1>2 DEF Lawful
<1>4. Run(n, w)
  BY DEF TaskDone, w
<1>5. QED BY <1>3, <1>4, RunStep

LEMMA CrashStep ==
  ASSUME LawInv, UNCHANGED <<model, state, next>>
  PROVE  LawInv'
BY DEF LawInv, model, Lawful, Permitted, NoIllegalVars, ChangePermitted, IsState

\* Whatever kind of element runs.
LEMMA ElementStep ==
  ASSUME LawInv, NEW n,
         \/ SkipTask(n) \/ AgenticTask(n) \/ ToolTask(n)
         \/ ExclusiveGateway(n) \/ ParallelGateway(n)
  PROVE  LawInv'
<1>0. NoIllegalVars(TaskVars(n))
  BY TaskVarsLawful
<1>1. CASE SkipTask(n)
  <2>1. OwnMarksKept => Permitted("skip_node")
    BY <1>1 DEF SkipTask, Lookup, LawInv, Lawful, NoIllegalVars
  <2>2. NoIllegalVars(Updating(TaskVars(n), Just(Skip, FALSE)))
    <3>1. NoIllegalVars(Just(Skip, FALSE))
      BY DEF NoIllegalVars, Just
    <3>2. QED BY <1>0, <3>1, UpdatingVars
  <2>3. QED BY <1>1, <2>1, <2>2, TaskDoneStep DEF SkipTask
<1>2. CASE AgenticTask(n)
  <2>1. CASE n \in scenario.agents
             /\ TaskDone(n, "completed", Updating(TaskVars(n), [k \in scenario.outputs[n] |-> n]))
    <3>1. NoIllegalVars([k \in scenario.outputs[n] |-> n])
      BY <2>1, ForeignOutputs, ForeignVars
    <3>2. NoIllegalVars(Updating(TaskVars(n), [k \in scenario.outputs[n] |-> n]))
      BY <1>0, <3>1, UpdatingVars
    <3>3. QED BY <2>1, <3>2, TaskDoneStep
  <2>2. CASE TaskDone(n, "failed", TaskVars(n))
    BY <1>0, <2>2, TaskDoneStep
  <2>3. CASE Crash
    BY <2>3, CrashStep DEF Crash, superstep
  <2>4. QED BY <1>2, <2>1, <2>2, <2>3 DEF AgenticTask
<1>3. CASE ToolTask(n)
  BY <1>0, <1>3, TaskDoneStep DEF ToolTask
<1>4. CASE ExclusiveGateway(n)
  <2>1. ASSUME NEW f, Run(n, [NoWrite EXCEPT !.decisions = Just(n, f.id)])
        PROVE  LawInv'
    <3> DEFINE w == [NoWrite EXCEPT !.decisions = Just(n, f.id)]
    <3>1. /\ w.vars = Empty /\ w.results = Empty /\ w.mods = {}
          /\ w.halted = FALSE /\ IsState(w)
      BY DEF NoWrite, IsState
    <3> HIDE DEF w
    <3>2. Lawful(w)
      BY <3>1 DEF Lawful, NoIllegalVars, Empty
    <3>3. QED BY <2>1, <3>2, RunStep DEF w
  <2>2. CASE Run(n, NoWrite)
    BY <2>2, EmptyLawful, RunStep
  <2>3. CASE Crash
    BY <2>3, CrashStep DEF Crash, superstep
  <2>4. QED BY <1>4, <2>1, <2>2, <2>3 DEF ExclusiveGateway
<1>5. CASE ParallelGateway(n)
  BY <1>5, EmptyLawful, RunStep DEF ParallelGateway
<1>6. QED BY <1>1, <1>2, <1>3, <1>4, <1>5

-----------------------------------------------------------------------------
(* Hooks *)

\* An answer that gets past the permissions is permitted or CONTINUE.
LEMMA PermitFacts ==
  ASSUME LawInv, NEW f, f.id \in hooks,
         NEW answer \in scenario.answers[f.id] \union {Continue}
  PROVE  LET d == Permit(answer)
         IN  /\ d.action = "continue" \/ Permitted(d.action)
             /\ OwnMarksKept => DOMAIN d.sets \intersect OwnKeys = {}
<1>1. Continue.action = "continue" /\ DOMAIN Continue.sets = {}
  BY DEF Continue, Empty
<1>2. CASE answer = Continue
  BY <1>1, <1>2 DEF Permit
<1>3. CASE answer \in scenario.answers[f.id]
  <2>1. OwnMarksKept => DOMAIN answer.sets \intersect OwnKeys = {}
    BY <1>3 DEF LawInv, OwnMarksKept, hooks
  <2>2. QED BY <1>1, <2>1 DEF Permit
<1>4. QED BY <1>2, <1>3

LEMMA UpdatedLawful ==
  ASSUME LawInv, NEW d, OwnMarksKept => DOMAIN d.sets \intersect OwnKeys = {}
  PROVE  Lawful(Updated(d))
<1>1. NoIllegalVars(Updating(state.vars, d.sets))
  BY ForeignVars, UpdatingVars DEF LawInv, Lawful
<1>2. QED BY <1>1 DEF Updated, LawInv, Lawful, IsState

\* A permitted action may be recorded.
LEMMA RecordLawful ==
  ASSUME NEW s, Lawful(s), NEW type, NEW node, Permitted(type)
  PROVE  Lawful(Record(s, type, node))
BY DEF Lawful, Record, IsState

LEMMA DumpStep ==
  ASSUME LawInv, NEW f, NEW s, Lawful(s), NEW goto, Dump(f, s, goto)
  PROVE  LawInv'
BY WriteStep DEF Dump

\* A rebuild may be asked for if a structural change is permitted.
LEMMA RequestRebuildStep ==
  ASSUME LawInv, NEW f, NEW s, Lawful(s), NEW type \in Structural, Permitted(type),
         NEW node, NEW before, NEW resume, RequestRebuild(f, s, type, node, before, resume)
  PROVE  LawInv'
<1> DEFINE spec == Just(RebuildSpec, [type |-> type, node |-> node, before |-> before])
           mark == IF resume = NoNode THEN Empty ELSE Just(Resume, resume)
           known == Updating(Updating(s.vars, spec), mark)
           r == [Record(s, type, node) EXCEPT !.vars = known]
<1>1. NoIllegalVars(spec)
  BY DEF NoIllegalVars, Just, ChangePermitted
<1>2. NoIllegalVars(mark)
  BY DEF NoIllegalVars, Just, Empty
<1>3. NoIllegalVars(s.vars)
  BY DEF Lawful
<1>4. NoIllegalVars(known)
  BY <1>1, <1>2, <1>3, UpdatingVars
<1>5. Lawful(Record(s, type, node))
  BY RecordLawful
<1>6. Lawful(r)
  BY <1>4, <1>5 DEF Lawful, IsState
<1>7. Dump(f, r, END)
  BY DEF RequestRebuild, Divert
<1>8. QED BY <1>6, <1>7, DumpStep

LEMMA HookStep ==
  ASSUME LawInv, NEW f \in WiredFlows(process, hooks), EvaluateHook(f)
  PROVE  LawInv'
<1>1. f.id \in hooks
  BY DEF WiredFlows
<1>2. PICK answer \in scenario.answers[f.id] \union {Continue} :
        LET d == Permit(answer)
            s == Updated(d)
        IN  \/ HookContinue(f, d, s) \/ HookTerminate(f, d, s)
            \/ HookSkipNode(f, d, s) \/ HookSkipTo(f, d, s)
            \/ HookSwapNodes(f, d, s)
            \/ HookRemoveNode(f, d, s) \/ HookAddNode(f, d, s)
  BY DEF EvaluateHook
<1> DEFINE d == Permit(answer)
           s == Updated(d)
<1>3. /\ d.action = "continue" \/ Permitted(d.action)
      /\ OwnMarksKept => DOMAIN d.sets \intersect OwnKeys = {}
  BY <1>1, PermitFacts
<1>4. Lawful(s)
  BY <1>3, UpdatedLawful
<1> HIDE DEF d, s
<1>5. CASE HookContinue(f, d, s)
  BY <1>4, <1>5, DumpStep DEF HookContinue, Proceed
<1>6. CASE HookTerminate(f, d, s)
  <2>1. Permitted("terminate")
    BY <1>3, <1>6 DEF HookTerminate
  <2> DEFINE r == [s EXCEPT !.halted = TRUE]
  <2>2. /\ r.vars = s.vars /\ r.results = s.results /\ r.mods = s.mods
        /\ r.halted = TRUE /\ IsState(r)
    BY <1>4 DEF Lawful, IsState
  <2> HIDE DEF r
  <2>3. Lawful(r)
    BY <1>4, <2>1, <2>2 DEF Lawful
  <2>4. QED BY <1>6, <2>3, DumpStep DEF HookTerminate, Divert, r
<1>7. CASE HookSkipNode(f, d, s)
  <2>1. Permitted("skip_node")
    BY <1>3, <1>7 DEF HookSkipNode
  <2>2. NoIllegalVars(Just(Skip, TRUE))
    BY <2>1 DEF NoIllegalVars, Just
  <2>3. NoIllegalVars(Updating(s.vars, Just(Skip, TRUE)))
    BY <1>4, <2>2, UpdatingVars DEF Lawful
  <2>4. Lawful([s EXCEPT !.vars = Updating(s.vars, Just(Skip, TRUE))])
    BY <1>4, <2>3 DEF Lawful, IsState
  <2>5. QED BY <1>7, <2>4, DumpStep DEF HookSkipNode, Proceed
<1>8. CASE HookSkipTo(f, d, s)
  <2>1. Permitted("skip_to")
    BY <1>3, <1>8 DEF HookSkipTo
  <2>2. Lawful(Record(s, "skip_to", d.target))
    BY <1>4, <2>1, RecordLawful
  <2>3. QED BY <1>8, <2>2, DumpStep DEF HookSkipTo, Divert
<1>9. CASE HookSwapNodes(f, d, s)
  <2>1. Permitted("swap_nodes")
    BY <1>3, <1>9 DEF HookSwapNodes
  <2>2. PICK goto : Divert(f, Record(s, "swap_nodes", goto), goto)
    BY <1>9 DEF HookSwapNodes
  <2>3. Lawful(Record(s, "swap_nodes", goto))
    BY <1>4, <2>1, RecordLawful
  <2>4. QED BY <2>2, <2>3, DumpStep DEF Divert
<1>10. CASE HookRemoveNode(f, d, s)
  <2>1. Permitted("remove_node") /\ "remove_node" \in Structural
    BY <1>3, <1>10 DEF HookRemoveNode, Structural
  <2>2. PICK resume : RequestRebuild(f, s, "remove_node", d.target, NoNode, resume)
    BY <1>10 DEF HookRemoveNode
  <2>3. QED BY <1>4, <2>1, <2>2, RequestRebuildStep
<1>11. CASE HookAddNode(f, d, s)
  <2>1. Permitted("add_node") /\ "add_node" \in Structural
    BY <1>3, <1>11 DEF HookAddNode, Structural
  <2>2. RequestRebuild(f, s, "add_node", d.target, Target(process, f), d.target)
    BY <1>11 DEF HookAddNode
  <2>3. QED BY <1>4, <2>1, <2>2, RequestRebuildStep
<1>12. QED BY <1>2, <1>5, <1>6, <1>7, <1>8, <1>9, <1>10, <1>11 DEF d, s

-----------------------------------------------------------------------------
(* The invariant *)

LEMMA LawInit == Init => LawInv
BY DEF OwnMarksKept, Init, LawInv, Lawful, IsState, NoIllegalVars, Empty

\* The change that is made was asked for by a hook that was permitted to.
LEMMA RebuildStep ==
  ASSUME LawInv, Rebuild
  PROVE  LawInv'
<1> DEFINE known == Restrict(state.vars, DOMAIN state.vars \ {RebuildSpec})
           s == [state EXCEPT !.vars = known]
<1>1. OwnMarksKept => ChangePermitted
  BY DEF Rebuild, LawInv, Lawful, NoIllegalVars
<1>2. NoIllegalVars(known)
  BY DEF LawInv, Lawful, NoIllegalVars, Restrict
<1>3. Lawful(s)
  BY <1>2 DEF LawInv, Lawful, IsState
<1>4. state' = s /\ next' = s /\ scenario' = scenario
  BY DEF Rebuild
<1> HIDE DEF s
<1>5. Lawful(state)' /\ Lawful(next)'
  BY <1>3, <1>4 DEF Lawful, IsState, Permitted, NoIllegalVars, ChangePermitted
<1>6. QED BY <1>1, <1>4, <1>5 DEF LawInv, ChangePermitted, Permitted

LEMMA LawStep == LawInv /\ [Next]_vars => LawInv'
<1> SUFFICES ASSUME LawInv, [Next]_vars PROVE LawInv'
  OBVIOUS
<1>1. CASE Build
  BY <1>1, CrashStep DEF Build, Crash, superstep
<1>2. CASE NodeStep
  BY <1>2, ElementStep, HookStep DEF NodeStep
<1>3. CASE Advance
  <2>1. CASE Crash
    BY <2>1, CrashStep DEF Crash, superstep
  <2>2. CASE state' = next /\ next' = next /\ UNCHANGED model
    BY <2>2 DEF LawInv, model, Lawful, Permitted, NoIllegalVars, ChangePermitted, IsState
  <2>3. QED BY <1>3, <2>1, <2>2 DEF Advance
<1>4. CASE Finish
  BY <1>4, CrashStep DEF Finish, superstep
<1>5. CASE Rebuild
  BY <1>5, RebuildStep
<1>6. CASE UNCHANGED vars
  BY <1>6, CrashStep DEF vars, superstep
<1>7. QED BY <1>1, <1>2, <1>3, <1>4, <1>5, <1>6 DEF Next

\* The action permissions of a process hold in every run in which neither the
\* caller nor a task nor a hook sets one of the marks that the engine keeps among
\* the variables: what a hook is not permitted to do never shows in the log, the
\* results, the outcome or the topology, however hooks, rebuilds and branches
\* follow one another.  (A hook that sets a mark gets around them: LangGraphEngine_marks.cfg.)
THEOREM PermissionsAlwaysHold ==
  ASSUME OwnMarksKept
  PROVE  Spec => []PermissionsHold
<1>1. LawInv => PermissionsHold
  BY DEF LawInv, Lawful, PermissionsHold, ChangePermitted
<1>2. QED BY <1>1, LawInit, LawStep, PTL DEF Spec
-----------------------------------------------------------------------------
(* The type invariant.  It leans on the shape of the states above, and on   *)
(* the process staying well-formed through structural changes.              *)

TypedState(s) ==
  /\ \A n \in DOMAIN s.results : s.results[n] \in {"completed", "failed", "skipped"}
  /\ \A m \in s.mods : m.type \in Actions

TypeInv ==
  /\ LawInv
  /\ WellFormed(process)
  /\ frontier \subseteq GraphNodes(process, hooks)
  /\ done \subseteq frontier
  /\ TypedState(state) /\ TypedState(next)
  /\ steps \in 0..RecursionLimit
  /\ rebuilds \in 0..MaxRebuilds
  /\ phase \in {"building", "running", "completed", "crashed"}
  /\ tokens \subseteq FlowIds(process) /\ left \subseteq FlowIds(process)
  /\ frontier = {} => left = {}
  /\ phase = "building" => frontier = {}
  /\ ended \in BOOLEAN

\* The first flow out of the start event carries the first token.
LEMMA TypeInit == Init => TypeInv
<1> SUFFICES ASSUME Init PROVE TypeInv
  OBVIOUS
<1>1. scenario \in Scenarios /\ process = scenario.process
  BY DEF Init
<1>2. WellFormed(process) /\ Outgoing(process, process.start) # {}
  BY <1>1, ProcessesAssumption
<1>3. First(Outgoing(process, process.start)).id \in FlowIds(process)
  BY <1>2, FirstFact DEF Outgoing, WellFormed, FlowIds, Ids
<1>4. TypedState(state) /\ next = state
  BY DEF Init, TypedState, Empty
<1>5. steps \in 0..RecursionLimit /\ rebuilds \in 0..MaxRebuilds
  BY BoundsAssumption DEF Init
<1>6. QED BY <1>2, <1>3, <1>4, <1>5, LawInit DEF Init, TypeInv

LEMMA MergeTyped ==
  ASSUME NEW s, NEW w, TypedState(s), TypedState(w)
  PROVE  TypedState(Merge(s, w))
BY DEF TypedState, Merge, Updating

\* A node writes a typed state and passes tokens to flows of the process.
LEMMA TypedWriteStep ==
  ASSUME TypeInv, LawInv', NEW n \in frontier, NEW w, NEW goto, Write(n, w, goto),
         TypedState(w),
         tokens' \subseteq FlowIds(process), left' \subseteq FlowIds(process),
         ended' \in BOOLEAN
  PROVE  TypeInv'
<1>1. /\ scenario' = scenario /\ process' = process /\ state' = state
      /\ next' = Merge(next, w) /\ frontier' = frontier /\ done' = done \union {n}
      /\ steps' = steps /\ rebuilds' = rebuilds /\ phase' = phase
  BY DEF Write, model, counters
<1>2. TypedState(state') /\ TypedState(next')
  BY <1>1, MergeTyped DEF TypeInv
<1>3. hooks' = hooks
  BY <1>1 DEF hooks
<1>4. QED BY <1>1, <1>2, <1>3 DEF TypeInv, TypedState

LEMMA TypedRunStep ==
  ASSUME TypeInv, LawInv', NEW n \in frontier, NEW w, Run(n, w),
         TypedState(w), IsState(w)
  PROVE  TypeInv'
<1> DEFINE d == Lookup(Updating(state.decisions, w.decisions), n, NoNode)
           to == Ids(Routed(process, n, d))
           v == [w EXCEPT !.path = <<n>>]
<1>1. to \subseteq FlowIds(process)
  BY RoutedFact DEF TypeInv, Ids, FlowIds, Outgoing
<1>2. tokens' \subseteq FlowIds(process) /\ left' \subseteq FlowIds(process) /\ ended' \in BOOLEAN
  BY <1>1 DEF Run, Pass, TypeInv
<1>3. Write(n, v, Successors(process, hooks, n, d))
  BY DEF Run
<1>4. TypedState(v)
  BY DEF TypedState, IsState
<1>5. QED BY <1>2, <1>3, <1>4, TypedWriteStep

LEMMA TypedTaskDoneStep ==
  ASSUME TypeInv, LawInv', NEW n \in frontier,
         NEW result \in {"completed", "failed", "skipped"}, NEW known,
         TaskDone(n, result, known)
  PROVE  TypeInv'
<1> DEFINE w == [NoWrite EXCEPT !.vars = known, !.results = Just(n, result)]
<1>1. /\ w.vars = known /\ w.results = Just(n, result) /\ w.mods = {} /\ IsState(w)
  BY DEF NoWrite, IsState
<1> HIDE DEF w
<1>2. TypedState(w)
  BY <1>1 DEF TypedState, Just
<1>3. Run(n, w)
  BY DEF TaskDone, w
<1>4. QED BY <1>1, <1>2, <1>3, TypedRunStep

LEMMA TypedCrashStep ==
  ASSUME TypeInv, LawInv', Crash
  PROVE  TypeInv'
BY DEF Crash, TypeInv, model, superstep, counters, history, TypedState, hooks

LEMMA TypedElementStep ==
  ASSUME TypeInv, LawInv', NEW n \in frontier,
         \/ SkipTask(n) \/ AgenticTask(n) \/ ToolTask(n)
         \/ ExclusiveGateway(n) \/ ParallelGateway(n)
  PROVE  TypeInv'
<1>1. CASE SkipTask(n)
  BY <1>1, TypedTaskDoneStep DEF SkipTask
<1>2. CASE AgenticTask(n)
  <2>1. CASE Crash
    BY <2>1, TypedCrashStep
  <2>2. QED BY <1>2, <2>1, TypedTaskDoneStep DEF AgenticTask
<1>3. CASE ToolTask(n)
  BY <1>3, TypedTaskDoneStep DEF ToolTask
<1>4. TypedState(NoWrite) /\ IsState(NoWrite)
  BY DEF NoWrite, TypedState, Empty, IsState
<1>5. CASE ExclusiveGateway(n)
  <2>1. ASSUME NEW f, Run(n, [NoWrite EXCEPT !.decisions = Just(n, f.id)])
        PROVE  TypeInv'
    <3> DEFINE w == [NoWrite EXCEPT !.decisions = Just(n, f.id)]
    <3>1. TypedState(w) /\ IsState(w)
      BY <1>4 DEF NoWrite, TypedState, IsState
    <3> HIDE DEF w
    <3>2. QED BY <2>1, <3>1, TypedRunStep DEF w
  <2>2. CASE Run(n, NoWrite)
    BY <1>4, <2>2, TypedRunStep
  <2>3. CASE Crash
    BY <2>3, TypedCrashStep
  <2>4. QED BY <1>5, <2>1, <2>2, <2>3 DEF ExclusiveGateway
<1>6. CASE ParallelGateway(n)
  BY <1>4, <1>6, TypedRunStep DEF ParallelGateway
<1>7. QED BY <1>1, <1>2, <1>3, <1>5, <1>6

\* What a hook writes back is typed, and passes tokens of its own flow on.
LEMMA TypedDumpStep ==
  ASSUME TypeInv, LawInv', NEW f \in WiredFlows(process, hooks), HookNode(f.id) \in frontier,
         NEW s, NEW goto, Dump(f, s, goto), TypedState(s),
         NEW from, NEW absorbed, Pass(from, {f.id}, absorbed) \/ Pass(from, {}, absorbed)
  PROVE  TypeInv'
<1>1. f.id \in FlowIds(process)
  BY DEF WiredFlows, FlowIds, Ids
<1>2. tokens' \subseteq FlowIds(process) /\ left' \subseteq FlowIds(process) /\ ended' \in BOOLEAN
  BY <1>1 DEF Pass, TypeInv
<1>3. QED BY <1>2, TypedWriteStep DEF Dump

LEMMA TypedHookStep ==
  ASSUME TypeInv, LawInv', NEW f \in WiredFlows(process, hooks), EvaluateHook(f)
  PROVE  TypeInv'
<1>1. f.id \in hooks /\ HookNode(f.id) \in frontier
  BY DEF WiredFlows, EvaluateHook, Ready
<1>2. PICK answer \in scenario.answers[f.id] \union {Continue} :
        LET d == Permit(answer)
            s == Updated(d)
        IN  \/ HookContinue(f, d, s) \/ HookTerminate(f, d, s)
            \/ HookSkipNode(f, d, s) \/ HookSkipTo(f, d, s)
            \/ HookSwapNodes(f, d, s)
            \/ HookRemoveNode(f, d, s) \/ HookAddNode(f, d, s)
  BY DEF EvaluateHook
<1> DEFINE d == Permit(answer)
           s == Updated(d)
<1>3. s.results = state.results /\ s.mods = state.mods /\ IsState(s)
  BY DEF Updated, TypeInv, LawInv, Lawful, IsState
<1>4. TypedState(s)
  BY <1>3 DEF TypeInv, TypedState
<1> HIDE DEF d, s
<1>5. ASSUME NEW type \in Actions, NEW node
      PROVE  TypedState(Record(s, type, node))
             /\ IsState(Record(s, type, node))
  BY <1>3, <1>4 DEF TypedState, Record, IsState
<1>6. {"skip_to", "swap_nodes", "remove_node", "add_node"} \subseteq Actions
  BY DEF Actions
<1>7. CASE HookContinue(f, d, s)
  BY <1>1, <1>4, <1>7, TypedDumpStep DEF HookContinue, Proceed
<1>8. CASE HookTerminate(f, d, s)
  <2> DEFINE r == [s EXCEPT !.halted = TRUE]
  <2>1. TypedState(r)
    BY <1>3, <1>4 DEF TypedState, IsState
  <2> HIDE DEF r
  <2>2. QED BY <1>1, <1>8, <2>1, TypedDumpStep DEF HookTerminate, Divert, r
<1>9. CASE HookSkipNode(f, d, s)
  <2> DEFINE r == [s EXCEPT !.vars = Updating(s.vars, Just(Skip, TRUE))]
  <2>1. TypedState(r)
    BY <1>3, <1>4 DEF TypedState, IsState, Updating, Just
  <2> HIDE DEF r
  <2>2. QED BY <1>1, <1>9, <2>1, TypedDumpStep DEF HookSkipNode, Proceed, r
<1>10. CASE HookSkipTo(f, d, s)
  BY <1>1, <1>5, <1>6, <1>10, TypedDumpStep DEF HookSkipTo, Divert
<1>11. CASE HookSwapNodes(f, d, s)
  <2>1. PICK goto : Divert(f, Record(s, "swap_nodes", goto), goto)
    BY <1>11 DEF HookSwapNodes
  <2>2. QED BY <1>1, <1>5, <1>6, <2>1, TypedDumpStep DEF Divert
<1>12. ASSUME NEW type \in Actions, NEW node, NEW before, NEW resume,
              RequestRebuild(f, s, type, node, before, resume)
       PROVE  TypeInv'
  <2> DEFINE spec == Just(RebuildSpec, [type |-> type, node |-> node, before |-> before])
             mark == IF resume = NoNode THEN Empty ELSE Just(Resume, resume)
             r == [Record(s, type, node) EXCEPT !.vars = Updating(Updating(s.vars, spec), mark)]
  <2>1. TypedState(r)
    BY <1>5, <1>12 DEF TypedState, RequestRebuild, IsState
  <2>2. Divert(f, r, END)
    BY <1>12 DEF RequestRebuild
  <2> HIDE DEF r
  <2>3. QED BY <1>1, <2>1, <2>2, TypedDumpStep DEF Divert
<1>13. CASE HookRemoveNode(f, d, s)
  <2>1. PICK resume : RequestRebuild(f, s, "remove_node", d.target, NoNode, resume)
    BY <1>13 DEF HookRemoveNode
  <2>2. QED BY <1>6, <1>12, <2>1
<1>14. CASE HookAddNode(f, d, s)
  <2>1. RequestRebuild(f, s, "add_node", d.target, Target(process, f), d.target)
    BY <1>14 DEF HookAddNode
  <2>2. QED BY <1>6, <1>12, <2>1
<1>15. QED BY <1>2, <1>7, <1>8, <1>9, <1>10, <1>11, <1>13, <1>14 DEF d, s

LEMMA TypedRebuildStep ==
  ASSUME TypeInv, LawInv', Rebuild
  PROVE  TypeInv'
<1> DEFINE spec == state.vars[RebuildSpec]
           known == Restrict(state.vars, DOMAIN state.vars \ {RebuildSpec})
<1>1. WellFormed(process')
  BY RemoveNodeFact, AddNodeFact DEF Rebuild, TypeInv
<1>2. rebuilds' \in 0..MaxRebuilds
  BY BoundsAssumption DEF Rebuild, TypeInv
<1>3. state' = [state EXCEPT !.vars = known] /\ next' = state'
  BY DEF Rebuild
<1>4. IsState(state)
  BY DEF TypeInv, LawInv, Lawful
<1> HIDE DEF known
<1>5. state'.results = state.results /\ state'.mods = state.mods /\ state'.vars = known
  BY <1>3, <1>4 DEF IsState
<1>6. TypedState(state)' /\ TypedState(next)'
  BY <1>3, <1>5 DEF TypeInv, TypedState
<1>7. /\ frontier' = {} /\ done' = {} /\ left' = {} /\ tokens' = {} /\ steps' = steps
      /\ ended' = ended /\ phase' = "building"
  BY DEF Rebuild, GraphDone, TypeInv
<1>8. QED BY <1>1, <1>2, <1>6, <1>7 DEF TypeInv

LEMMA TypedAdvanceStep ==
  ASSUME TypeInv, LawInv', Advance
  PROVE  TypeInv'
<1>1. CASE Crash
  BY <1>1, TypedCrashStep
<1>2. CASE ~ Crash
  <2>1. /\ state' = next /\ frontier' = NextFrontier /\ done' = {} /\ left' = {}
        /\ tokens' = tokens \union left /\ next' = next /\ process' = process
        /\ scenario' = scenario /\ rebuilds' = rebuilds /\ phase' = phase /\ ended' = ended
        /\ steps' = IF NextFrontier = {} THEN steps ELSE steps + 1
        /\ ~ (NextFrontier # {} /\ steps = RecursionLimit) /\ phase = "running"
    BY <1>2 DEF Advance, model
  <2>2. steps' \in 0..RecursionLimit
    BY <2>1, BoundsAssumption DEF TypeInv
  <2>3. NextFrontier \subseteq GraphNodes(process, hooks) /\ hooks' = hooks
    BY <2>1 DEF NextFrontier, hooks
  <2>4. TypedState(state)' /\ TypedState(next)'
    BY <2>1 DEF TypeInv, TypedState
  <2>5. QED BY <2>1, <2>2, <2>3, <2>4 DEF TypeInv
<1>3. QED BY <1>1, <1>2

LEMMA TypedBuildStep ==
  ASSUME TypeInv, LawInv', Build
  PROVE  TypeInv'
<1> DEFINE resume == Lookup(state.vars, Resume, NoNode)
<1>1. CASE Crash
  BY <1>1, TypedCrashStep
<1>2. CASE ~ Crash
  <2>1. /\ Compiles(process, hooks, resume) /\ phase' = "running"
        /\ frontier' = {StartNode(process, hooks, resume)} /\ steps' = 0
        /\ UNCHANGED <<model, state, done, next, targets, rebuilds, history>>
    BY <1>2 DEF Build
  <2>2. frontier' \subseteq GraphNodes(process, hooks)
    BY <2>1 DEF Compiles
  <2>3. /\ scenario' = scenario /\ process' = process /\ state' = state /\ next' = next
        /\ done' = done /\ rebuilds' = rebuilds /\ tokens' = tokens /\ left' = left
        /\ ended' = ended /\ hooks' = hooks
    BY <2>1 DEF model, history, hooks
  <2>4. 0 \in 0..RecursionLimit
    BY BoundsAssumption
  <2>5. done' \subseteq frontier'
    BY <2>3 DEF Build, TypeInv
  <2>6. QED BY <2>1, <2>2, <2>3, <2>4, <2>5 DEF TypeInv, TypedState
<1>3. QED BY <1>1, <1>2

LEMMA TypeStep == TypeInv /\ LawInv' /\ [Next]_vars => TypeInv'
<1> SUFFICES ASSUME TypeInv, LawInv', [Next]_vars PROVE TypeInv'
  OBVIOUS
<1>1. CASE Build
  BY <1>1, TypedBuildStep
<1>2. CASE NodeStep
  BY <1>2, TypedElementStep, TypedHookStep DEF NodeStep
<1>3. CASE Advance
  BY <1>3, TypedAdvanceStep
<1>4. CASE Finish
  BY <1>4 DEF Finish, TypeInv, model, superstep, counters, history, TypedState, hooks
<1>5. CASE Rebuild
  BY <1>5, TypedRebuildStep
<1>6. CASE UNCHANGED vars
  BY <1>6 DEF vars, TypeInv, model, superstep, counters, history, TypedState, hooks
<1>7. QED BY <1>1, <1>2, <1>3, <1>4, <1>5, <1>6 DEF Next

LEMMA TypeInvariance == Spec => []TypeInv
<1>1. TypeInv => LawInv
  BY DEF TypeInv
<1>2. QED BY <1>1, TypeInit, LawInit, LawStep, TypeStep, PTL DEF Spec

\* A run keeps to its types, in any process and through any rebuild: only nodes
\* of the graph that is compiled are ever scheduled, tokens lie on flows of the
\* process as it then is, and neither the supersteps nor the rebuilds exceed
\* their limits.
THEOREM EngineIsTyped == Spec => []TypeOK
<1>1. TypeInv => TypeOK
  BY DEF TypeInv, TypeOK, TypedState, LawInv, Lawful, WellFormed
<1>2. QED BY <1>1, TypeInvariance, PTL

-----------------------------------------------------------------------------
(* What every node does, whatever its kind *)

\* An element that runs reports no modification and halts nothing.
QuietWrite(w) == IsState(w) /\ w.mods = {} /\ w.halted = FALSE

LEMMA ElementShape ==
  ASSUME NEW n,
         \/ SkipTask(n) \/ AgenticTask(n) \/ ToolTask(n)
         \/ ExclusiveGateway(n) \/ ParallelGateway(n)
  PROVE  Crash \/ \E w : QuietWrite(w) /\ Run(n, w)
<1>1. ASSUME NEW result, NEW known, TaskDone(n, result, known)
      PROVE  \E w : QuietWrite(w) /\ Run(n, w)
  <2> DEFINE w == [NoWrite EXCEPT !.vars = known, !.results = Just(n, result)]
  <2>1. QuietWrite(w)
    BY DEF NoWrite, QuietWrite, IsState
  <2>2. Run(n, w)
    BY <1>1 DEF TaskDone
  <2>3. QED BY <2>1, <2>2
<1>2. ASSUME NEW f, Run(n, [NoWrite EXCEPT !.decisions = Just(n, f.id)])
      PROVE  \E w : QuietWrite(w) /\ Run(n, w)
  <2>1. QuietWrite([NoWrite EXCEPT !.decisions = Just(n, f.id)])
    BY DEF NoWrite, QuietWrite, IsState
  <2>2. QED BY <1>2, <2>1
<1>3. QuietWrite(NoWrite)
  BY DEF NoWrite, QuietWrite, IsState
<1>4. CASE SkipTask(n)
  BY <1>1, <1>4 DEF SkipTask
<1>5. CASE AgenticTask(n)
  BY <1>1, <1>5 DEF AgenticTask
<1>6. CASE ToolTask(n)
  BY <1>1, <1>6 DEF ToolTask
<1>7. CASE ExclusiveGateway(n)
  BY <1>2, <1>3, <1>7 DEF ExclusiveGateway
<1>8. CASE ParallelGateway(n)
  BY <1>3, <1>8 DEF ParallelGateway
<1>9. QED BY <1>4, <1>5, <1>6, <1>7, <1>8

\* A hook writes the path and the results back that it has read.
LEMMA HookShape ==
  ASSUME LawInv, NEW f \in WiredFlows(process, hooks), EvaluateHook(f)
  PROVE  \E w, goto : /\ Dump(f, w, goto) /\ IsState(w)
                      /\ w.path = state.path /\ w.results = state.results
                      /\ state.mods \subseteq w.mods
<1>1. PICK answer :
        LET d == Permit(answer)
            s == Updated(d)
        IN  \/ HookContinue(f, d, s) \/ HookTerminate(f, d, s)
            \/ HookSkipNode(f, d, s) \/ HookSkipTo(f, d, s)
            \/ HookSwapNodes(f, d, s)
            \/ HookRemoveNode(f, d, s) \/ HookAddNode(f, d, s)
  BY DEF EvaluateHook
<1> DEFINE d == Permit(answer)
           s == Updated(d)
           Like(w) == /\ IsState(w) /\ w.path = state.path /\ w.results = state.results
                      /\ state.mods \subseteq w.mods
<1>2. Like(s)
  BY DEF Updated, LawInv, Lawful, IsState
<1> HIDE DEF d, s
<1>3. ASSUME NEW w, Like(w), NEW known
      PROVE  Like([w EXCEPT !.vars = known]) /\ Like([w EXCEPT !.halted = TRUE])
  BY <1>3 DEF IsState
<1>4. ASSUME NEW type, NEW node
      PROVE  Like(Record(s, type, node))
  BY <1>2 DEF Record, IsState
<1>5. CASE HookContinue(f, d, s)
  BY <1>2, <1>5 DEF HookContinue, Proceed
<1>6. CASE HookTerminate(f, d, s)
  BY <1>2, <1>3, <1>6 DEF HookTerminate, Divert
<1>7. CASE HookSkipNode(f, d, s)
  BY <1>2, <1>3, <1>7 DEF HookSkipNode, Proceed
<1>8. CASE HookSkipTo(f, d, s)
  BY <1>4, <1>8 DEF HookSkipTo, Divert
<1>9. CASE HookSwapNodes(f, d, s)
  BY <1>4, <1>9 DEF HookSwapNodes, Divert
<1>10. ASSUME NEW type, NEW node, NEW before, NEW resume,
              RequestRebuild(f, s, type, node, before, resume)
       PROVE  \E w, goto : Dump(f, w, goto) /\ Like(w)
  <2>1. PICK known : Dump(f, [Record(s, type, node) EXCEPT !.vars = known], END)
    BY <1>10 DEF RequestRebuild, Divert
  <2>2. Like([Record(s, type, node) EXCEPT !.vars = known])
    BY <1>3, <1>4
  <2>3. QED BY <2>1, <2>2
<1>11. CASE HookRemoveNode(f, d, s)
  BY <1>10, <1>11 DEF HookRemoveNode
<1>12. CASE HookAddNode(f, d, s)
  BY <1>10, <1>12 DEF HookAddNode
<1>13. QED BY <1>1, <1>5, <1>6, <1>7, <1>8, <1>9, <1>11, <1>12 DEF d, s

-----------------------------------------------------------------------------
(* The path reported and the trace are sequences: nodes and hooks only add  *)
(* to them.                                                                 *)

IsSeq(s) == s \in Seq(ToSet(s))

LEMMA ConcatFact ==
  ASSUME NEW s, NEW t, IsSeq(s), IsSeq(t)
  PROVE  IsSeq(s \o t)
<1> DEFINE S == ToSet(s) \union ToSet(t)
<1>1. s \in Seq(S) /\ t \in Seq(S)
  BY DEF IsSeq
<1>2. s \o t \in Seq(S) /\ Len(s \o t) = Len(s) + Len(t)
  BY <1>1
<1>3. ToSet(s \o t) = S
  <2>1. ASSUME NEW i \in 1..Len(s) PROVE s[i] \in ToSet(s \o t)
    <3>1. i \in 1..Len(s \o t) /\ (s \o t)[i] = s[i]
      BY <1>1, <1>2, <2>1
    <3>2. QED BY <1>2, <3>1 DEF ToSet
  <2>2. ASSUME NEW i \in 1..Len(t) PROVE t[i] \in ToSet(s \o t)
    <3>1. Len(s) + i \in 1..Len(s \o t) /\ (s \o t)[Len(s) + i] = t[i]
      BY <1>1, <1>2, <2>2
    <3>2. QED BY <1>2, <3>1 DEF ToSet
  <2>3. S \subseteq ToSet(s \o t)
    <3>1. DOMAIN s = 1..Len(s) /\ DOMAIN t = 1..Len(t)
      BY <1>1
    <3>2. ToSet(s) \subseteq ToSet(s \o t)
      <4>1. \A x \in ToSet(s) : \E i \in 1..Len(s) : x = s[i]
        BY <3>1 DEF ToSet
      <4>2. QED BY <2>1, <4>1
    <3>3. ToSet(t) \subseteq ToSet(s \o t)
      <4>1. \A x \in ToSet(t) : \E i \in 1..Len(t) : x = t[i]
        BY <3>1 DEF ToSet
      <4>2. QED BY <2>2, <4>1
    <3>4. QED BY <3>2, <3>3
  <2>4. ToSet(s \o t) \subseteq S
    BY <1>2 DEF ToSet
  <2>5. QED BY <2>3, <2>4
<1>4. QED BY <1>2, <1>3 DEF IsSeq

LEMMA SingletonFact ==
  ASSUME NEW n
  PROVE  IsSeq(<<n>>)
BY DEF IsSeq, ToSet

PathInv == IsSeq(state.path) /\ IsSeq(next.path) /\ IsSeq(trace)

LEMMA PathInit == Init => PathInv
BY DEF Init, PathInv, IsSeq, ToSet

\* What a node writes to the path, and to the trace.
LEMMA ElementPath ==
  ASSUME NEW n, NEW w, QuietWrite(w), Run(n, w)
  PROVE  /\ next'.path = next.path \o <<n>> /\ trace' = Append(trace, n)
         /\ state' = state /\ frontier' = frontier /\ done' = done \union {n}
<1> DEFINE v == [w EXCEPT !.path = <<n>>]
<1>1. v.path = <<n>>
  BY DEF QuietWrite, IsState
<1>2. /\ next' = Merge(next, v) /\ state' = state /\ frontier' = frontier
      /\ trace' = Append(trace, n) /\ done' = done \union {n}
  BY DEF Run, Write
<1> HIDE DEF v
<1>3. QED BY <1>1, <1>2 DEF Merge

LEMMA HookPath ==
  ASSUME NEW f, NEW w, NEW goto, Dump(f, w, goto), w.path = state.path
  PROVE  /\ next'.path = next.path \o state.path /\ trace' = trace
         /\ state' = state /\ frontier' = frontier /\ done' = done \union {HookNode(f.id)}
BY DEF Dump, Write, Merge

LEMMA PathElementStep ==
  ASSUME PathInv, NEW n, NEW w, QuietWrite(w), Run(n, w)
  PROVE  PathInv'
<1>1. /\ next'.path = next.path \o <<n>> /\ trace' = Append(trace, n)
      /\ state' = state
  BY ElementPath
<1>2. trace' = trace \o <<n>>
  BY <1>1 DEF PathInv, IsSeq
<1>3. IsSeq(next.path \o <<n>>) /\ IsSeq(trace \o <<n>>)
  BY ConcatFact, SingletonFact DEF PathInv
<1>4. QED BY <1>1, <1>2, <1>3 DEF PathInv

LEMMA PathHookStep ==
  ASSUME LawInv, PathInv, NEW f \in WiredFlows(process, hooks), EvaluateHook(f)
  PROVE  PathInv'
<1>1. PICK w, goto : Dump(f, w, goto) /\ w.path = state.path
  BY HookShape
<1>2. next'.path = next.path \o state.path /\ trace' = trace /\ state' = state
  BY <1>1, HookPath
<1>3. IsSeq(next.path \o state.path)
  BY ConcatFact DEF PathInv
<1>4. QED BY <1>2, <1>3 DEF PathInv

LEMMA PathStep == LawInv /\ PathInv /\ [Next]_vars => PathInv'
<1> SUFFICES ASSUME LawInv, PathInv, [Next]_vars PROVE PathInv'
  OBVIOUS
<1> USE DEF PathInv
<1>1. ASSUME UNCHANGED <<state, next, trace>>
      PROVE  PathInv'
  BY <1>1 DEF IsSeq, ToSet
<1>2. CASE Crash
  BY <1>1, <1>2 DEF Crash, superstep, history
<1>3. CASE Build
  <2>1. CASE ~ Crash
    BY <1>3, <2>1 DEF Build, history, IsSeq, ToSet
  <2>2. QED BY <1>2, <2>1
<1>4. CASE NodeStep
  <2>1. ASSUME NEW n \in frontier,
               \/ SkipTask(n) \/ AgenticTask(n) \/ ToolTask(n)
               \/ ExclusiveGateway(n) \/ ParallelGateway(n)
        PROVE  PathInv'
    BY <1>2, <2>1, ElementShape, PathElementStep
  <2>2. QED BY <1>4, <2>1, PathHookStep DEF NodeStep
<1>5. CASE Advance
  <2>1. CASE ~ Crash
    <3>1. state' = next /\ next' = next /\ trace' = trace
      BY <1>5, <2>1 DEF Advance
    <3>2. QED BY <3>1 DEF IsSeq, ToSet
  <2>2. QED BY <1>2, <2>1
<1>6. CASE Finish
  BY <1>1, <1>6 DEF Finish, superstep, history
<1>7. CASE Rebuild
  <2> DEFINE known == Restrict(state.vars, DOMAIN state.vars \ {RebuildSpec})
  <2>1. state' = [state EXCEPT !.vars = known] /\ next' = state' /\ trace' = trace
    BY <1>7 DEF Rebuild
  <2> HIDE DEF known
  <2>2. state'.path = state.path
    BY <2>1 DEF LawInv, Lawful, IsState
  <2>3. QED BY <2>1, <2>2
<1>8. CASE UNCHANGED vars
  BY <1>1, <1>8 DEF vars, superstep, history
<1>9. QED BY <1>3, <1>4, <1>5, <1>6, <1>7, <1>8 DEF Next

================================================================================
