---------------------------- MODULE KogitoProofs ----------------------------
(***************************************************************************)
(* What KogitoService promises, for every process of its shape, every      *)
(* configuration of the control points and every number of instances.      *)
(*                                                                         *)
(* None of the properties is inductive: what one of them says of a moment  *)
(* was settled calls before, and in the meantime the instance and the      *)
(* FlowAgent each hold a part of it.  Most of the invariant is therefore   *)
(* about one instance (Sound): where its call stands, for which node, and  *)
(* what it has decided, halted and reported by then.  The rest (Shared) is *)
(* about the remote agents, which all the instances use.  The last section *)
(* carries what ConditionsProofs says of one comparison through the calls  *)
(* of all instances.                                                       *)
(***************************************************************************)
EXTENDS KogitoService, ConditionsProofs, FiniteSetTheorems

Kind(i) == Config[Current(i)].kind

\* A call is for the control point its instance is at, and only a remote agent is consulted.
Calling(i) ==
    /\ phase[i] # "idle" =>
         /\ status[i] \in {"running", "failed"}
         /\ todo[i] # <<>>
         /\ Current(i) \in Points
         /\ Kind(i) = "complete" => phase[i] \in {"arrived", "answered"}
    /\ phase[i] \in {"resolving", "fetching", "posting"} => Config[Current(i)].remote \in Remotes

\* An instance has one token while it runs.
Moving(i) ==
    /\ Len(todo[i]) <= 1
    /\ status[i] = "new" =>
         todo[i] = <<>> /\ terminated[i] = NoHalt /\ reports[i] = <<>>
    /\ status[i] = "ended" => todo[i] = <<>>

\* The answer of a gateway is the decision until the thread has taken it over, and nothing else
\* is written over it.
Deciding(i) ==
    OwnVariablesKept /\ status[i] # "failed" =>
        IF phase[i] = "answered" /\ Kind(i) = "gateway"
        THEN reply[i].flow = decided[i]
        ELSE choice[i] = decided[i]

AtEnd(i) == todo[i] = <<>> \/ Current(i) \in EndEvents

HaltIsKnown(i) == halt[i] # "" <=> terminated[i] # NoHalt

\* A hook that terminates gives its reason.
Explaining(i) == Explained /\ reply[i].action = "terminate" => reply[i].reason # ""

\* After TERMINATE only the completion is left, and after the report nothing.
Halting(i) ==
    /\ OwnVariablesKept /\ Explained => HaltIsKnown(i)
    /\ terminated[i] # NoHalt /\ status[i] # "failed" => AtEnd(i) \/ IsCompletion(Current(i))

Skipped(i) == \E k \in DOMAIN jumps[i] : jumps[i][k] \in EndEvents

Agreeing(i) ==
    OwnVariablesKept /\ Explained =>
        \A k \in DOMAIN reports[i] : reports[i][k].halted <=> terminated[i] # NoHalt

Reporting(i) ==
    /\ Len(reports[i]) <= 1
    /\ Agreeing(i)
    /\ reports[i] # <<>> /\ status[i] # "failed" =>
         AtEnd(i) \/ (IsCompletion(Current(i)) /\ phase[i] = "answered")
    /\ status[i] \in {"running", "ended"} =>
         /\ AtEnd(i) => reports[i] # <<>> \/ Skipped(i)
         /\ todo[i] # <<>> /\ IsCompletion(Current(i)) /\ phase[i] = "answered" => reports[i] # <<>>

Sound(i) ==
    Calling(i) /\ Moving(i) /\ Deciding(i) /\ Explaining(i) /\ Halting(i) /\ Reporting(i)

Inv == TypeOK /\ \A i \in Instances : Sound(i)
-----------------------------------------------------------------------------
(* Lemmas about the operators *)

LEMMA Configured == \A p \in Points : Config[p] \in PointConfig
  BY PointsAreConfigured

\* A value that is written back is a text.
LEMMA CoerceIsText == ASSUME NEW a \in Texts, NEW b PROVE Coerce(a, b) \in Texts
  BY PointsAreConfigured DEF Coerce

LEMMA FirstFlowIsFlow == ASSUME NEW p \in Points PROVE FirstFlow(p) \in FlowIds \cup {NoFlow}
<1>1. Config[p].flows \in Seq(FlowIds)
  BY Configured DEF PointConfig
<1>2. CASE Config[p].flows = <<>>
  BY <1>2 DEF FirstFlow
<1>3. CASE Config[p].flows # <<>>
  BY <1>1, <1>3 DEF FirstFlow
<1>4. QED BY <1>2, <1>3

LEMMA NodeFlow ==
  ASSUME NEW p \in Points, NEW k \in DOMAIN Config[p].flows
  PROVE  Config[p].flows[k] \in FlowIds
<1>1. Config[p].flows \in Seq(FlowIds)
  BY Configured DEF PointConfig
<1>2. QED BY <1>1

LEMMA OutcomesAreValues ==
  ASSUME NEW p \in Points, NEW ctx \in Values, NEW out \in TaskOutcomes(p, ctx)
  PROVE  out \in Values
  BY DEF TaskOutcomes, Written, Values

LEMMA UpdatedIsValue ==
  ASSUME NEW ctx \in Values, NEW d \in HookDecisions
  PROVE  Updated(ctx, d) \in Values
<1>1. d.value \in Texts
  BY PointsAreConfigured DEF HookDecision
<1>2. QED BY <1>1 DEF Updated, Values

LEMMA PlainlyIsReply == ASSUME NEW ctx \in Values PROVE Plainly(ctx) \in Replies
  BY DEF Plainly, Replies, Reasons, Actions

\* A reply of each kind.
LEMMA RoutedIsReply ==
  ASSUME NEW ctx \in Values, NEW f \in FlowIds \cup {NoFlow}
  PROVE  /\ [Plainly(ctx) EXCEPT !.flow = f] \in Replies
         /\ [Plainly(ctx) EXCEPT !.flow = f].flow = f
  BY DEF Plainly, Replies, Reasons, Actions

LEMMA StaticIsReply ==
  ASSUME NEW ctx \in Values, NEW a \in Actions
  PROVE  [Plainly(ctx) EXCEPT !.action = a] \in Replies
  BY DEF Plainly, Replies, Reasons, Actions

LEMMA DecisionIsReply ==
  ASSUME NEW ctx \in Values, NEW d \in HookDecisions
  PROVE  [Plainly(Updated(ctx, d)) EXCEPT
            !.action = d.action, !.target = d.target, !.reason = d.reason] \in Replies
<1>1. Updated(ctx, d) \in Values
  BY UpdatedIsValue
<1>2. d.action \in Actions /\ d.target \in Targets \cup {NoNode} /\ d.reason \in Reasons
  BY PointsAreConfigured DEF HookDecision
<1>3. QED BY <1>1, <1>2 DEF Plainly, Replies

\* A thread with one token has one after a step to one node.
LEMMA OneStep ==
  ASSUME NEW s \in Seq(Nodes), s # <<>>, Len(s) <= 1, NEW n \in Nodes
  PROVE  /\ <<n>> \o Tail(s) = <<n>>
         /\ <<>> \o Tail(s) = <<>>
         /\ Len(s) = 1
<1>1. Len(s) = 1
  <2>1. Len(s) \in Nat \ {0}
    BY EmptySeq
  <2>2. QED BY <2>1
<1>2. Tail(s) = <<>>
  <2>1. Tail(s) \in Seq(Nodes) /\ Len(Tail(s)) = 0
    BY <1>1, HeadTailProperties
  <2>2. QED BY <2>1, EmptySeq
<1>3. <<n>> \in Seq(Nodes) /\ <<>> \in Seq(Nodes)
  BY EmptySeq
<1>4. QED BY <1>1, <1>2, <1>3, ConcatEmptySeq

-----------------------------------------------------------------------------
(* Type correctness *)

LEMMA RouteToKeepsTypes ==
  ASSUME CPTypeOK, NEW i \in Instances, NEW ctx \in Values, NEW f \in FlowIds \cup {NoFlow},
         RouteTo(i, ctx, f)
  PROVE  /\ phase' = [phase EXCEPT ![i] = "answered"]
         /\ phase' \in [Instances -> Phases]
         /\ reply' \in [Instances -> Replies]
         /\ reply'[i].flow = f
         /\ decided' \in [Instances -> FlowIds \cup {NoFlow}]
         /\ decided'[i] = f
<1> DEFINE r == [Plainly(ctx) EXCEPT !.flow = f]
<1>1. r \in Replies /\ r.flow = f
  BY RoutedIsReply
<1> HIDE DEF r
<1>2. phase' = [phase EXCEPT ![i] = "answered"] /\ reply' = [reply EXCEPT ![i] = r]
  BY DEF RouteTo, Answer, Goto, r
<1>3. QED BY <1>1, <1>2 DEF RouteTo, CPTypeOK, Phases

LEMMA AnswerKeepsTypes ==
  ASSUME CPTypeOK, NEW i \in Instances, NEW r \in Replies, Answer(i, r),
         UNCHANGED <<consulted, verdict, decided, agents>>
  PROVE  CPTypeOK'
  BY DEF CPTypeOK, Answer, Goto, Phases, agents

\* A step of the handler keeps the types of the FlowAgent.
LEMMA HandleKeepsTypes ==
  ASSUME CPTypeOK, NEW i \in Instances, NEW p \in Points, NEW ctx \in Values,
         phase[i] \in {"resolving", "fetching", "posting"} => Config[p].remote \in Remotes,
         Handle(i, p, ctx)
  PROVE  CPTypeOK'
<1> USE DEF agents
<1>1. CASE HandleTask(i, p, ctx)
  BY <1>1, PlainlyIsReply DEF HandleTask, CPTypeOK, Goto, Answer, Phases
<1>2. CASE FinishTask(i, p, ctx)
  BY <1>2, PlainlyIsReply, OutcomesAreValues, AnswerKeepsTypes DEF FinishTask
<1>3. CASE HandleGateway(i, p, ctx)
  <2>1. GatewayVerdict(p, ctx) \in {"none", "TRUE", "FALSE", "UNKNOWN"}
    BY DEF GatewayVerdict
  <2>2. FirstFlow(p) \in FlowIds \cup {NoFlow}
    BY FirstFlowIsFlow
  <2>3. CASE RouteTo(i, ctx, FirstFlow(p))
    <3>1. decisions' \in [Points -> FlowIds \cup {NoFlow}]
      BY <1>3, <2>2, <2>3 DEF HandleGateway, Remember, RouteTo, CPTypeOK
    <3>2. QED BY <1>3, <2>2, <2>3, <3>1, RouteToKeepsTypes DEF HandleGateway, CPTypeOK, RouteTo, Answer, Goto, Phases
  <2>4. CASE ~ RouteTo(i, ctx, FirstFlow(p))
    BY <1>3, <2>1, <2>4 DEF HandleGateway, CPTypeOK, Goto, Answer, Phases, handlers
  <2>5. QED BY <2>3, <2>4
<1>4. CASE Decide(i, p, ctx)
  <2>1. PICK k \in DOMAIN Config[p].flows :
          RouteTo(i, ctx, Config[p].flows[k]) /\ Remember(p, Config[p].flows[k])
    BY <1>4 DEF Decide
  <2>2. Config[p].flows[k] \in FlowIds
    BY NodeFlow
  <2>3. decisions' \in [Points -> FlowIds \cup {NoFlow}]
    BY <2>1, <2>2 DEF Remember, CPTypeOK
  <2>4. QED BY <1>4, <2>1, <2>2, <2>3, RouteToKeepsTypes DEF Decide, CPTypeOK
<1>5. CASE HandleHook(i, p, ctx)
  <2>1. HookVerdict(p, ctx) \in {"none", "TRUE", "FALSE"}
    BY DEF HookVerdict
  <2>2. Config[p].action \in Actions
    BY Configured DEF PointConfig
  <2>3. QED BY <1>5, <2>1, <2>2, PlainlyIsReply, StaticIsReply DEF HandleHook, CPTypeOK, Goto, Answer, Phases
<1>6. CASE DecideHook(i, p, ctx)
  <2>1. CASE Answer(i, Plainly(ctx))
    BY <1>6, <2>1, PlainlyIsReply, AnswerKeepsTypes DEF DecideHook
  <2>2. ASSUME NEW d \in HookDecisions,
               Answer(i, [Plainly(Updated(ctx, d)) EXCEPT
                            !.action = d.action, !.target = d.target, !.reason = d.reason])
        PROVE  CPTypeOK'
    <3> DEFINE r == [Plainly(Updated(ctx, d)) EXCEPT
                       !.action = d.action, !.target = d.target, !.reason = d.reason]
    <3>1. r \in Replies
      BY DecisionIsReply
    <3>2. Answer(i, r) /\ UNCHANGED <<consulted, verdict, decided, agents>>
      BY <1>6, <2>2 DEF DecideHook
    <3> HIDE DEF r
    <3>3. QED BY <3>1, <3>2, AnswerKeepsTypes
  <2>3. QED BY <1>6, <2>1, <2>2 DEF DecideHook
<1>7. CASE Consult(i, p)
  BY <1>7 DEF Consult, CPTypeOK, Goto, Answer, Phases
<1>8. CASE Resolve(i, p)
  BY <1>8 DEF Resolve, Post, ContextOf, CPTypeOK, Goto, Answer, Phases
<1>9. CASE CardFetched(i, p)
  BY <1>9 DEF CardFetched, Post, ContextOf, Cached, CPTypeOK, Goto, Answer, Phases
<1>10. CASE RemoteAnswers(i, p, ctx)
  <2>1. CASE \E out \in TaskOutcomes(p, ctx) : Answer(i, Plainly(out))
    BY <1>10, <2>1, PlainlyIsReply, OutcomesAreValues, AnswerKeepsTypes DEF RemoteAnswers
  <2>2. CASE Goto(i, "thinking") /\ UNCHANGED reply
    BY <1>10, <2>2 DEF RemoteAnswers, CPTypeOK, Goto, Phases
  <2>3. QED BY <1>10, <2>1, <2>2 DEF RemoteAnswers
<1>11. CASE RemoteFails(i, p, ctx)
  BY <1>11, PlainlyIsReply DEF RemoteFails, CPTypeOK, Goto, Answer, Phases
<1>12. QED
  BY <1>1, <1>2, <1>3, <1>4, <1>5, <1>6, <1>7, <1>8, <1>9, <1>10, <1>11 DEF Handle

-----------------------------------------------------------------------------
(* What a step of the handler does for its call *)

\* Nothing to the calls of other instances.
LEMMA HandleOthers ==
  ASSUME CPTypeOK, NEW i \in Instances, NEW p \in Points, NEW ctx \in Values,
         Handle(i, p, ctx), NEW j \in Instances, j # i
  PROVE  phase'[j] = phase[j] /\ reply'[j] = reply[j] /\ decided'[j] = decided[j]
<1> USE DEF CPTypeOK, Goto, Answer, agents, RouteTo
<1>1. CASE HandleTask(i, p, ctx)
  BY <1>1 DEF HandleTask
<1>2. CASE FinishTask(i, p, ctx)
  BY <1>2 DEF FinishTask
<1>3. CASE HandleGateway(i, p, ctx)
  BY <1>3 DEF HandleGateway
<1>4. CASE Decide(i, p, ctx)
  BY <1>4 DEF Decide
<1>5. CASE HandleHook(i, p, ctx)
  BY <1>5 DEF HandleHook
<1>6. CASE DecideHook(i, p, ctx)
  BY <1>6 DEF DecideHook
<1>7. CASE Consult(i, p)
  BY <1>7 DEF Consult
<1>8. CASE Resolve(i, p)
  BY <1>8 DEF Resolve, Post
<1>9. CASE CardFetched(i, p)
  BY <1>9 DEF CardFetched, Post
<1>10. CASE RemoteAnswers(i, p, ctx)
  BY <1>10 DEF RemoteAnswers
<1>11. CASE RemoteFails(i, p, ctx)
  BY <1>11 DEF RemoteFails
<1>12. QED
  BY <1>1, <1>2, <1>3, <1>4, <1>5, <1>6, <1>7, <1>8, <1>9, <1>10, <1>11 DEF Handle

Decides(i, p) == phase'[i] = "answered" /\ Config[p].kind = "gateway"

Effect(i, p) ==
  /\ phase[i] \notin {"idle", "answered"} /\ phase'[i] # "idle"
  /\ phase[i] = "arrived" => Config[p].kind # "complete"
  /\ phase'[i] \in {"resolving", "fetching", "posting"} => Config[p].remote \in Remotes
  /\ IF Decides(i, p) THEN reply'[i].flow = decided'[i] ELSE decided'[i] = decided[i]

\* It goes on with the call, and answers a gateway with the flow that it decides.
LEMMA HandleEffect ==
  ASSUME CPTypeOK, NEW i \in Instances, NEW p \in Points, NEW ctx \in Values,
         phase[i] \in {"resolving", "fetching", "posting"} => Config[p].remote \in Remotes,
         Config[p].kind = "complete" => phase[i] \in {"arrived", "answered"},
         Handle(i, p, ctx)
  PROVE  Effect(i, p)
<1> USE DEF CPTypeOK, Goto, Answer, agents, Effect, Decides
<1>0. Config[p].remote \in Remotes \cup {NoRemote}
  BY Configured DEF PointConfig
<1>1. CASE HandleTask(i, p, ctx)
  BY <1>0, <1>1 DEF HandleTask
<1>2. CASE FinishTask(i, p, ctx)
  BY <1>2 DEF FinishTask
<1>3. CASE HandleGateway(i, p, ctx)
  <2>1. FirstFlow(p) \in FlowIds \cup {NoFlow}
    BY FirstFlowIsFlow
  <2>2. CASE RouteTo(i, ctx, FirstFlow(p))
    BY <1>3, <2>1, <2>2, RouteToKeepsTypes DEF HandleGateway
  <2>3. CASE ~ RouteTo(i, ctx, FirstFlow(p))
    BY <1>3, <2>3 DEF HandleGateway
  <2>4. QED BY <2>2, <2>3
<1>4. CASE Decide(i, p, ctx)
  <2>1. PICK k \in DOMAIN Config[p].flows : RouteTo(i, ctx, Config[p].flows[k])
    BY <1>4 DEF Decide
  <2>2. Config[p].flows[k] \in FlowIds
    BY NodeFlow
  <2>3. QED BY <1>4, <2>1, <2>2, RouteToKeepsTypes DEF Decide
<1>5. CASE HandleHook(i, p, ctx)
  BY <1>5 DEF HandleHook
<1>6. CASE DecideHook(i, p, ctx)
  BY <1>6 DEF DecideHook
<1>7. CASE Consult(i, p)
  BY <1>0, <1>7 DEF Consult
<1>8. CASE Resolve(i, p)
  BY <1>8 DEF Resolve, Post
<1>9. CASE CardFetched(i, p)
  BY <1>9 DEF CardFetched, Post
<1>10. CASE RemoteAnswers(i, p, ctx)
  BY <1>10 DEF RemoteAnswers
<1>11. CASE RemoteFails(i, p, ctx)
  BY <1>11 DEF RemoteFails
<1>12. QED
  BY <1>1, <1>2, <1>3, <1>4, <1>5, <1>6, <1>7, <1>8, <1>9, <1>10, <1>11 DEF Handle

-----------------------------------------------------------------------------
(* Where the thread goes *)

LEMMA GoOnToNode ==
  ASSUME TypeOK, NEW i \in Instances, todo[i] # <<>>, Len(todo[i]) <= 1,
         NEW n \in Nodes, GoOn(i, <<n>>)
  PROVE  todo' = [todo EXCEPT ![i] = <<n>>] /\ todo' \in [Instances -> Seq(Nodes)]
<1>1. todo[i] \in Seq(Nodes) /\ <<n>> \in Seq(Nodes)
  BY DEF TypeOK
<1>2. <<n>> \o Tail(todo[i]) = <<n>>
  BY <1>1, OneStep
<1>3. QED BY <1>1, <1>2 DEF GoOn, TypeOK

LEMMA SuccessorIsNode ==
  ASSUME NEW n \in Points
  PROVE  /\ n \in DOMAIN Successor /\ Successor[n] \in Nodes
         /\ Successor[n] \in EndEvents <=> IsCompletion(n)
<1>1. n \in Nodes \ (DOMAIN Branches \cup EndEvents)
  BY ProcessIsWellFormed
<1>2. n \in DOMAIN Successor /\ Successor[n] \in Nodes
  BY <1>1, ProcessIsWellFormed
<1>3. QED BY <1>2, CompletionIsTheEnd

LEMMA FollowToSuccessor ==
  ASSUME TypeOK, NEW i \in Instances, AtPoint(i), Len(todo[i]) <= 1, Follow(i)
  PROVE  /\ todo' = [todo EXCEPT ![i] = <<Successor[Current(i)]>>]
         /\ todo' \in [Instances -> Seq(Nodes)]
  BY GoOnToNode, SuccessorIsNode DEF AtPoint, Running, Follow

\* The three ways out of FlowRedirect.to.
LEMMA ToEffect ==
  ASSUME TypeOK, NEW i \in Instances, AtPoint(i), Len(todo[i]) <= 1, NEW target, To(i, target)
  PROVE  \/ /\ target = NoNode
            /\ todo' = [todo EXCEPT ![i] = <<Successor[Current(i)]>>]
            /\ UNCHANGED <<status, jumps>>
         \/ /\ target \notin Nodes \cup {NoNode}
            /\ status' = [status EXCEPT ![i] = "failed"]
            /\ UNCHANGED <<todo, jumps>>
         \/ /\ target \in Nodes
            /\ todo' = [todo EXCEPT ![i] = <<target>>]
            /\ jumps' = [jumps EXCEPT ![i] = Append(@, target)]
            /\ UNCHANGED status
<1>1. CASE target = NoNode
  BY <1>1, FollowToSuccessor, ProcessIsWellFormed DEF To
<1>2. CASE target \notin Nodes \cup {NoNode}
  BY <1>2 DEF To, Fail
<1>3. CASE target \in Nodes
  <2>1. target # NoNode
    BY <1>3, ProcessIsWellFormed
  <2>2. GoOn(i, <<target>>)
    BY <1>3, <2>1 DEF To, Resumption
  <2>3. todo' = [todo EXCEPT ![i] = <<target>>]
    BY <1>3, <2>2, GoOnToNode DEF AtPoint, Running
  <2>4. QED BY <1>3, <2>1, <2>3 DEF To
<1>4. QED BY <1>1, <1>2, <1>3

LEMMA ToKeepsTypes ==
  ASSUME TypeOK, NEW i \in Instances, AtPoint(i), Len(todo[i]) <= 1, NEW target, To(i, target)
  PROVE  /\ status' \in [Instances -> {"new", "running", "ended", "failed"}]
         /\ todo' \in [Instances -> Seq(Nodes)]
         /\ jumps' \in [Instances -> Seq(Nodes)]
<1>1. Successor[Current(i)] \in Nodes
  BY SuccessorIsNode DEF AtPoint
<1>2. todo \in [Instances -> Seq(Nodes)] /\ jumps \in [Instances -> Seq(Nodes)]
      /\ status \in [Instances -> {"new", "running", "ended", "failed"}]
  BY DEF TypeOK
<1>3. CASE target = NoNode
  <2>1. target \notin Nodes
    BY <1>3, ProcessIsWellFormed
  <2>2. todo' = [todo EXCEPT ![i] = <<Successor[Current(i)]>>] /\ UNCHANGED <<status, jumps>>
    BY <1>3, <2>1, ToEffect
  <2>3. QED BY <1>1, <1>2, <2>2
<1>4. CASE target \notin Nodes \cup {NoNode}
  BY <1>2, <1>4, ToEffect
<1>5. CASE target \in Nodes
  <2>1. target # NoNode
    BY <1>5, ProcessIsWellFormed
  <2>2. /\ todo' = [todo EXCEPT ![i] = <<target>>]
        /\ jumps' = [jumps EXCEPT ![i] = Append(@, target)]
        /\ UNCHANGED status
    BY <1>5, <2>1, ToEffect
  <2>3. Append(jumps[i], target) \in Seq(Nodes)
    BY <1>2, <1>5, AppendProperties
  <2>4. QED BY <1>2, <1>5, <2>2, <2>3
<1>6. QED BY <1>3, <1>4, <1>5

\* The handler has been left.
LEMMA LeaveKeepsTypes ==
  ASSUME CPTypeOK, NEW i \in Instances, Leave(i)
  PROVE  CPTypeOK'
<1>1. NoAnswer \in Replies
  BY PointsAreConfigured, PlainlyIsReply DEF NoAnswer, Values
<1>2. QED BY <1>1 DEF CPTypeOK, Leave, Goto, agents, Phases

\* What is not exposed is not written over.
LEMMA OverwrittenValue ==
  ASSUME NEW i \in Instances, NEW name, NEW value, NEW values,
         NEW v \in Overwritten(i, name, value, values)
  PROVE  /\ v \in values \cup {value}
         /\ OwnVariablesKept /\ Current(i) \in Points => v = value
  BY DEF Overwritten, OwnVariablesKept

LEMMA ChoiceAfterWriteBack ==
  ASSUME TypeOK, NEW i \in Instances, WriteBack(i)
  PROVE  /\ choice' \in [Instances -> FlowIds \cup {NoFlow}]
         /\ \A j \in Instances : j # i => choice'[j] = choice[j]
         /\ OwnVariablesKept /\ Current(i) \in Points => choice'[i] = choice[i]
<1>1. PICK c \in Overwritten(i, "gatewayDecision", choice[i], FlowIds \cup {NoFlow}) :
        choice' = [choice EXCEPT ![i] = c]
  BY DEF WriteBack
<1>2. choice \in [Instances -> FlowIds \cup {NoFlow}]
  BY DEF TypeOK
<1>3. c \in FlowIds \cup {NoFlow}
  BY <1>2, OverwrittenValue
<1>4. OwnVariablesKept /\ Current(i) \in Points => c = choice[i]
  BY OverwrittenValue
<1>5. QED BY <1>1, <1>2, <1>3, <1>4

LEMMA HaltAfterKeepHalt ==
  ASSUME TypeOK, NEW i \in Instances, KeepHalt(i)
  PROVE  /\ halt' \in [Instances -> Reasons \cup {DefaultReason}]
         /\ \A j \in Instances : j # i => halt'[j] = halt[j]
         /\ OwnVariablesKept /\ Current(i) \in Points => halt'[i] = halt[i]
<1>1. PICK h \in Overwritten(i, "_haltReason", halt[i], Reasons) : halt' = [halt EXCEPT ![i] = h]
  BY DEF KeepHalt
<1>2. halt \in [Instances -> Reasons \cup {DefaultReason}]
  BY DEF TypeOK
<1>3. h \in Reasons \cup {DefaultReason}
  BY <1>2, OverwrittenValue
<1>4. OwnVariablesKept /\ Current(i) \in Points => h = halt[i]
  BY OverwrittenValue
<1>5. QED BY <1>1, <1>2, <1>3, <1>4

LEMMA WriteBackKeepsTypes ==
  ASSUME TypeOK, NEW i \in Instances, WriteBack(i)
  PROVE  vars' \in [Instances -> Values]
<1>1. reply[i].vars \in Values /\ vars[i] \in Values
  BY DEF TypeOK, CPTypeOK, Replies
<1> DEFINE new == [v \in Variables |-> IF v \in Declared THEN Coerce(reply[i].vars[v], vars[i][v])
                                       ELSE vars[i][v]]
<1>2. new \in Values
  BY <1>1, CoerceIsText DEF Values
<1> HIDE DEF new
<1>3. vars' = [vars EXCEPT ![i] = new]
  BY DEF WriteBack, new
<1>4. QED BY <1>2, <1>3 DEF TypeOK

LEMMA InitTypes == Init => TypeOK
<1> SUFFICES ASSUME Init PROVE TypeOK
  OBVIOUS
<1>1. NoAnswer \in Replies
  BY PointsAreConfigured, PlainlyIsReply DEF NoAnswer, Values
<1>2. CPTypeOK
  BY <1>1 DEF Init, CPInit, CPTypeOK, Phases
<1>3. InitialVars \subseteq Values
  BY PointsAreConfigured, ProcessIsWellFormed DEF InitialVars, Values
<1>4. <<>> \in Seq(Nodes) /\ <<>> \in Seq(Reports)
  BY EmptySeq
<1>5. QED BY <1>2, <1>3, <1>4 DEF Init, TypeOK, Reasons

LEMMA HandlerKeepsTypes ==
  ASSUME Inv, NEW i \in Instances, Handler(i) \/ HandleComplete(i)
  PROVE  TypeOK'
<1>1. CASE Handler(i)
  <2>1. Current(i) \in Points /\ Handle(i, Current(i), vars[i]) /\ UNCHANGED svcVars
    BY <1>1 DEF Handler
  <2>2. CPTypeOK /\ vars[i] \in Values /\ Calling(i)
    BY DEF Inv, TypeOK, Sound
  <2>3. CPTypeOK'
    BY <2>1, <2>2, HandleKeepsTypes DEF Calling
  <2>4. QED BY <2>1, <2>3 DEF Inv, TypeOK, svcVars
<1>2. CASE HandleComplete(i)
  <2>1. TerminalState(i) \in Reports
    BY DEF TerminalState, Reports, Inv, TypeOK
  <2>2. Append(reports[i], TerminalState(i)) \in Seq(Reports)
    BY <2>1, AppendProperties DEF Inv, TypeOK
  <2>3. reports' \in [Instances -> Seq(Reports)]
    BY <1>2, <2>2 DEF HandleComplete, Inv, TypeOK
  <2>4. CPTypeOK'
    BY <1>2 DEF HandleComplete, Inv, TypeOK, CPTypeOK, Goto, agents, Phases
  <2>5. QED BY <1>2, <2>3, <2>4 DEF HandleComplete, Inv, TypeOK
<1>3. QED BY <1>1, <1>2

\* The steps of a thread that leave a control point.
LEMMA ReturnKeepsTypes ==
  ASSUME Inv, NEW i \in Instances,
         ExecuteTask(i) \/ RouteGateway(i) \/ EvaluateHook(i) \/ CompleteProcess(i)
  PROVE  TypeOK'
<1>1. TypeOK /\ CPTypeOK /\ Len(todo[i]) <= 1
  BY DEF Inv, TypeOK, Sound, Moving
<1>2. AtPoint(i) /\ Leave(i)
  BY DEF ExecuteTask, RouteGateway, EvaluateHook, CompleteProcess, Returned
<1>3. CPTypeOK'
  BY <1>1, <1>2, LeaveKeepsTypes
<1>4. CASE ExecuteTask(i)
  <2>1. vars' \in [Instances -> Values] /\ todo' \in [Instances -> Seq(Nodes)]
    BY <1>1, <1>2, <1>4, WriteBackKeepsTypes, FollowToSuccessor DEF ExecuteTask
  <2>2. choice' \in [Instances -> FlowIds \cup {NoFlow}]
        /\ halt' \in [Instances -> Reasons \cup {DefaultReason}]
    BY <1>1, <1>4, ChoiceAfterWriteBack, HaltAfterKeepHalt DEF ExecuteTask
  <2>3. QED BY <1>1, <1>3, <1>4, <2>1, <2>2 DEF ExecuteTask, TypeOK
<1>5. CASE RouteGateway(i)
  <2>1. todo' \in [Instances -> Seq(Nodes)]
    BY <1>1, <1>2, <1>5, FollowToSuccessor DEF RouteGateway
  <2>2. reply[i].flow \in FlowIds \cup {NoFlow}
    BY <1>1 DEF CPTypeOK, Replies
  <2>3. QED BY <1>1, <1>3, <1>5, <2>1, <2>2 DEF RouteGateway, TypeOK
<1>6. CASE EvaluateHook(i)
  <2>1. vars' \in [Instances -> Values]
    BY <1>1, <1>6, WriteBackKeepsTypes DEF EvaluateHook
  <2>2. PICK target : To(i, target)
    BY <1>6 DEF EvaluateHook
  <2>3. /\ status' \in [Instances -> {"new", "running", "ended", "failed"}]
        /\ todo' \in [Instances -> Seq(Nodes)]
        /\ jumps' \in [Instances -> Seq(Nodes)]
    BY <1>1, <1>2, <2>2, ToKeepsTypes
  <2>4. reply[i].reason \in Reasons
    BY <1>1 DEF CPTypeOK, Replies
  <2>5. HaltText(reply[i].reason) \in Reasons \cup {DefaultReason}
    BY <2>4 DEF HaltText
  <2>6. halt' \in [Instances -> Reasons \cup {DefaultReason}]
        /\ terminated' \in [Instances -> Reasons \cup {NoHalt}]
    <3>1. CASE reply[i].action = "terminate"
      BY <1>1, <1>6, <2>4, <2>5, <3>1 DEF EvaluateHook, TypeOK
    <3>2. CASE reply[i].action # "terminate"
      BY <1>1, <1>6, <3>2, HaltAfterKeepHalt DEF EvaluateHook, TypeOK
    <3>3. QED BY <3>1, <3>2
  <2>7. choice' \in [Instances -> FlowIds \cup {NoFlow}]
    BY <1>1, <1>6, ChoiceAfterWriteBack DEF EvaluateHook
  <2>8. QED BY <1>1, <1>3, <1>6, <2>1, <2>3, <2>6, <2>7 DEF EvaluateHook, TypeOK
<1>7. CASE CompleteProcess(i)
  <2>1. todo' \in [Instances -> Seq(Nodes)]
    BY <1>1, <1>2, <1>7, FollowToSuccessor DEF CompleteProcess
  <2>2. QED BY <1>1, <1>3, <1>7, <2>1 DEF CompleteProcess, TypeOK
<1>8. QED BY <1>4, <1>5, <1>6, <1>7

LEMMA BranchIsNode ==
  ASSUME TypeOK, NEW i \in Instances, TakeBranch(i), Len(todo[i]) <= 1, choice[i] \in FlowIds
  PROVE  /\ Branches[Current(i)][choice[i]] \in Nodes \ EndEvents
         /\ todo' = [todo EXCEPT ![i] = <<Branches[Current(i)][choice[i]]>>]
         /\ todo' \in [Instances -> Seq(Nodes)]
         /\ UNCHANGED status
<1>1. Branches[Current(i)][choice[i]] \in Nodes \ EndEvents
  BY ProcessIsWellFormed, CompletionIsTheEnd DEF TakeBranch
<1>2. GoOn(i, <<Branches[Current(i)][choice[i]]>>) /\ UNCHANGED status /\ todo[i] # <<>>
  BY DEF TakeBranch, Running
<1>3. QED BY <1>1, <1>2, GoOnToNode

LEMMA ReachEndEffect ==
  ASSUME TypeOK, NEW i \in Instances, ReachEnd(i), Len(todo[i]) <= 1
  PROVE  /\ todo' = [todo EXCEPT ![i] = <<>>]
         /\ status' = [status EXCEPT ![i] = "ended"]
<1>1. todo[i] \in Seq(Nodes) /\ todo[i] # <<>>
  BY DEF TypeOK, ReachEnd, Running
<1>2. Head(todo[i]) \in Nodes
  BY <1>1, HeadTailProperties
<1>3. <<>> \o Tail(todo[i]) = <<>> /\ Len(todo[i]) = 1
  BY <1>1, <1>2, OneStep
<1>4. QED BY <1>3 DEF ReachEnd, GoOn

\* The other steps of an instance.
LEMMA ThreadKeepsTypes ==
  ASSUME Inv, NEW i \in Instances,
         \/ Start(i) \/ Call(i) \/ CallFails(i) \/ CallTimesOut(i) \/ TakeBranch(i) \/ ReachEnd(i)
  PROVE  TypeOK'
<1>1. TypeOK /\ CPTypeOK /\ Len(todo[i]) <= 1
  BY DEF Inv, TypeOK, Sound, Moving
<1>2. CASE Start(i)
  <2>1. <<First>> \in Seq(Nodes)
    BY ProcessIsWellFormed
  <2>2. QED BY <1>1, <1>2, <2>1 DEF Start, TypeOK, CPTypeOK, cpVars, handlers, agents
<1>3. CASE Call(i)
  BY <1>1, <1>3 DEF Call, Arrive, Goto, TypeOK, CPTypeOK, svcVars, agents, Phases
<1>4. CASE CallFails(i) \/ CallTimesOut(i)
  BY <1>1, <1>4 DEF CallFails, CallTimesOut, Fail, TypeOK, CPTypeOK, cpVars, handlers, agents
<1>5. CASE TakeBranch(i)
  <2>1. CASE choice[i] \in FlowIds
    BY <1>1, <1>5, <2>1, BranchIsNode DEF TakeBranch, TypeOK, CPTypeOK, cpVars, handlers, agents
  <2>2. CASE choice[i] \notin FlowIds
    BY <1>1, <1>5, <2>2 DEF TakeBranch, Fail, TypeOK, CPTypeOK, cpVars, handlers, agents
  <2>3. QED BY <2>1, <2>2
<1>6. CASE ReachEnd(i)
  <2>0. <<>> \in Seq(Nodes)
    BY EmptySeq
  <2>1. todo' \in [Instances -> Seq(Nodes)]
        /\ status' \in [Instances -> {"new", "running", "ended", "failed"}]
    BY <1>1, <1>6, <2>0, ReachEndEffect DEF TypeOK
  <2>2. QED BY <1>1, <1>6, <2>1 DEF ReachEnd, TypeOK, CPTypeOK, cpVars, handlers, agents
<1>7. QED BY <1>2, <1>3, <1>4, <1>5, <1>6

-----------------------------------------------------------------------------
(* What a step does to the other instances *)

Same(j) ==
  /\ phase'[j] = phase[j] /\ reply'[j] = reply[j] /\ decided'[j] = decided[j]
  /\ status'[j] = status[j] /\ todo'[j] = todo[j] /\ choice'[j] = choice[j]
  /\ halt'[j] = halt[j] /\ jumps'[j] = jumps[j]
  /\ terminated'[j] = terminated[j] /\ reports'[j] = reports[j]

LEMMA SameIsSound == ASSUME NEW j \in Instances, Sound(j), Same(j) PROVE Sound(j)'
  BY DEF Sound, Same, Calling, Moving, Deciding, Explaining, Halting, HaltIsKnown, Reporting,
         Agreeing, AtEnd, Skipped, Current, Kind

Step(i) == Start(i) \/ CallFails(i) \/ Handler(i) \/ HandleComplete(i) \/ Thread(i)

LEMMA OthersAreSame ==
  ASSUME Inv, NEW i \in Instances, Step(i), NEW j \in Instances, j # i
  PROVE  Same(j)
<1>0. TypeOK /\ CPTypeOK /\ Len(todo[i]) <= 1
  BY DEF Inv, TypeOK, Sound, Moving
<1> USE DEF Same
<1>1. CASE Start(i)
  BY <1>0, <1>1 DEF Start, TypeOK, cpVars, handlers
<1>2. CASE CallFails(i) \/ CallTimesOut(i)
  BY <1>0, <1>2 DEF CallFails, CallTimesOut, Fail, TypeOK, cpVars, handlers
<1>3. CASE Handler(i)
  <2>1. Current(i) \in Points /\ Handle(i, Current(i), vars[i]) /\ vars[i] \in Values
    BY <1>0, <1>3 DEF Handler, TypeOK
  <2>2. phase'[j] = phase[j] /\ reply'[j] = reply[j] /\ decided'[j] = decided[j]
    BY <1>0, <2>1, HandleOthers
  <2>3. QED BY <1>3, <2>2 DEF Handler, svcVars
<1>4. CASE HandleComplete(i)
  BY <1>0, <1>4 DEF HandleComplete, TypeOK, CPTypeOK, Goto
<1>5. CASE Call(i)
  BY <1>0, <1>5 DEF Call, Arrive, Goto, CPTypeOK, svcVars
<1>6. CASE ExecuteTask(i) \/ RouteGateway(i) \/ CompleteProcess(i)
  <2>1. todo'[j] = todo[j]
    BY <1>0, <1>6 DEF ExecuteTask, RouteGateway, CompleteProcess, Follow, GoOn, TypeOK
  <2>2. phase'[j] = phase[j] /\ reply'[j] = reply[j] /\ decided'[j] = decided[j]
    BY <1>0, <1>6 DEF ExecuteTask, RouteGateway, CompleteProcess, Returned, Leave, Goto, CPTypeOK
  <2>3. choice'[j] = choice[j] /\ halt'[j] = halt[j]
    BY <1>0, <1>6, ChoiceAfterWriteBack, HaltAfterKeepHalt
       DEF ExecuteTask, RouteGateway, CompleteProcess, TypeOK
  <2>4. QED BY <1>0, <1>6, <2>1, <2>2, <2>3 DEF ExecuteTask, RouteGateway, CompleteProcess, TypeOK
<1>7. CASE EvaluateHook(i)
  <2>1. AtPoint(i) /\ Leave(i)
    BY <1>7 DEF EvaluateHook, Returned
  <2>2. PICK target : To(i, target)
    BY <1>7 DEF EvaluateHook
  <2>3. todo'[j] = todo[j] /\ jumps'[j] = jumps[j] /\ status'[j] = status[j]
    BY <1>0, <2>1, <2>2, ToEffect DEF TypeOK
  <2>4. phase'[j] = phase[j] /\ reply'[j] = reply[j] /\ decided'[j] = decided[j]
    BY <1>0, <2>1 DEF Leave, Goto, CPTypeOK
  <2>5. halt'[j] = halt[j] /\ terminated'[j] = terminated[j]
    BY <1>0, <1>7, HaltAfterKeepHalt DEF EvaluateHook, TypeOK
  <2>6. choice'[j] = choice[j] /\ reports' = reports
    BY <1>0, <1>7, ChoiceAfterWriteBack DEF EvaluateHook
  <2>7. QED BY <2>3, <2>4, <2>5, <2>6
<1>8. CASE TakeBranch(i)
  BY <1>0, <1>8 DEF TakeBranch, GoOn, Fail, TypeOK, cpVars, handlers
<1>9. CASE ReachEnd(i)
  BY <1>0, <1>9 DEF ReachEnd, GoOn, TypeOK, cpVars, handlers
<1>10. QED
  BY <1>1, <1>2, <1>3, <1>4, <1>5, <1>6, <1>7, <1>8, <1>9 DEF Step, Thread

-----------------------------------------------------------------------------
(* What a step does to its own instance *)

\* An instance at a control point or a gateway is neither at its end nor past its report.
LEMMA NotAtEnd ==
  ASSUME TypeOK, NEW i \in Instances, Running(i), Current(i) \in Points \cup DOMAIN Branches
  PROVE  ~ AtEnd(i)
  BY ProcessIsWellFormed DEF AtEnd, Running

LEMMA NotReported ==
  ASSUME Inv, NEW i \in Instances, Running(i), Current(i) \in Points \cup DOMAIN Branches,
         ~ IsCompletion(Current(i)) \/ phase[i] # "answered"
  PROVE  reports[i] = <<>>
<1>1. ~ AtEnd(i) /\ status[i] = "running"
  BY NotAtEnd DEF Inv, Running
<1>2. QED BY <1>1 DEF Inv, Sound, Reporting, Agreeing

LEMMA NotHalted ==
  ASSUME Inv, NEW i \in Instances, Running(i), Current(i) \in Points \cup DOMAIN Branches,
         ~ IsCompletion(Current(i))
  PROVE  terminated[i] = NoHalt
<1>1. ~ AtEnd(i) /\ status[i] = "running"
  BY NotAtEnd DEF Inv, Running
<1>2. QED BY <1>1 DEF Inv, Sound, Halting

LEMMA StartIsSound == ASSUME Inv, NEW i \in Instances, Start(i) PROVE Sound(i)'
<1>1. /\ status[i] = "new" /\ status'[i] = "running" /\ todo'[i] = <<First>>
      /\ UNCHANGED <<choice, halt, jumps, terminated, reports, phase, reply, decided>>
  BY DEF Start, Inv, TypeOK, cpVars, handlers
<1>2. /\ phase[i] = "idle" /\ terminated[i] = NoHalt /\ reports[i] = <<>>
      /\ Deciding(i) /\ Explaining(i) /\ Halting(i) /\ Reporting(i)
  BY <1>1 DEF Inv, Sound, Calling, Moving
<1>3. First \notin EndEvents /\ Head(<<First>>) = First /\ Len(<<First>>) = 1 /\ <<First>> # <<>>
  BY CompletionIsTheEnd
<1>4. Calling(i)' /\ Moving(i)'
  BY <1>1, <1>2, <1>3 DEF Calling, Moving
<1>5. Deciding(i)' /\ Explaining(i)' /\ Halting(i)'
  BY <1>1, <1>2 DEF Deciding, Explaining, Halting, HaltIsKnown
<1>6. Reporting(i)'
  BY <1>1, <1>2, <1>3 DEF Reporting, Agreeing, AtEnd, Skipped, Current
<1>7. QED BY <1>4, <1>5, <1>6 DEF Sound

LEMMA CallIsSound == ASSUME Inv, NEW i \in Instances, Call(i) PROVE Sound(i)'
<1>1. /\ phase[i] = "idle" /\ phase'[i] = "arrived" /\ AtPoint(i)
      /\ UNCHANGED <<svcVars, reply, decided>>
  BY DEF Call, Arrive, Goto, Inv, TypeOK, CPTypeOK
<1>2. Calling(i) /\ Moving(i) /\ Deciding(i) /\ Explaining(i) /\ Halting(i) /\ Reporting(i)
  BY DEF Inv, Sound
<1>3. Calling(i)'
  BY <1>1, <1>2 DEF Calling, AtPoint, Running, svcVars, Current, Kind
<1>4. Moving(i)' /\ Deciding(i)' /\ Explaining(i)' /\ Halting(i)'
  BY <1>1, <1>2
     DEF Moving, Deciding, Explaining, Halting, HaltIsKnown, svcVars, Current, Kind, AtEnd
<1>5. Reporting(i)'
  BY <1>1, <1>2 DEF Reporting, Agreeing, svcVars, Current, AtEnd, Skipped
<1>6. QED BY <1>3, <1>4, <1>5 DEF Sound

LEMMA FailIsSound ==
  ASSUME Inv, NEW i \in Instances, CallFails(i) \/ CallTimesOut(i)
  PROVE  Sound(i)'
<1>1. /\ status'[i] = "failed"
      /\ UNCHANGED <<todo, choice, halt, jumps, terminated, reports, phase, reply, decided>>
  BY DEF CallFails, CallTimesOut, Fail, Inv, TypeOK, cpVars, handlers
<1>2. Calling(i) /\ Moving(i) /\ Deciding(i) /\ Explaining(i) /\ Halting(i) /\ Reporting(i)
  BY DEF Inv, Sound
<1>3. QED
  BY <1>1, <1>2 DEF Sound, Calling, Moving, Deciding, Explaining, Halting, HaltIsKnown, Reporting,
                    Agreeing, Current, Kind

\* A handler answers with a decision of a hook, or with one of its own, which has a reason.
LEMMA HandleExplains ==
  ASSUME CPTypeOK, NEW i \in Instances, NEW p \in Points, NEW ctx, Handle(i, p, ctx), Explaining(i)
  PROVE  Explaining(i)'
<1>0. DOMAIN reply = Instances
  BY DEF CPTypeOK
<1>1. ASSUME NEW r, Answer(i, r), r.action # "terminate" PROVE Explaining(i)'
  BY <1>0, <1>1 DEF Answer, Explaining
<1>2. CASE HandleTask(i, p, ctx) \/ FinishTask(i, p, ctx)
  BY <1>1, <1>2 DEF HandleTask, FinishTask, Plainly, Explaining
<1>3. CASE HandleGateway(i, p, ctx) \/ Decide(i, p, ctx)
  <2>1. CASE \E f : RouteTo(i, ctx, f)
    BY <1>1, <2>1 DEF RouteTo, Plainly
  <2>2. CASE reply' = reply
    BY <2>2 DEF Explaining
  <2>3. QED BY <1>3, <2>1, <2>2 DEF HandleGateway, Decide
<1>4. CASE HandleHook(i, p, ctx)
  <2>1. ASSUME NEW r, Answer(i, r), r.reason # "" PROVE Explaining(i)'
    BY <1>0, <2>1 DEF Answer, Explaining
  <2>2. CASE reply' = reply
    BY <2>2 DEF Explaining
  <2>3. QED BY <1>4, <2>1, <2>2 DEF HandleHook, Plainly
<1>5. CASE DecideHook(i, p, ctx)
  <2>1. CASE Answer(i, Plainly(ctx))
    BY <1>1, <2>1 DEF Plainly
  <2>2. ASSUME NEW d \in HookDecisions,
               Answer(i, [Plainly(Updated(ctx, d)) EXCEPT
                            !.action = d.action, !.target = d.target, !.reason = d.reason])
        PROVE  Explaining(i)'
    BY <1>0, <2>2 DEF Answer, Plainly, Explaining, Explained
  <2>3. QED BY <1>5, <2>1, <2>2 DEF DecideHook
<1>6. CASE Consult(i, p) \/ Resolve(i, p) \/ CardFetched(i, p)
  BY <1>6 DEF Consult, Resolve, CardFetched, Explaining
<1>7. CASE RemoteAnswers(i, p, ctx) \/ RemoteFails(i, p, ctx)
  BY <1>1, <1>7 DEF RemoteAnswers, RemoteFails, Plainly, Explaining
<1>8. QED BY <1>2, <1>3, <1>4, <1>5, <1>6, <1>7 DEF Handle

LEMMA HandleIsCalled ==
  ASSUME NEW i \in Instances, NEW p, NEW ctx, Handle(i, p, ctx)
  PROVE  phase[i] # "idle"
  BY DEF Handle, HandleTask, FinishTask, HandleGateway, Decide, HandleHook, DecideHook,
         Consult, Resolve, CardFetched, RemoteAnswers, RemoteFails

LEMMA HandlerIsSound == ASSUME Inv, NEW i \in Instances, Handler(i) PROVE Sound(i)'
<1>1. /\ Current(i) \in Points /\ todo[i] # <<>> /\ Handle(i, Current(i), vars[i])
      /\ UNCHANGED svcVars
  BY DEF Handler
<1>2. /\ CPTypeOK /\ vars[i] \in Values
      /\ Calling(i) /\ Moving(i) /\ Deciding(i) /\ Explaining(i) /\ Halting(i) /\ Reporting(i)
  BY DEF Inv, TypeOK, Sound
<1>3. phase[i] # "idle"
  BY <1>1, HandleIsCalled
<1>4. Effect(i, Current(i))
  <2>1. Kind(i) = "complete" => phase[i] \in {"arrived", "answered"}
    BY <1>2, <1>3 DEF Calling
  <2>2. QED BY <1>1, <1>2, <2>1, HandleEffect DEF Calling, Kind
<1>5. Kind(i) # "complete" /\ phase[i] # "idle" /\ phase[i] # "answered"
  BY <1>2, <1>4 DEF Effect, Calling, Kind
<1>6. Calling(i)'
  BY <1>1, <1>2, <1>4, <1>5 DEF Calling, Effect, svcVars, Current, Kind
<1>7. Deciding(i)'
  BY <1>1, <1>2, <1>4, <1>5 DEF Deciding, Effect, Decides, svcVars, Current, Kind
<1>8. Moving(i)' /\ Explaining(i)' /\ Halting(i)'
  BY <1>1, <1>2, HandleExplains DEF Moving, Halting, HaltIsKnown, svcVars, Current, AtEnd
<1>9. Reporting(i)'
  BY <1>1, <1>2, <1>5 DEF Reporting, Agreeing, svcVars, Current, AtEnd, Skipped, IsCompletion, Kind
<1>10. QED BY <1>6, <1>7, <1>8, <1>9 DEF Sound

LEMMA HandleCompleteIsSound ==
  ASSUME Inv, NEW i \in Instances, HandleComplete(i)
  PROVE  Sound(i)'
<1>1. /\ AtPoint(i) /\ phase[i] = "arrived" /\ phase'[i] = "answered" /\ Kind(i) = "complete"
      /\ reports'[i] = Append(reports[i], TerminalState(i))
      /\ UNCHANGED <<status, todo, choice, halt, jumps, terminated, reply, decided>>
  BY DEF HandleComplete, Goto, Inv, TypeOK, CPTypeOK, Kind
<1>2. Calling(i) /\ Moving(i) /\ Deciding(i) /\ Explaining(i) /\ Halting(i) /\ Reporting(i)
  BY DEF Inv, Sound
<1>3. reports[i] = <<>>
  BY <1>1, NotReported DEF AtPoint
<1>4. reports'[i] = <<TerminalState(i)>>
  BY <1>1, <1>3
<1>5. OwnVariablesKept /\ Explained => (TerminalState(i).halted <=> terminated[i] # NoHalt)
  BY <1>2 DEF TerminalState, Halting, HaltIsKnown
<1>6. Calling(i)' /\ Moving(i)' /\ Deciding(i)' /\ Explaining(i)' /\ Halting(i)'
  BY <1>1, <1>2 DEF Calling, Moving, Deciding, Explaining, Halting, HaltIsKnown, Current, Kind,
                    AtEnd, AtPoint, Running
<1>7. IsCompletion(Current(i))
  BY <1>1 DEF IsCompletion, Kind, AtPoint
<1>8. Len(reports'[i]) = 1 /\ DOMAIN reports'[i] = {1} /\ reports'[i][1] = TerminalState(i)
      /\ reports'[i] # <<>>
  BY <1>4
<1>9. IsCompletion(Current(i))' /\ phase'[i] = "answered" /\ terminated'[i] = terminated[i]
  BY <1>1, <1>7 DEF Current, IsCompletion
<1>10. Agreeing(i)'
  BY <1>5, <1>8, <1>9 DEF Agreeing
<1>11. Len(reports'[i]) <= 1
  BY <1>8
<1>12. Reporting(i)'
  BY <1>8, <1>9, <1>10, <1>11 DEF Reporting
<1>13. QED BY <1>6, <1>12 DEF Sound

LEMMA Landed ==
  ASSUME NEW i \in Instances, NEW n, todo'[i] = <<n>>
  PROVE  Current(i)' = n /\ todo'[i] # <<>> /\ Len(todo'[i]) <= 1
  BY DEF Current

LEMMA NothingReported ==
  ASSUME NEW i \in Instances, reports'[i] = <<>>
  PROVE  Len(reports'[i]) <= 1 /\ Agreeing(i)'
  BY DEF Agreeing

\* An instance whose thread goes on is sound.
GoesOn(i) ==
  /\ todo[i] # <<>> /\ Len(todo[i]) <= 1
  /\ status[i] = "running" /\ phase[i] = "idle"
  /\ OwnVariablesKept => choice[i] = decided[i]
  /\ OwnVariablesKept /\ Explained => HaltIsKnown(i)
  /\ Explaining(i)
  /\ terminated[i] # NoHalt => Current(i) \in EndEvents \/ IsCompletion(Current(i))
  /\ Len(reports[i]) <= 1
  /\ Agreeing(i)
  /\ reports[i] # <<>> => Current(i) \in EndEvents
  /\ Current(i) \in EndEvents => reports[i] # <<>> \/ Skipped(i)

LEMMA GoingOnIsSound == ASSUME NEW i \in Instances, GoesOn(i)' PROVE Sound(i)'
  BY DEF GoesOn, Sound, Calling, Moving, Deciding, Halting, Reporting, AtEnd

\* Once a call has been left there is no answer to explain.
LEMMA LeaveExplains == ASSUME CPTypeOK, NEW i \in Instances, Leave(i) PROVE Explaining(i)'
  BY DEF CPTypeOK, Leave, NoAnswer, Plainly, Explaining

LEMMA ReturnIsSound ==
  ASSUME Inv, NEW i \in Instances, ExecuteTask(i) \/ RouteGateway(i) \/ CompleteProcess(i)
  PROVE  Sound(i)'
<1> DEFINE n == Successor[Current(i)]
<1>0. TypeOK /\ CPTypeOK
  BY DEF Inv, TypeOK
<1>1. Calling(i) /\ Moving(i) /\ Deciding(i) /\ Explaining(i) /\ Halting(i) /\ Reporting(i)
  BY DEF Inv, Sound
<1>2. /\ AtPoint(i) /\ phase[i] = "answered" /\ Leave(i) /\ Follow(i)
      /\ UNCHANGED <<status, jumps, terminated, reports>>
  BY DEF ExecuteTask, RouteGateway, CompleteProcess, Returned
<1>3. status[i] = "running" /\ Current(i) \in Points
  BY <1>2 DEF AtPoint, Running
<1>4. todo'[i] = <<n>> /\ phase'[i] = "idle" /\ decided'[i] = decided[i]
  BY <1>0, <1>1, <1>2, FollowToSuccessor DEF Leave, Goto, CPTypeOK, TypeOK, Moving
<1>5. OwnVariablesKept => choice'[i] = decided'[i] /\ halt'[i] = halt[i]
  <2>1. CASE RouteGateway(i)
    BY <1>0, <1>1, <1>3, <1>4, <2>1 DEF RouteGateway, Returned, Deciding, Kind, TypeOK
  <2>2. CASE ExecuteTask(i)
    BY <1>0, <1>1, <1>3, <1>4, <2>2, ChoiceAfterWriteBack, HaltAfterKeepHalt
       DEF ExecuteTask, Returned, Deciding, Kind
  <2>3. CASE CompleteProcess(i)
    BY <1>1, <1>3, <1>4, <2>3 DEF CompleteProcess, Returned, Deciding, Kind
  <2>4. QED BY <1>2, <2>1, <2>2, <2>3
<1>6. OwnVariablesKept /\ Explained => HaltIsKnown(i)'
  BY <1>1, <1>2, <1>5 DEF Halting, HaltIsKnown
<1>7. Explaining(i)'
  BY <1>0, <1>2, LeaveExplains
<1>8. n \in EndEvents <=> IsCompletion(Current(i))
  BY <1>3, SuccessorIsNode
<1>9. CASE IsCompletion(Current(i))
  <2>1. reports[i] # <<>> /\ n \in EndEvents
    BY <1>1, <1>2, <1>3, <1>8, <1>9 DEF Reporting, Agreeing, AtPoint, Running
  <2>2. QED
    BY <1>1, <1>2, <1>3, <1>4, <1>5, <1>6, <1>7, <2>1, Landed, GoingOnIsSound
       DEF GoesOn, IsCompletion, Halting, Reporting, Agreeing
<1>10. CASE ~ IsCompletion(Current(i))
  <2>1. reports[i] = <<>> /\ terminated[i] = NoHalt /\ n \notin EndEvents
    BY <1>2, <1>3, <1>8, <1>10, NotReported, NotHalted DEF AtPoint
  <2>2. QED
    BY <1>1, <1>2, <1>3, <1>4, <1>5, <1>6, <1>7, <2>1, Landed, GoingOnIsSound
       DEF GoesOn, IsCompletion, Halting, Reporting, Agreeing
<1>11. QED BY <1>9, <1>10

LEMMA EvaluateHookIsSound ==
  ASSUME Inv, NEW i \in Instances, EvaluateHook(i)
  PROVE  Sound(i)'
<1>0. TypeOK /\ CPTypeOK /\ Len(todo[i]) <= 1
  BY DEF Inv, TypeOK, Sound, Moving
<1>1. Calling(i) /\ Moving(i) /\ Deciding(i) /\ Explaining(i) /\ Halting(i) /\ Reporting(i)
  BY DEF Inv, Sound
<1>2. /\ AtPoint(i) /\ Kind(i) = "hook" /\ phase[i] = "answered" /\ Leave(i)
      /\ UNCHANGED reports
  BY DEF EvaluateHook, Returned, Kind
<1>3. status[i] = "running" /\ Current(i) \in Points /\ ~ IsCompletion(Current(i))
  BY <1>2 DEF AtPoint, Running, IsCompletion, Kind
<1>4. /\ reports[i] = <<>> /\ terminated[i] = NoHalt
      /\ OwnVariablesKept => choice'[i] = decided[i]
  <2>1. OwnVariablesKept => choice'[i] = choice[i]
    BY <1>0, <1>3, ChoiceAfterWriteBack DEF EvaluateHook
  <2>2. QED BY <1>1, <1>2, <1>3, <2>1, NotReported, NotHalted DEF AtPoint, Deciding
<1>5. /\ phase'[i] = "idle" /\ reports'[i] = <<>> /\ Explaining(i)'
      /\ OwnVariablesKept => choice'[i] = decided'[i]
  BY <1>0, <1>2, <1>4, LeaveExplains DEF Leave, Goto, CPTypeOK
<1>6. Successor[Current(i)] \notin EndEvents
  BY <1>3, SuccessorIsNode
<1>7. OwnVariablesKept /\ Explained => HaltIsKnown(i)'
  <2>1. CASE reply[i].action = "terminate"
    <3>1. reply[i].reason \in Reasons
      BY <1>0 DEF CPTypeOK, Replies
    <3>2. halt'[i] = HaltText(reply[i].reason) /\ terminated'[i] = reply[i].reason
      BY <1>0, <2>1 DEF EvaluateHook, TypeOK
    <3>3. Explained => reply[i].reason # ""
      BY <1>1, <2>1 DEF Explaining
    <3>4. QED BY <3>1, <3>2, <3>3 DEF HaltText, Reasons, NoHalt, DefaultReason, HaltIsKnown
  <2>2. CASE reply[i].action # "terminate"
    <3>1. terminated'[i] = terminated[i] /\ (OwnVariablesKept => halt'[i] = halt[i])
      BY <1>0, <1>3, <2>2, HaltAfterKeepHalt DEF EvaluateHook
    <3>2. QED BY <1>1, <3>1 DEF Halting, HaltIsKnown
  <2>3. QED BY <2>1, <2>2
<1>8. PICK target : /\ To(i, target)
                    /\ terminated'[i] # NoHalt => target = TerminateTarget
  BY <1>4 DEF EvaluateHook
<1>9. CASE target = NoNode
  <2>1. target \notin Nodes /\ target # TerminateTarget
    BY <1>9, ProcessIsWellFormed
  <2>2. /\ todo'[i] = <<Successor[Current(i)]>> /\ status'[i] = "running"
        /\ terminated'[i] = NoHalt
    BY <1>0, <1>2, <1>3, <1>8, <1>9, <2>1, ToEffect DEF TypeOK
  <2>3. Current(i)' = Successor[Current(i)] /\ todo'[i] # <<>> /\ Len(todo'[i]) <= 1
    BY <2>2, Landed
  <2>4. GoesOn(i)'
    BY <1>5, <1>6, <1>7, <2>2, <2>3, NothingReported DEF GoesOn
  <2>5. QED BY <2>4, GoingOnIsSound
<1>10. CASE target \notin Nodes \cup {NoNode}
  <2>1. status'[i] = "failed" /\ todo' = todo
    BY <1>0, <1>2, <1>8, <1>10, ToEffect DEF TypeOK
  <2>2. Calling(i)' /\ Moving(i)' /\ Deciding(i)'
    BY <1>0, <1>5, <2>1 DEF Calling, Moving, Deciding
  <2>3. Halting(i)' /\ Reporting(i)'
    BY <1>5, <1>7, <2>1, NothingReported DEF Halting, Reporting
  <2>4. QED BY <1>5, <2>2, <2>3 DEF Sound
<1>11. CASE target \in Nodes
  <2>1. target # NoNode
    BY <1>11, ProcessIsWellFormed
  <2>2. /\ todo'[i] = <<target>> /\ status'[i] = "running"
        /\ jumps'[i] = Append(jumps[i], target)
    BY <1>0, <1>2, <1>3, <1>8, <1>11, <2>1, ToEffect DEF TypeOK
  <2>3. target \in EndEvents => Skipped(i)'
    <3>1. jumps[i] \in Seq(Nodes)
      BY <1>0 DEF TypeOK
    <3>2. /\ Len(jumps[i]) + 1 \in DOMAIN Append(jumps[i], target)
          /\ Append(jumps[i], target)[Len(jumps[i]) + 1] = target
      BY <1>11, <3>1, AppendProperties, LenProperties
    <3>3. QED BY <2>2, <3>2 DEF Skipped
  <2>4. terminated'[i] # NoHalt => IsCompletion(target)
    BY <1>8, ProcessIsWellFormed DEF IsCompletion
  <2>5. Current(i)' = target /\ todo'[i] # <<>> /\ Len(todo'[i]) <= 1
    BY <2>2, Landed
  <2>6. GoesOn(i)'
    BY <1>5, <1>7, <2>2, <2>3, <2>4, <2>5, NothingReported DEF GoesOn, IsCompletion
  <2>7. QED BY <2>6, GoingOnIsSound
<1>12. QED BY <1>9, <1>10, <1>11

LEMMA GatewayIsSound ==
  ASSUME Inv, NEW i \in Instances, TakeBranch(i)
  PROVE  Sound(i)'
<1>0. TypeOK /\ CPTypeOK /\ Len(todo[i]) <= 1
  BY DEF Inv, TypeOK, Sound, Moving
<1>1. Calling(i) /\ Moving(i) /\ Deciding(i) /\ Explaining(i) /\ Halting(i) /\ Reporting(i)
  BY DEF Inv, Sound
<1>2. /\ Running(i) /\ status[i] = "running" /\ Current(i) \in DOMAIN Branches
      /\ UNCHANGED <<choice, halt, jumps, terminated, reports, phase, reply, decided>>
  BY DEF TakeBranch, Running, cpVars, handlers
<1>3. Current(i) \notin Points /\ ~ IsCompletion(Current(i))
  BY <1>2, ProcessIsWellFormed DEF IsCompletion
<1>4. phase[i] = "idle" /\ (OwnVariablesKept => choice[i] = decided[i])
  BY <1>1, <1>2, <1>3 DEF Calling, Deciding
<1>5. /\ reports[i] = <<>> /\ terminated[i] = NoHalt
      /\ Explaining(i)' /\ (OwnVariablesKept /\ Explained => HaltIsKnown(i)')
  BY <1>1, <1>2, <1>3, NotReported, NotHalted DEF Explaining, Halting, HaltIsKnown
<1>6. CASE choice[i] \in FlowIds
  <2> DEFINE n == Branches[Current(i)][choice[i]]
  <2>1. n \notin EndEvents /\ todo'[i] = <<n>> /\ status'[i] = "running"
    BY <1>0, <1>2, <1>6, BranchIsNode DEF TypeOK
  <2> HIDE DEF n
  <2>2. Current(i)' = n /\ todo'[i] # <<>> /\ Len(todo'[i]) <= 1
    BY <2>1, Landed
  <2>3. GoesOn(i)'
    BY <1>1, <1>2, <1>4, <1>5, <2>1, <2>2, NothingReported DEF GoesOn, Halting
  <2>4. QED BY <2>3, GoingOnIsSound
<1>7. CASE choice[i] \notin FlowIds
  <2>1. status'[i] = "failed" /\ todo' = todo
    BY <1>0, <1>7 DEF TakeBranch, Fail, TypeOK
  <2>2. QED BY <1>1, <1>2, <1>4, <1>5, <2>1
            DEF Sound, Calling, Moving, Deciding, Halting, Reporting, Agreeing
<1>8. QED BY <1>6, <1>7

LEMMA EndIsSound == ASSUME Inv, NEW i \in Instances, ReachEnd(i) PROVE Sound(i)'
<1>0. TypeOK /\ CPTypeOK /\ Len(todo[i]) <= 1
  BY DEF Inv, TypeOK, Sound, Moving
<1>1. Calling(i) /\ Moving(i) /\ Deciding(i) /\ Explaining(i) /\ Halting(i) /\ Reporting(i)
  BY DEF Inv, Sound
<1>2. /\ status[i] = "running" /\ todo[i] # <<>> /\ Current(i) \in EndEvents
      /\ UNCHANGED <<choice, halt, jumps, terminated, reports, phase, reply, decided>>
  BY DEF ReachEnd, Running, cpVars, handlers
<1>3. todo'[i] = <<>> /\ status'[i] = "ended"
  BY <1>0, ReachEndEffect DEF TypeOK
<1>4. Current(i) \notin Points
  BY <1>2, ProcessIsWellFormed
<1>5. phase[i] = "idle" /\ (OwnVariablesKept => choice[i] = decided[i])
  BY <1>1, <1>2, <1>4 DEF Calling, Deciding
<1>6. reports[i] # <<>> \/ Skipped(i)
  BY <1>1, <1>2 DEF Reporting, Agreeing, AtEnd
<1>7. Calling(i)' /\ Moving(i)' /\ Deciding(i)'
  BY <1>2, <1>3, <1>5 DEF Calling, Moving, Deciding
<1>8. Explaining(i)' /\ Halting(i)' /\ Reporting(i)'
  BY <1>1, <1>2, <1>3, <1>6
     DEF Explaining, Halting, HaltIsKnown, Reporting, Agreeing, AtEnd, Skipped
<1>9. QED BY <1>7, <1>8 DEF Sound

-----------------------------------------------------------------------------
(* The properties of the instances *)

LEMMA NoneIsShort == Len(<<>>) <= 1
  OBVIOUS

LEMMA NoneAgrees == ASSUME NEW i \in Instances, reports[i] = <<>> PROVE Agreeing(i)
<1>1. reports[i] \in Seq({}) /\ Len(reports[i]) = 0
  BY EmptySeq
<1>2. DOMAIN reports[i] = 1..0
  BY <1>1, LenProperties
<1>3. ASSUME NEW k \in DOMAIN reports[i] PROVE FALSE
  BY <1>2
<1>4. QED BY <1>3 DEF Agreeing

LEMMA InitIsSound == Init => Inv
<1> SUFFICES ASSUME Init PROVE Inv
  OBVIOUS
<1>1. TypeOK
  BY InitTypes
<1>2. ASSUME NEW i \in Instances PROVE Sound(i)
  <2>1. /\ phase[i] = "idle" /\ status[i] = "new" /\ todo[i] = <<>> /\ choice[i] = decided[i]
        /\ halt[i] = "" /\ terminated[i] = NoHalt /\ reports[i] = <<>> /\ reply[i] = NoAnswer
    BY DEF Init, CPInit
  <2>2. Len(todo[i]) <= 1 /\ Len(reports[i]) <= 1
    BY <2>1, NoneIsShort
  <2>3. Explaining(i)
    <3>1. ASSUME NEW ctx PROVE Plainly(ctx).action = "continue"
      BY DEF Plainly
    <3>2. NoAnswer.action = "continue"
      BY <3>1 DEF NoAnswer
    <3>3. QED BY <2>1, <3>2 DEF Explaining
  <2>4. Calling(i) /\ Moving(i) /\ Deciding(i) /\ Halting(i)
    <3>1. Calling(i) /\ Moving(i)
      BY <2>1, <2>2 DEF Calling, Moving
    <3>2. Deciding(i) /\ HaltIsKnown(i)
      BY <2>1 DEF Deciding, HaltIsKnown
    <3>3. Halting(i)
      BY <2>1, <3>2 DEF Halting
    <3>4. QED BY <3>1, <3>2, <3>3
  <2>5. Agreeing(i)
    BY <2>1, NoneAgrees
  <2>6. Reporting(i)
    BY <2>1, <2>2, <2>5 DEF Reporting
  <2>7. QED BY <2>3, <2>4, <2>6 DEF Sound
<1>3. QED BY <1>1, <1>2 DEF Inv

LEMMA StepIsSound == ASSUME Inv, NEW i \in Instances, Step(i) PROVE Inv'
<1>1. TypeOK'
  BY HandlerKeepsTypes, ReturnKeepsTypes, ThreadKeepsTypes DEF Step, Thread
<1>2. Sound(i)'
  BY StartIsSound, CallIsSound, FailIsSound, HandlerIsSound, HandleCompleteIsSound, ReturnIsSound,
     EvaluateHookIsSound, GatewayIsSound, EndIsSound DEF Step, Thread
<1>3. ASSUME NEW j \in Instances, j # i PROVE Sound(j)'
  BY <1>3, OthersAreSame, SameIsSound DEF Inv
<1>4. QED BY <1>1, <1>2, <1>3 DEF Inv

LEMMA StutterIsSound == Inv /\ UNCHANGED kVars => Inv'
<1> SUFFICES ASSUME Inv, UNCHANGED kVars PROVE Inv'
  OBVIOUS
<1>1. TypeOK'
  BY DEF Inv, TypeOK, CPTypeOK, kVars, cpVars, svcVars, handlers, agents
<1>2. ASSUME NEW j \in Instances PROVE Sound(j)'
  <2>1. Same(j)
    BY DEF Same, kVars, cpVars, svcVars, handlers, agents
  <2>2. QED BY <2>1, SameIsSound DEF Inv
<1>3. QED BY <1>1, <1>2 DEF Inv

THEOREM InvHolds == Spec => []Inv
<1>1. Inv /\ [Next]_kVars => Inv'
  BY StepIsSound, StutterIsSound DEF Next, Step
<1>2. QED BY InitIsSound, <1>1, PTL DEF Spec

\* The types of the service and of the FlowAgent, for any process and configuration.
THEOREM TypeCorrect == Spec => []TypeOK
<1>1. Inv => TypeOK
  BY DEF Inv
<1>2. QED BY InvHolds, <1>1, PTL

\* No redirection, however often a hook redirects, puts an instance on two paths
\* (FlowRedirect.java:46).
THEOREM OneTokenAlways == Spec => []OneToken
<1>1. Inv => OneToken
  BY DEF Inv, Sound, Moving, OneToken
<1>2. QED BY InvHolds, <1>1, PTL

\* The end of an instance is reported once, unless a hook leads it past the report.
THEOREM EndIsReported == Spec => []EndIsReportedOnce
<1>1. Inv => EndIsReportedOnce
  <2> SUFFICES ASSUME Inv, NEW i \in Instances
               PROVE  /\ Len(reports[i]) <= 1
                      /\ status[i] = "ended" => reports[i] # <<>> \/ Skipped(i)
    BY DEF EndIsReportedOnce, Skipped
  <2>1. Moving(i) /\ Reporting(i)
    BY DEF Inv, Sound
  <2>2. QED BY <2>1 DEF Moving, Reporting, AtEnd
<1>2. QED BY InvHolds, <1>1, PTL

\* However the handlers of concurrent instances interleave, each instance is steered by the
\* decision that was made for it (flow_agent.py:159), unless an answer names gatewayDecision
\* (CugaFlo.java:71, 124).
THEOREM OwnDecisions == ASSUME OwnVariablesKept PROVE Spec => []FollowsOwnDecision
<1>1. Inv => FollowsOwnDecision
  BY DEF Inv, Sound, Deciding, FollowsOwnDecision
<1>2. QED BY InvHolds, <1>1, PTL

\* The terminal state that is read back from the variables says halted just when a hook
\* terminated the instance (CugaFlo.java:149), if hooks give their reasons and no answer names
\* _haltReason.
THEOREM HaltIsAlwaysReported ==
  ASSUME OwnVariablesKept, Explained
  PROVE  Spec => []HaltIsReported
<1>1. Inv => HaltIsReported
  BY DEF Inv, Sound, Reporting, Agreeing, HaltIsReported
<1>2. QED BY InvHolds, <1>1, PTL

\* A call begins with Call.
LEMMA OnlyCallCalls ==
  ASSUME Inv, NEW i \in Instances, Step(i), phase[i] = "idle", phase'[i] # "idle"
  PROVE  Call(i)
<1>1. CASE Handler(i)
  BY <1>1, HandleIsCalled DEF Handler
<1>2. CASE HandleComplete(i)
  BY <1>2 DEF HandleComplete
<1>3. CASE ExecuteTask(i) \/ RouteGateway(i) \/ EvaluateHook(i) \/ CompleteProcess(i)
  BY <1>3 DEF ExecuteTask, RouteGateway, EvaluateHook, CompleteProcess, Returned
<1>4. CASE Start(i) \/ CallFails(i) \/ CallTimesOut(i) \/ TakeBranch(i) \/ ReachEnd(i)
  BY <1>4 DEF Start, CallFails, CallTimesOut, TakeBranch, ReachEnd, cpVars, handlers
<1>5. QED BY <1>1, <1>2, <1>3, <1>4 DEF Step, Thread

\* After TERMINATE nothing but complete_process is called for the instance.
THEOREM NothingAfterHalt == Spec => HaltStopsWork
<1> DEFINE Stops == \A i \in Instances :
                      terminated[i] # NoHalt /\ phase[i] = "idle" /\ phase'[i] # "idle"
                        => Config[Current(i)].kind = "complete"
<1>1. ASSUME Inv, Next PROVE Stops
  <2> SUFFICES ASSUME NEW i \in Instances, terminated[i] # NoHalt,
                      phase[i] = "idle", phase'[i] # "idle"
               PROVE  Config[Current(i)].kind = "complete"
    OBVIOUS
  <2>1. PICK k \in Instances : Step(k)
    BY <1>1 DEF Next, Step
  <2>2. k = i
    BY <1>1, <2>1, OthersAreSame DEF Same
  <2>3. Call(i)
    BY <1>1, <2>1, <2>2, OnlyCallCalls
  <2>4. IsCompletion(Current(i))
    BY <1>1, <2>3, NotHalted DEF Call, AtPoint
  <2>5. QED BY <2>4 DEF IsCompletion
<1>2. Inv /\ [Next]_kVars => [Stops]_kVars
  BY <1>1
<1> HIDE DEF Stops
<1>3. Spec => [][Stops]_kVars
  BY InvHolds, <1>2, PTL DEF Spec
<1>4. QED BY <1>3 DEF Stops, HaltStopsWork

-----------------------------------------------------------------------------
(* The remote agents *)

\* A message was sent in the context that is kept.
OneContext(r) ==
  /\ contexts[r] = 0 => sent[r] = {}
  /\ contexts[r] # 0 => sent[r] \subseteq {contexts[r]}

\* The calls that found no card in the cache, and have not got theirs yet.
Fetching(r) == {i \in Instances : phase[i] = "fetching" /\ Config[Current(i)].remote = r}

\* No call joins them once the card is there, so each instance fetches it once at most.
OneCard(r) ==
  /\ r \notin cards => fetches[r] = 0
  /\ fetches[r] + Cardinality(Fetching(r)) <= Cardinality(Instances)

Shared == \A r \in Remotes : OneContext(r) /\ OneCard(r)

LEMMA FetchingIsFinite ==
  ASSUME NEW r
  PROVE  /\ IsFiniteSet(Instances) /\ IsFiniteSet(Fetching(r))
         /\ Cardinality(Instances) \in Nat /\ Cardinality(Fetching(r)) \in Nat
         /\ Cardinality(Fetching(r)) <= Cardinality(Instances)
<1>1. IsFiniteSet(Instances) /\ Fetching(r) \in SUBSET Instances
  BY PointsAreConfigured DEF Fetching
<1>2. QED BY <1>1, FS_Subset, FS_CardinalityType

\* The same of the next state.
LEMMA FetchingIsFiniteNext ==
  ASSUME NEW r
  PROVE  /\ IsFiniteSet(Fetching(r)')
         /\ Cardinality(Fetching(r)') \in Nat
         /\ Cardinality(Fetching(r)') <= Cardinality(Instances)
<1>1. IsFiniteSet(Instances) /\ Fetching(r)' \in SUBSET Instances
  BY PointsAreConfigured DEF Fetching
<1>2. QED BY <1>1, FS_Subset, FS_CardinalityType

remotes == <<cards, fetches, contexts, minted, sent>>

LEMMA SharedUnchanged ==
  ASSUME Inv, Shared, UNCHANGED remotes, NEW i \in Instances,
         \A j \in Instances \ {i} : Same(j),
         phase'[i] = "fetching" => phase[i] = "fetching" /\ todo'[i] = todo[i]
  PROVE  Shared'
<1> SUFFICES ASSUME NEW r \in Remotes PROVE OneContext(r)' /\ OneCard(r)'
  BY DEF Shared
<1>1. OneContext(r)'
  BY DEF Shared, OneContext, remotes
<1>2. Fetching(r)' \subseteq Fetching(r)
  BY DEF Fetching, Same, Current
<1>3. Cardinality(Fetching(r)') <= Cardinality(Fetching(r))
  BY <1>2, FetchingIsFinite, FS_Subset
<1>4. fetches[r] \in Nat /\ OneCard(r) /\ fetches' = fetches /\ cards' = cards
  BY DEF Shared, Inv, TypeOK, CPTypeOK, remotes
<1>5. OneCard(r)'
  BY <1>3, <1>4, FetchingIsFinite, FetchingIsFiniteNext DEF OneCard
<1>6. QED BY <1>1, <1>5

\* Of the steps of a handler only two concern the remote agents.
LEMMA HandleRemotes ==
  ASSUME CPTypeOK, NEW i \in Instances, NEW p \in Points, NEW ctx,
         Handle(i, p, ctx), ~ Resolve(i, p), ~ CardFetched(i, p)
  PROVE  UNCHANGED remotes /\ phase'[i] # "fetching"
<1> USE DEF CPTypeOK, Goto, Answer, agents, RouteTo, remotes
<1>1. CASE HandleTask(i, p, ctx) \/ FinishTask(i, p, ctx)
  BY <1>1 DEF HandleTask, FinishTask
<1>2. CASE HandleGateway(i, p, ctx) \/ Decide(i, p, ctx)
  BY <1>2 DEF HandleGateway, Decide
<1>3. CASE HandleHook(i, p, ctx) \/ DecideHook(i, p, ctx)
  BY <1>3 DEF HandleHook, DecideHook
<1>4. CASE Consult(i, p) \/ RemoteAnswers(i, p, ctx) \/ RemoteFails(i, p, ctx)
  BY <1>4 DEF Consult, RemoteAnswers, RemoteFails
<1>5. QED BY <1>1, <1>2, <1>3, <1>4 DEF Handle

LEMMA OutsideRemotes ==
  ASSUME Inv, NEW i \in Instances, Step(i), ~ Handler(i)
  PROVE  /\ UNCHANGED remotes
         /\ phase'[i] = "fetching" => phase[i] = "fetching" /\ todo'[i] = todo[i]
<1>0. CPTypeOK /\ Calling(i)
  BY DEF Inv, TypeOK, Sound
<1>1. CASE Start(i) \/ TakeBranch(i) \/ ReachEnd(i)
  <2>1. Current(i) \in DOMAIN Branches \cup EndEvents => Current(i) \notin Points
    BY ProcessIsWellFormed
  <2>2. phase[i] = "idle"
    BY <1>0, <1>1, <2>1 DEF Start, TakeBranch, ReachEnd, Calling
  <2>3. QED
    BY <1>1, <2>2 DEF Start, TakeBranch, ReachEnd, cpVars, handlers, agents, remotes
<1>2. CASE CallFails(i) \/ CallTimesOut(i)
  BY <1>2 DEF CallFails, CallTimesOut, cpVars, handlers, agents, remotes
<1>3. CASE Call(i) \/ HandleComplete(i)
  BY <1>0, <1>3 DEF Call, Arrive, HandleComplete, Goto, CPTypeOK, agents, remotes
<1>4. CASE ExecuteTask(i) \/ RouteGateway(i) \/ EvaluateHook(i) \/ CompleteProcess(i)
  BY <1>0, <1>4 DEF ExecuteTask, RouteGateway, EvaluateHook, CompleteProcess, Returned, Leave, Goto,
                    CPTypeOK, agents, remotes
<1>5. QED BY <1>1, <1>2, <1>3, <1>4 DEF Step, Thread

\* A message keeps to the context of its agent, and makes it if there is none.
LEMMA PostKeepsContexts ==
  ASSUME CPTypeOK, Shared, NEW i \in Instances, NEW a \in Remotes, Post(i, a), NEW r \in Remotes
  PROVE  OneContext(r)'
<1>1. OneContext(r) /\ minted \in Nat /\ contexts \in [Remotes -> Nat] /\ sent \in [Remotes -> SUBSET Nat]
  BY DEF Shared, CPTypeOK
<1>2. CASE r = a
  <2>1. contexts'[r] = ContextOf(r) /\ sent'[r] = sent[r] \cup {ContextOf(r)}
    BY <1>1, <1>2 DEF Post
  <2>2. ContextOf(r) # 0 /\ sent[r] \subseteq {ContextOf(r)}
    BY <1>1 DEF ContextOf, OneContext
  <2>3. QED BY <2>1, <2>2 DEF OneContext
<1>3. CASE r # a
  BY <1>1, <1>3 DEF Post, OneContext
<1>4. QED BY <1>2, <1>3

LEMMA ResolveKeepsShared ==
  ASSUME Inv, Shared, NEW i \in Instances, NEW p \in Points, p = Current(i), Resolve(i, p),
         UNCHANGED todo, Config[p].remote \in Remotes,
         \A j \in Instances \ {i} : Same(j)
  PROVE  Shared'
<1> DEFINE a == Config[p].remote
<1>0. CPTypeOK
  BY DEF Inv, TypeOK
<1>1. CASE a \in cards
  <2>1. Post(i, a) /\ UNCHANGED <<cards, fetches>> /\ phase'[i] = "posting"
    BY <1>0, <1>1 DEF Resolve, Post, Goto, CPTypeOK
  <2> SUFFICES ASSUME NEW r \in Remotes PROVE OneContext(r)' /\ OneCard(r)'
    BY DEF Shared
  <2>2. OneContext(r)'
    BY <1>0, <2>1, PostKeepsContexts
  <2>3. Fetching(r)' \subseteq Fetching(r)
    BY <2>1 DEF Fetching, Same, Current
  <2>4. Cardinality(Fetching(r)') <= Cardinality(Fetching(r))
    BY <2>3, FetchingIsFinite, FS_Subset
  <2>5. fetches[r] \in Nat /\ OneCard(r)
    BY <1>0 DEF Shared, CPTypeOK
  <2>6. OneCard(r)'
    BY <2>1, <2>4, <2>5, FetchingIsFinite, FetchingIsFiniteNext DEF OneCard
  <2>7. QED BY <2>2, <2>6
<1>2. CASE a \notin cards
  <2>1. UNCHANGED <<cards, fetches, contexts, sent>>
    BY <1>2 DEF Resolve
  <2> SUFFICES ASSUME NEW r \in Remotes PROVE OneContext(r)' /\ OneCard(r)'
    BY DEF Shared
  <2>2. OneContext(r)'
    BY <2>1 DEF Shared, OneContext
  <2>3. CASE r = a
    <3>1. fetches'[r] = 0
      BY <1>2, <2>1, <2>3 DEF Shared, OneCard
    <3>2. QED BY <2>2, <3>1, FetchingIsFinite, FetchingIsFiniteNext DEF OneCard
  <2>4. CASE r # a
    <3>1. Fetching(r)' \subseteq Fetching(r)
      BY <2>4 DEF Fetching, Same, Current
    <3>2. Cardinality(Fetching(r)') <= Cardinality(Fetching(r))
      BY <3>1, FetchingIsFinite, FS_Subset
    <3>3. fetches[r] \in Nat /\ OneCard(r)
      BY <1>0 DEF Shared, CPTypeOK
    <3>4. QED BY <2>1, <2>2, <3>2, <3>3, FetchingIsFinite, FetchingIsFiniteNext DEF OneCard
  <2>5. QED BY <2>3, <2>4
<1>3. QED BY <1>1, <1>2

LEMMA CardFetchedKeepsShared ==
  ASSUME Inv, Shared, NEW i \in Instances, NEW p \in Points, p = Current(i), CardFetched(i, p),
         UNCHANGED todo, Config[p].remote \in Remotes,
         \A j \in Instances \ {i} : Same(j)
  PROVE  Shared'
<1> DEFINE a == Config[p].remote
<1>0. CPTypeOK
  BY DEF Inv, TypeOK
<1>1. /\ Post(i, a) /\ phase[i] = "fetching" /\ phase'[i] = "posting"
      /\ cards' = cards \cup {a} /\ fetches' = [fetches EXCEPT ![a] = @ + 1]
  BY <1>0 DEF CardFetched, Cached, Post, Goto, CPTypeOK
<1> SUFFICES ASSUME NEW r \in Remotes PROVE OneContext(r)' /\ OneCard(r)'
  BY DEF Shared
<1>2. OneContext(r)'
  BY <1>0, <1>1, PostKeepsContexts
<1>3. fetches[r] \in Nat /\ OneCard(r)
  BY <1>0 DEF Shared, CPTypeOK
<1>4. CASE r = a
  <2>1. i \in Fetching(r) /\ Fetching(r)' \subseteq Fetching(r) \ {i}
    BY <1>1, <1>4 DEF Fetching, Same, Current
  <2>2. IsFiniteSet(Fetching(r) \ {i}) /\ Cardinality(Fetching(r) \ {i}) = Cardinality(Fetching(r)) - 1
    BY <2>1, FetchingIsFinite, FS_RemoveElement
  <2>3. Cardinality(Fetching(r)') <= Cardinality(Fetching(r) \ {i})
    BY <2>1, <2>2, FS_Subset
  <2>4. fetches'[r] = fetches[r] + 1 /\ r \in cards'
    BY <1>0, <1>1, <1>4 DEF CPTypeOK
  <2>5. QED BY <1>2, <1>3, <2>2, <2>3, <2>4, FetchingIsFinite, FetchingIsFiniteNext DEF OneCard
<1>5. CASE r # a
  <2>1. Fetching(r)' \subseteq Fetching(r)
    BY <1>1 DEF Fetching, Same, Current
  <2>2. Cardinality(Fetching(r)') <= Cardinality(Fetching(r))
    BY <2>1, FetchingIsFinite, FS_Subset
  <2>3. fetches'[r] = fetches[r] /\ (r \notin cards' => r \notin cards)
    BY <1>0, <1>1, <1>5 DEF CPTypeOK
  <2>4. QED BY <1>2, <1>3, <2>2, <2>3, FetchingIsFinite, FetchingIsFiniteNext DEF OneCard
<1>6. QED BY <1>4, <1>5

LEMMA StepKeepsShared == ASSUME Inv, Shared, NEW i \in Instances, Step(i) PROVE Shared'
<1>0. \A j \in Instances \ {i} : Same(j)
  BY OthersAreSame
<1> DEFINE p == Current(i)
<1>1. CASE ~ Handler(i)
  BY <1>0, <1>1, OutsideRemotes, SharedUnchanged
<1>2. CASE Handler(i)
  <2>1. p \in Points /\ Handle(i, p, vars[i]) /\ UNCHANGED todo
    BY <1>2 DEF Handler, svcVars
  <2>2. CPTypeOK /\ Calling(i)
    BY DEF Inv, TypeOK, Sound
  <2>3. CASE Resolve(i, p)
    <3>1. Config[p].remote \in Remotes
      BY <2>2, <2>3 DEF Resolve, Calling
    <3>2. QED BY <1>0, <2>1, <2>3, <3>1, ResolveKeepsShared
  <2>4. CASE CardFetched(i, p)
    <3>1. Config[p].remote \in Remotes
      BY <2>2, <2>4 DEF CardFetched, Calling
    <3>2. QED BY <1>0, <2>1, <2>4, <3>1, CardFetchedKeepsShared
  <2>5. CASE ~ Resolve(i, p) /\ ~ CardFetched(i, p)
    <3>1. UNCHANGED remotes /\ phase'[i] # "fetching"
      BY <2>1, <2>2, <2>5, HandleRemotes
    <3>2. QED BY <1>0, <3>1, SharedUnchanged
  <2>6. QED BY <2>3, <2>4, <2>5
<1>3. QED BY <1>1, <1>2

LEMMA InitShared == Init => Shared
<1> SUFFICES ASSUME Init, NEW r \in Remotes PROVE OneContext(r) /\ OneCard(r)
  BY DEF Shared
<1>1. contexts[r] = 0 /\ sent[r] = {} /\ fetches[r] = 0
  BY DEF Init, CPInit
<1>2. QED BY <1>1, FetchingIsFinite DEF OneContext, OneCard

LEMMA StutterKeepsShared == Shared /\ UNCHANGED kVars => Shared'
<1> SUFFICES ASSUME Shared, UNCHANGED kVars, NEW r \in Remotes PROVE OneContext(r)' /\ OneCard(r)'
  BY DEF Shared
<1>1. Fetching(r)' = Fetching(r)
  BY DEF Fetching, Current, kVars, cpVars, svcVars, handlers
<1>2. QED BY <1>1 DEF Shared, OneContext, OneCard, kVars, cpVars, agents

\* A remote agent sees one context however its callers race, and its card is fetched once by each
\* instance at most (remote_agent.py:39, 86).
THEOREM OneContextAndOneCard == Spec => []OneContextAndCard
<1>1. Init => Inv /\ Shared
  BY InitIsSound, InitShared
<1>2. Inv /\ Shared /\ [Next]_kVars => (Inv /\ Shared)'
  <2> SUFFICES ASSUME Inv, Shared, [Next]_kVars PROVE Inv' /\ Shared'
    OBVIOUS
  <2>1. CASE Next
    <3>1. PICK i \in Instances : Step(i)
      BY <2>1 DEF Next, Step
    <3>2. QED BY <3>1, StepIsSound, StepKeepsShared
  <2>2. CASE UNCHANGED kVars
    BY <2>2, StutterIsSound, StutterKeepsShared
  <2>3. QED BY <2>1, <2>2
<1>3. Inv /\ Shared => OneContextAndCard
  <2> SUFFICES ASSUME Inv, Shared, NEW r \in Remotes
               PROVE  Cardinality(sent[r]) <= 1 /\ fetches[r] <= Cardinality(Instances)
    BY DEF OneContextAndCard
  <2>1. sent[r] \subseteq {contexts[r]}
    BY DEF Shared, OneContext
  <2>2. Cardinality(sent[r]) <= 1
    <3>1. IsFiniteSet({contexts[r]}) /\ Cardinality({contexts[r]}) = 1
      BY FS_Singleton
    <3>2. sent[r] \in SUBSET {contexts[r]}
      BY <2>1
    <3>3. Cardinality(sent[r]) <= Cardinality({contexts[r]})
      BY <3>1, <3>2, FS_Subset
    <3>4. QED BY <3>1, <3>3
  <2>3. fetches[r] \in Nat /\ OneCard(r)
    BY DEF Shared, Inv, TypeOK, CPTypeOK
  <2>4. QED BY <2>2, <2>3, FetchingIsFinite DEF OneCard
<1>4. QED BY <1>1, <1>2, <1>3, PTL DEF Spec
-----------------------------------------------------------------------------
(* The conditions *)

\* What is known of the verdict v of a call at p with the variables ctx, which stands at ph and
\* would be answered with the action a: it is that of the condition, and without a TRUE a hook that
\* has a condition can only continue.
Judgement(p, ctx, ph, v, a) ==
  LET c == Config[p].condition
  IN  /\ ph \in {"idle", "arrived"} => v = "none" /\ a = "continue"
      /\ ph # "idle" /\ v \in {"TRUE", "FALSE"} =>
           c # <<>> /\ (v = "TRUE" <=> EvalCondition(c, ctx))
      /\ ph \notin {"idle", "arrived"} /\ Config[p].kind = "hook" /\ c # <<>> /\ v # "TRUE" =>
           ph = "answered" /\ a = "continue"

Judged(i) == Judgement(Current(i), vars[i], phase[i], verdict[i], reply[i].action)

\* A step of the handler judges by the condition and the variables of its own call.
LEMMA HandleJudges ==
  ASSUME CPTypeOK, NEW i \in Instances, NEW p \in Points, NEW ctx \in Values,
         Judgement(p, ctx, phase[i], verdict[i], reply[i].action), Handle(i, p, ctx)
  PROVE  Judgement(p, ctx, phase'[i], verdict'[i], reply'[i].action)
<1> USE DEF CPTypeOK, Goto, Answer, Judgement
<1>1. CASE HandleTask(i, p, ctx)
  BY <1>1 DEF HandleTask
<1>2. CASE FinishTask(i, p, ctx)
  BY <1>2 DEF FinishTask
<1>3. CASE HandleGateway(i, p, ctx)
  BY <1>3 DEF HandleGateway, GatewayVerdict, RouteTo
<1>4. CASE Decide(i, p, ctx)
  BY <1>4 DEF Decide, RouteTo
<1>5. CASE HandleHook(i, p, ctx)
  <2>1. verdict'[i] = IF Config[p].known THEN HookVerdict(p, ctx) ELSE "none"
    BY <1>5 DEF HandleHook
  <2>2. verdict'[i] # "TRUE" /\ Config[p].condition # <<>> =>
          ~ Config[p].known \/ verdict'[i] = "FALSE"
    BY <2>1 DEF HookVerdict
  <2>3. verdict'[i] \in {"TRUE", "FALSE"} =>
          /\ Config[p].condition # <<>>
          /\ verdict'[i] = "TRUE" <=> EvalCondition(Config[p].condition, ctx)
    BY <2>1 DEF HookVerdict
  <2>4. phase'[i] \in {"answered", "thinking"}
    BY <1>5 DEF HandleHook
  <2>5. ~ Config[p].known \/ verdict'[i] = "FALSE" =>
          phase'[i] = "answered" /\ reply'[i].action = "continue"
    BY <1>5, <2>1 DEF HandleHook, Plainly
  <2>6. QED BY <2>2, <2>3, <2>4, <2>5
<1>6. CASE DecideHook(i, p, ctx)
  BY <1>6 DEF DecideHook
<1>7. CASE Consult(i, p)
  BY <1>7 DEF Consult
<1>8. CASE Resolve(i, p)
  BY <1>8 DEF Resolve, Post
<1>9. CASE CardFetched(i, p)
  BY <1>9 DEF CardFetched, Post
<1>10. CASE RemoteAnswers(i, p, ctx)
  BY <1>10 DEF RemoteAnswers
<1>11. CASE RemoteFails(i, p, ctx)
  BY <1>11 DEF RemoteFails
<1>12. QED
  BY <1>1, <1>2, <1>3, <1>4, <1>5, <1>6, <1>7, <1>8, <1>9, <1>10, <1>11 DEF Handle

\* The verdict and the variables of a call are its own.
LEMMA HandleVerdicts ==
  ASSUME CPTypeOK, NEW i \in Instances, NEW p \in Points, NEW ctx, Handle(i, p, ctx),
         NEW j \in Instances, j # i
  PROVE  verdict'[j] = verdict[j]
<1> USE DEF CPTypeOK, RouteTo
<1>1. CASE HandleTask(i, p, ctx) \/ FinishTask(i, p, ctx)
  BY <1>1 DEF HandleTask, FinishTask
<1>2. CASE HandleGateway(i, p, ctx) \/ Decide(i, p, ctx)
  BY <1>2 DEF HandleGateway, Decide
<1>3. CASE HandleHook(i, p, ctx) \/ DecideHook(i, p, ctx)
  BY <1>3 DEF HandleHook, DecideHook
<1>4. CASE Consult(i, p) \/ RemoteAnswers(i, p, ctx) \/ RemoteFails(i, p, ctx)
  BY <1>4 DEF Consult, RemoteAnswers, RemoteFails
<1>5. CASE Resolve(i, p) \/ CardFetched(i, p)
  BY <1>5 DEF Resolve, CardFetched
<1>6. QED BY <1>1, <1>2, <1>3, <1>4, <1>5 DEF Handle

LEMMA OthersKeepVerdicts ==
  ASSUME Inv, NEW i \in Instances, Step(i), NEW j \in Instances, j # i
  PROVE  verdict'[j] = verdict[j] /\ vars'[j] = vars[j]
<1>0. TypeOK /\ CPTypeOK
  BY DEF Inv, TypeOK
<1>1. CASE Handler(i)
  <2>1. Current(i) \in Points /\ Handle(i, Current(i), vars[i])
    BY <1>1 DEF Handler
  <2>2. verdict'[j] = verdict[j]
    BY <1>0, <2>1, HandleVerdicts
  <2>3. QED BY <1>1, <2>2 DEF Handler, svcVars
<1>2. CASE ExecuteTask(i) \/ RouteGateway(i) \/ EvaluateHook(i) \/ CompleteProcess(i)
  <2>1. Leave(i)
    BY <1>2 DEF ExecuteTask, RouteGateway, EvaluateHook, CompleteProcess, Returned
  <2>2. verdict'[j] = verdict[j]
    BY <1>0, <2>1 DEF Leave, CPTypeOK
  <2>3. WriteBack(i) \/ UNCHANGED vars
    BY <1>2 DEF ExecuteTask, RouteGateway, EvaluateHook, CompleteProcess
  <2>4. vars'[j] = vars[j]
    BY <1>0, <2>3 DEF WriteBack, TypeOK
  <2>5. QED BY <2>2, <2>4
<1>3. CASE Call(i) \/ HandleComplete(i)
  BY <1>3 DEF Call, Arrive, HandleComplete, svcVars
<1>4. CASE Start(i) \/ CallFails(i) \/ CallTimesOut(i) \/ TakeBranch(i) \/ ReachEnd(i)
  BY <1>4 DEF Start, CallFails, CallTimesOut, TakeBranch, ReachEnd, cpVars, handlers
<1>5. QED BY <1>1, <1>2, <1>3, <1>4 DEF Step, Thread

\* Between two calls nothing has been judged.
LEMMA RestIsJudged ==
  ASSUME NEW p, NEW ctx, NEW v, NEW a, v = "none", a = "continue"
  PROVE  Judgement(p, ctx, "idle", v, a) /\ Judgement(p, ctx, "arrived", v, a)
  BY DEF Judgement

LEMMA StepIsJudged ==
  ASSUME Inv, NEW i \in Instances, Judged(i), Step(i)
  PROVE  Judged(i)'
<1>0. TypeOK /\ CPTypeOK /\ vars[i] \in Values /\ Calling(i)
  BY DEF Inv, TypeOK, Sound
<1>1. CASE Handler(i)
  <2>1. Current(i) \in Points /\ Handle(i, Current(i), vars[i])
    BY <1>1 DEF Handler
  <2>2. Judgement(Current(i), vars[i], phase'[i], verdict'[i], reply'[i].action)
    BY <1>0, <2>1, HandleJudges DEF Judged
  <2>3. Current(i)' = Current(i) /\ vars' = vars
    BY <1>1 DEF Handler, svcVars, Current
  <2>4. QED BY <2>2, <2>3 DEF Judged
<1>2. CASE Call(i)
  <2>1. phase[i] = "idle" /\ phase'[i] = "arrived" /\ UNCHANGED <<verdict, reply>>
    BY <1>0, <1>2 DEF Call, Arrive, Goto, CPTypeOK
  <2>2. verdict[i] = "none" /\ reply[i].action = "continue"
    BY <2>1 DEF Judged, Judgement
  <2>3. QED BY <2>1, <2>2, RestIsJudged DEF Judged
<1>3. CASE HandleComplete(i)
  <2>1. /\ phase[i] = "arrived" /\ phase'[i] = "answered" /\ Kind(i) = "complete"
        /\ UNCHANGED <<verdict, todo, vars>>
    BY <1>0, <1>3 DEF HandleComplete, Goto, CPTypeOK, Kind
  <2>2. verdict[i] = "none" /\ Current(i)' = Current(i)
    BY <2>1 DEF Judged, Judgement, Current
  <2>3. QED BY <2>1, <2>2 DEF Judged, Judgement, Kind
<1>4. CASE ExecuteTask(i) \/ RouteGateway(i) \/ EvaluateHook(i) \/ CompleteProcess(i)
  <2>1. Leave(i)
    BY <1>4 DEF ExecuteTask, RouteGateway, EvaluateHook, CompleteProcess, Returned
  <2>2. phase'[i] = "idle" /\ verdict'[i] = "none" /\ reply'[i] = NoAnswer
    BY <1>0, <2>1 DEF Leave, Goto, CPTypeOK
  <2>3. reply'[i].action = "continue"
    BY <2>2 DEF NoAnswer, Plainly
  <2>4. QED BY <2>2, <2>3, RestIsJudged DEF Judged
<1>5. CASE CallFails(i) \/ CallTimesOut(i)
  BY <1>5 DEF CallFails, CallTimesOut, cpVars, handlers, Judged, Current
<1>6. CASE Start(i) \/ TakeBranch(i) \/ ReachEnd(i)
  <2>1. Current(i) \in DOMAIN Branches \cup EndEvents => Current(i) \notin Points
    BY ProcessIsWellFormed
  <2>2. phase[i] = "idle"
    BY <1>0, <1>6, <2>1 DEF Start, TakeBranch, ReachEnd, Calling
  <2>3. UNCHANGED <<phase, verdict, reply>>
    BY <1>6 DEF Start, TakeBranch, ReachEnd, cpVars, handlers
  <2>4. verdict[i] = "none" /\ reply[i].action = "continue"
    BY <2>2 DEF Judged, Judgement
  <2>5. QED BY <2>2, <2>3, <2>4, RestIsJudged DEF Judged
<1>7. QED BY <1>1, <1>2, <1>3, <1>4, <1>5, <1>6 DEF Step, Thread

LEMMA NextIsJudged ==
  ASSUME Inv, \A i \in Instances : Judged(i), [Next]_kVars, NEW i \in Instances
  PROVE  Judged(i)'
<1>1. CASE UNCHANGED kVars
  BY <1>1 DEF kVars, cpVars, svcVars, handlers, Judged, Current
<1>2. CASE Next
  <2>1. PICK k \in Instances : Step(k)
    BY <1>2 DEF Next, Step
  <2>2. CASE k = i
    BY <2>1, <2>2, StepIsJudged
  <2>3. CASE k # i
    <3>1. Same(i) /\ verdict'[i] = verdict[i] /\ vars'[i] = vars[i]
      BY <2>1, <2>3, OthersAreSame, OthersKeepVerdicts
    <3>2. Current(i)' = Current(i)
      BY <3>1 DEF Same, Current
    <3>3. QED BY <3>1, <3>2 DEF Same, Judged
  <2>4. QED BY <2>2, <2>3
<1>3. QED BY <1>1, <1>2

LEMMA SeqOfSuperset == ASSUME NEW A, NEW B, NEW s \in Seq(A) PROVE s \in Seq(A \cup B)
<1>1. Len(s) \in Nat /\ s \in [1..Len(s) -> A]
  OBVIOUS
<1>2. s \in [1..Len(s) -> A \cup B]
  BY <1>1
<1>3. QED BY <1>1, <1>2

\* A verdict on a comparison is what the comparison means.
LEMMA JudgedByMeaning ==
  ASSUME Comparisons, Inv, NEW i \in Instances, Judged(i), phase[i] # "idle",
         verdict[i] \in {"TRUE", "FALSE"}, Plain(vars[i][Config[Current(i)].condition[1]])
  PROVE  verdict[i] = "TRUE" <=> Means(Config[Current(i)].condition, vars[i])
<1> DEFINE c == Config[Current(i)].condition
<1>1. Current(i) \in Points /\ vars[i] \in Values
  BY DEF Inv, TypeOK, Sound, Calling
<1>2. c \in Seq(STRING)
  BY <1>1, Configured DEF PointConfig
<1>3. c # <<>> /\ (verdict[i] = "TRUE" <=> EvalCondition(c, vars[i]))
  BY DEF Judged, Judgement
<1>4. Comparison(c, Variables) /\ Variables \intersect Signs = {}
  BY <1>1, <1>3 DEF Comparisons
<1>5. DOMAIN vars[i] = Variables /\ \A v \in Variables : vars[i][v] \in Seq(STRING)
  BY <1>1, PointsAreConfigured DEF Values
<1>6. \A s \in Seq(STRING) : s \in Seq(STRING \cup Signs)
  BY SeqOfSuperset
<1>7. EvalCondition(c, vars[i]) <=> Means(c, vars[i])
  <2> HIDE DEF c
  <2>1. ASSUME NEW ctx, ctx = vars[i] PROVE EvalCondition(c, ctx) <=> Means(c, ctx)
    <3>1. /\ DOMAIN ctx \intersect Signs = {} /\ \A v \in DOMAIN ctx : ctx[v] \in Seq(STRING)
          /\ Comparison(c, DOMAIN ctx) /\ Plain(ctx[c[1]])
      BY <1>4, <1>5, <2>1 DEF c
    <3>2. c \in Seq(STRING \cup Signs) /\ \A v \in DOMAIN ctx : ctx[v] \in Seq(STRING \cup Signs)
      BY <1>2, <1>6, <3>1
    <3>3. QED BY <3>1, <3>2, ComparisonHolds
  <2>2. QED BY <2>1
<1>8. QED BY <1>3, <1>7

\* Where every condition compares a variable with a literal, each is decided as it reads, on the
\* variables of the instance that called and although the handlers of all of them interleave; and
\* a hook whose condition does not hold has no effect (decision_agent.py:113, flow_agent.py:177).
THEOREM ConditionsMeanWhatTheySay == ASSUME Comparisons PROVE Spec => []ConditionsHold
<1> DEFINE AllJudged == \A i \in Instances : Judged(i)
<1>1. Init => Inv /\ AllJudged
  <2> SUFFICES ASSUME Init, NEW i \in Instances PROVE Judged(i)
    BY InitIsSound
  <2>1. phase[i] = "idle" /\ verdict[i] = "none" /\ reply[i].action = "continue"
    BY DEF Init, CPInit, NoAnswer, Plainly
  <2>2. QED BY <2>1, RestIsJudged DEF Judged
<1>2. Inv /\ AllJudged /\ [Next]_kVars => (Inv /\ AllJudged)'
  BY NextIsJudged, StepIsSound, StutterIsSound DEF Next, Step
<1>3. Inv /\ AllJudged => ConditionsHold
  <2> SUFFICES ASSUME Inv, AllJudged, NEW i \in Instances, phase[i] # "idle", todo[i] # <<>>
               PROVE  LET p == Current(i)
                          c == Config[p].condition
                      IN  /\ verdict[i] \in {"TRUE", "FALSE"} /\ Plain(vars[i][c[1]])
                                => (verdict[i] = "TRUE" <=> Means(c, vars[i]))
                          /\ Config[p].kind = "hook" /\ c # <<>> /\ reply[i].action # "continue"
                                => verdict[i] = "TRUE"
    BY DEF ConditionsHold
  <2>1. Judged(i)
    OBVIOUS
  <2>2. QED BY <2>1, JudgedByMeaning DEF Judged, Judgement
<1> HIDE DEF AllJudged
<1>4. QED BY <1>1, <1>2, <1>3, PTL DEF Spec
=============================================================================
