--------------------------- MODULE MCLangGraphEngine ---------------------------
(* Scenarios that TLC runs LangGraphEngine on. *)
EXTENDS LangGraphEngine, TLC

a == <<"a">>  b == <<"b">>  c == <<"c">>  d == <<"d">>
g == <<"g">>  h == <<"h">>  m == <<"m">>
start == <<"start">>  end == <<"end">>

Edge(id, source, target) == [id |-> <<id>>, source |-> source, target |-> target]
Process(kind, flows) ==
  [kind |-> kind, start |-> start, ends |-> {end},
   flows |-> {[id |-> flows[i].id, source |-> flows[i].source, target |-> flows[i].target,
               place |-> i] : i \in DOMAIN flows}]
Kind(tasks, exclusive, parallel) ==
  [n \in tasks \union exclusive \union parallel |->
     IF n \in tasks THEN Task ELSE IF n \in exclusive THEN Exclusive ELSE Parallel]

Answer(action, target, other) ==
  [action |-> action, target |-> target, other |-> other, sets |-> Empty]
Plain(action) == Answer(action, NoNode, NoNode)
To(action, target) == Answer(action, target, NoNode)
Setting(answer, values) == [answer EXCEPT !.sets = values]

Scenario(p, agents, answers) ==
  [process |-> p, agents |-> agents, answers |-> answers,
   outputs |-> [n \in agents |-> {}], vars |-> Empty,
   permitted |-> {}, prohibited |-> {}]

\* The same scenario under the kinds of action_permissions the applications use.
Governed(s) ==
  {s,
   [s EXCEPT !.permitted = {"continue", "skip_to", "terminate"}],
   [s EXCEPT !.prohibited = {"terminate", "add_node", "skip_node"}],
   [s EXCEPT !.permitted = {"continue", "skip_node"}, !.prohibited = {"skip_node"}]}

-----------------------------------------------------------------------------
(* One token: a line of tasks, and a choice of two branches *)

line == Process(Kind({a, b, c}, {}, {}),
          <<Edge("s", start, a), Edge("ab", a, b), Edge("bc", b, c), Edge("ce", c, end)>>)

Line == Scenario(line, {a, c},
  (<<"ab">> :> {Plain("terminate"), Plain("skip_node"), To("skip_to", c),
                To("skip_to", NoNode), To("remove_node", b), To("remove_node", c),
                To("add_node", <<"n1">>), Answer("swap_nodes", b, c)}) @@
  (<<"bc">> :> {Setting(Plain("skip_node"), "x" :> <<"hook">>), Plain("terminate"),
                To("add_node", <<"n2">>), Answer("swap_nodes", c, b)}) @@
  (<<"ce">> :> {To("add_node", <<"n3">>), Plain("terminate"), To("skip_to", a)}))

choice == Process(Kind({a, b, c}, {g, m}, {}),
            <<Edge("s", start, g), Edge("gb", g, b), Edge("gc", g, c),
              Edge("bm", b, m), Edge("cm", c, m), Edge("ma", m, a), Edge("ae", a, end)>>)

Choice == Scenario(choice, {g, b},
  (<<"gb">> :> {Plain("skip_node"), Plain("terminate"), To("skip_to", m),
                To("remove_node", b), To("add_node", <<"n1">>)}) @@
  (<<"gc">> :> {Plain("skip_node"), To("remove_node", a), Answer("swap_nodes", c, b)}) @@
  (<<"ma">> :> {Plain("skip_node"), Plain("terminate"), To("add_node", <<"n2">>)}))

\* Processes the engine does not get to run: a hook on the start flow, a hook
\* on a flow of a task that forks.
Refused ==
  {Scenario(line, {a}, <<"s">> :> {Plain("terminate")}),
   Scenario(Process(Kind({a, b}, {}, {}),
              <<Edge("s", start, a), Edge("ab", a, b), Edge("ae", a, end), Edge("be", b, end)>>),
            {a}, <<"ab">> :> {Plain("terminate")})}

Sequential == Governed(Line) \union Governed(Choice) \union Refused

-----------------------------------------------------------------------------
(* Two tokens: the receive_order application, and others of its shape *)

fork == Process(Kind({a, b, c}, {}, {g, h}),
          <<Edge("s", start, a), Edge("ag", a, g), Edge("gb", g, b), Edge("gc", g, c),
            Edge("bh", b, h), Edge("ch", c, h), Edge("he", h, end)>>)

Fork == Scenario(fork, {a, b, c},
  (<<"ag">> :> {Setting(Plain("continue"), "x" :> <<"hook">>), Plain("terminate")}) @@
  (<<"he">> :> {Plain("terminate"), Plain("skip_node")}))

\* Three tasks in a row beside a choice of two tasks.
mixed == Process(Kind({a, b, c, d, <<"u">>, <<"v">>}, {<<"x">>, <<"y">>}, {g, h}),
           <<Edge("s", start, g), Edge("gb", g, b), Edge("bc", b, c), Edge("cd", c, d),
             Edge("dh", d, h), Edge("gx", g, <<"x">>), Edge("xu", <<"x">>, <<"u">>),
             Edge("xv", <<"x">>, <<"v">>), Edge("uy", <<"u">>, <<"y">>),
             Edge("vy", <<"v">>, <<"y">>), Edge("yh", <<"y">>, h),
             Edge("ha", h, a), Edge("ae", a, end)>>)

Mixed == Scenario(mixed, {a, b, <<"u">>, <<"x">>}, <<"ha">> :> {Plain("terminate")})

\* A hook that runs beside a task.
beside == Process(Kind({a, b, c, d}, {}, {g, h}),
            <<Edge("s", start, g), Edge("gb", g, b), Edge("bh", b, h), Edge("gc", g, c),
              Edge("cd", c, d), Edge("dh", d, h), Edge("ha", h, a), Edge("ae", a, end)>>)

Beside == Scenario(beside, {a, b, c},
  <<"gb">> :> {Setting(Plain("continue"), "x" :> <<"hook">>), Plain("skip_node")})

Balanced == Governed(Fork) \union {Mixed, Beside}

\* One branch is a task longer than the other.
Uneven ==
  {Scenario(Process(Kind({a, b, c}, {}, {g, h}),
              <<Edge("s", start, g), Edge("gb", g, b), Edge("bc", b, c), Edge("ch", c, h),
                Edge("ga", g, a), Edge("ah", a, h), Edge("he", h, end)>>),
            {a, b}, Empty)}

\* Each branch sets a variable of its own that the flow declares.
Declared ==
  {[Fork EXCEPT !.outputs = (a :> {}) @@ (b :> {"x"}) @@ (c :> {"y"}),
                !.vars = [k \in {"x", "y"} |-> <<"initial">>]]}

\* A hook removes the last task of a line.
RemoveLast == {Scenario(line, {a, b}, <<"bc">> :> {To("remove_node", c)})}

\* A hook in front of a gateway asks to skip the next node.
BeforeGateway ==
  {Scenario(Process(Kind({a, b, c}, {g, m}, {}),
              <<Edge("s", start, a), Edge("ag", a, g), Edge("gb", g, b), Edge("gc", g, c),
                Edge("bm", b, m), Edge("cm", c, m), Edge("me", m, end)>>),
            {a, g}, <<"ag">> :> {Plain("skip_node")})}

\* A hook skips a task, or terminates the process.
SkipOrHalt == {Scenario(line, {a, c}, <<"bc">> :> {Plain("skip_node"), Plain("terminate")})}

\* A hook that may not skip a task sets the mark that does.
MarkSet == {[Scenario(line, {a, b}, <<"ab">> :> {Setting(Plain("continue"), Skip :> TRUE)})
               EXCEPT !.prohibited = {"skip_node"}]}

\* A hook jumps to a node that the process does not have.
Nowhere == {Scenario(line, {a, b}, <<"ab">> :> {To("skip_to", <<"nowhere">>)})}

\* Each of two parallel branches has a hook that jumps to the join.
TwoHooks == {Scenario(fork, {a, b, c},
              (<<"gb">> :> {To("skip_to", h)}) @@ (<<"gc">> :> {To("skip_to", h)}))}

\* A hook inside of one of two parallel branches terminates the process.
HaltInBranch == {Scenario(fork, {a, b, c}, <<"gb">> :> {Plain("terminate")})}

-----------------------------------------------------------------------------
(* These scenarios are of the classes that theorems are about. *)

Diverting == {"skip_to", "swap_nodes"} \union Structural
Answers(s) == UNION {s.answers[f] : f \in DOMAIN s.answers}

ASSUME MarksAssumption == Scenarios # MarkSet => OwnMarksKept

ASSUME SequentialAssumption ==
  \A p \in {line, choice} :
    OneWay(p) /\ OneIn(p) /\ UniqueIds(p) /\ Connected(p) /\ LeadsOn(p)

ASSUME AcyclicAssumption ==
  /\ Ordered(line, start :> 0 @@ a :> 1 @@ b :> 2 @@ c :> 3 @@ end :> 4)
  /\ Ordered(choice, start :> 0 @@ g :> 1 @@ b :> 2 @@ c :> 2 @@ m :> 3 @@ a :> 4 @@ end :> 5)

\* Hooks skip tasks, and jump to elements of the process.
ASSUME AnswersAssumption ==
  \A s \in {Line, Choice} : \A f \in Flows(s.process) : f.id \in DOMAIN s.answers =>
    \A answer \in s.answers[f.id] :
      /\ answer.action = "skip_node" => f.target \in Tasks(s.process)
      /\ answer.action \in Diverting \ Structural =>
           answer.target \in Elements(s.process) \union {NoNode}
      /\ answer.action = "swap_nodes" => answer.other \in Elements(s.process)

\* Some are permitted to change the process or to jump, some are not.
ASSUME GovernedAssumption ==
  \A s \in {Line, Choice} :
    \E fixed, tame \in Governed(s) :
      /\ fixed.permitted # {} /\ fixed.permitted \intersect Structural = {}
      /\ "skip_to" \in fixed.permitted
      /\ tame.permitted # {} /\ tame.permitted \intersect Diverting = {}

\* Branches run in step.
ASSUME BalancedAssumption ==
  LET hook(id) == HookNode(<<id>>)
      forkRank == a :> 0 @@ hook("ag") :> 1 @@ g :> 2 @@ b :> 3 @@ c :> 3 @@ h :> 4 @@ hook("he") :> 5
      mixedRank == g :> 0 @@ b :> 1 @@ c :> 2 @@ d :> 3 @@ <<"x">> :> 1 @@ <<"u">> :> 2
                     @@ <<"v">> :> 2 @@ <<"y">> :> 3 @@ h :> 4 @@ hook("ha") :> 5 @@ a :> 6
      besideRank == g :> 0 @@ hook("gb") :> 1 @@ b :> 2 @@ c :> 1 @@ d :> 2 @@ h :> 3 @@ a :> 4
      rank(s) == IF s = Fork THEN forkRank ELSE IF s = Mixed THEN mixedRank ELSE besideRank
  IN  \A s \in {Fork, Mixed, Beside} :
        LET hooked == DOMAIN s.answers
        IN  /\ {answer.action : answer \in Answers(s)} \intersect Diverting = {}
            /\ LeadsOn(s.process) /\ Compiles(s.process, hooked, NoNode)
            /\ Climbs(s.process, hooked, rank(s), 6) /\ Levelled(s.process, hooked, rank(s))
================================================================================
