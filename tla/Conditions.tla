---------------------------- MODULE Conditions ----------------------------
(***************************************************************************)
(* The condition language of engine/decision_agent.py: a condition such as *)
(* "${credit_score} >= 2" is a text.  The variables in it are replaced by  *)
(* the text of their values, the result is cut at a comparison operator,   *)
(* and the two sides are read as literals.  A text is a sequence of tokens *)
(* here; a token is a variable reference, a sign, a numeral or a word.     *)
(***************************************************************************)
EXTENDS Integers, Sequences, SequencesExt

Numerals == {"0", "1", "2", "3"}
Number == [n \in Numerals |-> CASE n = "0" -> 0 [] n = "1" -> 1 [] n = "2" -> 2 [] n = "3" -> 3]
Signs == {"<", ">", "=", "!"}

\* What str() makes of a variable without a value.
None == <<"None">>

\* Mutant of CmpOps: the short operators first.
CmpOpsShortestFirst ==
    << <<">">>, <<"<">>, <<">", "=">>, <<"<", "=">>, <<"!", "=">>, <<"=", "=">> >>

\* The operators in the order in which the loop of _safe_compare tries them.
CmpOps == << <<">", "=">>, <<"<", "=">>, <<"!", "=">>, <<"=", "=">>, <<">">>, <<"<">> >>

\* ${v} is replaced by the text of v, or by "None"; a reference is the name of the variable.
Substitute(expr, vars) ==
    FlattenSeq([k \in 1..Len(expr) |->
                  IF expr[k] \in DOMAIN vars THEN vars[expr[k]] ELSE <<expr[k]>>])

\* A side that is a numeral is a number, "None" is None, everything else stays a text.
IsNumber(text) == Len(text) = 1 /\ text[1] \in Numerals
IsNone(text) == text = None

\* The order of Python on two literals of one type.  The order of texts is that of their
\* characters, which nothing here depends on: a longer text is the greater one.
Less(l, r) == IF IsNumber(l) THEN Number[l[1]] < Number[r[1]] ELSE Len(l) < Len(r)

\* A comparison of two literals; unlike types are unequal and have no order (TypeError).
Apply(op, l, r) ==
    LET alike == IsNumber(l) <=> IsNumber(r)
    IN  CASE op = <<"=", "=">> -> l = r
          [] op = <<"!", "=">> -> l # r
          [] op = <<">", "=">> -> alike /\ ~ Less(l, r)
          [] op = <<"<", "=">> -> alike /\ ~ Less(r, l)
          [] op = <<">">>      -> alike /\ Less(r, l)
          [] op = <<"<">>      -> alike /\ Less(l, r)

\* The positions of an operator in a text; split(op, 1) cuts at the first.
Places(op, expr) ==
    {k \in 1..(Len(expr) - Len(op) + 1) : SubSeq(expr, k, k + Len(op) - 1) = op}

Contained(expr) == {j \in 1..Len(CmpOps) : Places(CmpOps[j], expr) # {}}

SafeCompare(expr) ==
    /\ Contained(expr) # {}
    /\ LET op    == CmpOps[Min(Contained(expr))]
           k     == Min(Places(op, expr))
           left  == SubSeq(expr, 1, k - 1)
           right == SubSeq(expr, k + Len(op), Len(expr))
       IN  ~ IsNone(left) /\ ~ IsNone(right) /\ Apply(op, left, right)

EvalCondition(condition, vars) == condition # <<>> /\ SafeCompare(Substitute(condition, vars))

(***************************************************************************)
(* What a condition "variable operator literal" is meant to say: the value *)
(* stands in the relation to the literal, and nothing is said of a value   *)
(* that is not there.                                                      *)
(***************************************************************************)
Plain(text) == \A k \in 1..Len(text) : text[k] \notin Signs

Comparison(condition, names) ==
    /\ Len(condition) \in 3..4
    /\ condition[1] \in names
    /\ \E j \in 1..Len(CmpOps) : SubSeq(condition, 2, Len(condition) - 1) = CmpOps[j]
    /\ condition[Len(condition)] \notin names \cup Signs \cup {"None"}

Means(condition, vars) ==
    LET value   == vars[condition[1]]
        literal == <<condition[Len(condition)]>>
        op      == SubSeq(condition, 2, Len(condition) - 1)
    IN  ~ IsNone(value) /\ Apply(op, value, literal)
=============================================================================
