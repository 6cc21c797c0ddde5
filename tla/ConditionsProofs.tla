-------------------------- MODULE ConditionsProofs --------------------------
(***************************************************************************)
(* _safe_compare decides a comparison as it reads, whatever the value and  *)
(* the literal are: the texts of any length in which no sign occurs.  The  *)
(* argument is where in the text the operators can be found, and that the  *)
(* longer ones are looked for first.                                       *)
(***************************************************************************)
EXTENDS Conditions, SequenceTheorems, TLAPS

\* The places of an operator of one sign, and of one of two.
LEMMA OneSign ==
  ASSUME NEW S, NEW t \in Seq(S), NEW o \in S
  PROVE  Places(<<o>>, t) = {k \in 1..Len(t) : t[k] = o}
<1>1. ASSUME NEW k \in 1..Len(t)
      PROVE  SubSeq(t, k, k) = <<o>> <=> t[k] = o
  <2>1. k \in Int /\ \A i \in k..k : t[i] \in S
    BY ElementOfSeq
  <2>2. SubSeq(t, k, k) \in Seq(S) /\ Len(SubSeq(t, k, k)) = 1 /\ SubSeq(t, k, k)[1] = t[k]
    BY <2>1, SubSeqProperties
  <2>3. <<o>> \in Seq(S) /\ Len(<<o>>) = 1 /\ <<o>>[1] = o
    OBVIOUS
  <2>4. ASSUME t[k] = o PROVE SubSeq(t, k, k) = <<o>>
    <3>1. \A i \in 1..Len(SubSeq(t, k, k)) : SubSeq(t, k, k)[i] = <<o>>[i]
      <4>1. ASSUME NEW i \in 1..1 PROVE i = 1
        OBVIOUS
      <4>2. QED BY <2>2, <2>3, <2>4, <4>1
    <3>2. QED BY <2>2, <2>3, <3>1, SeqEqual
  <2>5. QED BY <2>2, <2>3, <2>4
<1>2. Len(<<o>>) = 1 /\ Len(t) \in Nat
  OBVIOUS
<1>3. \A k \in 1..(Len(t) - 1 + 1) : k \in 1..Len(t) /\ k + 1 - 1 = k
  BY <1>2
<1>4. QED BY <1>1, <1>2, <1>3 DEF Places

LEMMA TwoSigns ==
  ASSUME NEW S, NEW t \in Seq(S), NEW o \in S, NEW q \in S
  PROVE  Places(<<o, q>>, t) = {k \in 1..(Len(t) - 1) : t[k] = o /\ t[k + 1] = q}
<1>1. ASSUME NEW k \in 1..(Len(t) - 1)
      PROVE  SubSeq(t, k, k + 1) = <<o, q>> <=> t[k] = o /\ t[k + 1] = q
  <2>1. k \in Int /\ k + 1 \in Int /\ \A i \in k..(k + 1) : t[i] \in S
    BY ElementOfSeq
  <2>2. /\ SubSeq(t, k, k + 1) \in Seq(S) /\ Len(SubSeq(t, k, k + 1)) = 2
        /\ SubSeq(t, k, k + 1)[1] = t[k] /\ SubSeq(t, k, k + 1)[2] = t[k + 1]
    <3>1. /\ SubSeq(t, k, k + 1) \in Seq(S)
          /\ Len(SubSeq(t, k, k + 1)) = IF k <= k + 1 THEN k + 1 - k + 1 ELSE 0
          /\ \A i \in 1..(k + 1 - k + 1) : SubSeq(t, k, k + 1)[i] = t[k + i - 1]
      BY <2>1, SubSeqProperties
    <3>2. QED BY <2>1, <3>1
  <2>3. <<o, q>> \in Seq(S) /\ Len(<<o, q>>) = 2 /\ <<o, q>>[1] = o /\ <<o, q>>[2] = q
    OBVIOUS
  <2>4. ASSUME t[k] = o, t[k + 1] = q PROVE SubSeq(t, k, k + 1) = <<o, q>>
    <3>1. \A i \in 1..Len(SubSeq(t, k, k + 1)) : SubSeq(t, k, k + 1)[i] = <<o, q>>[i]
      <4>1. ASSUME NEW i \in 1..2 PROVE i = 1 \/ i = 2
        OBVIOUS
      <4>2. QED BY <2>2, <2>3, <2>4, <4>1
    <3>2. QED BY <2>2, <2>3, <3>1, SeqEqual
  <2>5. QED BY <2>2, <2>3, <2>4
<1>2. Len(<<o, q>>) = 2 /\ Len(t) \in Nat
  OBVIOUS
<1>3. \A k \in 1..(Len(t) - 2 + 1) : k \in 1..(Len(t) - 1) /\ k + 2 - 1 = k + 1
  BY <1>2
<1>4. Len(t) - 2 + 1 = Len(t) - 1
  BY <1>2
<1>5. QED BY <1>1, <1>2, <1>3, <1>4 DEF Places

\* What FlattenSeq makes of three sequences, and of four.
LEMMA FlattenThree ==
  ASSUME NEW seqs, Len(seqs) = 3
  PROVE  FlattenSeq(seqs) = (seqs[1] \o seqs[2]) \o seqs[3]
<1> DEFINE Step(g, i) == IF i = 1 THEN seqs[i] ELSE g[i - 1] \o seqs[i]
           Fits(g) == g = [i \in 1..3 |-> Step(g, i)]
           w == [i \in 1..3 |-> IF i = 1 THEN seqs[1] ELSE IF i = 2 THEN seqs[1] \o seqs[2]
                ELSE (seqs[1] \o seqs[2]) \o seqs[3]]
<1>1. Fits(w)
  OBVIOUS
<1>2. ASSUME NEW g, Fits(g) PROVE g[3] = (seqs[1] \o seqs[2]) \o seqs[3]
  <2>1. \A i \in 1..3 : g[i] = Step(g, i)
    BY <1>2
  <2>2. g[1] = Step(g, 1) /\ g[2] = Step(g, 2) /\ g[3] = Step(g, 3)
    BY <2>1
  <2>3. Step(g, 1) = seqs[1]
    OBVIOUS
  <2>4. Step(g, 2) = g[1] \o seqs[2]
    OBVIOUS
  <2>5. Step(g, 3) = g[2] \o seqs[3]
    OBVIOUS
  <2> HIDE DEF Step
  <2>6. QED BY <2>2, <2>3, <2>4, <2>5
<1>3. FlattenSeq(seqs) = (CHOOSE g : Fits(g))[3]
  BY DEF FlattenSeq
<1> HIDE DEF Fits
<1>4. Fits(CHOOSE g : Fits(g))
  BY <1>1
<1>5. QED BY <1>2, <1>3, <1>4

LEMMA FlattenFour ==
  ASSUME NEW seqs, Len(seqs) = 4
  PROVE  FlattenSeq(seqs) = ((seqs[1] \o seqs[2]) \o seqs[3]) \o seqs[4]
<1> DEFINE Step(g, i) == IF i = 1 THEN seqs[i] ELSE g[i - 1] \o seqs[i]
           Fits(g) == g = [i \in 1..4 |-> Step(g, i)]
           w == [i \in 1..4 |-> IF i = 1 THEN seqs[1] ELSE IF i = 2 THEN seqs[1] \o seqs[2] ELSE IF i = 3 THEN (seqs[1] \o seqs[2]) \o seqs[3]
                ELSE ((seqs[1] \o seqs[2]) \o seqs[3]) \o seqs[4]]
<1>1. Fits(w)
  OBVIOUS
<1>2. ASSUME NEW g, Fits(g) PROVE g[4] = ((seqs[1] \o seqs[2]) \o seqs[3]) \o seqs[4]
  <2>1. \A i \in 1..4 : g[i] = Step(g, i)
    BY <1>2
  <2>2. g[1] = Step(g, 1) /\ g[2] = Step(g, 2) /\ g[3] = Step(g, 3) /\ g[4] = Step(g, 4)
    <3> HIDE DEF Step
    <3>1. QED BY <2>1
  <2>3. Step(g, 1) = seqs[1]
    OBVIOUS
  <2>4. Step(g, 2) = g[1] \o seqs[2]
    OBVIOUS
  <2>5. Step(g, 3) = g[2] \o seqs[3]
    OBVIOUS
  <2>6. Step(g, 4) = g[3] \o seqs[4]
    OBVIOUS
  <2> HIDE DEF Step
  <2>7. QED BY <2>2, <2>3, <2>4, <2>5, <2>6
<1>3. FlattenSeq(seqs) = (CHOOSE g : Fits(g))[4]
  BY DEF FlattenSeq
<1> HIDE DEF Fits
<1>4. Fits(CHOOSE g : Fits(g))
  BY <1>1
<1>5. QED BY <1>2, <1>3, <1>4

-----------------------------------------------------------------------------
(* A text that reads value, an operator of m signs, literal *)

Reads(t, value, m, literal) ==
  /\ Len(t) = Len(value) + m + 1
  /\ \A k \in 1..Len(value) : t[k] = value[k]
  /\ t[Len(t)] = literal

\* The operator begins at k, and this is left and right of it.
Parts(t, k, value, m, literal) ==
  SubSeq(t, 1, k - 1) = value /\ SubSeq(t, k + m, Len(t)) = <<literal>>

LEMMA Sides ==
  ASSUME NEW S, NEW t \in Seq(S), NEW value \in Seq(S), NEW m \in Nat, NEW literal \in S,
         Reads(t, value, m, literal), NEW k \in Nat, k = Len(value) + 1
  PROVE  Parts(t, k, value, m, literal)
<1> DEFINE n == Len(value)
           l == SubSeq(t, 1, k - 1)
           r == SubSeq(t, k + m, Len(t))
<1>1. n \in Nat /\ k = n + 1 /\ Len(t) = k + m /\ t[Len(t)] = literal
  BY DEF Reads
<1>2. l \in Seq(S) /\ Len(l) = n /\ \A i \in 1..n : l[i] = t[i]
  <2>1. \A i \in 1..(k - 1) : t[i] \in S
    BY <1>1, ElementOfSeq
  <2>2. /\ l \in Seq(S) /\ Len(l) = IF 1 <= k - 1 THEN k - 1 - 1 + 1 ELSE 0
        /\ \A i \in 1..(k - 1 - 1 + 1) : l[i] = t[1 + i - 1]
    BY <1>1, <2>1, SubSeqProperties
  <2> HIDE DEF l, n
  <2>3. QED BY <1>1, <2>2
<1>3. l = value
  <2>1. \A i \in 1..Len(l) : l[i] = value[i]
    BY <1>2 DEF Reads
  <2> HIDE DEF l
  <2>2. QED BY <1>2, <2>1, SeqEqual
<1>4. r \in Seq(S) /\ Len(r) = 1 /\ r[1] = literal
  <2>1. \A i \in (k + m)..Len(t) : t[i] \in S
    BY <1>1, ElementOfSeq
  <2>2. /\ r \in Seq(S)
        /\ Len(r) = IF k + m <= Len(t) THEN Len(t) - (k + m) + 1 ELSE 0
        /\ \A i \in 1..(Len(t) - (k + m) + 1) : r[i] = t[k + m + i - 1]
    BY <1>1, <2>1, SubSeqProperties
  <2> HIDE DEF r, n
  <2>3. QED BY <1>1, <2>2
<1>5. r = <<literal>>
  <2> HIDE DEF r
  <2>1. <<literal>> \in Seq(S) /\ Len(<<literal>>) = 1 /\ <<literal>>[1] = literal
    OBVIOUS
  <2>2. \A i \in 1..Len(r) : r[i] = <<literal>>[i]
    BY <1>4, <2>1
  <2>3. QED BY <1>4, <2>1, <2>2, SeqEqual
<1>6. QED BY <1>3, <1>5 DEF Parts

LEMMA LeastOf ==
  ASSUME NEW T, NEW x \in T, T \subseteq Int, \A y \in T : x <= y
  PROVE  Min(T) = x
<1> DEFINE Least(z) == \A y \in T : z <= y
<1>1. Least(x) /\ \A z \in T : Least(z) => z = x
  OBVIOUS
<1> HIDE DEF Least
<1>2. (CHOOSE z \in T : Least(z)) = x
  BY <1>1
<1>3. QED BY <1>2 DEF Least, Min

\* Where the text is cut, and into what.
LEMMA CutAt ==
  ASSUME NEW S, NEW t \in Seq(S), NEW value \in Seq(S), NEW literal \in S, <<literal>> # None,
         NEW j \in 1..6, Reads(t, value, Len(CmpOps[j]), literal),
         j \in Contained(t), \A i \in Contained(t) : j <= i,
         Places(CmpOps[j], t) = {Len(value) + 1}
  PROVE  SafeCompare(t) <=> ~ IsNone(value) /\ Apply(CmpOps[j], value, <<literal>>)
<1>1. Min(Contained(t)) = j /\ Contained(t) # {}
  <2>1. Contained(t) \subseteq Int
    BY DEF Contained
  <2>2. QED BY <2>1, LeastOf
<1> DEFINE k == Min(Places(CmpOps[j], t))
           l == SubSeq(t, 1, k - 1)
           r == SubSeq(t, k + Len(CmpOps[j]), Len(t))
<1>2. k = Len(value) + 1
  <2> DEFINE T == {Len(value) + 1}
  <2>1. T \subseteq Int /\ Len(value) + 1 \in T /\ \A y \in T : Len(value) + 1 <= y
    OBVIOUS
  <2> HIDE DEF T
  <2>2. Min(T) = Len(value) + 1
    BY <2>1, LeastOf
  <2>3. QED BY <2>2 DEF T
<1>3. Len(CmpOps[j]) \in Nat
  BY DEF CmpOps
<1>4. l = value /\ r = <<literal>>
  <2>1. k \in Nat
    <3> HIDE DEF k
    <3>1. QED BY <1>2
  <2>2. ASSUME NEW m \in Nat, Reads(t, value, m, literal), NEW i \in Nat, i = Len(value) + 1
        PROVE  Parts(t, i, value, m, literal)
    BY <2>2, Sides
  <2> HIDE DEF k
  <2>3. Parts(t, k, value, Len(CmpOps[j]), literal)
    BY <1>2, <1>3, <2>1, <2>2, Zenon
  <2>4. QED BY <2>3, Zenon DEF Parts
<1>5. ~ IsNone(<<literal>>)
  BY DEF IsNone
<1>6. SafeCompare(t) <=> ~ IsNone(l) /\ ~ IsNone(r) /\ Apply(CmpOps[j], l, r)
  BY <1>1, Zenon DEF SafeCompare
<1> HIDE DEF k, l, r
<1>7. QED BY <1>4, <1>5, <1>6

\* The signs of a text are those of its operator.
SignsAt(t, n, m) == \A k \in 1..Len(t) : t[k] \in Signs <=> k \in (n + 1)..(n + m)

LEMMA Operators ==
  /\ Len(CmpOps) = 6
  /\ CmpOps[1] = <<">", "=">> /\ CmpOps[2] = <<"<", "=">>
  /\ CmpOps[3] = <<"!", "=">> /\ CmpOps[4] = <<"=", "=">>
  /\ CmpOps[5] = <<">">> /\ CmpOps[6] = <<"<">>
BY DEF CmpOps

LEMMA IsContained ==
  ASSUME NEW t, NEW j
  PROVE  j \in Contained(t) <=> j \in 1..6 /\ Places(CmpOps[j], t) # {}
<1>1. Len(CmpOps) = 6
  BY Operators
<1>2. QED BY <1>1, Zenon DEF Contained

LEMMA ReadsSigns ==
  ASSUME NEW S, Signs \subseteq S, NEW t \in Seq(S), NEW value \in Seq(S), Plain(value), NEW m \in Nat,
         NEW literal \in S \ Signs, Reads(t, value, m, literal),
         \A k \in (Len(value) + 1)..(Len(value) + m) : t[k] \in Signs
  PROVE  SignsAt(t, Len(value), m)
<1> SUFFICES ASSUME NEW k \in 1..Len(t)
             PROVE  t[k] \in Signs <=> k \in (Len(value) + 1)..(Len(value) + m)
  BY DEF SignsAt
<1>1. Len(value) \in Nat /\ Len(t) = Len(value) + m + 1 /\ t[Len(t)] \notin Signs
  BY DEF Reads
<1>2. CASE k \in 1..Len(value)
  <2>1. t[k] \notin Signs
    BY <1>2 DEF Reads, Plain
  <2>2. QED BY <1>1, <1>2, <2>1
<1>3. CASE k = Len(t)
  BY <1>1, <1>3
<1>4. CASE k \in (Len(value) + 1)..(Len(value) + m)
  BY <1>4
<1>5. QED BY <1>1, <1>2, <1>3, <1>4

\* An operator of one sign: none of two is found, and no other one.
LEMMA ShortIsFound ==
  ASSUME NEW S, Signs \subseteq S, NEW t \in Seq(S), NEW n \in Nat, n < Len(t), SignsAt(t, n, 1),
         NEW j \in 5..6, t[n + 1] = CmpOps[j][1]
  PROVE  /\ j \in Contained(t) /\ \A i \in Contained(t) : j <= i
         /\ Places(CmpOps[j], t) = {n + 1}
<1>1. \A k \in 1..Len(t) : t[k] \in Signs <=> k = n + 1
  BY DEF SignsAt
<1>2. Len(t) \in Nat /\ n + 1 \in 1..Len(t)
  OBVIOUS
<1>3. ASSUME NEW o \in Signs, NEW q \in Signs PROVE Places(<<o, q>>, t) = {}
  <2>1. o \in S /\ q \in S
    OBVIOUS
  <2>2. Places(<<o, q>>, t) = {k \in 1..(Len(t) - 1) : t[k] = o /\ t[k + 1] = q}
    BY <2>1, TwoSigns
  <2>3. ASSUME NEW k \in 1..(Len(t) - 1), t[k] \in Signs, t[k + 1] \in Signs PROVE FALSE
    <3>1. k \in 1..Len(t) /\ k + 1 \in 1..Len(t)
      BY <1>2
    <3>2. QED BY <1>1, <2>3, <3>1
  <2>4. QED BY <2>2, <2>3
<1>4. ASSUME NEW o \in Signs PROVE Places(<<o>>, t) = IF t[n + 1] = o THEN {n + 1} ELSE {}
  <2>1. o \in S
    OBVIOUS
  <2>2. Places(<<o>>, t) = {k \in 1..Len(t) : t[k] = o}
    BY <2>1, OneSign
  <2>3. QED BY <1>1, <1>2, <2>2
<1>5. {">", "<", "!", "="} = Signs
  BY DEF Signs
<1>6. /\ Places(CmpOps[1], t) = {} /\ Places(CmpOps[2], t) = {}
      /\ Places(CmpOps[3], t) = {} /\ Places(CmpOps[4], t) = {}
  BY <1>3, <1>5, Operators
<1>7. /\ Places(CmpOps[5], t) = IF t[n + 1] = ">" THEN {n + 1} ELSE {}
      /\ Places(CmpOps[6], t) = IF t[n + 1] = "<" THEN {n + 1} ELSE {}
  BY <1>4, <1>5, Operators
<1>8. \A i \in 1..6 : i \in {1, 2, 3, 4, 5, 6}
  OBVIOUS
<1>9. CmpOps[5][1] = ">" /\ CmpOps[6][1] = "<"
  BY Operators
<1>10. {n + 1} # {}
  OBVIOUS
<1>11. CASE j = 5
  <2>1. Places(CmpOps[5], t) = {n + 1} /\ Places(CmpOps[6], t) = {}
    BY <1>7, <1>9, <1>11
  <2>2. \A i \in 1..6 : Places(CmpOps[i], t) # {} <=> i = 5
    BY <1>6, <1>8, <1>10, <2>1
  <2>3. 5 \in Contained(t)
    <3>1. 5 \in 1..6 /\ Places(CmpOps[5], t) # {}
      BY <2>2
    <3>2. QED BY <3>1, IsContained, Zenon
  <2>4. ASSUME NEW i \in Contained(t) PROVE i = 5
    BY <2>2, IsContained
  <2>5. QED BY <1>11, <2>1, <2>3, <2>4
<1>12. CASE j = 6
  <2>1. Places(CmpOps[6], t) = {n + 1} /\ Places(CmpOps[5], t) = {}
    BY <1>7, <1>9, <1>12
  <2>2. \A i \in 1..6 : Places(CmpOps[i], t) # {} <=> i = 6
    BY <1>6, <1>8, <1>10, <2>1
  <2>3. 6 \in Contained(t)
    <3>1. 6 \in 1..6 /\ Places(CmpOps[6], t) # {}
      BY <2>2
    <3>2. QED BY <3>1, IsContained, Zenon
  <2>4. ASSUME NEW i \in Contained(t) PROVE i = 6
    BY <2>2, IsContained
  <2>5. QED BY <1>12, <2>1, <2>3, <2>4
<1>13. QED BY <1>11, <1>12

\* One of two signs: it is the first that is found, although its first sign
\* may be an operator too.
LEMMA LongIsFound ==
  ASSUME NEW S, Signs \subseteq S, NEW t \in Seq(S), NEW n \in Nat, n + 1 < Len(t), SignsAt(t, n, 2),
         NEW j \in 1..4, t[n + 1] = CmpOps[j][1], t[n + 2] = "="
  PROVE  /\ j \in Contained(t) /\ \A i \in Contained(t) : j <= i
         /\ Places(CmpOps[j], t) = {n + 1}
<1>1. \A k \in 1..Len(t) : t[k] \in Signs <=> k = n + 1 \/ k = n + 2
  BY DEF SignsAt
<1>2. Len(t) \in Nat /\ n + 1 \in 1..Len(t) /\ n + 2 \in 1..Len(t)
  OBVIOUS
<1>3. ASSUME NEW o \in Signs
      PROVE  Places(<<o, "=">>, t) = IF t[n + 1] = o THEN {n + 1} ELSE {}
  <2>1. o \in S /\ "=" \in S /\ "=" \in Signs
    BY DEF Signs
  <2>2. Places(<<o, "=">>, t) = {k \in 1..(Len(t) - 1) : t[k] = o /\ t[k + 1] = "="}
    BY <2>1, TwoSigns
  <2>3. ASSUME NEW k \in 1..(Len(t) - 1), t[k] \in Signs, t[k + 1] \in Signs PROVE k = n + 1
    <3>1. k \in 1..Len(t) /\ k + 1 \in 1..Len(t)
      BY <1>2
    <3>2. QED BY <1>1, <2>3, <3>1
  <2>4. n + 1 \in 1..(Len(t) - 1) /\ n + 1 + 1 = n + 2
    BY <1>2
  <2>5. CASE t[n + 1] = o
    BY <2>1, <2>2, <2>3, <2>4, <2>5
  <2>6. CASE t[n + 1] # o
    <3>1. \A k \in 1..(Len(t) - 1) : ~ (t[k] = o /\ t[k + 1] = "=")
      BY <2>1, <2>3, <2>6
    <3>2. Places(<<o, "=">>, t) = {}
      BY <2>2, <3>1
    <3>3. QED BY <2>6, <3>2
  <2>7. QED BY <2>5, <2>6
<1>4. ">" \in Signs /\ "<" \in Signs /\ "!" \in Signs /\ "=" \in Signs
  BY DEF Signs
<1>5. /\ Places(CmpOps[1], t) = IF t[n + 1] = ">" THEN {n + 1} ELSE {}
      /\ Places(CmpOps[2], t) = IF t[n + 1] = "<" THEN {n + 1} ELSE {}
      /\ Places(CmpOps[3], t) = IF t[n + 1] = "!" THEN {n + 1} ELSE {}
      /\ Places(CmpOps[4], t) = IF t[n + 1] = "=" THEN {n + 1} ELSE {}
  BY <1>3, <1>4, Operators
<1>6. /\ CmpOps[1][1] = ">" /\ CmpOps[2][1] = "<" /\ CmpOps[3][1] = "!" /\ CmpOps[4][1] = "="
      /\ Len(CmpOps) = 6
  BY Operators
<1>7. \A i \in 1..6 : i \in {1, 2, 3, 4, 5, 6}
  OBVIOUS
<1>8. j \in {1, 2, 3, 4}
  OBVIOUS
<1>9. Places(CmpOps[j], t) = {n + 1}
  BY <1>5, <1>6, <1>8
<1>10. ASSUME NEW i \in 1..4, i < j PROVE Places(CmpOps[i], t) = {}
  <2>1. i \in {1, 2, 3, 4}
    OBVIOUS
  <2>2. CmpOps[i][1] # CmpOps[j][1]
    BY <1>6, <1>8, <1>10, <2>1
  <2>3. QED BY <1>5, <1>6, <2>1, <2>2
<1>11. j \in Contained(t)
  <2>1. {n + 1} # {}
    OBVIOUS
  <2>2. j \in 1..6
    OBVIOUS
  <2>3. QED BY <1>9, <2>1, <2>2, IsContained
<1>12. ASSUME NEW i \in Contained(t) PROVE j <= i
  <2>1. i \in 1..6 /\ Places(CmpOps[i], t) # {}
    BY IsContained
  <2>2. i < j => i \in 1..4
    BY <2>1
  <2>3. ~ (i < j)
    BY <1>10, <2>1, <2>2
  <2>4. QED BY <2>1, <2>3
<1>13. QED BY <1>9, <1>11, <1>12

-----------------------------------------------------------------------------
(* A condition of three tokens, and one of four *)

LEMMA JoinThree ==
  ASSUME NEW S, NEW value \in Seq(S), NEW o \in S, NEW literal \in S
  PROVE  LET t == (value \o <<o>>) \o <<literal>>
         IN  t \in Seq(S) /\ Reads(t, value, 1, literal) /\ t[Len(value) + 1] = o
<1> DEFINE u == value \o <<o>>
           t == u \o <<literal>>
           n == Len(value)
<1>1. /\ <<o>> \in Seq(S) /\ Len(<<o>>) = 1 /\ <<o>>[1] = o /\ n \in Nat
      /\ <<literal>> \in Seq(S) /\ Len(<<literal>>) = 1 /\ <<literal>>[1] = literal
  OBVIOUS
<1>2. u \in Seq(S) /\ Len(u) = n + 1 /\ u[n + 1] = o /\ \A i \in 1..n : u[i] = value[i]
  <2>1. /\ u \in Seq(S) /\ Len(u) = n + 1
        /\ \A i \in 1..(n + 1) : u[i] = IF i <= n THEN value[i] ELSE <<o>>[i - n]
    BY <1>1, ConcatProperties
  <2> HIDE DEF u, n
  <2>2. QED BY <1>1, <2>1
<1> HIDE DEF u
<1>3. /\ t \in Seq(S) /\ Len(t) = n + 1 + 1
      /\ \A i \in 1..(n + 1 + 1) : t[i] = IF i <= n + 1 THEN u[i] ELSE <<literal>>[i - (n + 1)]
  BY <1>1, <1>2, ConcatProperties
<1> HIDE DEF t, n
<1>4. t[n + 1] = o /\ t[n + 2] = literal /\ \A i \in 1..n : t[i] = value[i]
  <2>1. n + 1 \in 1..(n + 1 + 1) /\ n + 2 \in 1..(n + 1 + 1) /\ ~ (n + 2 <= n + 1) /\ n + 2 - (n + 1) = 1
    BY <1>1
  <2>2. t[n + 1] = u[n + 1] /\ t[n + 2] = <<literal>>[1]
    BY <1>1, <1>3, <2>1
  <2>3. ASSUME NEW i \in 1..n PROVE t[i] = u[i]
    BY <1>1, <1>3
  <2>4. QED BY <1>1, <1>2, <2>2, <2>3
<1>5. Reads(t, value, 1, literal)
  BY <1>1, <1>3, <1>4 DEF Reads, n
<1>6. QED BY <1>3, <1>4, <1>5 DEF t, u, n

LEMMA JoinFour ==
  ASSUME NEW S, NEW value \in Seq(S), NEW o \in S, NEW q \in S, NEW literal \in S
  PROVE  LET t == ((value \o <<o>>) \o <<q>>) \o <<literal>>
         IN  /\ t \in Seq(S) /\ Reads(t, value, 2, literal)
             /\ t[Len(value) + 1] = o /\ t[Len(value) + 2] = q
<1> DEFINE u == (value \o <<o>>) \o <<q>>
           t == u \o <<literal>>
           n == Len(value)
<1>1. <<literal>> \in Seq(S) /\ Len(<<literal>>) = 1 /\ <<literal>>[1] = literal /\ n \in Nat
  OBVIOUS
<1>2. /\ u \in Seq(S) /\ Len(u) = n + 2 /\ u[n + 1] = o /\ u[n + 2] = q
      /\ \A i \in 1..n : u[i] = value[i]
  <2>1. u \in Seq(S) /\ Reads(u, value, 1, q) /\ u[n + 1] = o
    BY JoinThree
  <2> HIDE DEF u
  <2>2. QED BY <1>1, <2>1 DEF Reads
<1> HIDE DEF u
<1>3. /\ t \in Seq(S) /\ Len(t) = n + 2 + 1
      /\ \A i \in 1..(n + 2 + 1) : t[i] = IF i <= n + 2 THEN u[i] ELSE <<literal>>[i - (n + 2)]
  BY <1>1, <1>2, ConcatProperties
<1> HIDE DEF t, n
<1>4. t[n + 1] = o /\ t[n + 2] = q /\ t[n + 3] = literal /\ \A i \in 1..n : t[i] = value[i]
  BY <1>1, <1>2, <1>3
<1>5. Reads(t, value, 2, literal)
  BY <1>1, <1>3, <1>4 DEF Reads, n
<1>6. QED BY <1>3, <1>4, <1>5 DEF t, u, n

LEMMA Middle ==
  ASSUME NEW S, NEW c \in Seq(S), Len(c) \in 3..4
  PROVE  LET op == SubSeq(c, 2, Len(c) - 1)
         IN  Len(op) = Len(c) - 2 /\ \A i \in 1..(Len(c) - 2) : op[i] = c[i + 1]
<1> DEFINE op == SubSeq(c, 2, Len(c) - 1)
<1>1. \A i \in 2..(Len(c) - 1) : c[i] \in S
  BY ElementOfSeq
<1>2. /\ Len(op) = IF 2 <= Len(c) - 1 THEN Len(c) - 1 - 2 + 1 ELSE 0
      /\ \A i \in 1..(Len(c) - 1 - 2 + 1) : op[i] = c[2 + i - 1]
  BY <1>1, SubSeqProperties
<1> HIDE DEF op
<1>3. Len(op) = Len(c) - 2
  <2>1. 2 <= Len(c) - 1 /\ Len(c) - 1 - 2 + 1 = Len(c) - 2
    <3>1. ASSUME NEW n \in 3..4 PROVE 2 <= n - 1 /\ n - 1 - 2 + 1 = n - 2
      OBVIOUS
    <3>2. QED BY <3>1
  <2>2. QED BY <1>2, <2>1, Zenon
<1>4. ASSUME NEW i \in 1..(Len(c) - 2) PROVE op[i] = c[i + 1]
  <2>1. i \in 1..(Len(c) - 1 - 2 + 1) /\ 2 + i - 1 = i + 1
    OBVIOUS
  <2>2. op[i] = c[2 + i - 1]
    BY <1>2, <2>1
  <2>3. QED BY <2>1, <2>2
<1>5. QED BY <1>3, <1>4 DEF op

\* The theorem about _safe_compare: a comparison of a value with a literal is
\* decided as it reads, and a value that is not there satisfies none.
LEMMA ComparisonHolds ==
  ASSUME NEW S, Signs \subseteq S, NEW c \in Seq(S), NEW vars,
         DOMAIN vars \intersect Signs = {}, \A v \in DOMAIN vars : vars[v] \in Seq(S),
         Comparison(c, DOMAIN vars), Plain(vars[c[1]])
  PROVE  EvalCondition(c, vars) <=> Means(c, vars)
<1> DEFINE value == vars[c[1]]
           literal == c[Len(c)]
           op == SubSeq(c, 2, Len(c) - 1)
           seqs == [k \in 1..Len(c) |-> IF c[k] \in DOMAIN vars THEN vars[c[k]] ELSE <<c[k]>>]
           t == Substitute(c, vars)
<1>1. /\ Len(c) \in 3..4 /\ c[1] \in DOMAIN vars
      /\ literal \in S \ Signs /\ literal \notin DOMAIN vars /\ <<literal>> # None
  <2>1. Len(c) \in 3..4 /\ c[1] \in DOMAIN vars /\ literal \notin DOMAIN vars \cup Signs \cup {"None"}
    BY DEF Comparison
  <2>2. literal \in S
    BY <2>1, ElementOfSeq
  <2>3. <<literal>> # None
    <3>1. <<literal>>[1] = literal /\ None[1] = "None"
      BY DEF None
    <3>2. QED BY <2>1, <3>1
  <2>4. QED BY <2>1, <2>2, <2>3
<1>2. value \in Seq(S)
  BY <1>1
<1>3. PICK j \in 1..6 : op = CmpOps[j]
  BY Operators DEF Comparison
<1>4. Len(op) = Len(c) - 2 /\ \A i \in 1..(Len(c) - 2) : op[i] = c[i + 1]
  BY <1>1, Middle
<1>5. Means(c, vars) <=> ~ IsNone(value) /\ Apply(op, value, <<literal>>)
  BY Zenon DEF Means
<1>6. c # <<>>
  BY <1>1
<1>7. EvalCondition(c, vars) <=> SafeCompare(t)
  BY <1>6 DEF EvalCondition
<1>8. t = FlattenSeq(seqs)
  BY DEF Substitute
<1>9. seqs[1] = value /\ seqs[Len(c)] = <<literal>> /\ Len(seqs) = Len(c)
  BY <1>1
<1>10. \A k \in 2..(Len(c) - 1) : c[k] \in Signs => seqs[k] = <<c[k]>>
  BY <1>1
<1> HIDE DEF t, seqs, literal, value, op
<1>11. CASE Len(c) = 3
  <2>1. j \in 5..6 /\ c[2] = CmpOps[j][1] /\ Len(CmpOps[j]) = 1
    <3>1. Len(CmpOps[j]) = 1 /\ CmpOps[j][1] = c[2]
      BY <1>3, <1>4, <1>11
    <3>2. ASSUME j \in 1..4 PROVE FALSE
      <4>1. j = 1 \/ j = 2 \/ j = 3 \/ j = 4
        BY <3>2, SMT
      <4>2. Len(CmpOps[1]) = 2 /\ Len(CmpOps[2]) = 2 /\ Len(CmpOps[3]) = 2 /\ Len(CmpOps[4]) = 2
        BY DEF CmpOps
      <4>3. Len(CmpOps[j]) = 2
        BY <4>1, <4>2
      <4>4. 1 # 2
        OBVIOUS
      <4>5. QED BY <3>1, <4>3, <4>4, Zenon
    <3>3. QED BY <3>1, <3>2
  <2>2. c[2] \in Signs
    <3>1. j = 5 \/ j = 6
      BY <2>1
    <3>2. QED BY <2>1, <3>1, Operators DEF Signs
  <2>3. t = (value \o <<c[2]>>) \o <<literal>>
    <3>1. seqs[1] = value /\ seqs[2] = <<c[2]>> /\ seqs[3] = <<literal>> /\ Len(seqs) = 3
      BY <1>9, <1>10, <1>11, <2>2
    <3>2. t = (seqs[1] \o seqs[2]) \o seqs[3]
      BY <1>8, <3>1, FlattenThree
    <3>3. QED BY <3>1, <3>2, Zenon
  <2>4. t \in Seq(S) /\ Reads(t, value, 1, literal) /\ t[Len(value) + 1] = c[2]
    BY <1>1, <1>2, <2>2, <2>3, JoinThree
  <2>5. SignsAt(t, Len(value), 1)
    <3>1. \A k \in (Len(value) + 1)..(Len(value) + 1) : t[k] \in Signs
      BY <2>2, <2>4
    <3>2. QED BY <1>1, <1>2, <2>4, <3>1, ReadsSigns DEF value
  <2>6. Len(value) \in Nat /\ Len(value) < Len(t)
    BY <1>2, <2>4 DEF Reads
  <2>7. /\ j \in Contained(t) /\ \A i \in Contained(t) : j <= i
        /\ Places(CmpOps[j], t) = {Len(value) + 1}
    BY <2>1, <2>4, <2>5, <2>6, ShortIsFound
  <2>8. SafeCompare(t) <=> ~ IsNone(value) /\ Apply(CmpOps[j], value, <<literal>>)
    BY <1>1, <1>2, <2>1, <2>4, <2>7, CutAt
  <2>9. QED BY <1>3, <1>5, <1>7, <2>8
<1>12. CASE Len(c) = 4
  <2>1. j \in 1..4 /\ c[2] = CmpOps[j][1] /\ c[3] = "=" /\ Len(CmpOps[j]) = 2
    <3>1. Len(CmpOps[j]) = 2 /\ CmpOps[j][1] = c[2] /\ CmpOps[j][2] = c[3]
      BY <1>3, <1>4, <1>12
    <3>2. j \notin 5..6
      <4>1. \A i \in 5..6 : Len(CmpOps[i]) = 1
        BY DEF CmpOps
      <4>2. QED BY <3>1, <4>1
    <3>3. j \in 1..4
      BY <3>2
    <3>4. \A i \in 1..4 : CmpOps[i][2] = "="
      BY DEF CmpOps
    <3>5. QED BY <3>1, <3>3, <3>4
  <2>2. c[2] \in Signs /\ c[3] \in Signs
    <3>1. j = 1 \/ j = 2 \/ j = 3 \/ j = 4
      BY <2>1
    <3>2. QED BY <2>1, <3>1, Operators DEF Signs
  <2>3. t = ((value \o <<c[2]>>) \o <<c[3]>>) \o <<literal>>
    <3>1. /\ seqs[1] = value /\ seqs[2] = <<c[2]>> /\ seqs[3] = <<c[3]>>
          /\ seqs[4] = <<literal>> /\ Len(seqs) = 4
      <4>1. seqs[2] = <<c[2]>> /\ seqs[3] = <<c[3]>>
        BY <1>10, <1>12, <2>2
      <4>2. QED BY <1>9, <1>12, <4>1
    <3>2. t = ((seqs[1] \o seqs[2]) \o seqs[3]) \o seqs[4]
      BY <1>8, <3>1, FlattenFour
    <3>3. QED BY <3>1, <3>2, Zenon
  <2>4. /\ t \in Seq(S) /\ Reads(t, value, 2, literal)
        /\ t[Len(value) + 1] = c[2] /\ t[Len(value) + 2] = c[3]
    BY <1>1, <1>2, <2>2, <2>3, JoinFour
  <2>5. SignsAt(t, Len(value), 2)
    <3>1. \A k \in (Len(value) + 1)..(Len(value) + 2) : t[k] \in Signs
      BY <1>2, <2>2, <2>4
    <3>2. QED BY <1>1, <1>2, <2>4, <3>1, ReadsSigns DEF value
  <2>6. Len(value) \in Nat /\ Len(value) + 1 < Len(t)
    BY <1>2, <2>4 DEF Reads
  <2>7. /\ j \in Contained(t) /\ \A i \in Contained(t) : j <= i
        /\ Places(CmpOps[j], t) = {Len(value) + 1}
    BY <2>1, <2>4, <2>5, <2>6, LongIsFound
  <2>8. SafeCompare(t) <=> ~ IsNone(value) /\ Apply(CmpOps[j], value, <<literal>>)
    BY <1>1, <1>2, <2>1, <2>4, <2>7, CutAt
  <2>9. QED BY <1>3, <1>5, <1>7, <2>8
<1>13. QED BY <1>1, <1>11, <1>12
=============================================================================
