----------------------------- MODULE Induction -----------------------------
(***************************************************************************)
(* Induction over data, said of sets: what holds at the start and is kept  *)
(* by a step holds of everything the steps reach.  And the loop that the   *)
(* readers of lines and reports are, for any step: a module that has one   *)
(* takes this one as an instance of its own.                               *)
(***************************************************************************)
EXTENDS Naturals, Sequences, SequenceTheorems, WellFoundedInduction, TLAPS

CONSTANTS
    Step(_, _),   \* what one element does to what the loop keeps
    Base          \* what it keeps before the first

\* A set that has 0 and, with a number, the next one.
THEOREM NumbersByStep ==
    ASSUME NEW S, 0 \in S, \A n \in Nat : n \in S => n + 1 \in S
    PROVE  Nat \subseteq S
<1>. DEFINE T == Nat \ S
            R == OpToRel(<, Nat)
<1>. SUFFICES ASSUME T # {}
              PROVE  FALSE
  OBVIOUS
<1>1. IsWellFoundedOn(R, Nat)
  BY NatLessThanWellFounded
<1>2. T \subseteq Nat
  OBVIOUS
<1>r. \A x, y \in Nat : x < y => <<x, y>> \in R
  BY DEF OpToRel
<1>3. PICK x \in T : \A y \in T : ~(<<y, x>> \in R)
  <2>. HIDE DEF T, R
  <2>. QED
    BY <1>1, <1>2, WFMin
<1>4. x # 0 /\ x \in Nat
  OBVIOUS
<1>5. x - 1 \in Nat /\ x - 1 < x
  BY <1>4
<1>6. x - 1 \notin T
  BY <1>r, <1>3, <1>4, <1>5
<1>7. x - 1 \in S
  BY <1>5, <1>6
<1>8. x \in S
  BY <1>5, <1>4, <1>7
<1>. QED
  BY <1>8

\* A set that has the empty sequence and, with a sequence, each that is one longer.
THEOREM SequencesByStep ==
    ASSUME NEW E, NEW S, <<>> \in S, \A s \in Seq(E), e \in E : s \in S => Append(s, e) \in S
    PROVE  Seq(E) \subseteq S
<1>. DEFINE N == {n \in Nat : \A s \in Seq(E) : Len(s) = n => s \in S}
<1>1. 0 \in N
  BY EmptySeq
<1>2. ASSUME NEW n \in Nat, n \in N
      PROVE  n + 1 \in N
  <2>. SUFFICES ASSUME NEW s \in Seq(E), Len(s) = n + 1
                PROVE  s \in S
    OBVIOUS
  <2>. DEFINE t == SubSeq(s, 1, n)
              e == s[n + 1]
  <2>1. t \in Seq(E) /\ Len(t) = n /\ e \in E
    OBVIOUS
  <2>2. s = Append(t, e)
    OBVIOUS
  <2>3. t \in S
    BY <1>2, <2>1
  <2>. HIDE DEF t, e
  <2>. QED
    BY <2>1, <2>2, <2>3
<1>3. Nat \subseteq N
  <2>. HIDE DEF N
  <2>. QED
    BY <1>1, <1>2, NumbersByStep
<1>. QED
  BY <1>3

\* A set of numbers has a least.
THEOREM Least ==
    ASSUME NEW S, S \subseteq Nat, S # {}
    PROVE  \E i \in S : \A j \in S : i <= j
<1>. DEFINE R == OpToRel(<, Nat)
<1>1. IsWellFoundedOn(R, Nat)
  BY NatLessThanWellFounded
<1>2. \A x, y \in Nat : x < y => <<x, y>> \in R
  BY DEF OpToRel
<1>3. PICK i \in S : \A y \in S : ~(<<y, i>> \in R)
  <2>. HIDE DEF R
  <2>. QED
    BY <1>1, WFMin
<1>4. \A j \in S : ~(j < i) /\ i \in Nat /\ j \in Nat
  BY <1>2, <1>3
<1>. QED
  BY <1>4

-----------------------------------------------------------------------------
(* The loop over a sequence. *)

Loop(s) ==
    LET upTo[i \in 0..Len(s)] == IF i = 0 THEN Base ELSE Step(upTo[i - 1], s[i])
    IN  upTo[Len(s)]

\* The values of the loop, from none of the elements to n of them.
Values(g, s, n) == g = [i \in 0..n |-> IF i = 0 THEN Base ELSE Step(g[i - 1], s[i])]

LEMMA ValuesStep ==
    ASSUME NEW s, NEW n \in Nat, NEW g, Values(g, s, n)
    PROVE  g[0] = Base /\ \A i \in 1..n : g[i] = Step(g[i - 1], s[i])
<1>1. \A i \in 0..n : g[i] = IF i = 0 THEN Base ELSE Step(g[i - 1], s[i])
  BY DEF Values
<1>. QED
  BY <1>1

LEMMA ValuesExist ==
    ASSUME NEW s
    PROVE  \A n \in Nat : \E g : Values(g, s, n)
<1>. DEFINE S == {n \in Nat : \E g : Values(g, s, n)}
<1>1. 0 \in S
  <2>. DEFINE g == [i \in 0..0 |-> Base]
  <2>1. Values(g, s, 0)
    BY DEF Values
  <2>. QED
    BY <2>1
<1>2. ASSUME NEW n \in Nat, n \in S
      PROVE  n + 1 \in S
  <2>1. PICK g : Values(g, s, n)
    BY <1>2
  <2>. DEFINE h == [i \in 0..(n + 1) |-> IF i = n + 1 THEN Step(g[n], s[n + 1]) ELSE g[i]]
  <2>2. g[0] = Base /\ \A i \in 1..n : g[i] = Step(g[i - 1], s[i])
    BY <2>1, ValuesStep
  <2>3. ASSUME NEW i \in 0..(n + 1)
        PROVE  h[i] = IF i = 0 THEN Base ELSE Step(h[i - 1], s[i])
    <3>1. CASE i = 0
      BY <2>2, <3>1
    <3>2. CASE i \in 1..n
      <4>1. i # n + 1 /\ i - 1 # n + 1 /\ i \in 0..(n + 1) /\ i - 1 \in 0..(n + 1)
        BY <3>2
      <4>. QED
        BY <2>2, <3>2, <4>1
    <3>3. CASE i = n + 1
      <4>1. i # 0 /\ i - 1 = n /\ n # n + 1 /\ n \in 0..(n + 1)
        BY <3>3
      <4>. QED
        BY <3>3, <4>1
    <3>. QED
      BY <3>1, <3>2, <3>3
  <2>4. h = [i \in 0..(n + 1) |-> h[i]]
    OBVIOUS
  <2>. HIDE DEF h
  <2>5. Values(h, s, n + 1)
    BY <2>3, <2>4 DEF Values
  <2>. QED
    BY <2>5
<1>3. Nat \subseteq S
  <2>. HIDE DEF S
  <2>. QED
    BY <1>1, <1>2, NumbersByStep
<1>. QED
  BY <1>3

\* Two loops that begin alike are alike so far.
LEMMA ValuesAgree ==
    ASSUME NEW s, NEW t, NEW n \in Nat, NEW m \in Nat, n <= m, \A i \in 1..n : s[i] = t[i],
           NEW g, Values(g, s, n), NEW h, Values(h, t, m)
    PROVE  g[n] = h[n]
<1>. DEFINE S == {i \in Nat : i \in 0..n => g[i] = h[i]}
<1>0. /\ g[0] = Base /\ \A i \in 1..n : g[i] = Step(g[i - 1], s[i])
      /\ h[0] = Base /\ \A i \in 1..m : h[i] = Step(h[i - 1], t[i])
  BY ValuesStep
<1>1. 0 \in S
  BY <1>0
<1>2. ASSUME NEW i \in Nat, i \in S
      PROVE  i + 1 \in S
  <2>. SUFFICES ASSUME i + 1 \in 0..n
                PROVE  g[i + 1] = h[i + 1]
    OBVIOUS
  <2>1. i \in 0..n /\ i + 1 \in 1..n /\ i + 1 \in 1..m /\ (i + 1) - 1 = i
    OBVIOUS
  <2>2. g[i] = h[i]
    BY <1>2, <2>1
  <2>. QED
    BY <1>0, <2>1, <2>2
<1>3. Nat \subseteq S
  <2>. HIDE DEF S
  <2>. QED
    BY <1>1, <1>2, NumbersByStep
<1>4. n \in S /\ n \in 0..n
  BY <1>3
<1>. QED
  BY <1>4

LEMMA LoopIs ==
    ASSUME NEW s, Len(s) \in Nat
    PROVE  \E g : Values(g, s, Len(s)) /\ Loop(s) = g[Len(s)]
<1>. DEFINE u == CHOOSE f : Values(f, s, Len(s))
<1>1. \E g : Values(g, s, Len(s))
  BY ValuesExist
<1>2. Values(u, s, Len(s))
  BY <1>1
<1>3. Loop(s) = u[Len(s)]
  BY DEF Loop, Values
<1>. QED
  BY <1>2, <1>3

\* A loop over nothing keeps what it began with, and one element more is one step more.
LEMMA LoopByStep ==
    /\ Loop(<<>>) = Base
    /\ \A S : \A s \in Seq(S), e \in S : Loop(Append(s, e)) = Step(Loop(s), e)
<1>1. Loop(<<>>) = Base
  <2>1. Len(<<>>) = 0
    OBVIOUS
  <2>2. PICK g : Values(g, <<>>, 0) /\ Loop(<<>>) = g[0]
    BY <2>1, LoopIs
  <2>. QED
    BY <2>2, ValuesStep
<1>2. ASSUME NEW S, NEW s \in Seq(S), NEW e \in S
      PROVE  Loop(Append(s, e)) = Step(Loop(s), e)
  <2>. DEFINE n == Len(s)
              more == Append(s, e)
  <2>1. n \in Nat /\ Len(more) = n + 1 /\ more[n + 1] = e /\ \A i \in 1..n : more[i] = s[i]
    BY AppendProperties
  <2>2. PICK g : Values(g, s, n) /\ Loop(s) = g[n]
    BY <2>1, LoopIs
  <2>. HIDE DEF more
  <2>r. Len(more) \in Nat
    BY <2>1
  <2>3. PICK h : Values(h, more, Len(more)) /\ Loop(more) = h[Len(more)]
    BY <2>r, LoopIs
  <2>. HIDE DEF n
  <2>4. n <= n + 1 /\ n + 1 \in Nat /\ n + 1 \in 1..(n + 1) /\ (n + 1) - 1 = n
    BY <2>1
  <2>5. Values(h, more, n + 1) /\ Loop(more) = h[n + 1]
    BY <2>1, <2>3
  <2>6. g[n] = h[n]
    <3>1. \A i \in 1..n : s[i] = more[i]
      BY <2>1
    <3>. QED
      BY <2>1, <2>2, <2>4, <2>5, <3>1, ValuesAgree
  <2>7. \A i \in 1..(n + 1) : h[i] = Step(h[i - 1], more[i])
    BY <2>4, <2>5, ValuesStep
  <2>8. Loop(more) = Step(Loop(s), e)
    BY <2>1, <2>2, <2>4, <2>5, <2>6, <2>7
  <2>. QED
    BY <2>8 DEF more
<1>. QED
  BY <1>1, <1>2

\* What the first value has and a step keeps, the loop has at its end.
LEMMA LoopKeeps ==
    ASSUME NEW V, NEW S, Base \in V, \A v \in V, e \in S : Step(v, e) \in V
    PROVE  \A s \in Seq(S) : Loop(s) \in V
<1>. DEFINE T == {s \in Seq(S) : Loop(s) \in V}
<1>1. <<>> \in T
  BY LoopByStep
<1>2. ASSUME NEW s \in Seq(S), NEW e \in S, s \in T
      PROVE  Append(s, e) \in T
  BY <1>2, LoopByStep
<1>3. Seq(S) \subseteq T
  <2>. HIDE DEF T
  <2>. QED
    BY <1>1, <1>2, SequencesByStep
<1>. QED
  BY <1>3

=============================================================================
