----------------------------- MODULE FoldFacts ------------------------------
(***************************************************************************)
(* Induction over a fold.  Op is the step, Inv what holds of the value after *)
(* k steps; c is whatever the two depend on.  A module instantiates Op and   *)
(* Inv with operators of its own, once per fold.                             *)
(***************************************************************************)
EXTENDS Naturals, Sequences

CONSTANTS Op(_, _, _), Inv(_, _, _)

\* FoldLeft of SequencesExt, with the operators it is defined from expanded.
Top(d) == CHOOSE x \in d : \A y \in d : x >= y
FoldStep(c, base, s, f, d) == IF d = {} THEN base ELSE Op(c, f[d \ {Top(d)}], s[Top(d)])
Fold(c, base, s) ==
  LET f == CHOOSE f : f = [d \in SUBSET DOMAIN s |-> FoldStep(c, base, s, f, d)]
  IN f[DOMAIN s]

\* Induction on numbers up to some n, as a fact about sets of numbers.
UpTo == \A n \in Nat : \A P : (0 \in P /\ \A k \in 1..n : k - 1 \in P => k \in P) => 0..n \subseteq P

-----------------------------------------------------------------------------

\* What the base has and each element keeps, the value of the fold has: a loop of
\* apply_usn_patch or of the aggregation keeps what each of its turns keeps.
THEOREM FoldKeeps ==
  ASSUME UpTo, NEW c, NEW base, NEW E, NEW s \in Seq(E), Inv(c, 0, base),
         \A k \in 1..Len(s) : \A x : Inv(c, k - 1, x) => Inv(c, k, Op(c, x, s[k]))
  PROVE  Inv(c, Len(s), Fold(c, base, s))
<1> DEFINE n == Len(s)
           f == CHOOSE f : f = [d \in SUBSET (1..n) |-> FoldStep(c, base, s, f, d)]
           P == {k \in 0..n : Inv(c, k, f[1..k])}
<1>1. n \in Nat /\ DOMAIN s = 1..n
  OBVIOUS
<1>2. f[1..n] = Fold(c, base, s)
  BY <1>1 DEF Fold
<1> HIDE DEF n
<1>3. \E g : g = [d \in SUBSET (1..n) |-> FoldStep(c, base, s, g, d)]
  <2> DEFINE Step(h, d) == FoldStep(c, base, s, h, d)
             Q == {m \in 0..n : \E h : h = [d \in SUBSET (1..m) |-> Step(h, d)]}
  <2>1. 0 \in Q
    <3> DEFINE h == [d \in SUBSET (1..0) |-> base]
    <3>1. h = [d \in SUBSET (1..0) |-> Step(h, d)]
      <4>1. \A d \in SUBSET (1..0) : d = {}
        OBVIOUS
      <4> QED
        BY <4>1 DEF FoldStep
    <3> HIDE DEF h, Step
    <3> QED
      BY <1>1, <3>1
  <2>2. ASSUME NEW m \in 1..n, m - 1 \in Q PROVE m \in Q
    <3>1. PICK h : h = [d \in SUBSET (1..(m - 1)) |-> Step(h, d)]
      BY <2>2
    <3> DEFINE g == [d \in SUBSET (1..m) |-> IF m \in d THEN Op(c, h[d \ {m}], s[m]) ELSE h[d]]
    <3>2. \A d \in SUBSET (1..m) : m \in d => Top(d) = m
      <4> SUFFICES ASSUME NEW d \in SUBSET (1..m), m \in d PROVE Top(d) = m
        OBVIOUS
      <4>1. \A y \in d : m >= y
        OBVIOUS
      <4>2. \A x \in d : (\A y \in d : x >= y) => x = m
        OBVIOUS
      <4> QED
        BY <4>1, <4>2 DEF Top
    <3>3. \A d \in SUBSET (1..m) : m \notin d => d \in SUBSET (1..(m - 1))
      OBVIOUS
    <3>4. \A d \in SUBSET (1..m) : d \ {m} \in SUBSET (1..(m - 1))
      OBVIOUS
    <3>5. \A d \in SUBSET (1..(m - 1)) : h[d] = Step(h, d)
      <4> HIDE DEF Step
      <4> QED
        BY <3>1
    <3>6. \A d \in SUBSET (1..(m - 1)) : g[d] = h[d]
      OBVIOUS
    <3>7. ASSUME NEW d \in SUBSET (1..m) PROVE g[d] = Step(g, d)
      <4>1. CASE m \in d
        <5>1. g[d] = Op(c, h[d \ {m}], s[m])
          BY <4>1
        <5>2. h[d \ {m}] = g[d \ {m}]
          BY <3>4, <3>6
        <5>3. Top(d) = m
          BY <3>2, <4>1
        <5> HIDE DEF g
        <5> QED
          BY <4>1, <5>1, <5>2, <5>3 DEF FoldStep
      <4>2. CASE m \notin d
        <5>1. d \in SUBSET (1..(m - 1))
          BY <3>3, <4>2
        <5>2. g[d] = Step(h, d)
          BY <3>5, <3>6, <5>1
        <5>3. CASE d = {}
          BY <5>2, <5>3 DEF FoldStep
        <5>4. CASE d # {}
          <6>1. d \ {Top(d)} \in SUBSET (1..(m - 1))
            BY <5>1
          <6>2. h[d \ {Top(d)}] = g[d \ {Top(d)}]
            BY <3>6, <6>1
          <6> HIDE DEF g
          <6> QED
            BY <5>2, <5>4, <6>2 DEF FoldStep
        <5> QED
          BY <5>3, <5>4
      <4> QED
        BY <4>1, <4>2
    <3>8. g = [d \in SUBSET (1..m) |-> Step(g, d)]
      <4> HIDE DEF Step
      <4> QED
        BY <3>7
    <3> HIDE DEF g, Step
    <3> QED
      BY <3>8
  <2>3. 0..n \subseteq Q
    <3> HIDE DEF Q
    <3> QED
      BY <1>1, <2>1, <2>2 DEF UpTo
  <2>4. n \in Q
    <3> HIDE DEF Q
    <3> QED
      BY <1>1, <2>3
  <2> QED
    BY <2>4
<1>4. f = [d \in SUBSET (1..n) |-> FoldStep(c, base, s, f, d)]
  BY <1>3
<1> HIDE DEF f
<1>5. f[1..0] = base
  <2>1. 1..0 = {}
    OBVIOUS
  <2> QED
    BY <1>4, <2>1 DEF FoldStep
<1>6. ASSUME NEW k \in 1..n PROVE f[1..k] = Op(c, f[1..(k - 1)], s[k])
  <2>1. (1..k) \ {k} = 1..(k - 1)
    BY <1>1
  <2>2. k \in 1..k /\ 1..k \in SUBSET (1..n)
    BY <1>1
  <2>3. Top(1..k) = k
    <3>1. \A y \in 1..k : k >= y
      BY <1>1
    <3>2. \A x \in 1..k : (\A y \in 1..k : x >= y) => x = k
      BY <1>1
    <3> QED
      BY <2>2, <3>1, <3>2 DEF Top
  <2>4. f[1..k] = FoldStep(c, base, s, f, 1..k)
    BY <1>4, <2>2
  <2> QED
    BY <2>1, <2>2, <2>3, <2>4 DEF FoldStep
<1>7. 0 \in P
  BY <1>1, <1>5
<1>8. \A k \in 1..n : k - 1 \in P => k \in P
  BY <1>1, <1>6 DEF n
<1>9. 0..n \subseteq P
  <2> HIDE DEF P
  <2> QED
    BY <1>1, <1>7, <1>8 DEF UpTo
<1> QED
  BY <1>1, <1>2, <1>9 DEF n

=============================================================================
