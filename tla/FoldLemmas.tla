----------------------------- MODULE FoldLemmas -----------------------------
(***************************************************************************)
(* What the folds of the community modules compute, as far as the models   *)
(* use them: sums over finite sets, the largest of a set, and loops over   *)
(* sequences.                                                              *)
(*                                                                         *)
(* An operator such as MapThenSumSet chooses a function that satisfies a   *)
(* recursive equation.  To know anything of it one has to know that there  *)
(* is one (FoldExists, by induction over the size of the set) and that all *)
(* such functions agree (SameSum, by induction over subsets).  Induction   *)
(* is used in the form of a fact about a set, which needs no operator as a *)
(* parameter and follows from well-foundedness: a set of numbers that has  *)
(* 0 and the successors of its members is Nat.                             *)
(***************************************************************************)
EXTENDS Integers, Sequences, FiniteSetsExt, FiniteSetTheorems, TLAPS

-----------------------------------------------------------------------------
(* Induction over numbers and over the subsets of a finite set             *)

\* A set of numbers that has 0 and the successor of each of its members has all.
LEMMA Induction ==
  ASSUME NEW T \in SUBSET Nat, 0 \in T, \A n \in T : n + 1 \in T
  PROVE  T = Nat
  <1> DEFINE R == OpToRel(<, Nat)
             U == Nat \ T
  <1>1. IsWellFoundedOn(R, Nat)
    BY NatLessThanWellFounded
  <1>2. \A x, y \in Nat : <<y, x>> \in R <=> y < x
    BY DEF OpToRel
  <1> HIDE DEF R
  <1>3. SUFFICES ASSUME U # {}
                 PROVE  FALSE
    OBVIOUS
  <1>4. PICK x \in U : \A y \in U : ~(<<y, x>> \in R)
    BY <1>1, <1>3, WFMin
  <1>5. x # 0 /\ x - 1 \in Nat /\ x - 1 < x
    BY <1>4
  <1>6. x - 1 \notin T
    BY <1>4, <1>5
  <1>7. <<x - 1, x>> \in R
    BY <1>2, <1>4, <1>5
  <1> QED
    BY <1>4, <1>5, <1>6, <1>7

-----------------------------------------------------------------------------
(* Folds exist                                                             *)

\* h folds op over the set s, taking ch[s] out of it first.
SolvesAt(h, s, base, op, ch) ==
  h[s] = IF s = {} THEN base ELSE op[ch[s]][h[s \ {ch[s]}]]

\* It does so over every subset of S.
Solves(h, S, V, base, op, ch) ==
  /\ h \in [SUBSET S -> V]
  /\ \A s \in SUBSET S : SolvesAt(h, s, base, op, ch)

\* Over a finite set there is such a function, whatever element is taken first.
LEMMA FoldExists ==
  ASSUME NEW S, IsFiniteSet(S), NEW V, NEW base \in V, NEW op \in [S -> [V -> V]],
         NEW ch, \A s \in SUBSET S : s # {} => ch[s] \in s
  PROVE  \E h : Solves(h, S, V, base, op, ch)
  <1> DEFINE UpTo(h, n) == \A s \in SUBSET S : Cardinality(s) <= n => SolvesAt(h, s, base, op, ch)
             T == {n \in Nat : \E h \in [SUBSET S -> V] : UpTo(h, n)}
  <1>0. \A s \in SUBSET S : /\ IsFiniteSet(s) /\ Cardinality(s) \in Nat
                            /\ Cardinality(s) <= Cardinality(S)
    BY FS_Subset, FS_CardinalityType
  <1>1. 0 \in T
    <2>1. [s \in SUBSET S |-> base] \in [SUBSET S -> V]
      OBVIOUS
    <2>2. \A s \in SUBSET S : Cardinality(s) <= 0 => s = {}
      BY <1>0, FS_EmptySet
    <2>3. UpTo([s \in SUBSET S |-> base], 0)
      BY <2>2 DEF SolvesAt
    <2> QED
      BY <2>1, <2>3
  <1>2. \A n \in T : n + 1 \in T
    <2> SUFFICES ASSUME NEW n \in T PROVE n + 1 \in T
      OBVIOUS
    <2>1. PICK h \in [SUBSET S -> V] : UpTo(h, n)
      OBVIOUS
    <2> DEFINE g == [s \in SUBSET S |-> IF s = {} THEN base ELSE op[ch[s]][h[s \ {ch[s]}]]]
    <2>2. g \in [SUBSET S -> V]
      OBVIOUS
    <2>3. \A s \in SUBSET S : Cardinality(s) <= n => h[s] = g[s]
      BY <2>1 DEF SolvesAt
    <2>4. \A s \in SUBSET S : g[s] = IF s = {} THEN base ELSE op[ch[s]][h[s \ {ch[s]}]]
      OBVIOUS
    <2> HIDE DEF g
    <2>5. ASSUME NEW s \in SUBSET S, Cardinality(s) <= n + 1
          PROVE  SolvesAt(g, s, base, op, ch)
      <3>1. CASE s = {}
        BY <3>1, <2>4 DEF SolvesAt
      <3>2. CASE s # {}
        <4> DEFINE r == s \ {ch[s]}
        <4>1. r \in SUBSET S /\ Cardinality(r) = Cardinality(s) - 1
          BY <3>2, <1>0, FS_RemoveElement
        <4>2. Cardinality(r) <= n
          BY <4>1, <2>5, <1>0
        <4>3. g[r] = h[r]
          BY <4>1, <4>2, <2>3
        <4> QED
          BY <4>3, <2>4, <3>2 DEF SolvesAt
      <3> QED
        BY <3>1, <3>2
    <2> QED
      BY <2>2, <2>5
  <1>3. Cardinality(S) \in Nat
    BY FS_CardinalityType
  <1>4. T = Nat
    <2> HIDE DEF T
    <2>1. T \in SUBSET Nat
      BY DEF T
    <2> QED
      BY <1>1, <1>2, <2>1, Induction
  <1>5. PICK h \in [SUBSET S -> V] : UpTo(h, Cardinality(S))
    BY <1>3, <1>4
  <1> QED
    BY <1>5, <1>0 DEF Solves

\* A collection of subsets of a finite set that has each one all of whose
\* neighbours below it has, has all of them.
LEMMA SubsetInduction ==
  ASSUME NEW S, IsFiniteSet(S), NEW T \in SUBSET (SUBSET S),
         \A s \in SUBSET S : (\A x \in s : s \ {x} \in T) => s \in T
  PROVE  T = SUBSET S
  <1> DEFINE R == StrictSubsetOrdering(S)
             U == (SUBSET S) \ T
  <1>1. IsWellFoundedOn(R, SUBSET S)
    BY FS_StrictSubsetOrderingWellFounded, FS_FiniteSubsetsOfFinite
  <1>2. \A s \in SUBSET S : \A x \in s : <<s \ {x}, s>> \in R
    BY DEF StrictSubsetOrdering
  <1> HIDE DEF R
  <1>3. SUFFICES ASSUME U # {}
                 PROVE  FALSE
    OBVIOUS
  <1>4. PICK s \in U : \A r \in U : ~(<<r, s>> \in R)
    BY <1>1, <1>3, WFMin
  <1>5. \A x \in s : s \ {x} \in T
    BY <1>2, <1>4
  <1> QED
    BY <1>4, <1>5

-----------------------------------------------------------------------------
(* Sums                                                                    *)

\* h[s] is the sum of w over s, for every subset s of S, in whatever order.
AddsUp(h, w, S) ==
  /\ h \in [SUBSET S -> Nat]
  /\ h[{}] = 0
  /\ \A s \in SUBSET S : \A x \in s : h[s] = w[x] + h[s \ {x}]

\* The sum of w[x] for the x in S.
SumOver(w, S) == (CHOOSE h : AddsUp(h, w, S))[S]

\* The equation of MapThenSumSet: the element taken out first is a chosen one.
Picked(h, w, S) ==
  h = [s \in SUBSET S |-> IF s = {} THEN 0
                          ELSE w[CHOOSE x \in s : TRUE] + h[s \ {CHOOSE x \in s : TRUE}]]

\* It has a solution.
LEMMA PickedExists ==
  ASSUME NEW S, IsFiniteSet(S), NEW w, \A x \in S : w[x] \in Nat
  PROVE  \E h \in [SUBSET S -> Nat] : Picked(h, w, S)
  <1> DEFINE op == [x \in S |-> [n \in Nat |-> w[x] + n]]
             ch == [s \in SUBSET S |-> CHOOSE x \in s : TRUE]
  <1>1. op \in [S -> [Nat -> Nat]]
    OBVIOUS
  <1>2. \A s \in SUBSET S : s # {} => ch[s] \in s
    OBVIOUS
  <1>3. \A s \in SUBSET S : ch[s] = CHOOSE x \in s : TRUE
    OBVIOUS
  <1>4. \A x \in S, n \in Nat : op[x][n] = w[x] + n
    OBVIOUS
  <1> HIDE DEF op, ch
  <1>5a. PICK h : Solves(h, S, Nat, 0, op, ch)
    BY <1>1, <1>2, FoldExists
  <1>5. h \in [SUBSET S -> Nat] /\ \A s \in SUBSET S : SolvesAt(h, s, 0, op, ch)
    BY <1>5a DEF Solves
  <1>6. ASSUME NEW s \in SUBSET S
        PROVE  h[s] = IF s = {} THEN 0 ELSE w[ch[s]] + h[s \ {ch[s]}]
    <2>1. CASE s = {}
      BY <1>5, <2>1 DEF SolvesAt
    <2>2. CASE s # {}
      <3>1. ch[s] \in S /\ h[s \ {ch[s]}] \in Nat
        BY <1>2, <1>5, <2>2
      <3> QED
        BY <1>4, <1>5, <2>2, <3>1 DEF SolvesAt
    <2> QED
      BY <2>1, <2>2
  <1>7. h = [s \in SUBSET S |-> IF s = {} THEN 0 ELSE w[ch[s]] + h[s \ {ch[s]}]]
    BY <1>5, <1>6
  <1>8. h = [s \in SUBSET S |-> IF s = {} THEN 0
                   ELSE w[CHOOSE x \in s : TRUE] + h[s \ {CHOOSE x \in s : TRUE}]]
    BY <1>3, <1>7
  <1> QED
    BY <1>5, <1>8 DEF Picked

\* A solution adds up in any order, not only in the one that it was made in.
LEMMA PickedAddsUp ==
  ASSUME NEW S, IsFiniteSet(S), NEW w, \A x \in S : w[x] \in Nat, NEW h, Picked(h, w, S)
  PROVE  AddsUp(h, w, S)
  <1> DEFINE ch(s) == CHOOSE x \in s : TRUE
  <1>1. \A s \in SUBSET S : s # {} => ch(s) \in s
    OBVIOUS
  <1>2. /\ \A s \in SUBSET S : h[s] = IF s = {} THEN 0 ELSE w[ch(s)] + h[s \ {ch(s)}]
        /\ h = [s \in SUBSET S |-> h[s]]
    BY DEF Picked
  <1> HIDE DEF ch
  <1>3. \A s \in SUBSET S : h[s] \in Nat
    <2> DEFINE T == {s \in SUBSET S : h[s] \in Nat}
    <2>1. ASSUME NEW s \in SUBSET S, \A x \in s : s \ {x} \in T
          PROVE  s \in T
      <3>1. CASE s = {}
        <4>1. h[s] = 0
          BY <3>1, <1>2
        <4> QED
          BY <4>1
      <3>2. CASE s # {}
        <4>1. ch(s) \in s /\ h[s \ {ch(s)}] \in Nat
          BY <3>2, <1>1, <2>1
        <4>2. h[s] = w[ch(s)] + h[s \ {ch(s)}]
          BY <3>2, <1>2
        <4> QED
          BY <4>1, <4>2
      <3> QED
        BY <3>1, <3>2
    <2>2. T \in SUBSET (SUBSET S)
      OBVIOUS
    <2> HIDE DEF T
    <2>3. T = SUBSET S
      BY <2>1, <2>2, SubsetInduction
    <2> QED
      BY <2>3 DEF T
  <1>4. \A s \in SUBSET S : \A x \in s : h[s] = w[x] + h[s \ {x}]
    <2> DEFINE T == {s \in SUBSET S : \A x \in s : h[s] = w[x] + h[s \ {x}]}
    <2>1. ASSUME NEW s \in SUBSET S, \A x \in s : s \ {x} \in T
          PROVE  s \in T
      <3> SUFFICES ASSUME NEW x \in s PROVE h[s] = w[x] + h[s \ {x}]
        OBVIOUS
      <3> DEFINE c == ch(s)
      <3>1. c \in s /\ h[s] = w[c] + h[s \ {c}]
        BY <1>1, <1>2
      <3> HIDE DEF c
      <3>2. CASE x = c
        BY <3>1, <3>2
      <3>3. CASE x # c
        <4>1. s \ {c} \in T /\ s \ {x} \in T /\ x \in s \ {c} /\ c \in s \ {x}
          BY <2>1, <3>1, <3>3
        <4>2. /\ h[s \ {c}] = w[x] + h[(s \ {c}) \ {x}]
              /\ h[s \ {x}] = w[c] + h[(s \ {x}) \ {c}]
          BY <4>1
        <4>3. (s \ {c}) \ {x} = (s \ {x}) \ {c}
          OBVIOUS
        <4>4. w[x] \in Nat /\ w[c] \in Nat
          BY <3>1
        <4>5. h[(s \ {x}) \ {c}] \in Nat
          BY <1>3
        <4>6. /\ h[s] = w[c] + (w[x] + h[(s \ {x}) \ {c}])
              /\ h[s \ {x}] = w[c] + h[(s \ {x}) \ {c}]
          BY <3>1, <4>2, <4>3, Zenon
        <4> HIDE DEF T
        <4> QED
          BY <4>4, <4>5, <4>6
      <3> QED
        BY <3>2, <3>3
    <2>2. T \in SUBSET (SUBSET S)
      OBVIOUS
    <2> HIDE DEF T
    <2>3. T = SUBSET S
      BY <2>1, <2>2, SubsetInduction
    <2> QED
      BY <2>3 DEF T
  <1>5. h[{}] = 0
    BY <1>2
  <1> QED
    BY <1>2, <1>3, <1>4, <1>5 DEF AddsUp

\* Two sums agree on a set on which what they add agrees.
LEMMA SameSum ==
  ASSUME NEW A, NEW B, NEW g, NEW h, NEW v, NEW w, AddsUp(g, v, A), AddsUp(h, w, B),
         NEW S, IsFiniteSet(S), S \subseteq A, S \subseteq B, \A x \in S : v[x] = w[x]
  PROVE  g[S] = h[S]
  <1> DEFINE T == {s \in SUBSET S : g[s] = h[s]}
  <1>1. ASSUME NEW s \in SUBSET S, \A x \in s : s \ {x} \in T
        PROVE  s \in T
    <2>1. CASE s = {}
      BY <2>1 DEF AddsUp
    <2>2. CASE s # {}
      <3>1. PICK x \in s : TRUE
        BY <2>2
      <3>2. g[s] = v[x] + g[s \ {x}]
        BY <3>1 DEF AddsUp
      <3>3. h[s] = w[x] + h[s \ {x}]
        BY <3>1 DEF AddsUp
      <3> QED
        BY <3>1, <3>2, <3>3, <1>1
    <2> QED
      BY <2>1, <2>2
  <1>2. T \in SUBSET (SUBSET S)
    OBVIOUS
  <1> HIDE DEF T
  <1>3. T = SUBSET S
    BY <1>1, <1>2, SubsetInduction
  <1> QED
    BY <1>3 DEF T

\* What a solution of the equation says of S is the sum over S.
LEMMA PickedIsSum ==
  ASSUME NEW S, IsFiniteSet(S), NEW w, \A x \in S : w[x] \in Nat, NEW h, Picked(h, w, S)
  PROVE  h[S] = SumOver(w, S)
  <1> DEFINE g == CHOOSE k : AddsUp(k, w, S)
  <1>1. AddsUp(h, w, S)
    BY PickedAddsUp
  <1>2. AddsUp(g, w, S)
    BY <1>1
  <1>3. g[S] = SumOver(w, S)
    BY DEF SumOver
  <1> HIDE DEF g
  <1> QED
    BY <1>1, <1>2, <1>3, SameSum

\* The sum over a finite set is what some function says that adds up.
LEMMA SumIs ==
  ASSUME NEW S, IsFiniteSet(S), NEW w, \A x \in S : w[x] \in Nat
  PROVE  \E h : AddsUp(h, w, S) /\ h[S] = SumOver(w, S)
  <1>1. PICK h : Picked(h, w, S)
    BY PickedExists
  <1> QED
    BY <1>1, PickedAddsUp, PickedIsSum

\* The sum of nothing.
LEMMA SumEmpty == \A w : SumOver(w, {}) = 0
  <1> SUFFICES ASSUME NEW w PROVE SumOver(w, {}) = 0
    OBVIOUS
  <1>1. PICK h : AddsUp(h, w, {}) /\ h[{}] = SumOver(w, {})
    BY SumIs, FS_EmptySet
  <1> QED
    BY <1>1 DEF AddsUp

\* Sums of equal numbers are equal.
LEMMA SumSame ==
  ASSUME NEW S, IsFiniteSet(S), NEW v, NEW w, \A x \in S : v[x] \in Nat /\ v[x] = w[x]
  PROVE  SumOver(v, S) = SumOver(w, S)
  <1>1. PICK g : AddsUp(g, v, S) /\ g[S] = SumOver(v, S)
    BY SumIs
  <1>2. PICK h : AddsUp(h, w, S) /\ h[S] = SumOver(w, S)
    BY SumIs
  <1> QED
    BY <1>1, <1>2, SameSum

\* A sum is one of its numbers and the sum of the others.
LEMMA SumRemove ==
  ASSUME NEW S, IsFiniteSet(S), NEW w, \A x \in S : w[x] \in Nat, NEW x \in S
  PROVE  /\ SumOver(w, S \ {x}) \in Nat
         /\ SumOver(w, S) = w[x] + SumOver(w, S \ {x})
  <1>0. IsFiniteSet(S \ {x})
    BY FS_RemoveElement
  <1>1. PICK g : AddsUp(g, w, S) /\ g[S] = SumOver(w, S)
    BY SumIs
  <1>2. PICK h : AddsUp(h, w, S \ {x}) /\ h[S \ {x}] = SumOver(w, S \ {x})
    BY SumIs, <1>0
  <1>3. g[S \ {x}] = h[S \ {x}]
    BY <1>0, <1>1, <1>2, SameSum
  <1> QED
    BY <1>1, <1>2, <1>3 DEF AddsUp

\* A sum of natural numbers is one.
LEMMA SumNat ==
  ASSUME NEW S, IsFiniteSet(S), NEW w, \A x \in S : w[x] \in Nat
  PROVE  SumOver(w, S) \in Nat
  <1>1. PICK g : AddsUp(g, w, S) /\ g[S] = SumOver(w, S)
    BY SumIs
  <1> QED
    BY <1>1 DEF AddsUp

\* One number more.
LEMMA SumAdd ==
  ASSUME NEW S, IsFiniteSet(S), NEW x, x \notin S, NEW w, \A y \in S \cup {x} : w[y] \in Nat
  PROVE  SumOver(w, S \cup {x}) = SumOver(w, S) + w[x]
  <1>1. IsFiniteSet(S \cup {x}) /\ (S \cup {x}) \ {x} = S
    BY FS_AddElement
  <1>2. /\ SumOver(w, S) \in Nat
        /\ SumOver(w, S \cup {x}) = w[x] + SumOver(w, S)
    <2> DEFINE U == S \cup {x}
    <2>1. x \in U /\ IsFiniteSet(U) /\ U \ {x} = S /\ \A y \in U : w[y] \in Nat
      BY <1>1
    <2> HIDE DEF U
    <2>2. /\ SumOver(w, U \ {x}) \in Nat
          /\ SumOver(w, U) = w[x] + SumOver(w, U \ {x})
      BY <2>1, SumRemove
    <2> QED
      BY <2>1, <2>2 DEF U
  <1> QED
    BY <1>2

-----------------------------------------------------------------------------
(* The largest of a set                                                    *)

\* A finite set of numbers that is not empty has a largest one, and that is Max.
LEMMA MaxIsLargest ==
  ASSUME NEW S \in SUBSET Int, IsFiniteSet(S), S # {}
  PROVE  Max(S) \in S /\ \A y \in S : Max(S) >= y
  <1> DEFINE T == {s \in SUBSET S : s # {} => \E m \in s : \A y \in s : m >= y}
  <1>1. ASSUME NEW s \in SUBSET S, \A x \in s : s \ {x} \in T
        PROVE  s \in T
    <2> SUFFICES ASSUME s # {} PROVE \E m \in s : \A y \in s : m >= y
      OBVIOUS
    <2>1. PICK x \in s : TRUE
      OBVIOUS
    <2>2. CASE s \ {x} = {}
      BY <2>1, <2>2
    <2>3. CASE s \ {x} # {}
      <3>1. PICK m \in s \ {x} : \A y \in s \ {x} : m >= y
        BY <1>1, <2>1, <2>3
      <3>2. CASE m >= x
        BY <2>1, <3>1, <3>2
      <3>3. CASE ~(m >= x)
        <4>1. \A y \in s : x >= y
          BY <2>1, <3>1, <3>3
        <4> QED
          BY <2>1, <4>1
      <3> QED
        BY <3>2, <3>3
    <2> QED
      BY <2>2, <2>3
  <1>2. T \in SUBSET (SUBSET S)
    OBVIOUS
  <1>3. T = SUBSET S
    <2> HIDE DEF T
    <2> QED
      BY <1>1, <1>2, SubsetInduction
  <1>4. \E m \in S : \A y \in S : m >= y
    BY <1>3
  <1> QED
    BY <1>4, Zenon DEF Max

-----------------------------------------------------------------------------
(* Sequences folded from the left                                          *)

\* The equation of FoldLeft: the element taken out first is the last one.
Folds(h, base, op, seq) ==
  h = [s \in SUBSET (DOMAIN seq) |-> IF s = {} THEN base
                                    ELSE op[h[s \ {Max(s)}]][seq[Max(s)]]]

\* The first k numbers.
LEMMA FirstNumbers ==
  ASSUME NEW k \in Nat
  PROVE  /\ IsFiniteSet(1..k) /\ 1..k \in SUBSET Int
         /\ k # 0 => /\ 1..k # {} /\ Max(1..k) = k
                     /\ (1..k) \ {k} = 1..(k - 1)
         /\ k = 0 => 1..k = {}
  <1>1. IsFiniteSet(1..k) /\ 1..k \in SUBSET Int
    BY FS_Interval
  <1>2. ASSUME k # 0 PROVE 1..k # {} /\ Max(1..k) = k
    <2> DEFINE S == 1..k
    <2>1. S # {} /\ k \in S /\ \A y \in S : y <= k /\ y \in Int
      BY <1>2
    <2>2. S \in SUBSET Int /\ IsFiniteSet(S)
      BY <1>1
    <2> HIDE DEF S
    <2>3. Max(S) \in S /\ \A y \in S : Max(S) >= y
      BY <2>1, <2>2, MaxIsLargest
    <2>4. PICK m \in S : m = Max(S)
      BY <2>3
    <2>5. m = k
      <3>1. m >= k /\ m <= k /\ m \in Int
        BY <2>1, <2>3, <2>4
      <3> QED
        BY <3>1
    <2> QED
      BY <2>1, <2>4, <2>5 DEF S
  <1> QED
    BY <1>1, <1>2

\* The equation has a solution, with values where op has its own.
LEMMA FoldsExists ==
  ASSUME NEW I, NEW seq \in Seq(I), NEW V, NEW base \in V, NEW op \in [V -> [I -> V]]
  PROVE  /\ \E h \in [SUBSET (DOMAIN seq) -> V] : Folds(h, base, op, seq)
         /\ \A s \in SUBSET (DOMAIN seq) : s # {} => Max(s) \in s
  <1> DEFINE D == DOMAIN seq
             ch == [s \in SUBSET D |-> Max(s)]
             f == [x \in D |-> [n \in V |-> op[n][seq[x]]]]
  <1>1. D = 1..Len(seq) /\ IsFiniteSet(D) /\ D \in SUBSET Int /\ \A x \in D : seq[x] \in I
    BY FS_Interval
  <1>2. /\ f \in [D -> [V -> V]] /\ \A x \in D, n \in V : f[x][n] = op[n][seq[x]]
        /\ \A s \in SUBSET D : ch[s] = Max(s)
    BY <1>1
  <1> HIDE DEF D, ch, f
  <1>3. \A s \in SUBSET D : s # {} => Max(s) \in s
    <2> SUFFICES ASSUME NEW s \in SUBSET D, s # {} PROVE Max(s) \in s
      OBVIOUS
    <2>1. IsFiniteSet(s) /\ s \in SUBSET Int
      BY <1>1, FS_Subset
    <2> QED
      BY <2>1, MaxIsLargest
  <1>4. PICK h : Solves(h, D, V, base, f, ch)
    <2>1. \A s \in SUBSET D : s # {} => ch[s] \in s
      BY <1>2, <1>3
    <2> QED
      BY <1>1, <1>2, <2>1, FoldExists
  <1>5. /\ h \in [SUBSET D -> V]
        /\ \A s \in SUBSET D : h[s] = IF s = {} THEN base ELSE f[Max(s)][h[s \ {Max(s)}]]
    BY <1>2, <1>4 DEF Solves, SolvesAt
  <1>6. ASSUME NEW s \in SUBSET D, s # {}
        PROVE  f[Max(s)][h[s \ {Max(s)}]] = op[h[s \ {Max(s)}]][seq[Max(s)]]
    <2>1. Max(s) \in D /\ h[s \ {Max(s)}] \in V
      BY <1>3, <1>5, <1>6
    <2> QED
      BY <1>2, <2>1
  <1>7. h = [s \in SUBSET D |-> IF s = {} THEN base ELSE op[h[s \ {Max(s)}]][seq[Max(s)]]]
    BY <1>5, <1>6
  <1> QED
    BY <1>3, <1>5, <1>7 DEF Folds, D

\* What holds before a loop and is kept by each round holds throughout.
LEMMA LoopStays ==
  ASSUME NEW n \in Nat, NEW V, NEW v, v[0] \in V,
         \A k \in 1..n : v[k - 1] \in V => v[k] \in V
  PROVE  \A k \in 0..n : v[k] \in V
  <1> DEFINE T == {k \in Nat : k <= n => v[k] \in V}
  <1>1. 0 \in T
    OBVIOUS
  <1>2. ASSUME NEW k \in T PROVE k + 1 \in T
    <2> SUFFICES ASSUME k + 1 <= n PROVE v[k + 1] \in V
      OBVIOUS
    <2>1. k + 1 \in 1..n /\ (k + 1) - 1 = k /\ v[k] \in V
      OBVIOUS
    <2> QED
      BY <2>1
  <1>3. T \in SUBSET Nat
    OBVIOUS
  <1>4. T = Nat
    <2> HIDE DEF T
    <2> QED
      BY <1>1, <1>2, <1>3, Induction
  <1>5. \A k \in Nat : k <= n => v[k] \in V
    BY <1>4
  <1> HIDE DEF T
  <1> QED
    BY <1>5

\* v[k] is what a solution says of the first k elements, and what a loop over
\* seq has after k rounds.
Rounds(v, h, seq) ==
  /\ v[0] = h[{}] /\ v[Len(seq)] = h[DOMAIN seq]
  /\ \A k \in 1..Len(seq) :
       /\ 1..k \in SUBSET (DOMAIN seq) /\ 1..k # {} /\ Max(1..k) = k
       /\ v[k] = h[1..k] /\ v[k - 1] = h[(1..k) \ {k}]

LEMMA RoundsExist ==
  ASSUME NEW I, NEW seq \in Seq(I), NEW h
  PROVE  \E v : Rounds(v, h, seq)
  <1> DEFINE n == Len(seq)
             v == [k \in 0..n |-> h[1..k]]
  <1>1. n \in Nat /\ DOMAIN seq = 1..n
    OBVIOUS
  <1>2. \A k \in 0..n : v[k] = h[1..k]
    OBVIOUS
  <1> HIDE DEF n, v
  <1>3. v[0] = h[{}] /\ v[n] = h[DOMAIN seq]
    <2>1. 0 \in 0..n /\ n \in 0..n /\ 1..0 = {}
      BY <1>1
    <2> QED
      BY <1>1, <1>2, <2>1
  <1>4. ASSUME NEW k \in 1..n
        PROVE  /\ 1..k \in SUBSET (DOMAIN seq) /\ 1..k # {} /\ Max(1..k) = k
               /\ v[k] = h[1..k] /\ v[k - 1] = h[(1..k) \ {k}]
    <2>1. k \in Nat /\ k # 0 /\ k \in 0..n /\ k - 1 \in 0..n /\ 1..k \in SUBSET (DOMAIN seq)
      BY <1>1
    <2>2. 1..k # {} /\ Max(1..k) = k /\ (1..k) \ {k} = 1..(k - 1)
      BY <2>1, FirstNumbers
    <2> QED
      BY <1>2, <2>1, <2>2
  <1> QED
    BY <1>3, <1>4 DEF n, Rounds

\* A loop that adds w[k] in the rounds k in D has their sum at the end.
LEMMA LoopAddsUp ==
  ASSUME NEW n \in Nat, NEW D \in SUBSET (1..n), NEW w, \A k \in 1..n : w[k] \in Nat,
         NEW v, v[0] = 0,
         \A k \in 1..n : v[k] = v[k - 1] + (IF k \in D THEN w[k] ELSE 0)
  PROVE  v[n] = SumOver(w, D)
  <1> DEFINE T == {k \in Nat : k <= n => v[k] = SumOver(w, D \cap (1..k))}
  <1>1. 0 \in T
    <2>1. D \cap (1..0) = {}
      OBVIOUS
    <2> QED
      BY <2>1, SumEmpty
  <1>2. ASSUME NEW k \in T PROVE k + 1 \in T
    <2> SUFFICES ASSUME k + 1 <= n PROVE v[k + 1] = SumOver(w, D \cap (1..(k + 1)))
      OBVIOUS
    <2> DEFINE S == D \cap (1..k)
    <2>1. k \in Nat /\ k + 1 \in 1..n /\ (k + 1) - 1 = k /\ v[k] = SumOver(w, S)
      OBVIOUS
    <2>2. v[k + 1] = v[k] + (IF k + 1 \in D THEN w[k + 1] ELSE 0)
      BY <2>1
    <2>3. IsFiniteSet(S) /\ \A x \in S : w[x] \in Nat
      <3>1. IsFiniteSet(1..k) /\ S \in SUBSET (1..k) /\ S \in SUBSET (1..n)
        BY <2>1, FS_Interval
      <3> HIDE DEF S
      <3> QED
        BY <3>1, FS_Subset
    <2>4. SumOver(w, S) \in Nat
      <3> HIDE DEF S
      <3> QED
        BY <2>3, SumNat
    <2>5. CASE k + 1 \in D
      <3>1. D \cap (1..(k + 1)) = S \cup {k + 1} /\ k + 1 \notin S
        BY <2>1, <2>5
      <3>2. \A x \in S \cup {k + 1} : w[x] \in Nat
        BY <2>1, <2>3
      <3> HIDE DEF S
      <3>3. SumOver(w, S \cup {k + 1}) = SumOver(w, S) + w[k + 1]
        BY <2>3, <3>1, <3>2, SumAdd
      <3> QED
        BY <2>1, <2>2, <2>5, <3>1, <3>3
    <2>6. CASE k + 1 \notin D
      <3>1. D \cap (1..(k + 1)) = S
        BY <2>1, <2>6
      <3> QED
        BY <2>1, <2>2, <2>4, <2>6, <3>1
    <2> QED
      BY <2>5, <2>6
  <1>3. T \in SUBSET Nat
    OBVIOUS
  <1>4. T = Nat
    <2> HIDE DEF T
    <2> QED
      BY <1>1, <1>2, <1>3, Induction
  <1>5. D \cap (1..n) = D
    OBVIOUS
  <1> QED
    BY <1>4, <1>5
=============================================================================
