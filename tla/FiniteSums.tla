----------------------------- MODULE FiniteSums -----------------------------
(***************************************************************************)
(* Lemmas about SumFunctionOnSet, by which the token, the governor and the *)
(* bank add up what their accounts hold.  It is a fold, which adds the     *)
(* elements of a set in an order of its own; the lemmas say that the order *)
(* does not matter.                                                        *)
(*                                                                         *)
(* They rest on induction over the subsets of a finite set, stated with a  *)
(* set in the place of a predicate: the strict subsets of a finite set are *)
(* well-founded, so a set of subsets that contains each one all of whose   *)
(* strict subsets it contains, contains them all.                          *)
(***************************************************************************)
EXTENDS Functions, FiniteSets, FiniteSetTheorems, WellFoundedInduction, TLAPS

(* Induction over the subsets of a finite set.                             *)
LEMMA SetInduction ==
  ASSUME NEW S, IsFiniteSet(S), NEW T,
         \A A \in SUBSET S : (\A B \in SUBSET A : B # A => B \in T) => A \in T
  PROVE  SUBSET S \subseteq T
  <1> DEFINE Bad == {A \in SUBSET S : A \notin T}
  <1>1. SUFFICES ASSUME Bad # {} PROVE FALSE
    OBVIOUS
  <1>2. IsWellFoundedOn(StrictSubsetOrdering(S), SUBSET S)
    BY FS_FiniteSubsetsOfFinite, FS_StrictSubsetOrderingWellFounded
  <1>3. Bad \subseteq SUBSET S
    OBVIOUS
  <1> HIDE DEF Bad
  <1>4. PICK A \in Bad : \A B \in Bad : ~ (<<B, A>> \in StrictSubsetOrdering(S))
    <2> DEFINE R == StrictSubsetOrdering(S)  U == SUBSET S
    <2>1. IsWellFoundedOn(R, U) /\ Bad \subseteq U /\ Bad # {}
      BY <1>1, <1>2, <1>3
    <2> HIDE DEF R, U
    <2>2. \E x \in Bad : \A y \in Bad : ~ (<<y, x>> \in R)
      BY <2>1, WFMin
    <2> QED BY <2>2 DEF R
  <1> USE DEF Bad
  <1>5. \A B \in SUBSET A : B # A => B \in T
    <2> TAKE B \in SUBSET A
    <2>1. HAVE B # A
    <2>2. B \in SUBSET S
      OBVIOUS
    <2>3. <<B, A>> \in StrictSubsetOrdering(S)
      BY <2>1, <2>2 DEF StrictSubsetOrdering
    <2> QED BY <1>4, <2>2, <2>3
  <1> QED BY <1>5

(* Induction over the natural numbers, of which 0 .. n is a finite set.    *)
LEMMA NatInduct ==
  ASSUME NEW T, 0 \in T, \A n \in Nat : n \in T => n + 1 \in T
  PROVE  Nat \subseteq T
  <1> SUFFICES ASSUME NEW n \in Nat PROVE n \in T
    OBVIOUS
  <1> DEFINE S == 0 .. n
             U == {A \in SUBSET S : \A m \in S : A = 0 .. m => m \in T}
  <1>1. ASSUME NEW A \in SUBSET S, \A B \in SUBSET A : B # A => B \in U
        PROVE  A \in U
    <2> SUFFICES ASSUME NEW m \in S, A = 0 .. m PROVE m \in T
      OBVIOUS
    <2>1. CASE m = 0
      BY <2>1
    <2>2. CASE m # 0
      <3>1. m - 1 \in S /\ m - 1 \in Nat /\ (m - 1) + 1 = m
        BY <2>2
      <3>2. 0 .. m - 1 \in SUBSET A /\ m \in A /\ m \notin 0 .. m - 1
        BY <2>2
      <3>3. 0 .. m - 1 \in U
        BY <1>1, <3>2
      <3>4. m - 1 \in T
        BY <3>1, <3>3
      <3> QED BY <3>1, <3>4
    <2> QED BY <2>1, <2>2
  <1>2. IsFiniteSet(S)
    BY FS_Interval
  <1>3. SUBSET S \subseteq U
    <2> HIDE DEF S, U
    <2> QED BY <1>1, <1>2, SetInduction
  <1>4. S \in U
    BY <1>3
  <1>5. n \in S
    OBVIOUS
  <1> QED BY <1>4, <1>5

-----------------------------------------------------------------------------
(* The element the fold takes first.                                       *)
Pick(S) == CHOOSE x \in S : TRUE

(* g is the sum of f over each subset of S.                                *)
IsSum(f, S, g) ==
  g = [s \in SUBSET S |-> IF s = {} THEN 0 ELSE f[Pick(s)] + g[s \ {Pick(s)}]]

(* What the fold amounts to: the function on the subsets that IsSum tells. *)
LEMMA SumDef ==
  ASSUME NEW f, NEW S
  PROVE  SumFunctionOnSet(f, S) = (CHOOSE g : IsSum(f, S, g))[S]
  BY DEF SumFunctionOnSet, FoldFunctionOnSet, MapThenFoldSet, IsSum, Pick

LEMMA PickIn == \A S : S # {} => Pick(S) \in S
  BY DEF Pick

LEMMA IsSumAt ==
  ASSUME NEW f, NEW S, NEW g, IsSum(f, S, g), NEW s \in SUBSET S
  PROVE  g[s] = IF s = {} THEN 0 ELSE f[Pick(s)] + g[s \ {Pick(s)}]
  BY DEF IsSum

LEMMA IsSumDomain ==
  ASSUME NEW f, NEW S, NEW g, IsSum(f, S, g)
  PROVE  g = [s \in SUBSET S |-> g[s]]
  BY DEF IsSum

(* There is at most one such function.                                     *)
LEMMA SumUnique ==
  ASSUME NEW f, NEW S, IsFiniteSet(S), NEW g, IsSum(f, S, g), NEW h, IsSum(f, S, h)
  PROVE  g = h
  <1> DEFINE T == {A \in SUBSET S : g[A] = h[A]}
  <1>1. ASSUME NEW A \in SUBSET S, \A B \in SUBSET A : B # A => B \in T
        PROVE  A \in T
    <2>1. CASE A = {}
      BY <2>1, IsSumAt
    <2>2. CASE A # {}
      <3> DEFINE B == A \ {Pick(A)}
      <3>1. B \in SUBSET A /\ B # A
        BY <2>2, PickIn
      <3>2. g[B] = h[B]
        BY <1>1, <3>1
      <3>3. g[A] = f[Pick(A)] + g[B] /\ h[A] = f[Pick(A)] + h[B]
        BY <2>2, IsSumAt
      <3> QED BY <3>2, <3>3
    <2> QED BY <2>1, <2>2
  <1>2. SUBSET S \subseteq T
    <2> HIDE DEF T
    <2> QED BY <1>1, SetInduction
  <1>3. [A \in SUBSET S |-> g[A]] = [A \in SUBSET S |-> h[A]]
    BY <1>2
  <1>4. g = [A \in SUBSET S |-> g[A]] /\ h = [A \in SUBSET S |-> h[A]]
    BY IsSumDomain
  <1> QED BY <1>3, <1>4

(* On a smaller set it is the same function, restricted.                   *)
LEMMA SumRestrict ==
  ASSUME NEW f, NEW S, NEW g, IsSum(f, S, g), NEW U \in SUBSET S
  PROVE  IsSum(f, U, [s \in SUBSET U |-> g[s]])
  <1> DEFINE h == [s \in SUBSET U |-> g[s]]
  <1>1. ASSUME NEW s \in SUBSET U
        PROVE  h[s] = IF s = {} THEN 0 ELSE f[Pick(s)] + h[s \ {Pick(s)}]
    <2>1. s \in SUBSET S /\ s \ {Pick(s)} \in SUBSET U
      OBVIOUS
    <2>2. h[s] = g[s] /\ h[s \ {Pick(s)}] = g[s \ {Pick(s)}]
      BY <2>1
    <2> QED BY <2>1, <2>2, IsSumAt
  <1>2. h = [s \in SUBSET U |-> h[s]]
    OBVIOUS
  <1> HIDE DEF h
  <1>3. IsSum(f, U, h)
    BY <1>1, <1>2 DEF IsSum
  <1> QED BY <1>3 DEF h

(* The sum that such a function gives for the whole set.                   *)
Val(f, S) == (CHOOSE g : IsSum(f, S, g))[S]

LEMMA ValRestrict ==
  ASSUME NEW f, NEW S, IsFiniteSet(S), NEW g, IsSum(f, S, g), NEW U \in SUBSET S
  PROVE  Val(f, U) = g[U]
  <1> DEFINE h == [s \in SUBSET U |-> g[s]]  k == CHOOSE x : IsSum(f, U, x)
  <1>1. IsSum(f, U, h)
    BY SumRestrict
  <1>2. IsSum(f, U, k)
    BY <1>1
  <1>3. IsFiniteSet(U)
    BY FS_Subset
  <1>4. h[U] = g[U]
    OBVIOUS
  <1> HIDE DEF h, k
  <1>5. h = k
    BY <1>1, <1>2, <1>3, SumUnique
  <1> QED BY <1>4, <1>5 DEF Val, k

(* On a finite set there is one.                                           *)
LEMMA SumExists ==
  ASSUME NEW f, NEW S, IsFiniteSet(S)
  PROVE  \E g : IsSum(f, S, g)
  <1> DEFINE T == {A \in SUBSET S : \E g : IsSum(f, A, g)}
  <1>1. ASSUME NEW A \in SUBSET S, \A B \in SUBSET A : B # A => B \in T
        PROVE  A \in T
    <2> DEFINE G == [s \in SUBSET A |-> IF s = {} THEN 0
                                        ELSE f[Pick(s)] + Val(f, s \ {Pick(s)})]
    <2>1. ASSUME NEW u \in SUBSET A, u # A
          PROVE  G[u] = Val(f, u)
      <3>1. PICK g : IsSum(f, u, g)
        BY <1>1, <2>1
      <3>2. IsFiniteSet(u)
        BY FS_Subset
      <3>3. Val(f, u) = g[u]
        BY <3>1, <3>2, ValRestrict
      <3>4. CASE u = {}
        BY <3>1, <3>3, <3>4, IsSumAt
      <3>5. CASE u # {}
        <4>1. g[u] = f[Pick(u)] + g[u \ {Pick(u)}]
          BY <3>1, <3>5, IsSumAt
        <4>2. Val(f, u \ {Pick(u)}) = g[u \ {Pick(u)}]
          <5> DEFINE w == u \ {Pick(u)}
          <5>1. w \in SUBSET u
            OBVIOUS
          <5> HIDE DEF w
          <5>2. Val(f, w) = g[w]
            BY <3>1, <3>2, <5>1, ValRestrict
          <5> QED BY <5>2 DEF w
        <4> QED BY <3>3, <3>5, <4>1, <4>2
      <3> QED BY <3>4, <3>5
    <2>2. ASSUME NEW s \in SUBSET A
          PROVE  G[s] = IF s = {} THEN 0 ELSE f[Pick(s)] + G[s \ {Pick(s)}]
      <3>1. CASE s = {}
        BY <3>1
      <3>2. CASE s # {}
        <4>1. s \ {Pick(s)} \in SUBSET A /\ s \ {Pick(s)} # A
          BY <3>2, PickIn
        <4>2. G[s \ {Pick(s)}] = Val(f, s \ {Pick(s)})
          <5> DEFINE w == s \ {Pick(s)}
          <5>1. w \in SUBSET A /\ w # A
            BY <4>1
          <5> HIDE DEF w, G
          <5>2. G[w] = Val(f, w)
            BY <5>1, <2>1
          <5> QED BY <5>2 DEF w
        <4>3. G[s] = f[Pick(s)] + Val(f, s \ {Pick(s)})
          BY <3>2
        <4> HIDE DEF G
        <4> QED BY <3>2, <4>2, <4>3
      <3> QED BY <3>1, <3>2
    <2>3. G = [s \in SUBSET A |-> G[s]]
      OBVIOUS
    <2> HIDE DEF G
    <2>4. IsSum(f, A, G)
      BY <2>2, <2>3 DEF IsSum
    <2> QED BY <2>4
  <1>2. SUBSET S \subseteq T
    <2> HIDE DEF T
    <2> QED BY <1>1, SetInduction
  <1> QED BY <1>2

-----------------------------------------------------------------------------
(* What is added are integers.                                             *)
Integral(f, S) == \A x \in S : f[x] \in Int

LEMMA SumIsVal ==
  ASSUME NEW f, NEW S
  PROVE  SumFunctionOnSet(f, S) = Val(f, S)
  BY SumDef DEF Val

(* The empty sum.                                                          *)
LEMMA SumEmpty == \A f : SumFunctionOnSet(f, {}) = 0
  <1> TAKE f
  <1>1. IsFiniteSet({})
    BY FS_EmptySet
  <1>2. PICK g : IsSum(f, {}, g)
    BY <1>1, SumExists
  <1>3. g[{}] = 0
    BY <1>2, IsSumAt
  <1>4. Val(f, {}) = g[{}]
    BY <1>1, <1>2, ValRestrict
  <1> QED BY <1>3, <1>4, SumIsVal

(* A sum is the element the fold picks first and the sum of the others.    *)
LEMMA SumPick ==
  ASSUME NEW f, NEW S, IsFiniteSet(S), S # {}
  PROVE  /\ Pick(S) \in S
         /\ SumFunctionOnSet(f, S) = f[Pick(S)] + SumFunctionOnSet(f, S \ {Pick(S)})
  <1>1. PICK g : IsSum(f, S, g)
    BY SumExists
  <1>2. g[S] = f[Pick(S)] + g[S \ {Pick(S)}]
    BY <1>1, IsSumAt
  <1>3. Val(f, S) = g[S]
    BY <1>1, ValRestrict
  <1>4. Val(f, S \ {Pick(S)}) = g[S \ {Pick(S)}]
    <2> DEFINE w == S \ {Pick(S)}
    <2>1. w \in SUBSET S
      OBVIOUS
    <2> HIDE DEF w
    <2>2. Val(f, w) = g[w]
      BY <1>1, <2>1, ValRestrict
    <2> QED BY <2>2 DEF w
  <1> QED BY <1>2, <1>3, <1>4, SumIsVal, PickIn

(* Sums of integers and of natural numbers are such numbers.               *)
LEMMA SumInt ==
  ASSUME NEW f, NEW S, IsFiniteSet(S), Integral(f, S)
  PROVE  SumFunctionOnSet(f, S) \in Int
  <1> DEFINE T == {A \in SUBSET S : SumFunctionOnSet(f, A) \in Int}
  <1>1. ASSUME NEW A \in SUBSET S, \A B \in SUBSET A : B # A => B \in T
        PROVE  A \in T
    <2>1. CASE A = {}
      BY <2>1, SumEmpty
    <2>2. CASE A # {}
      <3> DEFINE w == A \ {Pick(A)}
      <3>1. Pick(A) \in A /\ SumFunctionOnSet(f, A) = f[Pick(A)] + SumFunctionOnSet(f, w)
        BY <2>2, SumPick, FS_Subset
      <3>2. w \in SUBSET A /\ w # A
        BY <3>1
      <3>3. SumFunctionOnSet(f, w) \in Int
        BY <3>2, <1>1
      <3> QED BY <3>1, <3>3 DEF Integral
    <2> QED BY <2>1, <2>2
  <1>2. SUBSET S \subseteq T
    <2> HIDE DEF T
    <2> QED BY <1>1, SetInduction
  <1> QED BY <1>2

LEMMA SumNat ==
  ASSUME NEW f, NEW S, IsFiniteSet(S), \A x \in S : f[x] \in Nat
  PROVE  SumFunctionOnSet(f, S) \in Nat
  <1> DEFINE T == {A \in SUBSET S : SumFunctionOnSet(f, A) \in Nat}
  <1>1. ASSUME NEW A \in SUBSET S, \A B \in SUBSET A : B # A => B \in T
        PROVE  A \in T
    <2>1. CASE A = {}
      BY <2>1, SumEmpty
    <2>2. CASE A # {}
      <3> DEFINE w == A \ {Pick(A)}
      <3>1. Pick(A) \in A /\ SumFunctionOnSet(f, A) = f[Pick(A)] + SumFunctionOnSet(f, w)
        BY <2>2, SumPick, FS_Subset
      <3>2. w \in SUBSET A /\ w # A
        BY <3>1
      <3>3. SumFunctionOnSet(f, w) \in Nat
        BY <3>2, <1>1
      <3> QED BY <3>1, <3>3
    <2> QED BY <2>1, <2>2
  <1>2. SUBSET S \subseteq T
    <2> HIDE DEF T
    <2> QED BY <1>1, SetInduction
  <1> QED BY <1>2

(* A sum depends on the values over its set only.                          *)
LEMMA SumAgree ==
  ASSUME NEW f, NEW h, NEW S, IsFiniteSet(S), \A x \in S : f[x] = h[x]
  PROVE  SumFunctionOnSet(f, S) = SumFunctionOnSet(h, S)
  <1> DEFINE T == {A \in SUBSET S : SumFunctionOnSet(f, A) = SumFunctionOnSet(h, A)}
  <1>1. ASSUME NEW A \in SUBSET S, \A B \in SUBSET A : B # A => B \in T
        PROVE  A \in T
    <2>1. CASE A = {}
      BY <2>1, SumEmpty
    <2>2. CASE A # {}
      <3> DEFINE w == A \ {Pick(A)}
      <3>1. /\ Pick(A) \in A
            /\ SumFunctionOnSet(f, A) = f[Pick(A)] + SumFunctionOnSet(f, w)
            /\ SumFunctionOnSet(h, A) = h[Pick(A)] + SumFunctionOnSet(h, w)
        BY <2>2, SumPick, FS_Subset
      <3>2. w \in SUBSET A /\ w # A
        BY <3>1
      <3>3. SumFunctionOnSet(f, w) = SumFunctionOnSet(h, w)
        BY <3>2, <1>1
      <3> QED BY <3>1, <3>3
    <2> QED BY <2>1, <2>2
  <1>2. SUBSET S \subseteq T
    <2> HIDE DEF T
    <2> QED BY <1>1, SetInduction
  <1> QED BY <1>2

(* Any element may be added last: the order does not matter.               *)
LEMMA SumRemove ==
  ASSUME NEW f, NEW S, IsFiniteSet(S), Integral(f, S), NEW x \in S
  PROVE  SumFunctionOnSet(f, S) = f[x] + SumFunctionOnSet(f, S \ {x})
  <1> DEFINE Sum(A) == SumFunctionOnSet(f, A)
             T == {A \in SUBSET S : \A y \in A : Sum(A) = f[y] + Sum(A \ {y})}
  <1> HIDE DEF Sum
  <1>0. ASSUME NEW A \in SUBSET S
        PROVE  /\ Sum(A) \in Int
               /\ A # {} => Pick(A) \in A /\ Sum(A) = f[Pick(A)] + Sum(A \ {Pick(A)})
    <2>1. IsFiniteSet(A) /\ Integral(f, A)
      BY FS_Subset DEF Integral
    <2> QED BY <2>1, SumPick, SumInt DEF Sum
  <1>1. ASSUME NEW A \in SUBSET S, \A B \in SUBSET A : B # A => B \in T
        PROVE  A \in T
    <2> SUFFICES ASSUME NEW y \in A PROVE Sum(A) = f[y] + Sum(A \ {y})
      OBVIOUS
    <2> DEFINE p == Pick(A)
    <2>1. p \in A /\ Sum(A) = f[p] + Sum(A \ {p})
      BY <1>0
    <2>2. CASE p = y
      BY <2>1, <2>2
    <2>3. CASE p # y
      <3> HIDE DEF p
      <3> DEFINE B == A \ {p}  C == A \ {y}  D == (A \ {p}) \ {y}
      <3>1. B \in SUBSET A /\ B # A /\ y \in B
        BY <2>1, <2>3
      <3>2. Sum(B) = f[y] + Sum(D)
        BY <3>1, <1>1
      <3>3. C \in SUBSET A /\ C # A /\ p \in C /\ C \ {p} = D
        BY <2>1, <2>3
      <3>4. Sum(C) = f[p] + Sum(D)
        <4>1. Sum(C) = f[p] + Sum(C \ {p})
          BY <3>3, <1>1
        <4> QED BY <4>1, <3>3
      <3>5. f[p] \in Int /\ f[y] \in Int /\ D \in SUBSET S
        BY <2>1 DEF Integral
      <3>6. Sum(D) \in Int
        BY <3>5, <1>0
      <3> QED BY <2>1, <3>2, <3>4, <3>5, <3>6
    <2> QED BY <2>2, <2>3
  <1>2. SUBSET S \subseteq T
    <2> HIDE DEF T
    <2> QED BY <1>1, SetInduction
  <1> QED BY <1>2 DEF Sum

LEMMA SumAdd ==
  ASSUME NEW f, NEW S, IsFiniteSet(S), Integral(f, S), NEW x, x \notin S, f[x] \in Int
  PROVE  SumFunctionOnSet(f, S \cup {x}) = SumFunctionOnSet(f, S) + f[x]
  <1> DEFINE U == S \cup {x}
  <1>1. IsFiniteSet(U) /\ Integral(f, U) /\ x \in U
    BY FS_AddElement DEF Integral
  <1>2. U \ {x} = S
    OBVIOUS
  <1> HIDE DEF U
  <1>3. SumFunctionOnSet(f, U) = f[x] + SumFunctionOnSet(f, U \ {x})
    BY <1>1, SumRemove
  <1>4. SumFunctionOnSet(f, S) \in Int
    BY SumInt
  <1>5. SumFunctionOnSet(f, U) = f[x] + SumFunctionOnSet(f, S)
    BY <1>2, <1>3
  <1>6. SumFunctionOnSet(f, U) = SumFunctionOnSet(f, S) + f[x]
    BY <1>4, <1>5
  <1> QED BY <1>6 DEF U

(* One value that changes changes the sum by as much.                      *)
LEMMA SumUpdate ==
  ASSUME NEW f, NEW h, NEW S, IsFiniteSet(S), Integral(f, S), Integral(h, S),
         NEW x \in S, \A y \in S : y # x => h[y] = f[y]
  PROVE  SumFunctionOnSet(h, S) = SumFunctionOnSet(f, S) + (h[x] - f[x])
  <1>1. SumFunctionOnSet(h, S) = h[x] + SumFunctionOnSet(h, S \ {x})
    BY SumRemove
  <1>2. SumFunctionOnSet(f, S) = f[x] + SumFunctionOnSet(f, S \ {x})
    BY SumRemove
  <1>3. IsFiniteSet(S \ {x}) /\ Integral(f, S \ {x})
    BY FS_Subset DEF Integral
  <1>4. SumFunctionOnSet(h, S \ {x}) = SumFunctionOnSet(f, S \ {x})
    <2> DEFINE U == S \ {x}
    <2>1. \A y \in U : f[y] = h[y]
      OBVIOUS
    <2>2. IsFiniteSet(U)
      BY <1>3
    <2> HIDE DEF U
    <2>3. SumFunctionOnSet(f, U) = SumFunctionOnSet(h, U)
      BY <2>1, <2>2, SumAgree
    <2> QED BY <2>3 DEF U
  <1>5. SumFunctionOnSet(f, S \ {x}) \in Int
    BY <1>3, SumInt
  <1> QED BY <1>1, <1>2, <1>4, <1>5 DEF Integral

LEMMA SumZero ==
  ASSUME NEW f, NEW S, IsFiniteSet(S), \A x \in S : f[x] = 0
  PROVE  SumFunctionOnSet(f, S) = 0
  <1> DEFINE T == {A \in SUBSET S : SumFunctionOnSet(f, A) = 0}
  <1>1. ASSUME NEW A \in SUBSET S, \A B \in SUBSET A : B # A => B \in T
        PROVE  A \in T
    <2>1. CASE A = {}
      BY <2>1, SumEmpty
    <2>2. CASE A # {}
      <3> DEFINE w == A \ {Pick(A)}
      <3>1. Pick(A) \in A /\ SumFunctionOnSet(f, A) = f[Pick(A)] + SumFunctionOnSet(f, w)
        BY <2>2, SumPick, FS_Subset
      <3>2. w \in SUBSET A /\ w # A
        BY <3>1
      <3>3. SumFunctionOnSet(f, w) = 0
        BY <3>2, <1>1
      <3> QED BY <3>1, <3>3
    <2> QED BY <2>1, <2>2
  <1>2. SUBSET S \subseteq T
    <2> HIDE DEF T
    <2> QED BY <1>1, SetInduction
  <1> QED BY <1>2

(* Disjoint sets.                                                          *)
LEMMA SumUnion ==
  ASSUME NEW f, NEW S, NEW U, IsFiniteSet(S), IsFiniteSet(U), S \cap U = {},
         Integral(f, S), Integral(f, U)
  PROVE  SumFunctionOnSet(f, S \cup U) = SumFunctionOnSet(f, S) + SumFunctionOnSet(f, U)
  <1> DEFINE Sum(A) == SumFunctionOnSet(f, A)
             T == {A \in SUBSET U : Sum(S \cup A) = Sum(S) + Sum(A)}
  <1> HIDE DEF Sum
  <1>1. ASSUME NEW A \in SUBSET U, \A B \in SUBSET A : B # A => B \in T
        PROVE  A \in T
    <2>1. CASE A = {}
      <3>1. Sum(A) = 0 /\ Sum(S) \in Int
        BY <2>1, SumEmpty, SumInt DEF Sum
      <3>2. S \cup A = S
        BY <2>1
      <3>3. Sum(S \cup A) = Sum(S)
        BY <3>2
      <3>4. Sum(S) = Sum(S) + Sum(A)
        BY <3>1
      <3> QED BY <3>3, <3>4
    <2>2. CASE A # {}
      <3> DEFINE p == Pick(A)  w == A \ {p}
      <3>1. p \in A /\ Sum(A) = f[p] + Sum(w)
        BY <2>2, SumPick, FS_Subset DEF Sum
      <3> HIDE DEF p
      <3>2. w \in SUBSET A /\ w # A
        BY <3>1
      <3>3. Sum(S \cup w) = Sum(S) + Sum(w)
        BY <3>2, <1>1
      <3>4. IsFiniteSet(S \cup w) /\ IsFiniteSet(w) /\ Integral(f, w) /\ Integral(f, S \cup w)
        BY <3>2, FS_Subset, FS_Union DEF Integral
      <3>5. p \notin S \cup w /\ f[p] \in Int /\ S \cup A = (S \cup w) \cup {p}
        BY <3>1 DEF Integral
      <3>6. Sum(S \cup A) = Sum(S \cup w) + f[p]
        <4> DEFINE V == S \cup w
        <4>1. IsFiniteSet(V) /\ Integral(f, V) /\ p \notin V /\ S \cup A = V \cup {p}
          BY <3>4, <3>5
        <4> HIDE DEF V
        <4>2. Sum(V \cup {p}) = Sum(V) + f[p]
          BY <4>1, <3>5, SumAdd DEF Sum
        <4> QED BY <4>1, <4>2 DEF V
      <3>7. Sum(w) \in Int /\ Sum(S) \in Int
        BY <3>4, SumInt DEF Sum
      <3> QED BY <3>1, <3>3, <3>5, <3>6, <3>7
    <2> QED BY <2>1, <2>2
  <1>2. SUBSET U \subseteq T
    <2> HIDE DEF T
    <2> QED BY <1>1, SetInduction
  <1> QED BY <1>2 DEF Sum

(* With natural numbers a part is at most the whole.                       *)
LEMMA SumSubset ==
  ASSUME NEW f, NEW S, IsFiniteSet(S), \A x \in S : f[x] \in Nat, NEW U \in SUBSET S
  PROVE  SumFunctionOnSet(f, U) <= SumFunctionOnSet(f, S)
  <1> DEFINE W == S \ U
  <1>1. IsFiniteSet(U) /\ IsFiniteSet(W) /\ U \cap W = {} /\ S = U \cup W
    BY FS_Subset
  <1>2. /\ Integral(f, U) /\ Integral(f, W)
        /\ \A x \in U : f[x] \in Nat
        /\ \A x \in W : f[x] \in Nat
    BY DEF Integral
  <1> HIDE DEF W
  <1>3. SumFunctionOnSet(f, U \cup W) = SumFunctionOnSet(f, U) + SumFunctionOnSet(f, W)
    BY <1>1, <1>2, SumUnion
  <1>4. SumFunctionOnSet(f, U) \in Nat /\ SumFunctionOnSet(f, W) \in Nat
    BY <1>1, <1>2, SumNat
  <1> QED BY <1>1, <1>3, <1>4

(* n taken at src and added at dst, where these are in the set; they may   *)
(* be the same element.                                                    *)
LEMMA SumShift ==
  ASSUME NEW S, IsFiniteSet(S), NEW f, Integral(f, S), NEW n \in Int, NEW src, NEW dst, NEW h,
         \A a \in S : h[a] = f[a] - (IF a = src THEN n ELSE 0) + (IF a = dst THEN n ELSE 0)
  PROVE  SumFunctionOnSet(h, S)
           = SumFunctionOnSet(f, S) - (IF src \in S THEN n ELSE 0) + (IF dst \in S THEN n ELSE 0)
  <1> DEFINE m == [a \in S |-> f[a] - (IF a = src THEN n ELSE 0)]
  <1>2. Integral(f, S) /\ Integral(m, S) /\ Integral(h, S)
    BY DEF Integral
  <1>3. SumFunctionOnSet(f, S) \in Int /\ SumFunctionOnSet(m, S) \in Int
    BY <1>2, SumInt
  <1>4. SumFunctionOnSet(m, S) = SumFunctionOnSet(f, S) - (IF src \in S THEN n ELSE 0)
    <2>1. CASE src \in S
      <3>1. \A y \in S : y # src => m[y] = f[y]
        BY DEF Integral
      <3>2. m[src] - f[src] = - n
        BY <2>1 DEF Integral
      <3> HIDE DEF m
      <3>3. SumFunctionOnSet(m, S) = SumFunctionOnSet(f, S) + (m[src] - f[src])
        BY <1>2, <2>1, <3>1, SumUpdate
      <3> QED BY <1>3, <2>1, <3>2, <3>3
    <2>2. CASE src \notin S
      <3>1. \A y \in S : m[y] = f[y]
        BY <2>2 DEF Integral
      <3> HIDE DEF m
      <3>2. SumFunctionOnSet(m, S) = SumFunctionOnSet(f, S)
        BY <3>1, SumAgree
      <3> QED BY <1>3, <2>2, <3>2
    <2> QED BY <2>1, <2>2
  <1>5. SumFunctionOnSet(h, S) = SumFunctionOnSet(m, S) + (IF dst \in S THEN n ELSE 0)
    <2>1. CASE dst \in S
      <3>1. \A y \in S : y # dst => h[y] = m[y]
        BY DEF Integral
      <3>2. h[dst] - m[dst] = n
        BY <2>1 DEF Integral
      <3> HIDE DEF m
      <3>3. SumFunctionOnSet(h, S) = SumFunctionOnSet(m, S) + (h[dst] - m[dst])
        BY <1>2, <2>1, <3>1, SumUpdate
      <3> QED BY <1>3, <2>1, <3>2, <3>3
    <2>2. CASE dst \notin S
      <3>1. \A y \in S : h[y] = m[y]
        BY <2>2 DEF Integral
      <3> HIDE DEF m
      <3>2. SumFunctionOnSet(h, S) = SumFunctionOnSet(m, S)
        BY <3>1, SumAgree
      <3> QED BY <1>3, <2>2, <3>2
    <2> QED BY <2>1, <2>2
  <1> HIDE DEF m
  <1> QED BY <1>3, <1>4, <1>5

(* The elements of S that c maps to d, and into D.                         *)
MappedTo(c, S, d) == {a \in S : c[a] = d}
MappedInto(c, S, D) == {a \in S : c[a] \in D}

(* If v adds up f over what c maps to each d, the sum of v is that of f    *)
(* over all that c maps into D.                                            *)
LEMMA SumFibres ==
  ASSUME NEW f, NEW S, IsFiniteSet(S), Integral(f, S), NEW c, NEW D, IsFiniteSet(D), NEW v,
         \A d \in D : v[d] = SumFunctionOnSet(f, MappedTo(c, S, d))
  PROVE  SumFunctionOnSet(v, D) = SumFunctionOnSet(f, MappedInto(c, S, D))
  <1> DEFINE Over(A) == MappedInto(c, S, A)
             T == {A \in SUBSET D : SumFunctionOnSet(v, A) = SumFunctionOnSet(f, Over(A))}
  <1>0. \A A : IsFiniteSet(Over(A)) /\ Integral(f, Over(A))
    BY FS_Subset DEF Integral, MappedInto
  <1>1. ASSUME NEW A \in SUBSET D, \A B \in SUBSET A : B # A => B \in T
        PROVE  A \in T
    <2>1. CASE A = {}
      <3>1. Over(A) = {}
        BY <2>1 DEF MappedInto
      <3> HIDE DEF Over
      <3> QED BY <2>1, <3>1, SumEmpty
    <2>2. CASE A # {}
      <3> DEFINE p == Pick(A)  w == A \ {p}  F == MappedTo(c, S, p)
      <3>1. p \in A /\ SumFunctionOnSet(v, A) = v[p] + SumFunctionOnSet(v, w)
        BY <2>2, SumPick, FS_Subset
      <3> HIDE DEF p
      <3>2. w \in SUBSET A /\ w # A
        BY <3>1
      <3>3. SumFunctionOnSet(v, w) = SumFunctionOnSet(f, Over(w))
        BY <3>2, <1>1
      <3>4. v[p] = SumFunctionOnSet(f, F)
        BY <3>1
      <3>5. IsFiniteSet(F) /\ Integral(f, F)
        BY FS_Subset DEF Integral, MappedTo
      <3>6. Over(A) = F \cup Over(w) /\ F \cap Over(w) = {}
        BY <3>1 DEF MappedTo, MappedInto
      <3> HIDE DEF Over, F, w
      <3>7. SumFunctionOnSet(f, F \cup Over(w))
              = SumFunctionOnSet(f, F) + SumFunctionOnSet(f, Over(w))
        BY <1>0, <3>5, <3>6, SumUnion
      <3> QED BY <3>1, <3>3, <3>4, <3>6, <3>7
    <2> QED BY <2>1, <2>2
  <1>2. SUBSET D \subseteq T
    <2> HIDE DEF T
    <2> QED BY <1>1, SetInduction
  <1> QED BY <1>2
=============================================================================
