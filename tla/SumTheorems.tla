----------------------------- MODULE SumTheorems -----------------------------
(***************************************************************************)
(* Induction over a finite set, and sums over one.  FoldSet and its kin of *)
(* the community modules are recursive functions: what such a function     *)
(* yields is proved here, by a minimal counterexample among the subsets.   *)
(***************************************************************************)
EXTENDS Integers, FiniteSetsExt, FiniteSetTheorems, WellFoundedInduction, TLAPS

(***************************************************************************)
(* A property of sets that each set has when its proper subsets have it.   *)
(* It is given as the set of those that have it.                           *)
(***************************************************************************)
LEMMA SetInduction ==
  ASSUME NEW S, IsFiniteSet(S), NEW Good,
         \A T \in SUBSET S :
           (\A U \in SUBSET T : U # T => U \in Good) => T \in Good
  PROVE  \A T \in SUBSET S : T \in Good
<1> DEFINE Bad == { T \in SUBSET S : T \notin Good }
<1>1. SUFFICES ASSUME Bad # {}
               PROVE  FALSE
  OBVIOUS
<1>2. IsWellFoundedOn(StrictSubsetOrdering(S), SUBSET S)
  BY FS_StrictSubsetOrderingWellFounded, FS_FiniteSubsetsOfFinite
<1>3. Bad \subseteq SUBSET S
  OBVIOUS
<1> HIDE DEF Bad
<1>4. PICK T \in Bad : \A U \in Bad : << U, T >> \notin StrictSubsetOrdering(S)
  BY <1>1, <1>2, <1>3, WFMin
<1> USE DEF Bad
<1>5. \A U \in SUBSET T : U # T => U \in Good
  BY <1>4 DEF StrictSubsetOrdering
<1> QED BY <1>4, <1>5


(* One step of a sum of v over a set: an element and the rest.            *)
Pick(s) == CHOOSE x \in s : TRUE
SumStep(v, f, s) == IF s = {} THEN 0 ELSE v[Pick(s)] + f[s \ { Pick(s) }]
Sums(v, f, S) == f = [s \in SUBSET S |-> SumStep(v, f, s)]
(* The sum over S of the values of the function v.                        *)
Sigma(v, S) == (CHOOSE f : Sums(v, f, S))[S]

(* What is picked is picked from the set.                                 *)
LEMMA PickIsMember ==
  ASSUME NEW S, S # {}
  PROVE  Pick(S) \in S
BY DEF Pick

(* A sum over a subset does not depend on the set.                        *)
LEMMA SumsAreUnique ==
  ASSUME NEW v, NEW S, IsFiniteSet(S), NEW f, NEW g, NEW R \in SUBSET S,
         Sums(v, f, S), Sums(v, g, R)
  PROVE  \A T \in SUBSET R : f[T] = g[T]
<1> DEFINE Good == { T \in SUBSET R : f[T] = g[T] }
<1>1. ASSUME NEW T \in SUBSET R, \A U \in SUBSET T : U # T => U \in Good
      PROVE  T \in Good
  <2>1. f[T] = SumStep(v, f, T) /\ g[T] = SumStep(v, g, T)
    BY DEF Sums
  <2>2. CASE T = {}
    BY <2>1, <2>2 DEF SumStep
  <2>3. CASE T # {}
    <3>1. T \ { Pick(T) } \in SUBSET T /\ T \ { Pick(T) } # T
      BY <2>3, PickIsMember
    <3>2. f[T \ { Pick(T) }] = g[T \ { Pick(T) }]
      BY <1>1, <3>1
    <3> QED BY <2>1, <2>3, <3>2 DEF SumStep
  <2> QED BY <2>2, <2>3
<1>2. IsFiniteSet(R)
  BY FS_Subset
<1> HIDE DEF Good
<1>3. \A T \in SUBSET R : T \in Good
  BY <1>1, <1>2, SetInduction
<1> QED BY <1>3 DEF Good

(* The recursion that defines a sum has a solution.                       *)
LEMMA SumsExist ==
  ASSUME NEW v, NEW D, IsFiniteSet(D)
  PROVE  \A S \in SUBSET D : \E f : Sums(v, f, S)
<1> DEFINE Good == { S \in SUBSET D : \E f : Sums(v, f, S) }
           F(S) == [s \in SUBSET S |-> IF s = {} THEN 0
                                        ELSE v[Pick(s)] + Sigma(v, s \ { Pick(s) })]
<1>1. ASSUME NEW S \in SUBSET D, \A U \in SUBSET S : U # S => U \in Good
      PROVE  S \in Good
  <2>1. ASSUME NEW U \in SUBSET S, U # S
        PROVE  Sigma(v, U) = F(S)[U]
    <3>1. PICK f : f = CHOOSE g : Sums(v, g, U)
      OBVIOUS
    <3>2. Sums(v, f, U)
      BY <1>1, <2>1, <3>1
    <3>3. Sigma(v, U) = SumStep(v, f, U)
      BY <3>1, <3>2 DEF Sigma, Sums
    <3>4. CASE U = {}
      BY <3>3, <3>4 DEF SumStep
    <3>5. CASE U # {}
      <4>1. PICK W : W = U \ { Pick(U) }
        OBVIOUS
      <4>2. W \in SUBSET U /\ W # U /\ W \in SUBSET S /\ W # S
        BY <2>1, <3>5, <4>1, PickIsMember
      <4>3. PICK g : g = CHOOSE h : Sums(v, h, W)
        OBVIOUS
      <4>4. Sums(v, g, W)
        BY <1>1, <4>2, <4>3
      <4>5. f[W] = g[W]
        <5>1. IsFiniteSet(U)
          BY FS_Subset
        <5> QED BY <3>2, <4>2, <4>4, <5>1, SumsAreUnique
      <4>6. g[W] = Sigma(v, W)
        BY <4>3 DEF Sigma
      <4> QED BY <3>3, <3>5, <4>1, <4>5, <4>6 DEF SumStep
    <3> QED BY <3>4, <3>5
  <2>2. ASSUME NEW s \in SUBSET S
        PROVE  F(S)[s] = SumStep(v, F(S), s)
    <3>1. CASE s = {}
      BY <3>1 DEF SumStep
    <3>2. CASE s # {}
      <4>1. PICK W : W = s \ { Pick(s) }
        OBVIOUS
      <4>2. W \in SUBSET S /\ W # S
        BY <3>2, <4>1, PickIsMember
      <4>3. Sigma(v, W) = F(S)[W]
        BY <2>1, <4>2
      <4>4. F(S)[s] = v[Pick(s)] + Sigma(v, W)
        BY <3>2, <4>1
      <4> HIDE DEF F
      <4> QED BY <3>2, <4>1, <4>3, <4>4 DEF SumStep
    <3> QED BY <3>1, <3>2
  <2>3. F(S) = [s \in SUBSET S |-> F(S)[s]]
    OBVIOUS
  <2> HIDE DEF F
  <2>4. Sums(v, F(S), S)
    BY <2>2, <2>3 DEF Sums
  <2> QED BY <2>4
<1> HIDE DEF Good
<1>2. \A S \in SUBSET D : S \in Good
  BY <1>1, SetInduction
<1> QED BY <1>2 DEF Good

(* A sum is an element and the sum of the rest.                           *)
LEMMA SigmaUnfolds ==
  ASSUME NEW v, NEW S, IsFiniteSet(S)
  PROVE  Sigma(v, S) = IF S = {} THEN 0 ELSE v[Pick(S)] + Sigma(v, S \ { Pick(S) })
<1>1. PICK f : f = CHOOSE g : Sums(v, g, S)
  OBVIOUS
<1>2. Sums(v, f, S)
  BY <1>1, SumsExist
<1>3. Sigma(v, S) = SumStep(v, f, S)
  BY <1>1, <1>2 DEF Sigma, Sums
<1>4. CASE S = {}
  BY <1>3, <1>4 DEF SumStep
<1>5. CASE S # {}
  <2>1. PICK W : W = S \ { Pick(S) }
    OBVIOUS
  <2>2. W \in SUBSET S
    BY <2>1
  <2>3. PICK g : g = CHOOSE h : Sums(v, h, W)
    OBVIOUS
  <2>4. Sums(v, g, W)
    BY <2>2, <2>3, SumsExist
  <2>5. f[W] = g[W]
    BY <1>2, <2>2, <2>4, SumsAreUnique
  <2>6. g[W] = Sigma(v, W)
    BY <2>3 DEF Sigma
  <2> QED BY <1>3, <1>5, <2>1, <2>5, <2>6 DEF SumStep
<1> QED BY <1>4, <1>5

(* Sums of integers are integers.                                         *)
LEMMA SigmaIsTyped ==
  ASSUME NEW v, NEW D, IsFiniteSet(D), \A x \in D : v[x] \in Int
  PROVE  \A S \in SUBSET D : Sigma(v, S) \in Int
<1> DEFINE Good == { S \in SUBSET D : Sigma(v, S) \in Int }
<1>1. ASSUME NEW S \in SUBSET D, \A U \in SUBSET S : U # S => U \in Good
      PROVE  S \in Good
  <2>1. IsFiniteSet(S)
    BY FS_Subset
  <2>2. CASE S = {}
    <3>1. Sigma(v, S) = 0
      BY <2>1, <2>2, SigmaUnfolds
    <3> QED BY <3>1
  <2>3. CASE S # {}
    <3>1. PICK W : W = S \ { Pick(S) }
      OBVIOUS
    <3>2. Pick(S) \in D /\ W \in SUBSET S /\ W # S
      BY <2>3, <3>1, PickIsMember
    <3>3. Sigma(v, W) \in Int
      BY <1>1, <3>2
    <3>4. Sigma(v, S) = v[Pick(S)] + Sigma(v, W)
      BY <2>1, <2>3, <3>1, SigmaUnfolds
    <3>5. Sigma(v, S) \in Int
      BY <3>2, <3>3, <3>4
    <3> QED BY <3>5
  <2> QED BY <2>2, <2>3
<1> HIDE DEF Good
<1>2. \A S \in SUBSET D : S \in Good
  BY <1>1, SetInduction
<1> QED BY <1>2 DEF Good

(* Any element may be taken out first.                                    *)
LEMMA SigmaTakesOut ==
  ASSUME NEW v, NEW D, IsFiniteSet(D), \A x \in D : v[x] \in Int
  PROVE  \A S \in SUBSET D : \A x \in S :
           Sigma(v, S) = v[x] + Sigma(v, S \ { x })
<1> DEFINE Good == { S \in SUBSET D : \A x \in S :
                       Sigma(v, S) = v[x] + Sigma(v, S \ { x }) }
<1>1. ASSUME NEW S \in SUBSET D, \A U \in SUBSET S : U # S => U \in Good
      PROVE  S \in Good
  <2> SUFFICES ASSUME NEW x \in S
               PROVE  Sigma(v, S) = v[x] + Sigma(v, S \ { x })
    OBVIOUS
  <2>1. IsFiniteSet(S)
    BY FS_Subset
  <2>2. PICK y : y = Pick(S)
    OBVIOUS
  <2>3. y \in S /\ Sigma(v, S) = v[y] + Sigma(v, S \ { y })
    BY <2>1, <2>2, SigmaUnfolds, PickIsMember
  <2>4. CASE x = y
    BY <2>3, <2>4
  <2>5. CASE x # y
    <3>1. PICK A : A = S \ { x }
      OBVIOUS
    <3>2. PICK B : B = S \ { y }
      OBVIOUS
    <3>3. PICK C : C = S \ { x, y }
      OBVIOUS
    <3>4. /\ A \in SUBSET S /\ A # S /\ y \in A
          /\ B \in SUBSET S /\ B # S /\ x \in B
          /\ A \ { y } = C
          /\ B \ { x } = C
          /\ C \in SUBSET D
      BY <2>3, <2>5, <3>1, <3>2, <3>3
    <3>5. Sigma(v, A) = v[y] + Sigma(v, C)
      BY <1>1, <3>4
    <3>6. Sigma(v, B) = v[x] + Sigma(v, C)
      BY <1>1, <3>4
    <3>7. v[x] \in Int /\ v[y] \in Int /\ Sigma(v, C) \in Int
      BY <2>3, <3>4, SigmaIsTyped
    <3>8. Sigma(v, S) = v[y] + Sigma(v, B)
      BY <2>3, <3>2
    <3>9. Sigma(v, S) = v[x] + Sigma(v, A)
      BY <3>5, <3>6, <3>7, <3>8
    <3> QED BY <3>1, <3>9
  <2> QED BY <2>4, <2>5
<1> HIDE DEF Good
<1>2. \A S \in SUBSET D : S \in Good
  BY <1>1, SetInduction
<1> QED BY <1>2 DEF Good

(* So an element that is added adds its value.                            *)
LEMMA SigmaAdds ==
  ASSUME NEW v, NEW S, IsFiniteSet(S), NEW x, x \notin S,
         \A y \in S \cup { x } : v[y] \in Int
  PROVE  Sigma(v, S \cup { x }) = v[x] + Sigma(v, S)
<1>1. PICK D : D = S \cup { x }
  OBVIOUS
<1>2. IsFiniteSet(D) /\ x \in D /\ D \ { x } = S
  BY <1>1, FS_AddElement
<1> QED BY <1>1, <1>2, SigmaTakesOut

(* Only the values of the elements matter.                                *)
LEMMA SigmaOfSame ==
  ASSUME NEW v, NEW w, NEW D, IsFiniteSet(D), \A x \in D : v[x] = w[x]
  PROVE  \A S \in SUBSET D : Sigma(v, S) = Sigma(w, S)
<1> DEFINE Good == { S \in SUBSET D : Sigma(v, S) = Sigma(w, S) }
<1>1. ASSUME NEW S \in SUBSET D, \A U \in SUBSET S : U # S => U \in Good
      PROVE  S \in Good
  <2>1. IsFiniteSet(S)
    BY FS_Subset
  <2>2. CASE S = {}
    <3>1. Sigma(v, S) = 0 /\ Sigma(w, S) = 0
      BY <2>1, <2>2, SigmaUnfolds
    <3> QED BY <3>1
  <2>3. CASE S # {}
    <3>1. PICK W : W = S \ { Pick(S) }
      OBVIOUS
    <3>2. Pick(S) \in D /\ W \in SUBSET S /\ W # S
      BY <2>3, <3>1, PickIsMember
    <3>3. Sigma(v, W) = Sigma(w, W)
      BY <1>1, <3>2
    <3>4. /\ Sigma(v, S) = v[Pick(S)] + Sigma(v, W)
          /\ Sigma(w, S) = w[Pick(S)] + Sigma(w, W)
      BY <2>1, <2>3, <3>1, SigmaUnfolds
    <3>5. Sigma(v, S) = Sigma(w, S)
      BY <3>2, <3>3, <3>4
    <3> QED BY <3>5
  <2> QED BY <2>2, <2>3
<1> HIDE DEF Good
<1>2. \A S \in SUBSET D : S \in Good
  BY <1>1, SetInduction
<1> QED BY <1>2 DEF Good

(* When one value changes, the sum changes by as much.                    *)
LEMMA SigmaChanges ==
  ASSUME NEW v, NEW w, NEW D, IsFiniteSet(D), NEW x \in D,
         \A y \in D : v[y] \in Int /\ w[y] \in Int,
         \A y \in D \ { x } : v[y] = w[y]
  PROVE  Sigma(w, D) = Sigma(v, D) + (w[x] - v[x])
<1>1. /\ Sigma(v, D) = v[x] + Sigma(v, D \ { x })
      /\ Sigma(w, D) = w[x] + Sigma(w, D \ { x })
  BY SigmaTakesOut
<1>2. IsFiniteSet(D \ { x })
  BY FS_Subset
<1>3. Sigma(v, D \ { x }) = Sigma(w, D \ { x })
  BY <1>2, SigmaOfSame
<1>4. Sigma(v, D \ { x }) \in Int
  BY SigmaIsTyped
<1> QED BY <1>1, <1>3, <1>4

(* A sum of nothing but zeros is zero.                                    *)
LEMMA SigmaOfNothing ==
  ASSUME NEW v, NEW D, IsFiniteSet(D), \A x \in D : v[x] = 0
  PROVE  Sigma(v, D) = 0
<1> DEFINE Good == { S \in SUBSET D : Sigma(v, S) = 0 }
<1>1. ASSUME NEW S \in SUBSET D, \A U \in SUBSET S : U # S => U \in Good
      PROVE  S \in Good
  <2>1. IsFiniteSet(S)
    BY FS_Subset
  <2>2. Sigma(v, S) = IF S = {} THEN 0 ELSE v[Pick(S)] + Sigma(v, S \ { Pick(S) })
    BY <2>1, SigmaUnfolds
  <2>3. CASE S = {}
    BY <2>2, <2>3
  <2>4. CASE S # {}
    <3>1. Pick(S) \in S
      BY <2>4, PickIsMember
    <3>2. Sigma(v, S \ { Pick(S) }) = 0
      BY <1>1, <3>1
    <3> QED BY <2>2, <2>4, <3>1, <3>2
  <2> QED BY <2>3, <2>4
<1> HIDE DEF Good
<1>2. D \in Good
  BY <1>1, SetInduction
<1> QED BY <1>2 DEF Good
===============================================================================
