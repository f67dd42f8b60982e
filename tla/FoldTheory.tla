------------------------------ MODULE FoldTheory ------------------------------
(***************************************************************************)
(* What a fold over a finite set computes.  The folds of the community      *)
(* modules (MapThenSumSet, FoldSeq, FoldLeft) take an element of the set,   *)
(* fold the rest, and apply a step; a module that proves something about    *)
(* one of them instantiates this one with its step and its choice.          *)
(***************************************************************************)
EXTENDS Integers, FiniteSets, FiniteSetTheorems, WellFoundedInduction, TLAPS

CONSTANTS
  Step(_, _, _),  \* what element x makes of the fold of the others, given d
  Choice(_)       \* the element taken first

(* f is the function a fold of S recurses with.                             *)
IsFold(f, d, base, S) ==
  f = [s \in SUBSET S |->
         IF s = {} THEN base ELSE Step(d, Choice(s), f[s \ {Choice(s)}])]

FoldOf(d, base, S) == (CHOOSE f : IsFold(f, d, base, S))[S]

Chooses(S) == \A s \in SUBSET S : s # {} => Choice(s) \in s

(* The elements of S step alike for d and for e.                             *)
SameSteps(S, d, e) == \A x \in S : \A a : Step(d, x, a) = Step(e, x, a)

(* No step of an element of S leaves Acc.                                    *)
StaysIn(S, d, Acc) == \A x \in S : \A a \in Acc : Step(d, x, a) \in Acc

(* On Acc, two steps of elements of S may be taken in either order.          *)
Commutes(S, d, Acc) ==
  \A x, y \in S : \A a \in Acc : Step(d, x, Step(d, y, a)) = Step(d, y, Step(d, x, a))

-----------------------------------------------------------------------------
(* Among the subsets of a finite set that have a property, one has no       *)
(* proper subset that has it: the form of induction used here.              *)
LEMMA SmallestSubset ==
  ASSUME NEW S, IsFiniteSet(S), NEW C \in SUBSET SUBSET S, C # {}
  PROVE  \E A \in C : \A B \in C : B \subseteq A => B = A
<1> DEFINE R == StrictSubsetOrdering(S)
<1>1. IsWellFoundedOn(R, FiniteSubsetsOf(S))
  BY FS_StrictSubsetOrderingWellFounded
<1>2. C \subseteq FiniteSubsetsOf(S)
  BY FS_Subset DEF FiniteSubsetsOf
<1> HIDE DEF R
<1>3. PICK A \in C : \A B \in C : ~(<<B, A>> \in R)
  BY <1>1, <1>2, WFMin, Zenon
<1>4. ASSUME NEW B \in C, B \subseteq A, B # A PROVE FALSE
  <2>1. <<B, A>> \in R
    BY <1>4 DEF R, StrictSubsetOrdering
  <2>2. QED
    BY <1>3, <2>1
<1>5. QED
  BY <1>3, <1>4

(* A finite set of integers that is not empty has a greatest element.        *)
LEMMA GreatestExists ==
  ASSUME NEW S, IsFiniteSet(S), S \subseteq Int, S # {}
  PROVE  \E m \in S : \A x \in S : x <= m
<1> DEFINE C == {A \in SUBSET S : A # {} /\ ~ \E m \in A : \A x \in A : x <= m}
<1>1. C = {}
  <2>1. SUFFICES ASSUME C # {} PROVE FALSE
    OBVIOUS
  <2>2. C \in SUBSET SUBSET S
    OBVIOUS
  <2> HIDE DEF C
  <2>3. PICK A \in C : \A B \in C : B \subseteq A => B = A
    BY ONLY IsFiniteSet(S), <2>1, <2>2, SmallestSubset
  <2>4. A \in SUBSET S /\ A # {} /\ ~ \E m \in A : \A x \in A : x <= m
    BY DEF C
  <2>5. PICK a \in A : TRUE
    BY <2>4
  <2> DEFINE B == A \ {a}
  <2>6. B \notin C
    BY <2>3
  <2>7. B = {} \/ \E m \in B : \A x \in B : x <= m
    BY <2>4, <2>6 DEF C
  <2>8. \A x \in A : x = a \/ x \in B
    OBVIOUS
  <2>9. CASE B = {}
    BY <2>4, <2>8, <2>9
  <2>10. CASE \E m \in B : \A x \in B : x <= m
    <3>1. PICK m \in B : \A x \in B : x <= m
      BY <2>10
    <3>2. m \in A /\ m \in Int /\ a \in Int
      BY <2>4
    <3>3. CASE a <= m
      BY <2>4, <2>8, <3>1, <3>2, <3>3
    <3>4. CASE m <= a
      <4>1. \A x \in A : x <= a
        BY <2>4, <2>8, <3>1, <3>2, <3>4
      <4>2. QED
        BY <2>4, <4>1
    <3>5. QED
      BY <3>2, <3>3, <3>4
  <2>11. QED
    BY <2>7, <2>9, <2>10
<1>2. QED
  BY <1>1

LEMMA FoldUnfolds ==
  ASSUME NEW S, NEW d, NEW base, NEW f, IsFold(f, d, base, S), NEW A \in SUBSET S
  PROVE  f[A] = IF A = {} THEN base ELSE Step(d, Choice(A), f[A \ {Choice(A)}])
<1> DEFINE F == [s \in SUBSET S |->
                   IF s = {} THEN base ELSE Step(d, Choice(s), f[s \ {Choice(s)}])]
<1>1. f = F
  BY DEF IsFold
<1>2. F[A] = IF A = {} THEN base ELSE Step(d, Choice(A), f[A \ {Choice(A)}])
  OBVIOUS
<1> HIDE DEF F
<1>3. QED
  BY <1>1, <1>2

(* Two such functions agree on the sets where the steps do.                 *)
LEMMA FoldUnique ==
  ASSUME NEW S, NEW T, NEW d, NEW e, NEW base, NEW f, NEW g,
         IsFold(f, d, base, S), IsFold(g, e, base, T),
         NEW A, A \subseteq S, A \subseteq T, IsFiniteSet(A), Chooses(A),
         \A x \in A : \A a : Step(d, x, a) = Step(e, x, a)
  PROVE  f[A] = g[A]
<1> DEFINE C == {B \in SUBSET A : f[B] # g[B]}
<1>1. SUFFICES ASSUME C # {} PROVE FALSE
  OBVIOUS
<1>2. C \in SUBSET SUBSET A
  OBVIOUS
<1> HIDE DEF C
<1>3. PICK B \in C : \A D \in C : D \subseteq B => D = B
  BY <1>1, <1>2, SmallestSubset
<1>4. B \in SUBSET A /\ f[B] # g[B]
  BY DEF C
<1>5. B \in SUBSET S /\ B \in SUBSET T
  BY <1>4
<1> DEFINE D == B \ {Choice(B)}
<1>6. f[B] = IF B = {} THEN base ELSE Step(d, Choice(B), f[D])
  <2>1. IsFold(f, d, base, S) /\ B \in SUBSET S
    BY <1>5
  <2>2. QED
    BY ONLY <2>1, FoldUnfolds
<1>7. g[B] = IF B = {} THEN base ELSE Step(e, Choice(B), g[D])
  <2>1. IsFold(g, e, base, T) /\ B \in SUBSET T
    BY <1>5
  <2>2. QED
    BY ONLY <2>1, FoldUnfolds
<1>8. B # {}
  BY <1>4, <1>6, <1>7
<1>9. Choice(B) \in B
  BY <1>4, <1>8 DEF Chooses
<1>10. D \in SUBSET A /\ D # B /\ D \subseteq B
  BY <1>4, <1>9
<1> HIDE DEF D
<1>11. f[D] = g[D]
  <2>1. D \notin C
    BY <1>3, <1>10
  <2>2. QED
    BY <1>10, <2>1 DEF C
<1>12. Step(d, Choice(B), f[D]) = Step(e, Choice(B), f[D])
  BY <1>4, <1>9
<1>13. QED
  BY <1>4, <1>6, <1>7, <1>8, <1>11, <1>12

(* Of a finite set there is one.                                            *)
LEMMA FoldExists ==
  ASSUME NEW S, IsFiniteSet(S), Chooses(S), NEW d, NEW base
  PROVE  \E f : IsFold(f, d, base, S)
<1> DEFINE C == {A \in SUBSET S : ~ \E f : IsFold(f, d, base, A)}
<1>1. SUFFICES ASSUME C # {} PROVE FALSE
  <2>1. S \in SUBSET S /\ S \notin C
    BY <1>1
  <2>2. QED
    BY <2>1
<1>2. C \in SUBSET SUBSET S
  OBVIOUS
<1> HIDE DEF C
<1>3. PICK A \in C : \A B \in C : B \subseteq A => B = A
  BY <1>1, <1>2, SmallestSubset
<1>4. A \in SUBSET S /\ ~ \E f : IsFold(f, d, base, A)
  BY DEF C
<1> DEFINE g(B) == CHOOSE f : IsFold(f, d, base, B)
<1>5. ASSUME NEW B, B \subseteq A, B # A PROVE IsFold(g(B), d, base, B)
  <2>1. B \in SUBSET S /\ B \notin C
    BY <1>3, <1>4, <1>5
  <2>2. \E f : IsFold(f, d, base, B)
    BY <2>1 DEF C
  <2>3. QED
    BY <2>2
<1> HIDE DEF g
<1> DEFINE Rest(s) == s \ {Choice(s)}
           h == [s \in SUBSET A |->
                   IF s = {} THEN base ELSE Step(d, Choice(s), g(Rest(s))[Rest(s)])]
<1>6. ASSUME NEW s \in SUBSET A, s # {} PROVE h[Rest(s)] = g(Rest(s))[Rest(s)]
  <2> DEFINE B == Rest(s)
  <2>1. Choice(s) \in s
    BY <1>4, <1>6 DEF Chooses
  <2>2. B \subseteq A /\ B # A /\ B \in SUBSET A
    BY <2>1
  <2> HIDE DEF B
  <2>3. IsFold(g(B), d, base, B)
    BY <1>5, <2>2
  <2>4. g(B)[B] = IF B = {} THEN base ELSE Step(d, Choice(B), g(B)[Rest(B)])
    BY <2>3, FoldUnfolds
  <2>5. h[B] = IF B = {} THEN base ELSE Step(d, Choice(B), g(Rest(B))[Rest(B)])
    BY <2>2
  <2>6. CASE B = {}
    BY <2>4, <2>5, <2>6 DEF B
  <2>7. CASE B # {}
    <3> DEFINE D == Rest(B)
    <3>1. Choice(B) \in B
      BY <1>4, <2>2, <2>7 DEF Chooses
    <3>2. D \subseteq A /\ D # A /\ D \subseteq B
      BY <2>2, <3>1
    <3>3. IsFiniteSet(D) /\ Chooses(D)
      BY <1>4, <3>2, FS_Subset DEF Chooses
    <3> HIDE DEF D
    <3>4. IsFold(g(D), d, base, D)
      BY <1>5, <3>2
    <3>5. g(B)[D] = g(D)[D]
      BY <2>3, <3>2, <3>3, <3>4, FoldUnique
    <3>6. QED
      BY <2>4, <2>5, <2>7, <3>5 DEF B, D
  <2>8. QED
    BY <2>6, <2>7
<1>7. IsFold(h, d, base, A)
  <2>1. h = [s \in SUBSET A |->
               IF s = {} THEN base ELSE Step(d, Choice(s), h[s \ {Choice(s)}])]
    BY <1>6
  <2>2. QED
    BY <2>1 DEF IsFold
<1>8. QED
  BY <1>4, <1>7

-----------------------------------------------------------------------------
(* The fold takes the chosen element last.                                  *)
LEMMA FoldStep ==
  ASSUME NEW S, IsFiniteSet(S), Chooses(S), NEW d, NEW base
  PROVE  FoldOf(d, base, S) =
           IF S = {} THEN base
           ELSE Step(d, Choice(S), FoldOf(d, base, S \ {Choice(S)}))
<1> DEFINE R == S \ {Choice(S)}
           f == CHOOSE e : IsFold(e, d, base, S)
           g == CHOOSE e : IsFold(e, d, base, R)
<1>1. IsFiniteSet(R) /\ Chooses(R) /\ R \in SUBSET S
  BY FS_Subset DEF Chooses
<1>2. IsFold(f, d, base, S)
  BY FoldExists
<1>3. IsFold(g, d, base, R)
  <2> HIDE DEF R
  <2>1. QED
    BY <1>1, FoldExists
<1>4. FoldOf(d, base, S) = f[S] /\ FoldOf(d, base, R) = g[R]
  BY DEF FoldOf
<1> HIDE DEF f, g
<1>5. f[S] = IF S = {} THEN base ELSE Step(d, Choice(S), f[R])
  BY <1>2, FoldUnfolds
<1> HIDE DEF R
<1>6. f[R] = g[R]
  BY <1>1, <1>2, <1>3, FoldUnique
<1>7. QED
  BY <1>4, <1>5, <1>6 DEF R

LEMMA FoldEmpty ==
  ASSUME NEW d, NEW base
  PROVE  FoldOf(d, base, {}) = base
<1>1. IsFiniteSet({}) /\ Chooses({})
  BY FS_EmptySet DEF Chooses
<1>2. QED
  BY <1>1, FoldStep

(* Only what the steps do with the elements matters.                        *)
LEMMA FoldSame ==
  ASSUME NEW S, IsFiniteSet(S), Chooses(S), NEW d, NEW e, NEW base,
         SameSteps(S, d, e)
  PROVE  FoldOf(d, base, S) = FoldOf(e, base, S)
<1> DEFINE f == CHOOSE c : IsFold(c, d, base, S)
           g == CHOOSE c : IsFold(c, e, base, S)
<1>1. IsFold(f, d, base, S) /\ IsFold(g, e, base, S)
  BY FoldExists
<1> HIDE DEF f, g
<1>2. f[S] = g[S]
  BY <1>1, FoldUnique DEF SameSteps
<1>3. QED
  BY <1>2 DEF FoldOf, f, g

(* The fold stays in a set that the steps do not leave.                     *)
LEMMA FoldStays ==
  ASSUME NEW S, IsFiniteSet(S), Chooses(S), NEW d, NEW Acc, NEW base \in Acc,
         StaysIn(S, d, Acc)
  PROVE  FoldOf(d, base, S) \in Acc
<1> DEFINE C == {A \in SUBSET S : FoldOf(d, base, A) \notin Acc}
<1>1. SUFFICES ASSUME C # {} PROVE FALSE
  <2>1. S \in SUBSET S /\ S \notin C
    BY <1>1
  <2>2. QED
    BY <2>1
<1>2. C \in SUBSET SUBSET S
  OBVIOUS
<1> HIDE DEF C
<1>3. PICK A \in C : \A B \in C : B \subseteq A => B = A
  BY <1>1, <1>2, SmallestSubset
<1>4. A \in SUBSET S /\ FoldOf(d, base, A) \notin Acc
  BY DEF C
<1> DEFINE B == A \ {Choice(A)}
<1>5. IsFiniteSet(A) /\ Chooses(A)
  BY <1>4, FS_Subset DEF Chooses
<1>6. FoldOf(d, base, A) = IF A = {} THEN base
                           ELSE Step(d, Choice(A), FoldOf(d, base, B))
  BY <1>5, FoldStep
<1>7. A # {}
  BY <1>4, <1>6
<1>8. Choice(A) \in A
  BY <1>5, <1>7 DEF Chooses
<1>9. B \in SUBSET S /\ B \subseteq A /\ B # A
  BY <1>4, <1>8
<1> HIDE DEF B
<1>10. FoldOf(d, base, B) \in Acc
  <2>1. B \notin C
    BY <1>3, <1>9
  <2>2. QED
    BY <1>9, <2>1 DEF C
<1>11. QED
  BY <1>4, <1>6, <1>7, <1>8, <1>10 DEF StaysIn

(* Where the order of two steps does not matter, any element may be taken    *)
(* last.                                                                     *)
LEMMA FoldAnyLast ==
  ASSUME NEW S, IsFiniteSet(S), Chooses(S), NEW d, NEW Acc, NEW base \in Acc,
         StaysIn(S, d, Acc), Commutes(S, d, Acc), NEW e \in S
  PROVE  FoldOf(d, base, S) = Step(d, e, FoldOf(d, base, S \ {e}))
<1> DEFINE F(A) == FoldOf(d, base, A)
           C == {A \in SUBSET S : \E z \in A : F(A) # Step(d, z, F(A \ {z}))}
<1>1. SUFFICES ASSUME C # {} PROVE FALSE
  <2>1. S \in SUBSET S /\ S \notin C
    BY <1>1
  <2>2. QED
    BY <2>1
<1>2. C \in SUBSET SUBSET S
  OBVIOUS
<1> HIDE DEF C, F
<1>3. PICK A \in C : \A B \in C : B \subseteq A => B = A
  BY <1>1, <1>2, SmallestSubset
<1>4. A \in SUBSET S /\ \E z \in A : F(A) # Step(d, z, F(A \ {z}))
  BY DEF C
<1>5. PICK z \in A : F(A) # Step(d, z, F(A \ {z}))
  BY <1>4
<1>6. IsFiniteSet(A) /\ Chooses(A)
  BY <1>4, FS_Subset DEF Chooses
<1> DEFINE p == Choice(A)
<1>7. p \in A
  BY <1>5, <1>6 DEF Chooses
<1>8. F(A) = Step(d, p, F(A \ {p}))
  BY <1>5, <1>6, FoldStep DEF F
<1> HIDE DEF p
<1>9. p # z
  BY <1>5, <1>8
<1>10. ASSUME NEW B \in SUBSET A, B # A, NEW x \in B
       PROVE  F(B) = Step(d, x, F(B \ {x}))
  <2>1. B \in SUBSET S /\ B \notin C
    BY <1>3, <1>4, <1>10
  <2>2. QED
    BY <1>10, <2>1 DEF C
<1> DEFINE D == (A \ {p}) \ {z}
<1>11. D = (A \ {z}) \ {p}
  OBVIOUS
<1>12. F(A \ {p}) = Step(d, z, F(D))
  BY <1>7, <1>9, <1>10
<1>13. F(A \ {z}) = Step(d, p, F((A \ {z}) \ {p}))
  BY <1>7, <1>9, <1>10
<1>14. F(D) \in Acc
  <2>1. /\ IsFiniteSet(D) /\ Chooses(D)
        /\ StaysIn(D, d, Acc)
    BY <1>4, <1>6, FS_Subset DEF Chooses, StaysIn
  <2> HIDE DEF D
  <2>2. QED
    BY <2>1, FoldStays DEF F
<1> HIDE DEF D
<1>15. Step(d, p, Step(d, z, F(D))) = Step(d, z, Step(d, p, F(D)))
  BY <1>4, <1>7, <1>14 DEF Commutes
<1>16. QED
  BY <1>5, <1>8, <1>11, <1>12, <1>13, <1>15
=============================================================================
