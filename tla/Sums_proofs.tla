----------------------------- MODULE Sums_proofs -----------------------------
(***************************************************************************)
(* Sums over finite sets of numbers, as SumFunctionOnSet of the community  *)
(* modules has them, and what any recursion over a finite set defines.     *)
(* The sum takes some element of the set after another; that it does not   *)
(* matter which, and what it comes to, is proved here.  The induction is   *)
(* over sets of numbers, or of elements, that hold what is to be proved,   *)
(* and not over a formula.                                                 *)
(***************************************************************************)
EXTENDS Functions, FiniteSetTheorems, WellFoundedInduction, TLAPS

(***************************************************************************)
(* Of natural numbers, if any, one is the least.                           *)
(***************************************************************************)
LEMMA LeastNumber ==
  ASSUME NEW N \in SUBSET Nat, N # {}
  PROVE  \E n \in N : \A m \in N : n <= m
<1>1. PICK n \in N : \A m \in N : <<m, n>> \notin OpToRel(<, Nat)
  BY WFMin, NatLessThanWellFounded, Zenon
<1>2. \A m \in N : ~(m < n)
  BY <1>1, Zenon DEF OpToRel
<1>3. QED
  BY <1>2

(***************************************************************************)
(* A set with 0, and with the successor of each of its numbers, has every  *)
(* natural number.                                                         *)
(***************************************************************************)
LEMMA Induction ==
  ASSUME NEW N, 0 \in N, \A n \in Nat : n \in N => n + 1 \in N
  PROVE  Nat \subseteq N
<1> DEFINE Missing == Nat \ N
<1>1. SUFFICES ASSUME Missing # {} PROVE FALSE
  OBVIOUS
<1>2. PICK n \in Missing : \A m \in Missing : n <= m
  <2> HIDE DEF Missing
  <2>1. Missing \subseteq Nat
    BY DEF Missing
  <2> QED
    BY <1>1, <2>1, LeastNumber
<1>3. n \in Nat /\ n # 0 /\ n \notin N
  BY <1>2
<1>4. n - 1 \in Nat /\ n - 1 + 1 = n /\ ~(n <= n - 1)
  BY <1>3
<1>5. n - 1 \in N
  BY <1>2, <1>4
<1>6. QED
  BY <1>3, <1>4, <1>5

(***************************************************************************)
(* The element that is taken next, and the function that is its own        *)
(* unfolding.                                                              *)
(***************************************************************************)
Pivot(s) == CHOOSE x \in s : TRUE

IsSum(f, v, S) ==
  f = [s \in SUBSET S |-> IF s = {} THEN 0 ELSE v[Pivot(s)] + f[s \ {Pivot(s)}]]

(***************************************************************************)
(* That is how SumFunctionOnSet is defined.                                *)
(***************************************************************************)
LEMMA SumIsPivot ==
  ASSUME NEW v, NEW S
  PROVE  SumFunctionOnSet(v, S) = (CHOOSE f : IsSum(f, v, S))[S]
BY DEF SumFunctionOnSet, FoldFunctionOnSet, MapThenFoldSet, IsSum, Pivot

(***************************************************************************)
(* What is taken is an element.                                            *)
(***************************************************************************)
LEMMA PivotIn == \A s : s # {} => Pivot(s) \in s
BY Zenon DEF Pivot

(***************************************************************************)
(* There is such a function: on the subsets of up to n elements, for every *)
(* n.                                                                      *)
(***************************************************************************)
LEMMA SumDefined ==
  ASSUME NEW v, NEW S, IsFiniteSet(S)
  PROVE  \E f : IsSum(f, v, S)
<1> DEFINE Step(f, s) == IF s = {} THEN 0 ELSE v[Pivot(s)] + f[s \ {Pivot(s)}]
           UpTo(f, n) == \A s \in SUBSET S : Cardinality(s) <= n => f[s] = Step(f, s)
           N == {n \in Nat : \E f : UpTo(f, n)}
<1>1. \A s \in SUBSET S : IsFiniteSet(s) /\ Cardinality(s) \in Nat /\ Cardinality(s) <= Cardinality(S)
  BY FS_Subset, FS_CardinalityType
<1>2. \A s \in SUBSET S : Cardinality(s) <= 0 => s = {}
  BY <1>1, FS_EmptySet
<1>3. \A s \in SUBSET S : s # {} =>
        s \ {Pivot(s)} \in SUBSET S /\ Cardinality(s \ {Pivot(s)}) = Cardinality(s) - 1
  BY <1>1, PivotIn, FS_RemoveElement
<1>4. 0 \in N
  <2>1. UpTo([s \in SUBSET S |-> 0], 0)
    BY <1>2
  <2>2. QED
    BY <2>1
<1>5. ASSUME NEW n \in Nat, n \in N
      PROVE  n + 1 \in N
  <2>1. PICK f : UpTo(f, n)
    BY <1>5
  <2> DEFINE g == [s \in SUBSET S |-> Step(f, s)]
  <2>2. ASSUME NEW s \in SUBSET S, Cardinality(s) <= n + 1, s # {}
        PROVE  g[s] = Step(g, s)
    <3> DEFINE r == s \ {Pivot(s)}
    <3>1. r \in SUBSET S /\ Cardinality(r) <= n
      BY <2>2, <1>1, <1>3
    <3>2. f[r] = Step(f, r)
      BY <3>1, <2>1
    <3>3. g[r] = f[r]
      BY <3>1, <3>2
    <3>4. QED
      BY <2>2, <3>3
  <2>3. UpTo(g, n + 1)
    BY <2>2
  <2>4. \E h : UpTo(h, n + 1)
    <3> HIDE DEF UpTo, g
    <3> QED
      BY <2>3
  <2>5. n + 1 \in Nat
    OBVIOUS
  <2>6. QED
    <3> HIDE DEF UpTo
    <3> QED
      BY <2>4, <2>5
<1>6. Cardinality(S) \in N
  <2>1. Nat \subseteq N
    <3> HIDE DEF N
    <3> QED
      BY <1>4, <1>5, Induction
  <2>2. QED
    BY <2>1, <1>1
<1>7. PICK f : UpTo(f, Cardinality(S))
  BY <1>6
<1>8. \A s \in SUBSET S : f[s] = Step(f, s)
  BY <1>7, <1>1
<1> DEFINE g == [s \in SUBSET S |-> Step(f, s)]
<1>9. \A s \in SUBSET S : g[s] = f[s]
  BY <1>8
<1>10. \A s \in SUBSET S : Step(g, s) = Step(f, s)
  BY <1>3, <1>9
<1>11. g = [s \in SUBSET S |-> Step(g, s)]
  BY <1>10
<1>12. QED
  <2>1. IsSum(g, v, S)
    BY <1>11 DEF IsSum
  <2>2. QED
    BY <2>1

(***************************************************************************)
(* So what is chosen as the sum is its own unfolding.                      *)
(***************************************************************************)
LEMMA SumUnfolded ==
  ASSUME NEW v, NEW S, IsFiniteSet(S)
  PROVE  IsSum(CHOOSE f : IsSum(f, v, S), v, S)
BY SumDefined, Zenon

(***************************************************************************)
(* The sum over a subset does not depend on the set it is a subset of.     *)
(***************************************************************************)
LEMMA SumOfSubset ==
  ASSUME NEW v, NEW S, IsFiniteSet(S), NEW T \in SUBSET S
  PROVE  (CHOOSE f : IsSum(f, v, S))[T] = SumFunctionOnSet(v, T)
<1> DEFINE F(R) == CHOOSE f : IsSum(f, v, R)
           N == {n \in Nat : \A R \in SUBSET S : \A s \in SUBSET R :
                                Cardinality(s) <= n => F(R)[s] = F(S)[s]}
<1>1. \A R \in SUBSET S : \A s \in SUBSET R :
        F(R)[s] = IF s = {} THEN 0 ELSE v[Pivot(s)] + F(R)[s \ {Pivot(s)}]
  <2> TAKE R \in SUBSET S
  <2> DEFINE h == F(R)
  <2>1. IsSum(h, v, R)
    BY SumUnfolded, FS_Subset
  <2>2. QED
    <3> HIDE DEF h
    <3>1. \A s \in SUBSET R :
            h[s] = IF s = {} THEN 0 ELSE v[Pivot(s)] + h[s \ {Pivot(s)}]
      BY <2>1 DEF IsSum
    <3>2. QED
      BY <3>1 DEF h
<1> HIDE DEF F
<1>2. \A s \in SUBSET S : IsFiniteSet(s) /\ Cardinality(s) \in Nat
  BY FS_Subset, FS_CardinalityType
<1>3. \A s \in SUBSET S : Cardinality(s) <= 0 => s = {}
  BY <1>2, FS_EmptySet
<1>4. \A s \in SUBSET S : s # {} =>
        s \ {Pivot(s)} \in SUBSET s /\ Cardinality(s \ {Pivot(s)}) = Cardinality(s) - 1
  BY <1>2, PivotIn, FS_RemoveElement
<1>5. 0 \in N
  BY <1>1, <1>3
<1>6. ASSUME NEW n \in Nat, n \in N
      PROVE  n + 1 \in N
  <2>1. ASSUME NEW R \in SUBSET S, NEW s \in SUBSET R, Cardinality(s) <= n + 1, s # {}
        PROVE  F(R)[s] = F(S)[s]
    <3> DEFINE r == s \ {Pivot(s)}
    <3>1. r \in SUBSET R /\ Cardinality(r) <= n
      BY <2>1, <1>2, <1>4
    <3>2. F(R)[r] = F(S)[r]
      BY <3>1, <1>6
    <3>3. F(R)[s] = v[Pivot(s)] + F(R)[r] /\ F(S)[s] = v[Pivot(s)] + F(S)[r]
      BY <2>1, <1>1
    <3>4. QED
      BY <3>2, <3>3
  <2>2. ASSUME NEW R \in SUBSET S, NEW s \in SUBSET R, Cardinality(s) <= n + 1
        PROVE  F(R)[s] = F(S)[s]
    <3>1. CASE s = {}
      BY <3>1, <1>1
    <3>2. QED
      BY <2>1, <2>2, <3>1
  <2>3. QED
    BY <2>2
<1>7. Nat \subseteq N
  <2> HIDE DEF N
  <2> QED
    BY <1>5, <1>6, Induction
<1>8. F(T)[T] = F(S)[T]
  BY <1>2, <1>7
<1>9. QED
  BY <1>8, SumIsPivot DEF F

(***************************************************************************)
(* The sum of nothing.                                                     *)
(***************************************************************************)
LEMMA SumEmpty ==
  ASSUME NEW v
  PROVE  SumFunctionOnSet(v, {}) = 0
<1> DEFINE h == CHOOSE f : IsSum(f, v, {})
<1>1. IsSum(h, v, {})
  BY SumUnfolded, FS_EmptySet
<1>2. h[{}] = 0
  <2> HIDE DEF h
  <2> QED
    BY <1>1 DEF IsSum
<1>3. QED
  BY <1>2, SumIsPivot

(***************************************************************************)
(* A sum is what is taken next and the sum of the rest.                    *)
(***************************************************************************)
LEMMA SumOfPivot ==
  ASSUME NEW v, NEW S, IsFiniteSet(S), S # {}
  PROVE  SumFunctionOnSet(v, S)
           = v[Pivot(S)] + SumFunctionOnSet(v, S \ {Pivot(S)})
<1> DEFINE h == CHOOSE f : IsSum(f, v, S)
<1>1. IsSum(h, v, S)
  BY SumUnfolded
<1>2. h[S] = v[Pivot(S)] + h[S \ {Pivot(S)}]
  <2> HIDE DEF h
  <2> QED
    BY <1>1 DEF IsSum
<1>3. QED
  BY <1>2, SumIsPivot, SumOfSubset

(***************************************************************************)
(* A sum of natural numbers is one.                                        *)
(***************************************************************************)
LEMMA SumType ==
  ASSUME NEW S, IsFiniteSet(S), NEW v, \A s \in S : v[s] \in Nat
  PROVE  SumFunctionOnSet(v, S) \in Nat
<1> DEFINE N == {n \in Nat : \A s \in SUBSET S :
                    Cardinality(s) <= n => SumFunctionOnSet(v, s) \in Nat}
<1>1. \A s \in SUBSET S : IsFiniteSet(s) /\ Cardinality(s) \in Nat
  BY FS_Subset, FS_CardinalityType
<1>2. \A s \in SUBSET S : Cardinality(s) <= 0 => s = {}
  BY <1>1, FS_EmptySet
<1>3. 0 \in N
  BY <1>2, SumEmpty
<1>4. ASSUME NEW n \in Nat, n \in N
      PROVE  n + 1 \in N
  <2>1. ASSUME NEW s \in SUBSET S, Cardinality(s) <= n + 1, s # {}
        PROVE  SumFunctionOnSet(v, s) \in Nat
    <3> DEFINE c == Pivot(s)
               r == s \ {c}
    <3>1. c \in s
      BY <2>1, PivotIn
    <3>2. r \in SUBSET S /\ Cardinality(r) <= n
      BY <2>1, <3>1, <1>1, FS_RemoveElement
    <3>3. SumFunctionOnSet(v, r) \in Nat
      BY <1>4, <3>2
    <3>4. SumFunctionOnSet(v, s) = v[c] + SumFunctionOnSet(v, r)
      BY <1>1, <2>1, SumOfPivot
    <3>5. QED
      BY <3>1, <3>3, <3>4
  <2>2. QED
    BY <2>1, SumEmpty
<1>5. Nat \subseteq N
  <2> HIDE DEF N
  <2> QED
    BY <1>3, <1>4, Induction
<1>6. QED
  BY <1>1, <1>5

(***************************************************************************)
(* The same holds of any element, whichever is taken first: of two, each   *)
(* may be taken before the other.                                          *)
(***************************************************************************)
LEMMA SumRemove ==
  ASSUME NEW S, IsFiniteSet(S), NEW v, \A s \in S : v[s] \in Nat, NEW x \in S
  PROVE  SumFunctionOnSet(v, S) = v[x] + SumFunctionOnSet(v, S \ {x})
<1> DEFINE Sum(s) == SumFunctionOnSet(v, s)
           N == {n \in Nat : \A s \in SUBSET S : \A y \in s :
                    Cardinality(s) <= n => Sum(s) = v[y] + Sum(s \ {y})}
<1>1. \A s \in SUBSET S : IsFiniteSet(s) /\ Cardinality(s) \in Nat /\ Sum(s) \in Nat
  BY FS_Subset, FS_CardinalityType, SumType
<1>2. \A s \in SUBSET S : s # {} =>
        Pivot(s) \in s /\ Sum(s) = v[Pivot(s)] + Sum(s \ {Pivot(s)})
  BY <1>1, PivotIn, SumOfPivot
<1>3. \A s \in SUBSET S : \A y \in s : Cardinality(s \ {y}) = Cardinality(s) - 1
  BY <1>1, FS_RemoveElement
<1> HIDE DEF Sum
<1>4. 0 \in N
  <2>1. \A s \in SUBSET S : Cardinality(s) <= 0 => s = {}
    BY <1>1, FS_EmptySet
  <2>2. QED
    BY <2>1
<1>5. ASSUME NEW n \in Nat, n \in N
      PROVE  n + 1 \in N
  <2>1. ASSUME NEW s \in SUBSET S, NEW y \in s, Cardinality(s) <= n + 1
        PROVE  Sum(s) = v[y] + Sum(s \ {y})
    <3> DEFINE c == Pivot(s)
    <3>1. c \in s /\ Sum(s) = v[c] + Sum(s \ {c})
      BY <1>2
    <3>2. CASE c = y
      BY <3>1, <3>2
    <3>3. CASE c # y
      <4> HIDE DEF c
      <4>1. Cardinality(s \ {c}) <= n /\ Cardinality(s \ {y}) <= n
        BY <2>1, <1>1, <1>3, <3>1
      <4>2. Sum(s \ {c}) = v[y] + Sum((s \ {c}) \ {y})
        BY <4>1, <3>3, <1>5
      <4>3. Sum(s \ {y}) = v[c] + Sum((s \ {y}) \ {c})
        BY <4>1, <3>1, <3>3, <1>5
      <4>4. (s \ {c}) \ {y} = (s \ {y}) \ {c}
        OBVIOUS
      <4>5. v[c] \in Nat /\ v[y] \in Nat /\ Sum((s \ {c}) \ {y}) \in Nat
        BY <3>1, <1>1
      <4>6. QED
        BY <3>1, <4>2, <4>3, <4>4, <4>5
    <3>4. QED
      BY <3>2, <3>3
  <2>2. QED
    BY <2>1
<1>6. Nat \subseteq N
  <2> HIDE DEF N
  <2> QED
    BY <1>4, <1>5, Induction
<1>7. Cardinality(S) \in N
  BY <1>1, <1>6
<1>8. QED
  BY <1>1, <1>7 DEF Sum

(***************************************************************************)
(* So an element that is added adds its number.                            *)
(***************************************************************************)
LEMMA SumAdd ==
  ASSUME NEW S, IsFiniteSet(S), NEW v, NEW x, x \notin S,
         \A s \in S \cup {x} : v[s] \in Nat
  PROVE  SumFunctionOnSet(v, S \cup {x}) = v[x] + SumFunctionOnSet(v, S)
<1> DEFINE T == S \cup {x}
<1>1. IsFiniteSet(T)
  BY FS_AddElement
<1>2. x \in T /\ T \ {x} = S
  OBVIOUS
<1>3. QED
  <2> HIDE DEF T
  <2>1. \A s \in T : v[s] \in Nat
    BY DEF T
  <2>2. SumFunctionOnSet(v, T) = v[x] + SumFunctionOnSet(v, T \ {x})
    BY <1>1, <1>2, <2>1, SumRemove
  <2>3. QED
    BY <1>2, <2>2 DEF T

(***************************************************************************)
(* A sum depends on the numbers of its elements only.                      *)
(***************************************************************************)
LEMMA SumAgree ==
  ASSUME NEW S, IsFiniteSet(S), NEW v, NEW w, \A s \in S : v[s] = w[s]
  PROVE  SumFunctionOnSet(v, S) = SumFunctionOnSet(w, S)
<1> DEFINE Sum(f, s) == SumFunctionOnSet(f, s)
           N == {n \in Nat : \A s \in SUBSET S :
                    Cardinality(s) <= n => Sum(v, s) = Sum(w, s)}
<1>1. \A s \in SUBSET S : IsFiniteSet(s) /\ Cardinality(s) \in Nat
  BY FS_Subset, FS_CardinalityType
<1>2. 0 \in N
  <2>1. \A s \in SUBSET S : Cardinality(s) <= 0 => s = {}
    BY <1>1, FS_EmptySet
  <2>2. QED
    BY <2>1, SumEmpty
<1>3. ASSUME NEW n \in Nat, n \in N
      PROVE  n + 1 \in N
  <2>1. ASSUME NEW s \in SUBSET S, Cardinality(s) <= n + 1, s # {}
        PROVE  Sum(v, s) = Sum(w, s)
    <3> DEFINE c == Pivot(s)
               r == s \ {c}
    <3>1. c \in s
      BY <2>1, PivotIn
    <3>2. r \in SUBSET S /\ Cardinality(r) <= n
      BY <2>1, <3>1, <1>1, FS_RemoveElement
    <3>3. Sum(v, s) = v[c] + Sum(v, r) /\ Sum(w, s) = w[c] + Sum(w, r)
      BY <1>1, <2>1, SumOfPivot
    <3>4. QED
      BY <3>1, <3>2, <3>3, <1>3
  <2>2. QED
    BY <2>1, SumEmpty
<1>4. Nat \subseteq N
  <2> HIDE DEF N
  <2> QED
    BY <1>2, <1>3, Induction
<1>5. QED
  BY <1>1, <1>4
-----------------------------------------------------------------------------
(***************************************************************************)
(* Recursion over a finite set.  A relation on D, given by what each       *)
(* element depends on, is grounded if every set of elements has one that   *)
(* depends on none of them.                                                *)
(***************************************************************************)
Grounded(D, Dep) == \A S \in SUBSET D : S # {} => \E a \in S : Dep[a] \cap S = {}

(***************************************************************************)
(* What holds of an element when it holds of all it depends on holds of    *)
(* all.                                                                    *)
(***************************************************************************)
LEMMA GroundedInduction ==
  ASSUME NEW D, NEW Dep, Grounded(D, Dep), NEW P,
         \A a \in D : Dep[a] \cap D \subseteq P => a \in P
  PROVE  D \subseteq P
<1> SUFFICES ASSUME D \ P # {} PROVE FALSE
  OBVIOUS
<1>1. PICK a \in D \ P : Dep[a] \cap (D \ P) = {}
  BY DEF Grounded
<1> QED
  BY <1>1

(***************************************************************************)
(* Of the sets of some sets over a finite set one is largest.              *)
(***************************************************************************)
SetsOver(D, C) == IsFiniteSet(D) /\ C \subseteq SUBSET D
Largest(D, C, S) == \A a \in D \ S : S \cup {a} \notin C

LEMMA LargestSet ==
  ASSUME NEW D, NEW C, SetsOver(D, C), C # {}
  PROVE  \E S \in C : Largest(D, C, S)
<1> USE DEF SetsOver, Largest
<1> DEFINE N == {n \in Nat : \E S \in C : n = Cardinality(D) - Cardinality(S)}
<1>1. Cardinality(D) \in Nat
  BY FS_CardinalityType
<1>2. \A S \in C : IsFiniteSet(S) /\ Cardinality(S) \in Nat /\ Cardinality(S) <= Cardinality(D)
  BY FS_Subset, FS_CardinalityType
<1>3. \A S \in C : Cardinality(D) - Cardinality(S) \in N
  BY <1>1, <1>2
<1>4. N # {} /\ N \in SUBSET Nat
  BY <1>3
<1>5. PICK n \in N : \A m \in N : n <= m
  <2> HIDE DEF N
  <2> QED
    BY <1>4, LeastNumber
<1>6. PICK S \in C : n = Cardinality(D) - Cardinality(S)
  BY <1>5
<1>7. ASSUME NEW a \in D \ S, S \cup {a} \in C
      PROVE  FALSE
  <2>1. Cardinality(S \cup {a}) = Cardinality(S) + 1
    BY <1>2, <1>6, FS_AddElement
  <2>2. n <= Cardinality(D) - Cardinality(S \cup {a})
    BY <1>3, <1>5, <1>7
  <2> QED
    BY <1>1, <1>2, <1>6, <2>1, <2>2
<1> QED
  BY <1>6, <1>7

(***************************************************************************)
(* A recursion over a grounded finite set defines a function, whose values *)
(* are in the sets V[a].  F is one unfolding of it: what F makes of f at   *)
(* an element is the same for all f that agree on what the element         *)
(* depends on.                                                             *)
(***************************************************************************)
Family(D, V) == {f \in [D -> UNION {V[a] : a \in D}] : \A a \in D : f[a] \in V[a]}

Unfolding(D, Dep, V, F) ==
  /\ IsFiniteSet(D) /\ Grounded(D, Dep)
  /\ \A a \in D : V[a] # {}
  /\ F \in [Family(D, V) -> Family(D, V)]
  /\ \A f, g \in Family(D, V) : \A a \in D :
       (\A b \in Dep[a] \cap D : f[b] = g[b]) => F[f][a] = F[g][a]

LEMMA RecursionDefined ==
  ASSUME NEW D, NEW Dep, NEW V, NEW F, Unfolding(D, Dep, V, F)
  PROVE  \E f \in Family(D, V) : F[f] = f
<1> USE DEF Unfolding
<1> DEFINE Closed(S) == \A a \in S : Dep[a] \cap D \subseteq S
           Good(f, S) == \A a \in S : F[f][a] = f[a]
           C == {S \in SUBSET D : Closed(S) /\ \E f \in Family(D, V) : Good(f, S)}
<1>1. {} \in C
  <2> DEFINE v == [a \in D |-> CHOOSE x \in V[a] : TRUE]
  <2>1. \A a \in D : v[a] \in V[a]
    OBVIOUS
  <2>2. v \in Family(D, V)
    BY <2>1 DEF Family
  <2> QED
    BY <2>2
<1> HIDE DEF C
<1>2. PICK S \in C : Largest(D, C, S)
  <2>1. SetsOver(D, C)
    BY DEF SetsOver, C
  <2>2. C # {}
    BY <1>1
  <2> QED
    BY <2>1, <2>2, LargestSet
<1>3. PICK f \in Family(D, V) : Good(f, S)
  BY <1>2 DEF C
<1>4. SUFFICES ASSUME D \ S # {} PROVE FALSE
  <2>1. S = D
    BY <1>2, <1>4 DEF C
  <2>2. F[f] \in Family(D, V)
    OBVIOUS
  <2>3. f = [a \in D |-> f[a]] /\ F[f] = [a \in D |-> F[f][a]]
    BY <2>2 DEF Family
  <2>4. \A a \in D : F[f][a] = f[a]
    BY <1>3, <2>1
  <2> QED
    BY <2>3, <2>4
<1>5. PICK a \in D \ S : Dep[a] \cap (D \ S) = {}
  BY <1>4 DEF Grounded
<1> DEFINE g == [f EXCEPT ![a] = F[f][a]]
<1>6. g \in Family(D, V) /\ \A b \in S : g[b] = f[b]
  <2> DEFINE W == UNION {V[b] : b \in D}
  <2>1. F[f] \in Family(D, V)
    OBVIOUS
  <2>2. F[f][a] \in V[a] /\ F[f][a] \in W
    BY <1>5, <2>1 DEF Family
  <2>3. f \in [D -> W] /\ \A b \in D : f[b] \in V[b]
    BY DEF Family
  <2>4. g \in [D -> W] /\ \A b \in D : g[b] = IF b = a THEN F[f][a] ELSE f[b]
    <3> HIDE DEF W
    <3> QED
      BY <2>2, <2>3
  <2>5. \A b \in D : g[b] \in V[b]
    BY <2>2, <2>3, <2>4
  <2>6. \A b \in S : g[b] = f[b]
    BY <1>2, <1>5, <2>4 DEF C
  <2> HIDE DEF g
  <2> QED
    BY <2>4, <2>5, <2>6 DEF Family
<1>7. Closed(S \cup {a})
  BY <1>2, <1>5 DEF C
<1>8. ASSUME NEW b \in S \cup {a}
      PROVE  F[g][b] = g[b]
  <2>1. \A c \in Dep[b] \cap D : g[c] = f[c]
    BY <1>2, <1>5, <1>6 DEF C
  <2>2. F[g][b] = F[f][b]
    <3> HIDE DEF g
    <3>1. b \in D
      BY <1>2 DEF C
    <3> QED
      BY <2>1, <1>6, <3>1
  <2>3. CASE b = a
    <3>1. f = [c \in D |-> f[c]]
      BY DEF Family
    <3> QED
      BY <1>5, <2>2, <2>3, <3>1
  <2>4. CASE b \in S
    BY <2>2, <2>4, <1>3, <1>6
  <2> QED
    BY <2>3, <2>4
<1>9. S \cup {a} \in C
  <2>1. S \cup {a} \in SUBSET D
    BY <1>2 DEF C
  <2>2. Good(g, S \cup {a})
    BY <1>8
  <2> HIDE DEF g, Good, Closed
  <2> QED
    BY <1>6, <1>7, <2>1, <2>2 DEF C
<1> QED
  BY <1>2, <1>5, <1>9 DEF Largest
=============================================================================
