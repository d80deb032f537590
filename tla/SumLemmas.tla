----------------------------- MODULE SumLemmas ------------------------------
(***************************************************************************)
(* What SumFunctionOnSet of the module Functions comes to.  It takes the   *)
(* terms of a finite set in the order CHOOSE gives them; here it is shown  *)
(* that the order does not matter.                                         *)
(***************************************************************************)
EXTENDS Functions, FiniteSetTheorems, TLAPS

\* The element that is taken first.
Pick(S) == CHOOSE x \in S : TRUE

\* A function that computes the sums of all subsets of S is a fixed point.
Sums(h, iter, S) ==
  [s \in SUBSET S |-> IF s = {} THEN 0 ELSE h[Pick(s)] + iter[s \ {Pick(s)}]]

LEMMA SumIsChosen ==
  ASSUME NEW h, NEW S
  PROVE  SumFunctionOnSet(h, S) = (CHOOSE iter : iter = Sums(h, iter, S))[S]
  BY DEF SumFunctionOnSet, FoldFunctionOnSet, MapThenFoldSet, Sums, Pick

-----------------------------------------------------------------------------
\* What is inherited from all smaller sets holds of a finite set.
LEMMA SubsetInduction ==
  ASSUME NEW S, IsFiniteSet(S), NEW Good,
         \A T \in SUBSET S : (\A U \in SUBSET T : U # T => U \in Good) => T \in Good
  PROVE  S \in Good
  <1> DEFINE R == StrictSubsetOrdering(S)
             Bad == (SUBSET S) \ Good
  <1> SUFFICES ASSUME S \notin Good
               PROVE  FALSE
    OBVIOUS
  <1>1. IsWellFoundedOn(R, SUBSET S)
    <2>1. FiniteSubsetsOf(S) = SUBSET S
      BY FS_FiniteSubsetsOfFinite
    <2>2. IsWellFoundedOn(R, FiniteSubsetsOf(S))
      BY FS_StrictSubsetOrderingWellFounded
    <2> QED
      BY <2>1, <2>2, Zenon
  <1>2. Bad \subseteq SUBSET S /\ Bad # {}
    OBVIOUS
  <1>3. PICK T \in Bad : \A U \in Bad : ~(<<U, T>> \in R)
    <2> HIDE DEF R, Bad
    <2> QED
      BY <1>1, <1>2, WFMin
  <1>4. ASSUME NEW U \in SUBSET T, U # T
        PROVE  U \in Good
    <2>1. <<U, T>> \in R
      BY <1>3, <1>4 DEF StrictSubsetOrdering
    <2> QED
      BY <1>3, <1>4, <2>1
  <1>5. T \in SUBSET S /\ T \notin Good
    BY <1>3
  <1> HIDE DEF R, Bad
  <1> QED
    BY <1>4, <1>5

-----------------------------------------------------------------------------
\* Two such functions agree where both are defined.
LEMMA SumsAreUnique ==
  ASSUME NEW h, NEW A, NEW B, NEW f, NEW g, f = Sums(h, f, A), g = Sums(h, g, B),
         NEW S, S \subseteq A, S \subseteq B, IsFiniteSet(S)
  PROVE  f[S] = g[S]
  <1> DEFINE Good == {s \in SUBSET S : f[s] = g[s]}
  <1>1. ASSUME NEW T \in SUBSET S, \A U \in SUBSET T : U # T => U \in Good
        PROVE  T \in Good
    <2>1. /\ f[T] = IF T = {} THEN 0 ELSE h[Pick(T)] + f[T \ {Pick(T)}]
          /\ g[T] = IF T = {} THEN 0 ELSE h[Pick(T)] + g[T \ {Pick(T)}]
      BY <1>1 DEF Sums
    <2>2. CASE T = {}
      BY <2>1, <2>2
    <2>3. CASE T # {}
      <3>1. Pick(T) \in T
        BY <2>3 DEF Pick
      <3>2. T \ {Pick(T)} \in Good
        BY <1>1, <3>1
      <3> QED
        BY <2>1, <2>3, <3>2
    <2> QED
      BY <2>2, <2>3
  <1>2. S \in Good
    <2> HIDE DEF Good
    <2> QED
      BY <1>1, SubsetInduction
  <1> QED
    BY <1>2

\* There is one for every finite set.
LEMMA SumsExist ==
  ASSUME NEW h, NEW S, IsFiniteSet(S)
  PROVE  \E f : f = Sums(h, f, S)
  <1> DEFINE Good == {T \in SUBSET S : \E f : f = Sums(h, f, T)}
             V(T) == (CHOOSE iter : iter = Sums(h, iter, T))[T]
  <1>1. ASSUME NEW T \in SUBSET S, \A U \in SUBSET T : U # T => U \in Good
        PROVE  T \in Good
    <2> DEFINE f == [s \in SUBSET T |-> IF s = {} THEN 0 ELSE h[Pick(s)] + V(s \ {Pick(s)})]
    <2>1. ASSUME NEW U \in SUBSET T, U # T
          PROVE  f[U] = V(U)
      <3> DEFINE g == CHOOSE iter : iter = Sums(h, iter, U)
      <3>1. g = Sums(h, g, U)
        BY <1>1, <2>1
      <3>2. g[U] = IF U = {} THEN 0 ELSE h[Pick(U)] + g[U \ {Pick(U)}]
        <4> HIDE DEF g
        <4> QED
          BY <3>1 DEF Sums
      <3>3. CASE U = {}
        BY <3>2, <3>3
      <3>4. CASE U # {}
        <4> DEFINE W == U \ {Pick(U)}
                   k == CHOOSE iter : iter = Sums(h, iter, W)
        <4>1. Pick(U) \in U
          BY <3>4 DEF Pick
        <4>2. W \in SUBSET T /\ W # T /\ W \subseteq U
          BY <4>1
        <4>3. k = Sums(h, k, W)
          BY <1>1, <4>2
        <4>4. IsFiniteSet(W)
          BY <4>2, FS_Subset
        <4>5. k[W] = g[W]
          <5> HIDE DEF k, g, W
          <5> QED
            BY <3>1, <4>2, <4>3, <4>4, SumsAreUnique
        <4>6. V(W) = k[W] /\ V(U) = g[U]
          OBVIOUS
        <4>7. f[U] = h[Pick(U)] + V(W)
          BY <3>4
        <4> HIDE DEF V, k, g, f, W
        <4>8. g[U] = h[Pick(U)] + g[W]
          BY <3>2, <3>4 DEF W
        <4> QED
          BY <4>5, <4>6, <4>7, <4>8
      <3> QED
        BY <3>3, <3>4
    <2>2. ASSUME NEW s \in SUBSET T, s # {}
          PROVE  f[s \ {Pick(s)}] = V(s \ {Pick(s)})
      <3>1. Pick(s) \in s
        BY <2>2 DEF Pick
      <3>2. s \ {Pick(s)} \in SUBSET T /\ s \ {Pick(s)} # T
        BY <3>1
      <3> HIDE DEF f, V
      <3> QED
        BY <2>1, <3>2
    <2>3. PICK g : g = f
      OBVIOUS
    <2>4. g = [s \in SUBSET T |-> IF s = {} THEN 0 ELSE h[Pick(s)] + g[s \ {Pick(s)}]]
      <3>1. \A s \in SUBSET T : s # {} => g[s \ {Pick(s)}] = V(s \ {Pick(s)})
        BY <2>2, <2>3
      <3>2. g = [s \in SUBSET T |-> IF s = {} THEN 0 ELSE h[Pick(s)] + V(s \ {Pick(s)})]
        BY <2>3
      <3> HIDE DEF V, f
      <3> QED
        BY <3>1, <3>2
    <2>5. \E k : k = Sums(h, k, T)
      BY <2>4 DEF Sums
    <2> HIDE DEF f, V
    <2> QED
      BY <2>5
  <1>2. S \in Good
    <2> HIDE DEF Good
    <2> QED
      BY <1>1, SubsetInduction
  <1> QED
    BY <1>2

-----------------------------------------------------------------------------
\* How a sum is computed.
LEMMA SumUnfolds ==
  ASSUME NEW h, NEW S, IsFiniteSet(S)
  PROVE  SumFunctionOnSet(h, S) =
           IF S = {} THEN 0 ELSE h[Pick(S)] + SumFunctionOnSet(h, S \ {Pick(S)})
  <1> DEFINE f == CHOOSE iter : iter = Sums(h, iter, S)
             W == S \ {Pick(S)}
             k == CHOOSE iter : iter = Sums(h, iter, W)
  <1>1. f = Sums(h, f, S)
    BY SumsExist
  <1>2. IsFiniteSet(W) /\ W \subseteq S
    BY FS_Subset
  <1>3. k = Sums(h, k, W)
    <2> HIDE DEF W
    <2> QED
      BY <1>2, SumsExist
  <1>4. SumFunctionOnSet(h, S) = f[S] /\ SumFunctionOnSet(h, W) = k[W]
    BY SumIsChosen
  <1> HIDE DEF f, k
  <1>5. f[S] = IF S = {} THEN 0 ELSE h[Pick(S)] + f[W]
    BY <1>1 DEF Sums
  <1>6. f[W] = k[W]
    <2> HIDE DEF W
    <2> QED
      BY <1>1, <1>2, <1>3, SumsAreUnique
  <1> QED
    BY <1>4, <1>5, <1>6

\* A sum of integers is an integer, one of naturals a natural.
LEMMA SumIsInt ==
  ASSUME NEW S, IsFiniteSet(S), NEW h, \A x \in S : h[x] \in Int
  PROVE  /\ SumFunctionOnSet(h, S) \in Int
         /\ (\A x \in S : h[x] >= 0) => SumFunctionOnSet(h, S) >= 0
  <1> DEFINE V(T) == SumFunctionOnSet(h, T)
             Good == {T \in SUBSET S : V(T) \in Int /\ ((\A x \in T : h[x] >= 0) => V(T) >= 0)}
  <1>1. ASSUME NEW T \in SUBSET S, \A U \in SUBSET T : U # T => U \in Good
        PROVE  T \in Good
    <2>1. V(T) = IF T = {} THEN 0 ELSE h[Pick(T)] + V(T \ {Pick(T)})
      BY FS_Subset, SumUnfolds
    <2> HIDE DEF V
    <2>2. CASE T = {}
      BY <2>1, <2>2
    <2>3. CASE T # {}
      <3>1. Pick(T) \in T
        BY <2>3 DEF Pick
      <3>2. T \ {Pick(T)} \in Good
        BY <1>1, <3>1
      <3> QED
        BY <2>1, <2>3, <3>1, <3>2
    <2> QED
      BY <2>2, <2>3
  <1>2. S \in Good
    <2> HIDE DEF Good
    <2> QED
      BY <1>1, SubsetInduction
  <1> QED
    BY <1>2

\* Any term may be taken first.
LEMMA SumTakesAny ==
  ASSUME NEW S, IsFiniteSet(S), NEW h, \A x \in S : h[x] \in Int, NEW a \in S
  PROVE  SumFunctionOnSet(h, S) = h[a] + SumFunctionOnSet(h, S \ {a})
  <1> DEFINE V(T) == SumFunctionOnSet(h, T)
             Good == {T \in SUBSET S : \A x \in T : V(T) = h[x] + V(T \ {x})}
  <1>1. \A T \in SUBSET S : V(T) \in Int
    <2> TAKE T \in SUBSET S
    <2>1. IsFiniteSet(T) /\ \A x \in T : h[x] \in Int
      BY FS_Subset
    <2> QED
      BY <2>1, SumIsInt
  <1>2. \A T \in SUBSET S : T # {} => V(T) = h[Pick(T)] + V(T \ {Pick(T)})
    BY FS_Subset, SumUnfolds
  <1> HIDE DEF V
  <1>3. ASSUME NEW T \in SUBSET S, \A U \in SUBSET T : U # T => U \in Good
        PROVE  T \in Good
    <2> SUFFICES ASSUME NEW x \in T
                 PROVE  V(T) = h[x] + V(T \ {x})
      OBVIOUS
    <2> DEFINE p == Pick(T)
    <2>1. p \in T
      BY DEF Pick
    <2>2. V(T) = h[p] + V(T \ {p})
      BY <1>2
    <2> HIDE DEF p
    <2>3. CASE x = p
      BY <2>2, <2>3
    <2>4. CASE x # p
      <3>1. T \ {p} \in Good /\ x \in T \ {p}
        BY <1>3, <2>1, <2>4
      <3>2. T \ {x} \in Good /\ p \in T \ {x}
        BY <1>3, <2>1, <2>4
      <3>3. V(T \ {p}) = h[x] + V((T \ {p}) \ {x})
        BY <3>1
      <3>4. V(T \ {x}) = h[p] + V((T \ {x}) \ {p})
        BY <3>2
      <3>5. (T \ {p}) \ {x} = (T \ {x}) \ {p} /\ (T \ {x}) \ {p} \in SUBSET S
        OBVIOUS
      <3>6. h[x] \in Int /\ h[p] \in Int /\ V((T \ {x}) \ {p}) \in Int
        BY <1>1, <2>1, <3>5
      <3>7. V(T \ {p}) = h[x] + V((T \ {x}) \ {p})
        BY <3>3, <3>5, Zenon
      <3> QED
        BY <2>2, <3>4, <3>6, <3>7
    <2> QED
      BY <2>3, <2>4
  <1>4. S \in Good
    <2> HIDE DEF Good
    <2> QED
      BY <1>3, SubsetInduction
  <1> QED
    BY <1>4 DEF V

\* Equal terms have equal sums, of whatever set.
LEMMA SameTermsSameSum ==
  ASSUME NEW S, NEW f, NEW g, \A x \in S : f[x] = g[x]
  PROVE  SumFunctionOnSet(f, S) = SumFunctionOnSet(g, S)
  <1>1. \A iter : Sums(f, iter, S) = Sums(g, iter, S)
    <2> TAKE iter
    <2>1. ASSUME NEW s \in SUBSET S, s # {}
          PROVE  Pick(s) \in S
      BY <2>1 DEF Pick
    <2> QED
      BY <2>1 DEF Sums
  <1>2. \A iter : iter = Sums(f, iter, S) <=> iter = Sums(g, iter, S)
    BY <1>1
  <1>3. (CHOOSE iter : iter = Sums(f, iter, S)) = (CHOOSE iter : iter = Sums(g, iter, S))
    BY <1>2, Zenon
  <1> QED
    BY <1>3, SumIsChosen

\* One term changes.
LEMMA SumChanges ==
  ASSUME NEW S, IsFiniteSet(S), NEW f, NEW g, NEW a \in S,
         \A x \in S : f[x] \in Int /\ g[x] \in Int,
         \A x \in S \ {a} : g[x] = f[x]
  PROVE  SumFunctionOnSet(g, S) = SumFunctionOnSet(f, S) - f[a] + g[a]
  <1>1. /\ SumFunctionOnSet(f, S) = f[a] + SumFunctionOnSet(f, S \ {a})
        /\ SumFunctionOnSet(g, S) = g[a] + SumFunctionOnSet(g, S \ {a})
    BY SumTakesAny
  <1>2. SumFunctionOnSet(f, S \ {a}) = SumFunctionOnSet(g, S \ {a})
    BY SameTermsSameSum
  <1>3. SumFunctionOnSet(f, S \ {a}) \in Int
    BY FS_Subset, SumIsInt
  <1> QED
    BY <1>1, <1>2, <1>3

\* No term of a sum of naturals exceeds it.
LEMMA SumCovers ==
  ASSUME NEW S, IsFiniteSet(S), NEW h, \A x \in S : h[x] \in Nat, NEW a \in S
  PROVE  SumFunctionOnSet(h, S) >= h[a]
  <1>1. SumFunctionOnSet(h, S) = h[a] + SumFunctionOnSet(h, S \ {a})
    BY SumTakesAny
  <1>2. SumFunctionOnSet(h, S \ {a}) \in Nat
    BY FS_Subset, SumIsInt
  <1> QED
    BY <1>1, <1>2

\* Terms are added one by one, or the sums of their parts.
LEMMA SumOfSums ==
  ASSUME NEW S, IsFiniteSet(S), NEW f, NEW g, NEW h,
         \A x \in S : f[x] \in Int /\ g[x] \in Int /\ h[x] = f[x] + g[x]
  PROVE  SumFunctionOnSet(h, S) = SumFunctionOnSet(f, S) + SumFunctionOnSet(g, S)
  <1> DEFINE F(T) == SumFunctionOnSet(f, T)
             G(T) == SumFunctionOnSet(g, T)
             H(T) == SumFunctionOnSet(h, T)
             Good == {T \in SUBSET S : H(T) = F(T) + G(T)}
  <1>1. \A T \in SUBSET S : F(T) \in Int /\ G(T) \in Int
    <2> TAKE T \in SUBSET S
    <2>1. IsFiniteSet(T)
      BY FS_Subset
    <2> QED
      BY <2>1, SumIsInt
  <1>2. ASSUME NEW T \in SUBSET S
        PROVE  /\ F(T) = IF T = {} THEN 0 ELSE f[Pick(T)] + F(T \ {Pick(T)})
               /\ G(T) = IF T = {} THEN 0 ELSE g[Pick(T)] + G(T \ {Pick(T)})
               /\ H(T) = IF T = {} THEN 0 ELSE h[Pick(T)] + H(T \ {Pick(T)})
    <2>1. IsFiniteSet(T)
      BY FS_Subset
    <2> QED
      BY <2>1, SumUnfolds
  <1> HIDE DEF F, G, H
  <1>3. ASSUME NEW T \in SUBSET S, \A U \in SUBSET T : U # T => U \in Good
        PROVE  T \in Good
    <2>1. CASE T = {}
      <3>1. F(T) = 0 /\ G(T) = 0 /\ H(T) = 0
        BY <1>2, <2>1
      <3> QED
        BY <3>1
    <2>2. CASE T # {}
      <3> DEFINE p == Pick(T)
      <3>1. p \in T
        BY <2>2 DEF Pick
      <3>2. T \ {p} \in Good
        BY <1>3, <3>1
      <3>3. F(T) = f[p] + F(T \ {p}) /\ G(T) = g[p] + G(T \ {p}) /\ H(T) = h[p] + H(T \ {p})
        BY <1>2, <2>2
      <3> HIDE DEF p
      <3> QED
        BY <1>1, <3>1, <3>2, <3>3
    <2> QED
      BY <2>1, <2>2
  <1>4. S \in Good
    <2> HIDE DEF Good
    <2> QED
      BY <1>3, SubsetInduction
  <1> QED
    BY <1>4 DEF F, G, H

\* No term, no sum.
LEMMA SumOfNothing ==
  ASSUME NEW S, IsFiniteSet(S), NEW h, \A x \in S : h[x] = 0
  PROVE  SumFunctionOnSet(h, S) = 0
  <1> DEFINE V(T) == SumFunctionOnSet(h, T)
             Good == {T \in SUBSET S : V(T) = 0}
  <1>1. ASSUME NEW T \in SUBSET S, \A U \in SUBSET T : U # T => U \in Good
        PROVE  T \in Good
    <2>1. V(T) = IF T = {} THEN 0 ELSE h[Pick(T)] + V(T \ {Pick(T)})
      BY FS_Subset, SumUnfolds
    <2> HIDE DEF V
    <2>2. CASE T = {}
      BY <2>1, <2>2
    <2>3. CASE T # {}
      <3>1. Pick(T) \in T
        BY <2>3 DEF Pick
      <3>2. T \ {Pick(T)} \in Good
        BY <1>1, <3>1
      <3> QED
        BY <2>1, <2>3, <3>1, <3>2
    <2> QED
      BY <2>2, <2>3
  <1>2. S \in Good
    <2> HIDE DEF Good
    <2> QED
      BY <1>1, SubsetInduction
  <1> QED
    BY <1>2

-----------------------------------------------------------------------------
\* One more term.
LEMMA SumGrows ==
  ASSUME NEW S, IsFiniteSet(S), NEW a, a \notin S, NEW h, h[a] \in Int,
         \A x \in S : h[x] \in Int
  PROVE  SumFunctionOnSet(h, S \cup {a}) = SumFunctionOnSet(h, S) + h[a]
  <1> DEFINE T == S \cup {a}
  <1>1. IsFiniteSet(T)
    BY FS_AddElement
  <1>2. T \ {a} = S /\ a \in T /\ \A x \in T : h[x] \in Int
    OBVIOUS
  <1> HIDE DEF T
  <1>3. SumFunctionOnSet(h, T) = h[a] + SumFunctionOnSet(h, S)
    <2>1. SumFunctionOnSet(h, T) = h[a] + SumFunctionOnSet(h, T \ {a})
      BY <1>1, <1>2, SumTakesAny
    <2> QED
      BY <1>2, <2>1
  <1>4. SumFunctionOnSet(h, S) \in Int
    BY SumIsInt
  <1> QED
    BY <1>3, <1>4 DEF T

\* Two sets without a common element.
LEMMA SumOfUnion ==
  ASSUME NEW A, IsFiniteSet(A), NEW B, IsFiniteSet(B), A \cap B = {},
         NEW h, \A x \in A \cup B : h[x] \in Int
  PROVE  SumFunctionOnSet(h, A \cup B) = SumFunctionOnSet(h, A) + SumFunctionOnSet(h, B)
  <1> DEFINE V(T) == SumFunctionOnSet(h, T)
             Good == {T \in SUBSET B : V(A \cup T) = V(A) + V(T)}
  <1>1. \A T \in SUBSET B : V(T) \in Int /\ V(A) \in Int
    <2> TAKE T \in SUBSET B
    <2>1. IsFiniteSet(T)
      BY FS_Subset
    <2> QED
      BY <2>1, SumIsInt
  <1>2. ASSUME NEW T \in SUBSET B, T # {}
        PROVE  /\ V(T) = h[Pick(T)] + V(T \ {Pick(T)})
               /\ V(A \cup T) = h[Pick(T)] + V(A \cup (T \ {Pick(T)}))
    <2> DEFINE p == Pick(T)
    <2>1. p \in T
      BY <1>2 DEF Pick
    <2>2. IsFiniteSet(T) /\ IsFiniteSet(A \cup T)
      BY FS_Subset, FS_Union
    <2>3. (A \cup T) \ {p} = A \cup (T \ {p})
      BY <2>1
    <2> HIDE DEF p
    <2>4. V(T) = h[p] + V(T \ {p})
      BY <2>1, <2>2, SumTakesAny
    <2>5. V(A \cup T) = h[p] + V((A \cup T) \ {p})
      BY <2>1, <2>2, SumTakesAny
    <2> QED
      BY <2>3, <2>4, <2>5 DEF p
  <1>3. V({}) = 0
    BY FS_EmptySet, SumUnfolds
  <1> HIDE DEF V
  <1>4. ASSUME NEW T \in SUBSET B, \A U \in SUBSET T : U # T => U \in Good
        PROVE  T \in Good
    <2>1. CASE T = {}
      <3>1. A \cup T = A
        BY <2>1
      <3>2. V(A) + 0 = V(A)
        BY <1>1
      <3> QED
        BY <1>3, <2>1, <3>1, <3>2
    <2>2. CASE T # {}
      <3> DEFINE p == Pick(T)
      <3>1. p \in T
        BY <2>2 DEF Pick
      <3>2. T \ {p} \in Good
        BY <1>4, <3>1
      <3>3. h[p] \in Int
        BY <3>1
      <3>4. V(T) = h[p] + V(T \ {p}) /\ V(A \cup T) = h[p] + V(A \cup (T \ {p}))
        BY <1>2, <2>2
      <3> HIDE DEF p
      <3> QED
        BY <1>1, <3>2, <3>3, <3>4
    <2> QED
      BY <2>1, <2>2
  <1>5. B \in Good
    <2> HIDE DEF Good
    <2> QED
      BY <1>4, SubsetInduction
  <1> QED
    BY <1>5 DEF V

\* The sums of the parts of a set add up to its sum.
LEMMA SumOfParts ==
  ASSUME NEW S, IsFiniteSet(S), NEW h, \A x \in S : h[x] \in Int,
         NEW I, IsFiniteSet(I), NEW part, NEW k,
         \A i \in I : k[i] = SumFunctionOnSet(h, {x \in S : part[x] = i})
  PROVE  SumFunctionOnSet(k, I) = SumFunctionOnSet(h, {x \in S : part[x] \in I})
  <1> DEFINE V(T) == SumFunctionOnSet(h, T)
             K(J) == SumFunctionOnSet(k, J)
             In(J) == {x \in S : part[x] \in J}
             Good == {J \in SUBSET I : K(J) = V(In(J))}
  <1>1. \A T \in SUBSET S : IsFiniteSet(T) /\ V(T) \in Int
    <2> TAKE T \in SUBSET S
    <2>1. IsFiniteSet(T)
      BY FS_Subset
    <2> QED
      BY <2>1, SumIsInt
  <1>2. \A i \in I : k[i] = V({x \in S : part[x] = i}) /\ k[i] \in Int
    <2> TAKE i \in I
    <2>1. {x \in S : part[x] = i} \in SUBSET S
      OBVIOUS
    <2>2. k[i] = V({x \in S : part[x] = i})
      OBVIOUS
    <2> HIDE DEF V
    <2> QED
      BY <1>1, <2>1, <2>2
  <1>3. ASSUME NEW J \in SUBSET I, J # {}
        PROVE  /\ Pick(J) \in J
               /\ K(J) = k[Pick(J)] + K(J \ {Pick(J)})
               /\ V(In(J)) = V(In(J \ {Pick(J)})) + k[Pick(J)]
    <2> DEFINE p == Pick(J)
               P == {x \in S : part[x] = p}
               Q == In(J \ {p})
    <2>1. p \in J
      BY <1>3 DEF Pick
    <2>2. IsFiniteSet(J)
      BY FS_Subset
    <2>3. K(J) = k[p] + K(J \ {p})
      <3> HIDE DEF p
      <3> QED
        BY <1>2, <2>1, <2>2, SumTakesAny
    <2>4. In(J) = Q \cup P /\ Q \cap P = {} /\ Q \in SUBSET S /\ P \in SUBSET S
      BY <2>1
    <2>5. V(Q \cup P) = V(Q) + V(P)
      <3> HIDE DEF P, Q, p
      <3>1. IsFiniteSet(P) /\ IsFiniteSet(Q)
        BY <1>1, <2>4
      <3>2. \A x \in Q \cup P : h[x] \in Int
        BY <2>4
      <3> QED
        BY <2>4, <3>1, <3>2, SumOfUnion
    <2>6. k[p] = V(P)
      BY <1>2, <2>1
    <2> HIDE DEF V, K, In, p, P
    <2> QED
      BY <2>1, <2>3, <2>4, <2>5, <2>6 DEF p
  <1>4. K({}) = 0 /\ V({}) = 0 /\ In({}) = {}
    BY FS_EmptySet, SumUnfolds
  <1>5. \A J \in SUBSET I : In(J) \in SUBSET S
    OBVIOUS
  <1> HIDE DEF V, K, In
  <1>6. ASSUME NEW J \in SUBSET I, \A U \in SUBSET J : U # J => U \in Good
        PROVE  J \in Good
    <2>1. CASE J = {}
      BY <1>4, <2>1
    <2>2. CASE J # {}
      <3> DEFINE p == Pick(J)
      <3>1. /\ p \in J
            /\ K(J) = k[p] + K(J \ {p})
            /\ V(In(J)) = V(In(J \ {p})) + k[p]
        BY <1>3, <2>2
      <3> HIDE DEF p
      <3>2. J \ {p} \in Good
        BY <1>6, <3>1
      <3>3. k[p] \in Int /\ V(In(J \ {p})) \in Int
        <4>1. p \in I /\ J \ {p} \in SUBSET I
          BY <3>1
        <4> QED
          BY <1>1, <1>2, <1>5, <4>1
      <3> QED
        BY <3>1, <3>2, <3>3
    <2> QED
      BY <2>1, <2>2
  <1>7. I \in Good
    <2> HIDE DEF Good
    <2> QED
      BY <1>6, SubsetInduction
  <1> QED
    BY <1>7 DEF V, K, In

\* A part of a sum of naturals is no more than the sum.
LEMMA SumOfSome ==
  ASSUME NEW B, IsFiniteSet(B), NEW A \in SUBSET B, NEW h, \A x \in B : h[x] \in Nat
  PROVE  SumFunctionOnSet(h, A) <= SumFunctionOnSet(h, B)
  <1>1. IsFiniteSet(A) /\ IsFiniteSet(B \ A)
    BY FS_Subset
  <1>2. SumFunctionOnSet(h, A) \in Int /\ SumFunctionOnSet(h, B \ A) \in Nat
    BY <1>1, SumIsInt
  <1>3. SumFunctionOnSet(h, B) = SumFunctionOnSet(h, A) + SumFunctionOnSet(h, B \ A)
    <2> DEFINE C == B \ A
    <2>1. A \cup C = B /\ A \cap C = {} /\ \A x \in A \cup C : h[x] \in Int
      OBVIOUS
    <2>2. IsFiniteSet(C)
      BY <1>1
    <2> HIDE DEF C
    <2>3. SumFunctionOnSet(h, A \cup C) = SumFunctionOnSet(h, A) + SumFunctionOnSet(h, C)
      BY <1>1, <2>1, <2>2, SumOfUnion
    <2> QED
      BY <2>1, <2>3 DEF C
  <1> QED
    BY <1>2, <1>3

\* As many terms c as there are elements.
LEMMA SumOfEqualTerms ==
  ASSUME NEW S, IsFiniteSet(S), NEW c \in Int, NEW h, \A x \in S : h[x] = c
  PROVE  SumFunctionOnSet(h, S) = c * Cardinality(S)
  <1> DEFINE V(T) == SumFunctionOnSet(h, T)
             Good == {T \in SUBSET S : V(T) = c * Cardinality(T)}
  <1>1. ASSUME NEW T \in SUBSET S, \A U \in SUBSET T : U # T => U \in Good
        PROVE  T \in Good
    <2>1. IsFiniteSet(T)
      BY FS_Subset
    <2>2. V(T) = IF T = {} THEN 0 ELSE h[Pick(T)] + V(T \ {Pick(T)})
      BY <2>1, SumUnfolds
    <2> HIDE DEF V
    <2>3. CASE T = {}
      BY <2>2, <2>3, FS_EmptySet
    <2>4. CASE T # {}
      <3> DEFINE p == Pick(T)
      <3>1. p \in T
        BY <2>4 DEF Pick
      <3>2. V(T) = h[p] + V(T \ {p})
        BY <2>2, <2>4
      <3> HIDE DEF p
      <3>3. T \ {p} \in Good /\ h[p] = c
        BY <1>1, <3>1
      <3>4. /\ Cardinality(T \ {p}) = Cardinality(T) - 1
            /\ Cardinality(T) \in Nat
        BY <2>1, <3>1, FS_RemoveElement, FS_CardinalityType
      <3> DEFINE n == Cardinality(T)
      <3>5. V(T) = c + c * (n - 1)
        BY <3>2, <3>3, <3>4
      <3>6. n \in Nat
        BY <3>4
      <3> HIDE DEF n
      <3>7. c + c * (n - 1) = c * n
        BY <3>6
      <3> QED
        BY <3>5, <3>7 DEF n
    <2> QED
      BY <2>3, <2>4
  <1>2. S \in Good
    <2> HIDE DEF Good
    <2> QED
      BY <1>1, SubsetInduction
  <1> QED
    BY <1>2

\* The same terms under other names.
LEMMA SumRenamed ==
  ASSUME NEW S, IsFiniteSet(S), NEW T, IsFiniteSet(T), NEW name,
         \A x \in S : name[x] \in T,
         \A x, y \in S : name[x] = name[y] => x = y,
         \A t \in T : \E x \in S : name[x] = t,
         NEW f, NEW g, \A x \in S : f[x] \in Int /\ g[name[x]] = f[x]
  PROVE  SumFunctionOnSet(f, S) = SumFunctionOnSet(g, T)
  <1> DEFINE Names(U) == {name[x] : x \in U}
             F(U) == SumFunctionOnSet(f, U)
             G(U) == SumFunctionOnSet(g, Names(U))
             Good == {U \in SUBSET S : F(U) = G(U)}
  <1>1. ASSUME NEW U \in SUBSET S, \A W \in SUBSET U : W # U => W \in Good
        PROVE  U \in Good
    <2>1. IsFiniteSet(U)
      BY FS_Subset
    <2>2. CASE U = {}
      <3>1. Names(U) = {}
        BY <2>2
      <3> QED
        BY <2>1, <2>2, <3>1, SumUnfolds
    <2>3. CASE U # {}
      <3> DEFINE p == Pick(U)
      <3>1. p \in U
        BY <2>3 DEF Pick
      <3> HIDE DEF p
      <3>2. F(U) = f[p] + F(U \ {p})
        BY <2>1, <3>1, SumTakesAny
      <3>3. IsFiniteSet(Names(U))
        <4>1. Names(U) \in SUBSET T
          OBVIOUS
        <4> HIDE DEF Names
        <4> QED
          BY <4>1, FS_Subset
      <3>4. Names(U) \ {name[p]} = Names(U \ {p}) /\ name[p] \in Names(U)
        BY <3>1
      <3>5. \A t \in Names(U) : g[t] \in Int
        OBVIOUS
      <3>6. G(U) = g[name[p]] + G(U \ {p})
        <4> HIDE DEF Names
        <4>1. SumFunctionOnSet(g, Names(U))
                = g[name[p]] + SumFunctionOnSet(g, Names(U) \ {name[p]})
          BY <3>3, <3>4, <3>5, SumTakesAny
        <4> QED
          BY <3>4, <4>1
      <3>7. U \ {p} \in Good /\ g[name[p]] = f[p]
        BY <1>1, <3>1
      <3> HIDE DEF F, G
      <3> QED
        BY <3>2, <3>6, <3>7
    <2> QED
      BY <2>2, <2>3
  <1>2. S \in Good
    <2> HIDE DEF Good
    <2> QED
      BY <1>1, SubsetInduction
  <1>3. Names(S) = T
    OBVIOUS
  <1> QED
    BY <1>2, <1>3

\* Sets whose elements correspond one to one have as many of them.
LEMMA AsManyRenamed ==
  ASSUME NEW S, IsFiniteSet(S), NEW T, IsFiniteSet(T), NEW name,
         \A x \in S : name[x] \in T,
         \A x, y \in S : name[x] = name[y] => x = y,
         \A t \in T : \E x \in S : name[x] = t
  PROVE  Cardinality(S) = Cardinality(T)
  <1> DEFINE f == [x \in S |-> 1]
             g == [t \in T |-> 1]
  <1>1. \A x \in S : f[x] = 1 /\ f[x] \in Int /\ g[name[x]] = f[x]
    OBVIOUS
  <1>2. \A t \in T : g[t] = 1
    OBVIOUS
  <1> HIDE DEF f, g
  <1>3. SumFunctionOnSet(f, S) = SumFunctionOnSet(g, T)
    BY <1>1, SumRenamed
  <1>4. SumFunctionOnSet(f, S) = 1 * Cardinality(S)
    BY <1>1, SumOfEqualTerms
  <1>5. SumFunctionOnSet(g, T) = 1 * Cardinality(T)
    BY <1>2, SumOfEqualTerms
  <1>6. \A c \in Nat : 1 * c = c
    OBVIOUS
  <1>7. 1 * Cardinality(S) = Cardinality(S) /\ 1 * Cardinality(T) = Cardinality(T)
    BY <1>6, FS_CardinalityType
  <1> QED
    BY <1>3, <1>4, <1>5, <1>7

-----------------------------------------------------------------------------
\* Of finitely many values one is the greatest.
LEMMA GreatestExists ==
  ASSUME NEW S, IsFiniteSet(S), S # {}, NEW f, \A x \in S : f[x] \in Int
  PROVE  \E x \in S : \A y \in S : f[y] <= f[x]
  <1> DEFINE Good == {T \in SUBSET S : T # {} => \E x \in T : \A y \in T : f[y] <= f[x]}
  <1>1. ASSUME NEW T \in SUBSET S, \A U \in SUBSET T : U # T => U \in Good
        PROVE  T \in Good
    <2> SUFFICES ASSUME T # {}
                 PROVE  \E x \in T : \A y \in T : f[y] <= f[x]
      OBVIOUS
    <2>1. PICK a \in T : TRUE
      OBVIOUS
    <2>2. T \ {a} \in Good
      BY <1>1, <2>1
    <2>3. CASE T \ {a} = {}
      <3>1. \A y \in T : y = a
        BY <2>3
      <3>2. f[a] <= f[a]
        BY <2>1
      <3> QED
        BY <2>1, <3>1, <3>2
    <2>4. CASE T \ {a} # {}
      <3>1. PICK b \in T \ {a} : \A y \in T \ {a} : f[y] <= f[b]
        BY <2>2, <2>4
      <3>2. \A y \in T : f[y] \in Int
        OBVIOUS
      <3>3. CASE f[a] <= f[b]
        BY <3>1, <3>3
      <3>4. CASE ~(f[a] <= f[b])
        <4>1. \A y \in T : f[y] <= f[a]
          BY <2>1, <3>1, <3>2, <3>4
        <4> QED
          BY <2>1, <4>1
      <3> QED
        BY <3>3, <3>4
    <2> QED
      BY <2>3, <2>4
  <1>2. S \in Good
    <2> HIDE DEF Good
    <2> QED
      BY <1>1, SubsetInduction
  <1> QED
    BY <1>2
=============================================================================
