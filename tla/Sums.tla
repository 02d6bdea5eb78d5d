-------------------------------- MODULE Sums --------------------------------
(***************************************************************************)
(* The laws of a sum over a finite set, for the community operator         *)
(* SumFunctionOnSet, which adds the values a function has on a set.  The   *)
(* balances and the counters of the customers, and the totals of a         *)
(* remittance, are such sums.                                              *)
(*                                                                         *)
(* The operator is a recursive function, so each law is an induction on    *)
(* the set.  Here an induction is an argument about a smallest             *)
(* counterexample: among the subsets of a finite set for which a law       *)
(* fails, one has no smaller one that fails.                               *)
(***************************************************************************)
EXTENDS Integers, FiniteSets, Functions, FiniteSetTheorems, WellFoundedInduction, TLAPS

\* A set of natural numbers that is not empty has a least one.
LEMMA LeastNat ==
  ASSUME NEW N, N \subseteq Nat, N # {}
  PROVE  \E n \in N : \A m \in N : ~(m < n)
<1>1. PICK n \in N : \A m \in N : <<m, n>> \notin OpToRel(<, Nat)
  BY NatLessThanWellFounded, WFMin
<1>2. \A m \in N : ~(m < n)
  BY <1>1 DEF OpToRel
<1> QED  BY <1>2

\* Among some subsets of a finite set, one contains no other of them.
LEMMA LeastSet ==
  ASSUME NEW S, IsFiniteSet(S), NEW C, C \subseteq SUBSET S, C # {}
  PROVE  \E T \in C : \A U \in C : ~(U \subseteq T /\ U # T)
<1>1. IsWellFoundedOn(StrictSubsetOrdering(S), SUBSET S)
  BY FS_StrictSubsetOrderingWellFounded, FS_FiniteSubsetsOfFinite
<1>2. PICK T \in C : \A U \in C : <<U, T>> \notin StrictSubsetOrdering(S)
  BY <1>1, WFMin
<1>3. \A U \in C : ~(U \subseteq T /\ U # T)
  BY <1>2 DEF StrictSubsetOrdering
<1> QED  BY <1>3

-----------------------------------------------------------------------------
(* The recursive function behind the sum: it exists, and there is one. *)

First(T) == CHOOSE x \in T : TRUE

\* g is the sum of f on each subset of S.
SumsOf(g, f, S) ==
  g = [T \in SUBSET S |-> IF T = {} THEN 0 ELSE f[First(T)] + g[T \ {First(T)}]]

\* The community operator chooses such a function.
LEMMA Unfold ==
  ASSUME NEW f, NEW S PROVE SumFunctionOnSet(f, S) = (CHOOSE g : SumsOf(g, f, S))[S]
  BY Zenon DEF SumFunctionOnSet, FoldFunctionOnSet, MapThenFoldSet, SumsOf, First

\* The same for the subsets of at most n elements.
Small(S, n) == {T \in SUBSET S : Cardinality(T) <= n}
SmallSums(g, f, S, n) ==
  g = [T \in Small(S, n) |-> IF T = {} THEN 0 ELSE f[First(T)] + g[T \ {First(T)}]]

\* It exists for the subsets of one element more when it does for these.
LEMMA SmallSumsExist ==
  ASSUME NEW f, NEW S, IsFiniteSet(S), NEW n \in Nat
  PROVE  \E g : SmallSums(g, f, S, n)
<1> DEFINE C == {m \in Nat : ~\E g : SmallSums(g, f, S, m)}
<1>1. SUFFICES C = {}
  OBVIOUS
<1>2. SUFFICES ASSUME C # {} PROVE FALSE
  OBVIOUS
<1>3. PICK m \in C : \A i \in C : ~(i < m)
  <2> HIDE DEF C
  <2>1. C \subseteq Nat  BY DEF C
  <2> QED  BY <1>2, <2>1, LeastNat
<1>4. \A T \in SUBSET S : IsFiniteSet(T) /\ Cardinality(T) \in Nat
  BY FS_Subset, FS_CardinalityType
<1>5. \A T \in SUBSET S : T # {} =>
        /\ First(T) \in T
        /\ T \ {First(T)} \in SUBSET S
        /\ Cardinality(T \ {First(T)}) = Cardinality(T) - 1
        /\ Cardinality(T) # 0
  <2> TAKE T \in SUBSET S
  <2> HAVE T # {}
  <2>1. First(T) \in T  BY DEF First
  <2> QED  BY <2>1, <1>4, FS_RemoveElement, FS_EmptySet
<1>6. CASE m = 0
  <2> DEFINE g == [T \in Small(S, 0) |-> 0]
  <2>1. \A T \in Small(S, 0) : T = {}
    BY <1>4, FS_EmptySet DEF Small
  <2>2. SmallSums(g, f, S, 0)
    BY <2>1 DEF SmallSums
  <2> HIDE DEF g
  <2> QED  BY <2>2, <1>3, <1>6
<1>7. CASE m # 0
  <2>1. m - 1 \in Nat /\ m - 1 < m
    BY <1>7, <1>3
  <2>2. PICK h : SmallSums(h, f, S, m - 1)
    BY <2>1, <1>3
  <2> DEFINE g == [T \in Small(S, m) |-> IF T = {} THEN 0 ELSE f[First(T)] + h[T \ {First(T)}]]
  <2>3. \A T \in Small(S, m - 1) : T \in Small(S, m) /\ g[T] = h[T]
    <3>1. \A T \in Small(S, m - 1) : T \in Small(S, m)
      BY <1>4, <1>3 DEF Small
    <3>2. \A T \in Small(S, m - 1) : h[T] = IF T = {} THEN 0 ELSE f[First(T)] + h[T \ {First(T)}]
      BY <2>2, Zenon DEF SmallSums
    <3> QED  BY <3>1, <3>2
  <2>4. \A T \in Small(S, m) : T # {} => T \ {First(T)} \in Small(S, m - 1)
    BY <1>4, <1>5, <1>3 DEF Small
  <2>5. SmallSums(g, f, S, m)
    <3>1. \A T \in Small(S, m) : T # {} => g[T \ {First(T)}] = h[T \ {First(T)}]
      BY <2>3, <2>4
    <3>2. \A T \in Small(S, m) :
            (IF T = {} THEN 0 ELSE f[First(T)] + h[T \ {First(T)}])
              = (IF T = {} THEN 0 ELSE f[First(T)] + g[T \ {First(T)}])
      <4> HIDE DEF g
      <4> QED  BY <3>1
    <3>3. g = [T \in Small(S, m) |-> IF T = {} THEN 0 ELSE f[First(T)] + g[T \ {First(T)}]]
      BY <3>2, Zenon
    <3> QED  BY <3>3 DEF SmallSums
  <2> HIDE DEF g
  <2> QED  BY <2>5, <1>3
<1> QED  BY <1>6, <1>7

\* The function chosen is one that adds.
LEMMA SumsExist ==
  ASSUME NEW f, NEW S, IsFiniteSet(S)
  PROVE  SumsOf(CHOOSE g : SumsOf(g, f, S), f, S)
<1>1. Cardinality(S) \in Nat
  BY FS_CardinalityType
<1>2. PICK g : SmallSums(g, f, S, Cardinality(S))
  BY <1>1, SmallSumsExist
<1>3. Small(S, Cardinality(S)) = SUBSET S
  BY FS_Subset DEF Small
<1>4. SumsOf(g, f, S)
  BY <1>2, <1>3 DEF SmallSums, SumsOf
<1> QED  BY <1>4

\* The sums on the subsets of a set and of a part of it are the same.
LEMMA SumsUnique ==
  ASSUME NEW f, NEW S, IsFiniteSet(S), NEW g, SumsOf(g, f, S),
         NEW R \in SUBSET S, NEW h, SumsOf(h, f, R)
  PROVE  \A T \in SUBSET R : g[T] = h[T]
<1> DEFINE C == {T \in SUBSET R : g[T] # h[T]}
<1>1. SUFFICES ASSUME C # {} PROVE FALSE
  OBVIOUS
<1>2. PICK T \in C : \A U \in C : ~(U \subseteq T /\ U # T)
  <2> HIDE DEF C
  <2>1. C \subseteq SUBSET S  BY DEF C
  <2> QED  BY <1>1, <2>1, LeastSet
<1>3. T \in SUBSET S /\ T \in SUBSET R
  OBVIOUS
<1>4. g[T] = IF T = {} THEN 0 ELSE f[First(T)] + g[T \ {First(T)}]
  BY <1>3, Zenon DEF SumsOf
<1>5. h[T] = IF T = {} THEN 0 ELSE f[First(T)] + h[T \ {First(T)}]
  BY <1>3, Zenon DEF SumsOf
<1>6. T # {}
  BY <1>2, <1>4, <1>5
<1>7. First(T) \in T
  BY <1>6 DEF First
<1>8. g[T \ {First(T)}] = h[T \ {First(T)}]
  BY <1>2, <1>7
<1> QED  BY <1>2, <1>4, <1>5, <1>6, <1>8

-----------------------------------------------------------------------------
(* The laws. *)

\* Nothing adds up to zero.
LEMMA SumEmpty ==
  ASSUME NEW f PROVE SumFunctionOnSet(f, {}) = 0
<1>1. SumsOf(CHOOSE g : SumsOf(g, f, {}), f, {})
  BY SumsExist, FS_EmptySet
<1> DEFINE g == CHOOSE g : SumsOf(g, f, {})
<1>2. g[{}] = 0
  <2> HIDE DEF g
  <2>1. SumsOf(g, f, {})  BY <1>1 DEF g
  <2>2. {} \in SUBSET {}  OBVIOUS
  <2> QED  BY <2>1, <2>2 DEF SumsOf
<1> QED  BY <1>2, Unfold

\* A sum is one of its terms and the sum of the others.
LEMMA SumFirst ==
  ASSUME NEW f, NEW S, IsFiniteSet(S), S # {}
  PROVE  /\ First(S) \in S
         /\ SumFunctionOnSet(f, S) = f[First(S)] + SumFunctionOnSet(f, S \ {First(S)})
<1> DEFINE R == S \ {First(S)}
           g == CHOOSE g : SumsOf(g, f, S)
           h == CHOOSE h : SumsOf(h, f, R)
<1>1. First(S) \in S  BY DEF First
<1>2. IsFiniteSet(R) /\ R \in SUBSET S
  BY FS_Subset
<1>3. SumsOf(g, f, S) /\ SumsOf(h, f, R)
  <2> HIDE DEF R
  <2> QED  BY <1>2, SumsExist
<1>4. SumFunctionOnSet(f, S) = g[S] /\ SumFunctionOnSet(f, R) = h[R]
  <2> HIDE DEF R
  <2> QED  BY Unfold
<1>5. g[S] = f[First(S)] + g[R]
  <2> HIDE DEF g
  <2>1. S \in SUBSET S  OBVIOUS
  <2> QED  BY <1>3, <2>1 DEF SumsOf
<1>6. g[R] = h[R]
  <2> HIDE DEF R, g, h
  <2> QED  BY <1>2, <1>3, SumsUnique
<1> QED  BY <1>1, <1>4, <1>5, <1>6

\* A sum of integers is an integer.
LEMMA SumType ==
  ASSUME NEW f, NEW S, IsFiniteSet(S), \A x \in S : f[x] \in Int
  PROVE  SumFunctionOnSet(f, S) \in Int
<1> DEFINE C == {T \in SUBSET S : SumFunctionOnSet(f, T) \notin Int}
<1>1. SUFFICES ASSUME C # {} PROVE FALSE
  <2> \A T \in SUBSET S : SumFunctionOnSet(f, T) \in Int => T \notin C
    OBVIOUS
  <2> QED  OBVIOUS
<1>2. PICK T \in C : \A U \in C : ~(U \subseteq T /\ U # T)
  <2>1. C \subseteq SUBSET S  OBVIOUS
  <2> HIDE DEF C
  <2> QED  BY <1>1, <2>1, LeastSet
<1>3. T # {}
  <2>1. SumFunctionOnSet(f, {}) \in Int  BY SumEmpty
  <2> QED  BY <2>1, <1>2
<1>4. /\ First(T) \in T
      /\ SumFunctionOnSet(f, T) = f[First(T)] + SumFunctionOnSet(f, T \ {First(T)})
  BY <1>3, SumFirst, FS_Subset
<1>5. SumFunctionOnSet(f, T \ {First(T)}) \in Int
  BY <1>2, <1>4
<1> QED  BY <1>2, <1>4, <1>5

\* Any term may be taken out of a sum: the order of the terms does not matter.
LEMMA SumRemove ==
  ASSUME NEW f, NEW S, IsFiniteSet(S), \A x \in S : f[x] \in Int, NEW e \in S
  PROVE  SumFunctionOnSet(f, S) = f[e] + SumFunctionOnSet(f, S \ {e})
<1> DEFINE C == {T \in SUBSET S : \E x \in T :
                   SumFunctionOnSet(f, T) # f[x] + SumFunctionOnSet(f, T \ {x})}
<1>1. SUFFICES ASSUME C # {} PROVE FALSE
  <2>1. S \notin C  BY <1>1
  <2> QED  BY <2>1
<1>2. PICK T \in C : \A U \in C : ~(U \subseteq T /\ U # T)
  <2>1. C \subseteq SUBSET S  OBVIOUS
  <2> HIDE DEF C
  <2> QED  BY <1>1, <2>1, LeastSet
<1>3. PICK x \in T : SumFunctionOnSet(f, T) # f[x] + SumFunctionOnSet(f, T \ {x})
  BY <1>2
<1> DEFINE c == First(T)
<1>4. /\ c \in T
      /\ SumFunctionOnSet(f, T) = f[c] + SumFunctionOnSet(f, T \ {c})
  BY <1>3, SumFirst, FS_Subset
<1> HIDE DEF c
<1>5. c # x
  BY <1>3, <1>4
<1> DEFINE R == (T \ {c}) \ {x}
<1>6. SumFunctionOnSet(f, T \ {c}) = f[x] + SumFunctionOnSet(f, R)
  <2>1. T \ {c} \notin C  BY <1>2, <1>4
  <2> QED  BY <2>1, <1>5
<1>7. SumFunctionOnSet(f, T \ {x}) = f[c] + SumFunctionOnSet(f, R)
  <2>1. T \ {x} \notin C  BY <1>2, <1>3
  <2>2. SumFunctionOnSet(f, T \ {x}) = f[c] + SumFunctionOnSet(f, (T \ {x}) \ {c})
    BY <2>1, <1>5, <1>4
  <2>3. (T \ {x}) \ {c} = R  OBVIOUS
  <2> QED  BY <2>2, <2>3, Zenon
<1>8. SumFunctionOnSet(f, R) \in Int /\ f[c] \in Int /\ f[x] \in Int
  BY <1>2, <1>3, <1>4, SumType, FS_Subset
<1> HIDE DEF C, R
<1>9. f[x] + SumFunctionOnSet(f, T \ {x}) = SumFunctionOnSet(f, T)
  BY <1>4, <1>6, <1>7, <1>8
<1> QED  BY <1>3, <1>9

\* Equal terms make equal sums.
LEMMA SumSame ==
  ASSUME NEW f, NEW g, NEW S, IsFiniteSet(S), \A x \in S : f[x] = g[x]
  PROVE  SumFunctionOnSet(f, S) = SumFunctionOnSet(g, S)
<1> DEFINE C == {T \in SUBSET S : SumFunctionOnSet(f, T) # SumFunctionOnSet(g, T)}
<1>1. SUFFICES ASSUME C # {} PROVE FALSE
  <2>1. S \notin C  BY <1>1
  <2> QED  BY <2>1
<1>2. PICK T \in C : \A U \in C : ~(U \subseteq T /\ U # T)
  <2>1. C \subseteq SUBSET S  OBVIOUS
  <2> HIDE DEF C
  <2> QED  BY <1>1, <2>1, LeastSet
<1>3. T # {}
  BY <1>2, SumEmpty
<1> DEFINE c == First(T)
<1>4. /\ c \in T
      /\ SumFunctionOnSet(f, T) = f[c] + SumFunctionOnSet(f, T \ {c})
      /\ SumFunctionOnSet(g, T) = g[c] + SumFunctionOnSet(g, T \ {c})
  BY <1>3, SumFirst, FS_Subset
<1> HIDE DEF c
<1>5. SumFunctionOnSet(f, T \ {c}) = SumFunctionOnSet(g, T \ {c})
  BY <1>2, <1>4
<1> QED  BY <1>2, <1>4, <1>5

\* When one term changes, the sum changes by as much.
LEMMA SumChange ==
  ASSUME NEW f, NEW g, NEW S, IsFiniteSet(S), NEW e \in S,
         \A x \in S : f[x] \in Int /\ g[x] \in Int,
         \A x \in S \ {e} : f[x] = g[x]
  PROVE  SumFunctionOnSet(g, S) = SumFunctionOnSet(f, S) + (g[e] - f[e])
<1>1. SumFunctionOnSet(f, S) = f[e] + SumFunctionOnSet(f, S \ {e})
  BY SumRemove
<1>2. SumFunctionOnSet(g, S) = g[e] + SumFunctionOnSet(g, S \ {e})
  BY SumRemove
<1>3. IsFiniteSet(S \ {e})
  BY FS_Subset
<1>4. SumFunctionOnSet(f, S \ {e}) = SumFunctionOnSet(g, S \ {e})
  BY <1>3, SumSame
<1>5. SumFunctionOnSet(f, S \ {e}) \in Int
  BY <1>3, SumType
<1> QED  BY <1>1, <1>2, <1>4, <1>5

\* The sum of sums, term by term.
LEMMA SumPlus ==
  ASSUME NEW f, NEW g, NEW h, NEW S, IsFiniteSet(S),
         \A x \in S : f[x] \in Int /\ g[x] \in Int /\ h[x] = f[x] + g[x]
  PROVE  SumFunctionOnSet(h, S) = SumFunctionOnSet(f, S) + SumFunctionOnSet(g, S)
<1> DEFINE C == {T \in SUBSET S :
                   SumFunctionOnSet(h, T) # SumFunctionOnSet(f, T) + SumFunctionOnSet(g, T)}
<1>1. SUFFICES ASSUME C # {} PROVE FALSE
  <2>1. S \notin C  BY <1>1
  <2> QED  BY <2>1
<1>2. PICK T \in C : \A U \in C : ~(U \subseteq T /\ U # T)
  <2>1. C \subseteq SUBSET S  OBVIOUS
  <2> HIDE DEF C
  <2> QED  BY <1>1, <2>1, LeastSet
<1>3. T # {}
  <2>1. SumFunctionOnSet(h, {}) = SumFunctionOnSet(f, {}) + SumFunctionOnSet(g, {})  BY SumEmpty
  <2> QED  BY <2>1, <1>2
<1> DEFINE c == First(T)
<1>4. /\ c \in T
      /\ SumFunctionOnSet(f, T) = f[c] + SumFunctionOnSet(f, T \ {c})
      /\ SumFunctionOnSet(g, T) = g[c] + SumFunctionOnSet(g, T \ {c})
      /\ SumFunctionOnSet(h, T) = h[c] + SumFunctionOnSet(h, T \ {c})
  BY <1>3, SumFirst, FS_Subset
<1> HIDE DEF c
<1>5. SumFunctionOnSet(h, T \ {c}) = SumFunctionOnSet(f, T \ {c}) + SumFunctionOnSet(g, T \ {c})
  BY <1>2, <1>4
<1>6. SumFunctionOnSet(f, T \ {c}) \in Int /\ SumFunctionOnSet(g, T \ {c}) \in Int
  BY SumType, FS_Subset
<1>7. c \in S
  BY <1>2, <1>4
<1> QED  BY <1>2, <1>4, <1>5, <1>6, <1>7

\* A factor of every term is a factor of the sum.
LEMMA SumTimes ==
  ASSUME NEW f, NEW g, NEW n \in Int, NEW S, IsFiniteSet(S),
         \A x \in S : f[x] \in Int /\ g[x] = n * f[x]
  PROVE  SumFunctionOnSet(g, S) = n * SumFunctionOnSet(f, S)
<1> DEFINE C == {T \in SUBSET S : SumFunctionOnSet(g, T) # n * SumFunctionOnSet(f, T)}
<1>1. SUFFICES ASSUME C # {} PROVE FALSE
  <2>1. S \notin C  BY <1>1
  <2> QED  BY <2>1
<1>2. PICK T \in C : \A U \in C : ~(U \subseteq T /\ U # T)
  <2>1. C \subseteq SUBSET S  OBVIOUS
  <2> HIDE DEF C
  <2> QED  BY <1>1, <2>1, LeastSet
<1>3. T # {}
  <2>1. SumFunctionOnSet(g, {}) = n * SumFunctionOnSet(f, {})  BY SumEmpty
  <2> QED  BY <2>1, <1>2
<1> DEFINE c == First(T)
<1>4. /\ c \in T
      /\ SumFunctionOnSet(f, T) = f[c] + SumFunctionOnSet(f, T \ {c})
      /\ SumFunctionOnSet(g, T) = g[c] + SumFunctionOnSet(g, T \ {c})
  BY <1>3, SumFirst, FS_Subset
<1> HIDE DEF c
<1>5. SumFunctionOnSet(g, T \ {c}) = n * SumFunctionOnSet(f, T \ {c})
  BY <1>2, <1>4
<1>6. SumFunctionOnSet(f, T \ {c}) \in Int /\ f[c] \in Int /\ g[c] = n * f[c]
  <2>1. c \in S /\ T \in SUBSET S  BY <1>2, <1>4
  <2> QED  BY <2>1, SumType, FS_Subset
<1>7. \A a, b \in Int : n * a + n * b = n * (a + b)
  OBVIOUS
<1> QED  BY <1>2, <1>4, <1>5, <1>6, <1>7

\* A sum of natural numbers is one.
LEMMA SumNat ==
  ASSUME NEW f, NEW S, IsFiniteSet(S), \A x \in S : f[x] \in Nat
  PROVE  SumFunctionOnSet(f, S) \in Nat
<1> DEFINE C == {T \in SUBSET S : SumFunctionOnSet(f, T) \notin Nat}
<1>1. SUFFICES ASSUME C # {} PROVE FALSE
  <2>1. S \notin C  BY <1>1
  <2> QED  BY <2>1
<1>2. PICK T \in C : \A U \in C : ~(U \subseteq T /\ U # T)
  <2>1. C \subseteq SUBSET S  OBVIOUS
  <2> HIDE DEF C
  <2> QED  BY <1>1, <2>1, LeastSet
<1>3. T # {}
  <2>1. SumFunctionOnSet(f, {}) \in Nat  BY SumEmpty
  <2> QED  BY <2>1, <1>2
<1>4. /\ First(T) \in T
      /\ SumFunctionOnSet(f, T) = f[First(T)] + SumFunctionOnSet(f, T \ {First(T)})
  BY <1>3, SumFirst, FS_Subset
<1>5. SumFunctionOnSet(f, T \ {First(T)}) \in Nat
  BY <1>2, <1>4
<1> QED  BY <1>2, <1>4, <1>5

\* Terms that are zero may be left out.
LEMMA SumOfPart ==
  ASSUME NEW f, NEW S, IsFiniteSet(S), NEW R \in SUBSET S,
         \A x \in S : f[x] \in Int, \A x \in S \ R : f[x] = 0
  PROVE  SumFunctionOnSet(f, S) = SumFunctionOnSet(f, R)
<1> DEFINE C == {T \in SUBSET S : R \subseteq T /\ SumFunctionOnSet(f, T) # SumFunctionOnSet(f, R)}
<1>1. SUFFICES ASSUME C # {} PROVE FALSE
  <2>1. S \notin C  BY <1>1
  <2> QED  BY <2>1
<1>2. PICK T \in C : \A U \in C : ~(U \subseteq T /\ U # T)
  <2>1. C \subseteq SUBSET S  OBVIOUS
  <2> HIDE DEF C
  <2> QED  BY <1>1, <2>1, LeastSet
<1>3. PICK x \in T : x \notin R
  BY <1>2
<1>4. SumFunctionOnSet(f, T) = f[x] + SumFunctionOnSet(f, T \ {x})
  BY SumRemove, FS_Subset
<1>5. SumFunctionOnSet(f, T \ {x}) = SumFunctionOnSet(f, R)
  BY <1>2, <1>3
<1>6. SumFunctionOnSet(f, R) \in Int
  BY SumType, FS_Subset
<1> QED  BY <1>2, <1>3, <1>4, <1>5, <1>6

\* Zeros add up to zero.
LEMMA SumZero ==
  ASSUME NEW f, NEW S, IsFiniteSet(S), \A x \in S : f[x] = 0
  PROVE  SumFunctionOnSet(f, S) = 0
<1>1. \A x \in S : f[x] \in Int
  OBVIOUS
<1>2. SumFunctionOnSet(f, S) = SumFunctionOnSet(f, {})
  BY <1>1, SumOfPart
<1> QED  BY <1>2, SumEmpty

\* The sum over one element is its term.
LEMMA SumOne ==
  ASSUME NEW f, NEW e, f[e] \in Int
  PROVE  SumFunctionOnSet(f, {e}) = f[e]
<1>1. IsFiniteSet({e}) /\ e \in {e} /\ {e} \ {e} = {}
  BY FS_Singleton
<1>2. SumFunctionOnSet(f, {e}) = f[e] + SumFunctionOnSet(f, {e} \ {e})
  BY <1>1, SumRemove
<1> QED  BY <1>1, <1>2, SumEmpty

\* The sum of the opposites is the opposite of the sum.
LEMMA SumMinus ==
  ASSUME NEW f, NEW g, NEW S, IsFiniteSet(S), \A x \in S : f[x] \in Int /\ g[x] = -f[x]
  PROVE  SumFunctionOnSet(g, S) = -SumFunctionOnSet(f, S)
<1> DEFINE z == [x \in S |-> 0]
<1>1. \A x \in S : f[x] \in Int /\ g[x] \in Int /\ z[x] = f[x] + g[x] /\ z[x] = 0
  OBVIOUS
<1> HIDE DEF z
<1>2. SumFunctionOnSet(z, S) = SumFunctionOnSet(f, S) + SumFunctionOnSet(g, S)
  BY <1>1, SumPlus
<1>3. SumFunctionOnSet(z, S) = 0
  BY <1>1, SumZero
<1>4. SumFunctionOnSet(f, S) \in Int /\ SumFunctionOnSet(g, S) \in Int
  BY <1>1, SumType
<1> QED  BY <1>2, <1>3, <1>4
\* A sum is the sum over a part and the sum over the rest.
LEMMA SumSplit ==
  ASSUME NEW f, NEW S, IsFiniteSet(S), NEW R \in SUBSET S, \A x \in S : f[x] \in Int
  PROVE  SumFunctionOnSet(f, S) = SumFunctionOnSet(f, R) + SumFunctionOnSet(f, S \ R)
<1> DEFINE g == [x \in S |-> IF x \in R THEN f[x] ELSE 0]
           h == [x \in S |-> IF x \in R THEN 0 ELSE f[x]]
<1>1. IsFiniteSet(R) /\ IsFiniteSet(S \ R)
  BY FS_Subset
<1>2. /\ \A x \in S : g[x] \in Int /\ h[x] \in Int /\ f[x] = g[x] + h[x]
      /\ \A x \in R : g[x] = f[x] /\ h[x] = 0
      /\ \A x \in S \ R : h[x] = f[x] /\ g[x] = 0
  OBVIOUS
<1> HIDE DEF g, h
<1>3. SumFunctionOnSet(f, S) = SumFunctionOnSet(g, S) + SumFunctionOnSet(h, S)
  BY <1>2, SumPlus
<1>4. SumFunctionOnSet(g, S) = SumFunctionOnSet(g, R)
  BY <1>2, SumOfPart
<1>5. SumFunctionOnSet(h, S) = SumFunctionOnSet(h, S \ R)
  <2>1. S \ R \in SUBSET S /\ S \ (S \ R) = R
    OBVIOUS
  <2> QED  BY <1>2, <2>1, SumOfPart
<1>6. SumFunctionOnSet(g, R) = SumFunctionOnSet(f, R)
  BY <1>1, <1>2, SumSame
<1>7. SumFunctionOnSet(h, S \ R) = SumFunctionOnSet(f, S \ R)
  BY <1>1, <1>2, SumSame
<1> QED  BY <1>3, <1>4, <1>5, <1>6, <1>7

\* The sum of what is smaller everywhere is smaller.
LEMMA SumAtMost ==
  ASSUME NEW f, NEW g, NEW S, IsFiniteSet(S),
         \A x \in S : f[x] \in Int /\ g[x] \in Int /\ f[x] <= g[x]
  PROVE  SumFunctionOnSet(f, S) <= SumFunctionOnSet(g, S)
<1> DEFINE h == [x \in S |-> g[x] - f[x]]
<1>1. \A x \in S : f[x] \in Int /\ h[x] \in Int /\ h[x] \in Nat /\ g[x] = f[x] + h[x]
  OBVIOUS
<1> HIDE DEF h
<1>2. SumFunctionOnSet(g, S) = SumFunctionOnSet(f, S) + SumFunctionOnSet(h, S)
  BY <1>1, SumPlus
<1>3. SumFunctionOnSet(h, S) \in Nat /\ SumFunctionOnSet(f, S) \in Int
  BY <1>1, SumNat, SumType
<1> QED  BY <1>2, <1>3

\* A part of amounts that are not negative adds up to no more than all of them.
LEMMA SumPartAtMost ==
  ASSUME NEW f, NEW S, IsFiniteSet(S), NEW R \in SUBSET S, \A x \in S : f[x] \in Nat
  PROVE  SumFunctionOnSet(f, R) <= SumFunctionOnSet(f, S)
<1>1. SumFunctionOnSet(f, S) = SumFunctionOnSet(f, R) + SumFunctionOnSet(f, S \ R)
  BY SumSplit
<1>2. IsFiniteSet(R) /\ IsFiniteSet(S \ R)
  BY FS_Subset
<1>3. SumFunctionOnSet(f, R) \in Nat /\ SumFunctionOnSet(f, S \ R) \in Nat
  BY <1>2, SumNat
<1> QED  BY <1>1, <1>3
=============================================================================
