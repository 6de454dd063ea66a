---------------------------- MODULE SumTheorems ----------------------------
(***************************************************************************)
(* Sums over finite sets: what SumFunction of the module Functions, which  *)
(* is defined by recursion, gives for every function and every finite set. *)
(*                                                                         *)
(* The library's induction theorems take an operator as a parameter, which *)
(* the provers cannot instantiate.  Here a set takes the operator's place: *)
(* NaturalsExhausted and SubsetsExhausted are the inductions, and both     *)
(* follow from facts about finite sets.                                    *)
(***************************************************************************)
EXTENDS Integers, FiniteSets, Functions, FiniteSetTheorems, TLAPS

-----------------------------------------------------------------------------
(* Induction.                                                              *)

\* The naturals are exhausted by a set that has 0 and the successor of each of
\* its members.  (Were x left out, y |-> y - 1 would map the finite set of those
\* left out up to x into itself, one to one, and nothing to x.)
LEMMA NaturalsExhausted ==
    ASSUME NEW G, 0 \in G, \A n \in Nat : n \in G => n + 1 \in G
    PROVE  Nat \subseteq G
  <1>1. SUFFICES ASSUME NEW x \in Nat, x \notin G PROVE FALSE
    OBVIOUS
  <1> DEFINE U == {y \in 0..x : y \notin G}
             f == [y \in U |-> y - 1]
  <1>2. ASSUME NEW y \in U PROVE y - 1 \in U
    <2>1. y \in 1..x
      OBVIOUS
    <2>2. y - 1 \in Nat /\ (y - 1) + 1 = y
      BY <2>1
    <2>3. y - 1 \notin G
      BY <2>2
    <2> QED BY <2>1, <2>3
  <1>3. f \in [U -> U]
    BY <1>2
  <1>4. \A y, z \in U : f[y] = f[z] => y = z
    OBVIOUS
  <1>5. IsFiniteSet(U)
    <2>1. IsFiniteSet(0..x)
      BY FS_Interval
    <2> QED BY <2>1, FS_Subset
  <1>6. x \in U /\ \A y \in U : y - 1 # x
    BY <1>1
  <1>7. \A y \in U : f[y] # x
    BY <1>6
  <1> HIDE DEF f, U
  <1>8. f \in Injection(U, U)
    BY <1>3, <1>4 DEF Injection, IsInjective
  <1>9. f \in Surjection(U, U)
    BY <1>5, <1>8, FS_Injection
  <1> QED BY <1>6, <1>7, <1>9 DEF Surjection

-----------------------------------------------------------------------------
(* The recursion by which a sum over a finite set is defined.              *)

FirstOf(s) == CHOOSE x \in s : TRUE
SumStep(f, g, s) == IF s = {} THEN 0 ELSE f[FirstOf(s)] + g[s \ {FirstOf(s)}]

Follows(f, S, g) == \A s \in SUBSET S : g[s] = SumStep(f, g, s)
SumRecursion(f, S, g) == g = [s \in SUBSET S |-> SumStep(f, g, s)]

LEMMA FirstIn == ASSUME NEW s, s # {} PROVE FirstOf(s) \in s
  BY DEF FirstOf

\* Without its first element a finite set is smaller.
LEMMA WithoutOne ==
    ASSUME NEW S, IsFiniteSet(S), NEW x \in S
    PROVE  /\ IsFiniteSet(S \ {x}) /\ Cardinality(S) \in Nat /\ Cardinality(S \ {x}) \in Nat
           /\ Cardinality(S \ {x}) + 1 = Cardinality(S)
  <1>1. IsFiniteSet(S \ {x}) /\ Cardinality(S \ {x}) = Cardinality(S) - 1
    BY FS_RemoveElement
  <1>2. Cardinality(S) \in Nat /\ Cardinality(S \ {x}) \in Nat
    BY <1>1, FS_CardinalityType
  <1> QED BY <1>1, <1>2

\* So are the subsets of a finite set by a set that has the empty one and each
\* subset that it has without its first element.
LEMMA SubsetsExhausted ==
    ASSUME NEW S, IsFiniteSet(S), NEW G, {} \in G,
           \A s \in SUBSET S : s # {} /\ s \ {FirstOf(s)} \in G => s \in G
    PROVE  SUBSET S \subseteq G
  <1> DEFINE H == {n \in Nat : \A s \in SUBSET S : Cardinality(s) = n => s \in G}
  <1>1. \A s \in SUBSET S : IsFiniteSet(s) /\ Cardinality(s) \in Nat
    BY FS_Subset, FS_CardinalityType
  <1>2. 0 \in H
    BY <1>1, FS_EmptySet
  <1>3. ASSUME NEW n \in Nat, n \in H PROVE n + 1 \in H
    <2>1. ASSUME NEW s \in SUBSET S, Cardinality(s) = n + 1 PROVE s \in G
      <3>1. s # {}
        BY <2>1, FS_EmptySet
      <3>2. FirstOf(s) \in s
        BY <3>1, FirstIn
      <3>3. Cardinality(s \ {FirstOf(s)}) + 1 = Cardinality(s) /\ Cardinality(s \ {FirstOf(s)}) \in Nat
        BY <1>1, <3>2, WithoutOne
      <3>4. Cardinality(s \ {FirstOf(s)}) = n
        BY <2>1, <3>3
      <3>5. s \ {FirstOf(s)} \in G
        BY <1>3, <3>4
      <3> QED BY <3>1, <3>5
    <2> QED BY <2>1
  <1> HIDE DEF H
  <1>4. Nat \subseteq H
    BY <1>2, <1>3, NaturalsExhausted
  <1> QED BY <1>1, <1>4 DEF H

LEMMA SumExists ==
    ASSUME NEW S, IsFiniteSet(S), NEW f
    PROVE  \E g : SumRecursion(f, S, g)
  <1> DEFINE Upto(g, n) == \A s \in SUBSET S : Cardinality(s) <= n => g[s] = SumStep(f, g, s)
             G == {n \in Nat : \E g : Upto(g, n)}
  <1>1. \A s \in SUBSET S : IsFiniteSet(s) /\ Cardinality(s) \in Nat /\ Cardinality(s) <= Cardinality(S)
    BY FS_Subset, FS_CardinalityType
  <1>2. 0 \in G
    <2> DEFINE g == [s \in SUBSET S |-> 0]
    <2>1. ASSUME NEW s \in SUBSET S, Cardinality(s) <= 0 PROVE s = {}
      <3>1. Cardinality(s) = 0 /\ IsFiniteSet(s)
        BY <1>1, <2>1
      <3> QED BY <3>1, FS_EmptySet
    <2>2. Upto(g, 0)
      BY <2>1 DEF SumStep
    <2> QED BY <2>2
  <1>3. ASSUME NEW n \in Nat, n \in G PROVE n + 1 \in G
    <2>1. PICK g : Upto(g, n)
      BY <1>3
    <2> DEFINE h == [s \in SUBSET S |-> IF Cardinality(s) <= n THEN g[s] ELSE SumStep(f, g, s)]
    <2>2. ASSUME NEW s \in SUBSET S, Cardinality(s) <= n + 1
          PROVE  h[s] = SumStep(f, h, s)
      <3>1. CASE s = {}
        <4>1. Cardinality(s) <= n
          BY <3>1, FS_EmptySet
        <4>2. h[s] = g[s] /\ g[s] = SumStep(f, g, s)
          BY <2>1, <4>1
        <4> HIDE DEF h, Upto
        <4> QED BY <3>1, <4>2 DEF SumStep
      <3>2. CASE s # {}
        <4> DEFINE t == s \ {FirstOf(s)}
        <4>1. t \in SUBSET S /\ Cardinality(t) + 1 = Cardinality(s) /\ Cardinality(t) \in Nat
          BY <1>1, <3>2, FirstIn, WithoutOne
        <4>2. Cardinality(t) <= n
          BY <1>1, <2>2, <4>1
        <4>3. h[t] = g[t]
          BY <4>1, <4>2
        <4>4. h[s] = SumStep(f, g, s)
          BY <2>1
        <4> HIDE DEF h, Upto
        <4> QED BY <3>2, <4>3, <4>4 DEF SumStep
      <3> QED BY <3>1, <3>2
    <2> HIDE DEF h
    <2>3. Upto(h, n + 1)
      BY <2>2
    <2> QED BY <2>3
  <1> HIDE DEF G
  <1>4. Nat \subseteq G
    BY <1>2, <1>3, NaturalsExhausted
  <1>5. PICK g : Upto(g, Cardinality(S))
    BY <1>4, FS_CardinalityType DEF G
  <1> DEFINE h == [s \in SUBSET S |-> g[s]]
  <1>6. ASSUME NEW s \in SUBSET S PROVE h[s] = SumStep(f, h, s)
    <2>1. h[s] = SumStep(f, g, s)
      BY <1>1, <1>5
    <2>2. s # {} => h[s \ {FirstOf(s)}] = g[s \ {FirstOf(s)}]
      OBVIOUS
    <2> HIDE DEF h, Upto
    <2> QED BY <2>1, <2>2 DEF SumStep
  <1>7. h = [s \in SUBSET S |-> SumStep(f, h, s)]
    <2>1. h = [s \in SUBSET S |-> h[s]]
      OBVIOUS
    <2> HIDE DEF h
    <2> QED BY <1>6, <2>1
  <1> QED BY <1>7 DEF SumRecursion

\* The sum of f over S, as the library defines it.
SumOver(f, S) == SumFunctionOnSet(f, S)

LEMMA SumOverStep ==
    ASSUME NEW S, IsFiniteSet(S), NEW f
    PROVE  \E g : SumOver(f, S) = g[S] /\ Follows(f, S, g)
  <1> DEFINE iter[s \in SUBSET S] ==
               IF s = {} THEN 0
               ELSE LET x == CHOOSE x \in s : TRUE IN f[x] + iter[s \ {x}]
  <1>1. SumOver(f, S) = iter[S]
    BY DEF SumOver, SumFunctionOnSet, FoldFunctionOnSet, MapThenFoldSet
  <1>2. iter = [s \in SUBSET S |-> SumStep(f, iter, s)]
    <2>1. \E g : g = [s \in SUBSET S |->
                        IF s = {} THEN 0
                        ELSE LET x == CHOOSE x \in s : TRUE IN f[x] + g[s \ {x}]]
      <3>1. PICK g : SumRecursion(f, S, g)
        BY SumExists
      <3> QED BY <3>1 DEF SumRecursion, SumStep, FirstOf
    <2> QED BY <2>1 DEF SumStep, FirstOf
  <1> HIDE DEF iter
  <1>3. Follows(f, S, iter)
    BY <1>2 DEF Follows
  <1> QED BY <1>1, <1>3

-----------------------------------------------------------------------------
(* What sums are.                                                          *)

\* Two functions that follow the recursion agree where both are defined.
LEMMA SumUnique ==
    ASSUME NEW S, IsFiniteSet(S), NEW f, NEW g, NEW h,
           Follows(f, S, g), Follows(f, S, h)
    PROVE  g[S] = h[S]
  <1> DEFINE G == {s \in SUBSET S : g[s] = h[s]}
  <1>1. \A s \in SUBSET S : g[s] = SumStep(f, g, s) /\ h[s] = SumStep(f, h, s)
    BY DEF Follows
  <1>2. {} \in G
    BY <1>1 DEF SumStep
  <1>3. ASSUME NEW s \in SUBSET S, s # {}, s \ {FirstOf(s)} \in G PROVE s \in G
    BY <1>1, <1>3 DEF SumStep
  <1> HIDE DEF G
  <1>4. SUBSET S \subseteq G
    BY <1>2, <1>3, SubsetsExhausted
  <1> QED BY <1>4 DEF G

LEMMA SumEmpty == ASSUME NEW f PROVE SumOver(f, {}) = 0
  <1>1. PICK g : SumOver(f, {}) = g[{}] /\ Follows(f, {}, g)
    BY SumOverStep, FS_EmptySet
  <1> QED BY <1>1 DEF SumStep, Follows

\* The recursion, said of the sums themselves.
LEMMA SumFirst ==
    ASSUME NEW S, IsFiniteSet(S), S # {}, NEW f
    PROVE  /\ FirstOf(S) \in S
           /\ SumOver(f, S) = f[FirstOf(S)] + SumOver(f, S \ {FirstOf(S)})
  <1> DEFINE T == S \ {FirstOf(S)}
  <1>1. FirstOf(S) \in S /\ IsFiniteSet(T)
    <2>1. FirstOf(S) \in S
      BY FirstIn
    <2>2. T \in SUBSET S
      OBVIOUS
    <2> HIDE DEF T
    <2> QED BY <2>1, <2>2, FS_Subset
  <1>2. PICK g : SumOver(f, S) = g[S] /\ Follows(f, S, g)
    BY SumOverStep
  <1> HIDE DEF T
  <1>3. PICK h : SumOver(f, T) = h[T] /\ Follows(f, T, h)
    BY <1>1, SumOverStep
  <1>4. Follows(f, T, g)
    BY <1>2 DEF T, Follows
  <1>5. g[T] = h[T]
    BY <1>1, <1>3, <1>4, SumUnique
  <1>6. g[S] = f[FirstOf(S)] + g[T]
    BY <1>2 DEF SumStep, T, Follows
  <1> QED BY <1>1, <1>2, <1>3, <1>5, <1>6 DEF T

LEMMA SumTyped ==
    ASSUME NEW S, IsFiniteSet(S), NEW f, \A x \in S : f[x] \in Int
    PROVE  SumOver(f, S) \in Int
  <1> DEFINE G == {s \in SUBSET S : SumOver(f, s) \in Int}
  <1>1. {} \in G
    BY SumEmpty
  <1>2. ASSUME NEW s \in SUBSET S, s # {}, s \ {FirstOf(s)} \in G PROVE s \in G
    <2>1. FirstOf(s) \in s /\ SumOver(f, s) = f[FirstOf(s)] + SumOver(f, s \ {FirstOf(s)})
      BY <1>2, FS_Subset, SumFirst
    <2> QED BY <1>2, <2>1
  <1> HIDE DEF G
  <1>3. SUBSET S \subseteq G
    BY <1>1, <1>2, SubsetsExhausted
  <1> QED BY <1>3 DEF G

\* Any element may be taken first.
LEMMA SumWithout ==
    ASSUME NEW S, IsFiniteSet(S), NEW f, \A x \in S : f[x] \in Int, NEW x \in S
    PROVE  SumOver(f, S) = f[x] + SumOver(f, S \ {x})
  <1> DEFINE Says(s) == \A y \in s : SumOver(f, s) = f[y] + SumOver(f, s \ {y})
             G == {n \in Nat : \A s \in SUBSET S : Cardinality(s) = n => Says(s)}
  <1>1. \A s \in SUBSET S : IsFiniteSet(s) /\ Cardinality(s) \in Nat /\ SumOver(f, s) \in Int
    <2>1. \A s \in SUBSET S : IsFiniteSet(s) /\ Cardinality(s) \in Nat
      BY FS_Subset, FS_CardinalityType
    <2> QED BY <2>1, SumTyped
  <1>2. 0 \in G
    <2>1. ASSUME NEW s \in SUBSET S, Cardinality(s) = 0 PROVE Says(s)
      <3>1. s = {}
        BY <1>1, <2>1, FS_EmptySet
      <3> QED BY <3>1
    <2> QED BY <2>1
  <1>3. ASSUME NEW n \in Nat, n \in G PROVE n + 1 \in G
    <2>1. ASSUME NEW s \in SUBSET S, Cardinality(s) = n + 1, NEW y \in s
          PROVE  SumOver(f, s) = f[y] + SumOver(f, s \ {y})
      <3> DEFINE c == FirstOf(s)
      <3>1. c \in s /\ SumOver(f, s) = f[c] + SumOver(f, s \ {c})
        BY <1>1, SumFirst
      <3>2. CASE y = c
        BY <3>1, <3>2
      <3>3. CASE y # c
        <4> HIDE DEF c
        <4>1. /\ s \ {c} \in SUBSET S /\ s \ {y} \in SUBSET S
              /\ Cardinality(s \ {c}) = n /\ Cardinality(s \ {y}) = n
          <5>1. /\ Cardinality(s \ {c}) + 1 = Cardinality(s) /\ Cardinality(s \ {c}) \in Nat
                /\ Cardinality(s \ {y}) + 1 = Cardinality(s) /\ Cardinality(s \ {y}) \in Nat
            BY <1>1, <3>1, WithoutOne
          <5> QED BY <2>1, <5>1
        <4>2. Says(s \ {c}) /\ Says(s \ {y})
          BY <1>3, <4>1
        <4>3. y \in s \ {c} /\ c \in s \ {y}
          BY <3>1, <3>3
        <4>4. /\ SumOver(f, s \ {c}) = f[y] + SumOver(f, (s \ {c}) \ {y})
              /\ SumOver(f, s \ {y}) = f[c] + SumOver(f, (s \ {y}) \ {c})
          BY <4>2, <4>3
        <4>5. (s \ {c}) \ {y} = (s \ {y}) \ {c} /\ (s \ {y}) \ {c} \in SUBSET S
          OBVIOUS
        <4>6. f[c] \in Int /\ f[y] \in Int /\ SumOver(f, (s \ {y}) \ {c}) \in Int
          BY <1>1, <3>1, <4>5
        <4>7. PICK u : u = SumOver(f, (s \ {y}) \ {c}) /\ u \in Int
          BY <4>6
        <4>8. SumOver(f, s \ {c}) = f[y] + u /\ SumOver(f, s \ {y}) = f[c] + u
          BY <4>4, <4>5, <4>7
        <4>9. SumOver(f, s) = f[c] + (f[y] + u)
          BY <3>1, <4>8
        <4> QED BY <4>6, <4>7, <4>8, <4>9
      <3> QED BY <3>2, <3>3
    <2> QED BY <2>1
  <1> HIDE DEF G
  <1>4. Nat \subseteq G
    BY <1>2, <1>3, NaturalsExhausted
  <1>5. Says(S)
    BY <1>1, <1>4 DEF G
  <1> QED BY <1>5

\* The sum of naturals is a natural.
LEMMA SumNatural ==
    ASSUME NEW S, IsFiniteSet(S), NEW f, \A x \in S : f[x] \in Nat
    PROVE  SumOver(f, S) \in Nat
  <1> DEFINE G == {s \in SUBSET S : SumOver(f, s) \in Nat}
  <1>1. {} \in G
    BY SumEmpty
  <1>2. ASSUME NEW s \in SUBSET S, s # {}, s \ {FirstOf(s)} \in G PROVE s \in G
    <2>1. FirstOf(s) \in s /\ SumOver(f, s) = f[FirstOf(s)] + SumOver(f, s \ {FirstOf(s)})
      BY <1>2, FS_Subset, SumFirst
    <2> QED BY <1>2, <2>1
  <1> HIDE DEF G
  <1>3. SUBSET S \subseteq G
    BY <1>1, <1>2, SubsetsExhausted
  <1> QED BY <1>3 DEF G

\* Functions that agree on a set have the same sum over it.
LEMMA SumAgree ==
    ASSUME NEW S, IsFiniteSet(S), NEW f, NEW g, \A x \in S : f[x] = g[x]
    PROVE  SumOver(f, S) = SumOver(g, S)
  <1> DEFINE G == {s \in SUBSET S : SumOver(f, s) = SumOver(g, s)}
  <1>1. {} \in G
    BY SumEmpty
  <1>2. ASSUME NEW s \in SUBSET S, s # {}, s \ {FirstOf(s)} \in G PROVE s \in G
    <2>1. /\ FirstOf(s) \in s
          /\ SumOver(f, s) = f[FirstOf(s)] + SumOver(f, s \ {FirstOf(s)})
          /\ SumOver(g, s) = g[FirstOf(s)] + SumOver(g, s \ {FirstOf(s)})
      BY <1>2, FS_Subset, SumFirst
    <2> QED BY <1>2, <2>1
  <1> HIDE DEF G
  <1>3. SUBSET S \subseteq G
    BY <1>1, <1>2, SubsetsExhausted
  <1> QED BY <1>3 DEF G

\* One value is changed.
LEMMA SumChange ==
    ASSUME NEW S, IsFiniteSet(S), NEW f, NEW g, NEW x \in S,
           \A y \in S : f[y] \in Int /\ g[y] \in Int,
           \A y \in S : y # x => f[y] = g[y]
    PROVE  SumOver(g, S) + f[x] = SumOver(f, S) + g[x]
  <1> DEFINE T == S \ {x}
  <1>1. IsFiniteSet(T) /\ \A y \in T : f[y] \in Int /\ f[y] = g[y]
    BY WithoutOne
  <1>2. SumOver(f, S) = f[x] + SumOver(f, T)
    BY SumWithout
  <1>3. SumOver(g, S) = g[x] + SumOver(g, T)
    BY SumWithout
  <1> HIDE DEF T
  <1>4. SumOver(f, T) = SumOver(g, T)
    BY <1>1, SumAgree
  <1>5. SumOver(f, T) \in Int
    BY <1>1, SumTyped
  <1> QED BY <1>2, <1>3, <1>4, <1>5

\* One element is added.
LEMMA SumWith ==
    ASSUME NEW S, IsFiniteSet(S), NEW f, NEW x, x \notin S,
           \A y \in S : f[y] \in Int, f[x] \in Int
    PROVE  SumOver(f, S \cup {x}) = f[x] + SumOver(f, S)
  <1> DEFINE T == S \cup {x}
  <1>1. IsFiniteSet(T) /\ x \in T /\ T \ {x} = S /\ \A y \in T : f[y] \in Int
    BY FS_AddElement
  <1> HIDE DEF T
  <1>2. SumOver(f, T) = f[x] + SumOver(f, T \ {x})
    BY <1>1, SumWithout
  <1> QED BY <1>1, <1>2 DEF T

\* The sum of fewer naturals is at most that of more.
LEMMA SumFewer ==
    ASSUME NEW S, IsFiniteSet(S), NEW f, \A x \in S : f[x] \in Nat, NEW T \in SUBSET S
    PROVE  SumOver(f, T) <= SumOver(f, S)
  <1> DEFINE R == S \ T
             G == {s \in SUBSET R : SumOver(f, T) <= SumOver(f, T \cup s)}
  <1>1. IsFiniteSet(R) /\ \A s \in SUBSET S : IsFiniteSet(s) /\ SumOver(f, s) \in Nat
    <2>1. \A s \in SUBSET S : IsFiniteSet(s)
      BY FS_Subset
    <2> QED BY <2>1, SumNatural
  <1>2. {} \in G
    <2>1. T \cup {} = T /\ SumOver(f, T) \in Nat
      BY <1>1
    <2> QED BY <2>1
  <1>3. ASSUME NEW s \in SUBSET R, s # {}, s \ {FirstOf(s)} \in G PROVE s \in G
    <2>1. PICK x : x \in s /\ x = FirstOf(s)
      BY <1>3, FirstIn
    <2> DEFINE U == T \cup s
               V == T \cup (s \ {x})
    <2>2. U \in SUBSET S /\ V \in SUBSET S /\ x \in U /\ U \ {x} = V
      BY <2>1
    <2>3. SumOver(f, T) <= SumOver(f, V)
      BY <1>3, <2>1
    <2> HIDE DEF U, V
    <2>4. SumOver(f, U) = f[x] + SumOver(f, V)
      BY <1>1, <2>2, SumWithout
    <2>5. SumOver(f, U) \in Nat /\ SumOver(f, V) \in Nat /\ SumOver(f, T) \in Nat /\ f[x] \in Nat
      BY <1>1, <2>2
    <2>6. SumOver(f, T) <= SumOver(f, U)
      BY <2>3, <2>4, <2>5
    <2> QED BY <2>6 DEF U
  <1>4. R \in SUBSET R /\ T \cup R = S
    OBVIOUS
  <1> HIDE DEF G, R
  <1>5. SUBSET R \subseteq G
    BY <1>1, <1>2, <1>3, SubsetsExhausted
  <1>6. SumOver(f, T) <= SumOver(f, T \cup R)
    BY <1>4, <1>5 DEF G
  <1> QED BY <1>4, <1>6

\* The library's sum of a function.
LEMMA SumOfFunction == ASSUME NEW f PROVE SumFunction(f) = SumOver(f, DOMAIN f)
  BY DEF SumFunction, SumOver

\* Nothing adds up to nothing.
LEMMA SumZero ==
    ASSUME NEW S, IsFiniteSet(S), NEW f, \A x \in S : f[x] = 0
    PROVE  SumOver(f, S) = 0
  <1> DEFINE G == {s \in SUBSET S : SumOver(f, s) = 0}
  <1>1. {} \in G
    BY SumEmpty
  <1>2. ASSUME NEW s \in SUBSET S, s # {}, s \ {FirstOf(s)} \in G PROVE s \in G
    <2>1. FirstOf(s) \in s /\ SumOver(f, s) = f[FirstOf(s)] + SumOver(f, s \ {FirstOf(s)})
      BY <1>2, FS_Subset, SumFirst
    <2> QED BY <1>2, <2>1
  <1> HIDE DEF G
  <1>3. SUBSET S \subseteq G
    BY <1>1, <1>2, SubsetsExhausted
  <1> QED BY <1>3 DEF G

=============================================================================
