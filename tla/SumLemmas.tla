---- MODULE SumLemmas ----
(***************************************************************************)
(* Facts the proofs share about sums over a finite set and about the       *)
(* largest and the smallest of a finite set of integers.                   *)
(*                                                                         *)
(* They are proved by induction on the set. The induction is written as    *)
(* the search for a smallest counterexample: the subsets for which a fact  *)
(* fails are a set, strict inclusion is well-founded on the subsets of a   *)
(* finite set, so if that set is not empty it has a smallest element.      *)
(***************************************************************************)
EXTENDS Integers, FiniteSets, Functions, FiniteSetTheorems, TLAPS

\* Among the subsets of a finite set that are bad, one has no smaller bad one.
LEMMA SmallestBad ==
    ASSUME NEW S, IsFiniteSet(S), NEW B \in SUBSET (SUBSET S), B # {}
    PROVE  \E T \in B : \A U \in SUBSET T : U # T => U \notin B
<1>1. IsWellFoundedOn(StrictSubsetOrdering(S), SUBSET S)
  BY FS_StrictSubsetOrderingWellFounded, FS_FiniteSubsetsOfFinite
<1>2. PICK T \in B : \A U \in B : <<U, T>> \notin StrictSubsetOrdering(S)
  BY <1>1, WFMin
<1>3. ASSUME NEW U \in SUBSET T, U # T, U \in B
      PROVE  FALSE
  <2>1. <<U, T>> \in (SUBSET S) \X (SUBSET S) /\ <<U, T>>[1] \subseteq <<U, T>>[2] /\ <<U, T>>[1] # <<U, T>>[2]
    BY <1>3
  <2>2. <<U, T>> \in StrictSubsetOrdering(S)
    BY <2>1 DEF StrictSubsetOrdering
  <2> QED BY <1>2, <1>3, <2>2
<1> QED BY <1>2, <1>3

\* The element a sum takes first, and the others.
Pick(T) == CHOOSE x \in T : TRUE
Rest(T) == T \ {Pick(T)}

\* f is the sum of fun over each subset of S, as the definition of a sum computes it.
Adds(f, fun, S) ==
    f = [T \in SUBSET S |-> IF T = {} THEN 0 ELSE fun[Pick(T)] + f[Rest(T)]]

\* A sum, unfolded to that.
LEMMA Unfold ==
    ASSUME NEW fun, NEW S
    PROVE  SumFunctionOnSet(fun, S) = (CHOOSE f : Adds(f, fun, S))[S]
BY DEF SumFunctionOnSet, FoldFunctionOnSet, MapThenFoldSet, Adds, Pick, Rest

\* There is one such function at most, on the sets two of them share...
LEMMA OneAdds ==
    ASSUME NEW fun, NEW S, IsFiniteSet(S), NEW f, NEW g, NEW U \in SUBSET S, NEW V \in SUBSET S,
           Adds(f, fun, U), Adds(g, fun, V), NEW T \in SUBSET (U \cap V)
    PROVE  f[T] = g[T]
<1> DEFINE B == {X \in SUBSET (U \cap V) : f[X] # g[X]}
<1> SUFFICES ASSUME B # {} PROVE FALSE
  OBVIOUS
<1>1. PICK X \in B : \A Y \in SUBSET X : Y # X => Y \notin B
  <2>1. B \in SUBSET (SUBSET S)
    OBVIOUS
  <2> HIDE DEF B
  <2> QED BY <2>1, SmallestBad
<1>2. X # {} /\ X \in SUBSET U /\ X \in SUBSET V
  BY DEF Adds
<1>3. Pick(X) \in X /\ Rest(X) \in SUBSET X /\ Rest(X) # X
  BY <1>2 DEF Pick, Rest
<1>4. f[Rest(X)] = g[Rest(X)]
  BY <1>1, <1>3
<1>5. f[X] = fun[Pick(X)] + f[Rest(X)] /\ g[X] = fun[Pick(X)] + g[Rest(X)]
  BY <1>2 DEF Adds
<1> QED BY <1>4, <1>5

\* ...and there is one.
LEMMA SomeAdds ==
    ASSUME NEW fun, NEW S, IsFiniteSet(S)
    PROVE  \E f : Adds(f, fun, S)
<1> DEFINE B == {X \in SUBSET S : ~\E f : Adds(f, fun, X)}
<1> SUFFICES ASSUME S \in B PROVE FALSE
  OBVIOUS
<1>1. PICK X \in B : \A Y \in SUBSET X : Y # X => Y \notin B
  <2>1. B \in SUBSET (SUBSET S) /\ B # {}
    OBVIOUS
  <2> HIDE DEF B
  <2> QED BY <2>1, SmallestBad
<1>2. X \in SUBSET S /\ ~\E f : Adds(f, fun, X)
  OBVIOUS
<1> DEFINE h(Y) == CHOOSE f : Adds(f, fun, Y)
<1>3. ASSUME NEW Y \in SUBSET X, Y # X
      PROVE  Adds(h(Y), fun, Y)
  <2>1. \E f : Adds(f, fun, Y)
    BY <1>1, <1>2, <1>3
  <2> QED BY <2>1
<1> DEFINE g == [Y \in SUBSET X |-> IF Y = {} THEN 0 ELSE fun[Pick(Y)] + h(Rest(Y))[Rest(Y)]]
<1> HIDE DEF h, B
<1>4. ASSUME NEW Y \in SUBSET X, Y # {}
      PROVE  g[Rest(Y)] = h(Rest(Y))[Rest(Y)]
  <2> DEFINE V == Rest(Y)
             W == Rest(V)
  <2>1. Pick(Y) \in Y /\ V \in SUBSET X /\ V # X
    BY <1>4 DEF Pick, Rest
  <2>2. Adds(h(V), fun, V)
    BY <1>3, <2>1
  <2>3. h(V)[V] = IF V = {} THEN 0 ELSE fun[Pick(V)] + h(V)[Rest(V)]
    <3>1. V \in SUBSET V
      OBVIOUS
    <3> QED BY <2>2, <3>1 DEF Adds
  <2>4. CASE V = {}
    BY <2>1, <2>3, <2>4
  <2>5. CASE V # {}
    <3>1. W \in SUBSET V /\ W # X /\ W \in SUBSET X
      BY <2>1 DEF Rest
    <3>2. Adds(h(W), fun, W)
      BY <1>3, <3>1
    <3>3. h(V)[W] = h(W)[W]
      BY <1>2, <2>1, <2>2, <3>1, <3>2, OneAdds
    <3>4. g[V] = fun[Pick(V)] + h(W)[W]
      BY <2>1, <2>5
    <3> QED BY <2>3, <2>5, <3>3, <3>4
  <2> QED BY <2>4, <2>5
<1>5. Adds(g, fun, X)
  BY <1>4 DEF Adds
<1> QED BY <1>2, <1>5

\* So the sums over the subsets of a finite set are what the definition computes.
LEMMA SumIsAdded ==
    ASSUME NEW fun, NEW S, IsFiniteSet(S)
    PROVE  \E f : Adds(f, fun, S) /\ \A T \in SUBSET S : SumFunctionOnSet(fun, T) = f[T]
<1> DEFINE h(Y) == CHOOSE f : Adds(f, fun, Y)
<1>1. \A T \in SUBSET S : Adds(h(T), fun, T)
  BY SomeAdds, FS_Subset
<1>2. Adds(h(S), fun, S)
  BY <1>1
<1>3. ASSUME NEW T \in SUBSET S
      PROVE  SumFunctionOnSet(fun, T) = h(S)[T]
  <2>1. SumFunctionOnSet(fun, T) = h(T)[T]
    BY Unfold
  <2>2. Adds(h(T), fun, T)
    BY <1>1
  <2> HIDE DEF h
  <2>3. h(T)[T] = h(S)[T]
    BY <1>2, <2>2, OneAdds
  <2> QED BY <2>1, <2>3
<1> QED BY <1>2, <1>3

\* The sum over no element.
LEMMA SumEmpty == ASSUME NEW fun PROVE SumFunctionOnSet(fun, {}) = 0
<1>1. PICK f : Adds(f, fun, {}) /\ SumFunctionOnSet(fun, {}) = f[{}]
  BY SumIsAdded, FS_EmptySet
<1> QED BY <1>1 DEF Adds

\* Its first element taken out.
LEMMA SumPick ==
    ASSUME NEW fun, NEW S, IsFiniteSet(S), S # {}
    PROVE  SumFunctionOnSet(fun, S) = fun[Pick(S)] + SumFunctionOnSet(fun, Rest(S))
<1>1. PICK f : Adds(f, fun, S) /\ \A T \in SUBSET S : SumFunctionOnSet(fun, T) = f[T]
  BY SumIsAdded
<1>2. Rest(S) \in SUBSET S
  BY DEF Rest
<1> QED BY <1>1, <1>2 DEF Adds

\* A sum of integers is one...
LEMMA SumType ==
    ASSUME NEW fun, NEW S, IsFiniteSet(S), \A x \in S : fun[x] \in Int
    PROVE  SumFunctionOnSet(fun, S) \in Int
<1> DEFINE B == {X \in SUBSET S : SumFunctionOnSet(fun, X) \notin Int}
<1> SUFFICES ASSUME B # {} PROVE FALSE
  OBVIOUS
<1>1. PICK X \in B : \A Y \in SUBSET X : Y # X => Y \notin B
  <2>1. B \in SUBSET (SUBSET S)
    OBVIOUS
  <2> HIDE DEF B
  <2> QED BY <2>1, SmallestBad
<1>2. X # {} /\ X \in SUBSET S /\ IsFiniteSet(X)
  <2>1. SumFunctionOnSet(fun, {}) \in Int
    BY SumEmpty
  <2> QED BY <2>1, FS_Subset
<1>3. Pick(X) \in X /\ Rest(X) \in SUBSET X /\ Rest(X) # X /\ Rest(X) \in SUBSET S
  BY <1>2 DEF Pick, Rest
<1>4. SumFunctionOnSet(fun, Rest(X)) \in Int
  BY <1>1, <1>3
<1>5. SumFunctionOnSet(fun, X) = fun[Pick(X)] + SumFunctionOnSet(fun, Rest(X))
  BY <1>2, SumPick
<1>6. SumFunctionOnSet(fun, X) \in Int
  BY <1>2, <1>3, <1>4, <1>5
<1> QED BY <1>6

\* ...and of naturals.
LEMMA SumNat ==
    ASSUME NEW fun, NEW S, IsFiniteSet(S), \A x \in S : fun[x] \in Nat
    PROVE  SumFunctionOnSet(fun, S) \in Nat
<1> DEFINE B == {X \in SUBSET S : SumFunctionOnSet(fun, X) \notin Nat}
<1> SUFFICES ASSUME B # {} PROVE FALSE
  OBVIOUS
<1>1. PICK X \in B : \A Y \in SUBSET X : Y # X => Y \notin B
  <2>1. B \in SUBSET (SUBSET S)
    OBVIOUS
  <2> HIDE DEF B
  <2> QED BY <2>1, SmallestBad
<1>2. X # {} /\ X \in SUBSET S /\ IsFiniteSet(X)
  <2>1. SumFunctionOnSet(fun, {}) \in Nat
    BY SumEmpty
  <2> QED BY <2>1, FS_Subset
<1>3. Pick(X) \in X /\ Rest(X) \in SUBSET X /\ Rest(X) # X /\ Rest(X) \in SUBSET S
  BY <1>2 DEF Pick, Rest
<1>4. SumFunctionOnSet(fun, Rest(X)) \in Nat
  BY <1>1, <1>3
<1>5. SumFunctionOnSet(fun, X) = fun[Pick(X)] + SumFunctionOnSet(fun, Rest(X))
  BY <1>2, SumPick
<1>6. SumFunctionOnSet(fun, X) \in Nat
  BY <1>2, <1>3, <1>4, <1>5
<1> QED BY <1>6

\* Any element taken out.
LEMMA SumTakeOut ==
    ASSUME NEW fun, NEW S, IsFiniteSet(S), \A x \in S : fun[x] \in Int, NEW e \in S
    PROVE  SumFunctionOnSet(fun, S) = fun[e] + SumFunctionOnSet(fun, S \ {e})
<1> DEFINE s(X) == SumFunctionOnSet(fun, X)
<1> DEFINE B == {X \in SUBSET S : \E y \in X : s(X) # fun[y] + s(X \ {y})}
<1> SUFFICES ASSUME B # {} PROVE FALSE
  OBVIOUS
<1>0. \A X \in SUBSET S : IsFiniteSet(X) /\ s(X) \in Int
  BY SumType, FS_Subset
<1>1. PICK X \in B : \A Y \in SUBSET X : Y # X => Y \notin B
  <2>1. B \in SUBSET (SUBSET S)
    OBVIOUS
  <2> HIDE DEF B
  <2> QED BY <2>1, SmallestBad
<1>2. PICK y \in X : s(X) # fun[y] + s(X \ {y})
  OBVIOUS
<1> DEFINE p == Pick(X)
<1>3. /\ X \in SUBSET S /\ IsFiniteSet(X) /\ X # {}
      /\ p \in X /\ Rest(X) = X \ {p}
  BY <1>0 DEF Pick, Rest
<1>4. s(X) = fun[p] + s(X \ {p})
  BY <1>3, SumPick
<1>5. y # p
  BY <1>2, <1>4
<1>6. X \ {p} \in SUBSET X /\ X \ {p} # X /\ y \in X \ {p} /\ X \ {y} \in SUBSET X /\ X \ {y} # X
      /\ p \in X \ {y}
  BY <1>3, <1>5
<1>7. s(X \ {p}) = fun[y] + s((X \ {p}) \ {y})
  BY <1>1, <1>3, <1>6
<1>8. s(X \ {y}) = fun[p] + s((X \ {y}) \ {p})
  BY <1>1, <1>3, <1>6
<1>9. s((X \ {p}) \ {y}) = s((X \ {y}) \ {p})
  <2>1. (X \ {p}) \ {y} = (X \ {y}) \ {p}
    OBVIOUS
  <2> QED BY <2>1
<1>10. /\ fun[y] \in Int /\ fun[p] \in Int /\ s((X \ {y}) \ {p}) \in Int
  BY <1>0, <1>3
<1> HIDE DEF s, B, p
<1> QED BY <1>2, <1>4, <1>7, <1>8, <1>9, <1>10

\* Where two functions agree, so do their sums.
LEMMA SumSame ==
    ASSUME NEW f, NEW g, NEW S, IsFiniteSet(S), \A x \in S : f[x] = g[x]
    PROVE  SumFunctionOnSet(f, S) = SumFunctionOnSet(g, S)
<1> DEFINE B == {X \in SUBSET S : SumFunctionOnSet(f, X) # SumFunctionOnSet(g, X)}
<1> SUFFICES ASSUME B # {} PROVE FALSE
  OBVIOUS
<1>1. PICK X \in B : \A Y \in SUBSET X : Y # X => Y \notin B
  <2>1. B \in SUBSET (SUBSET S)
    OBVIOUS
  <2> HIDE DEF B
  <2> QED BY <2>1, SmallestBad
<1>2. X # {} /\ X \in SUBSET S /\ IsFiniteSet(X)
  BY SumEmpty, FS_Subset
<1>3. Pick(X) \in X /\ Rest(X) \in SUBSET X /\ Rest(X) # X /\ Rest(X) \in SUBSET S
  BY <1>2 DEF Pick, Rest
<1>4. SumFunctionOnSet(f, Rest(X)) = SumFunctionOnSet(g, Rest(X))
  BY <1>1, <1>3
<1>5. /\ SumFunctionOnSet(f, X) = f[Pick(X)] + SumFunctionOnSet(f, Rest(X))
      /\ SumFunctionOnSet(g, X) = g[Pick(X)] + SumFunctionOnSet(g, Rest(X))
  BY <1>2, SumPick
<1> QED BY <1>1, <1>2, <1>3, <1>4, <1>5

\* One value changed.
LEMMA SumChanged ==
    ASSUME NEW f, NEW g, NEW S, IsFiniteSet(S), NEW e \in S,
           \A x \in S : f[x] \in Int /\ g[x] \in Int, \A x \in S \ {e} : g[x] = f[x]
    PROVE  SumFunctionOnSet(g, S) = SumFunctionOnSet(f, S) + g[e] - f[e]
<1>1. IsFiniteSet(S \ {e})
  BY FS_Subset
<1>2. SumFunctionOnSet(g, S \ {e}) = SumFunctionOnSet(f, S \ {e})
  BY <1>1, SumSame
<1>3. SumFunctionOnSet(f, S \ {e}) \in Int
  BY <1>1, SumType
<1> QED BY <1>2, <1>3, SumTakeOut

\* Sums add up.
LEMMA SumPlus ==
    ASSUME NEW f, NEW g, NEW h, NEW S, IsFiniteSet(S),
           \A x \in S : f[x] \in Int /\ g[x] \in Int /\ h[x] = f[x] + g[x]
    PROVE  SumFunctionOnSet(h, S) = SumFunctionOnSet(f, S) + SumFunctionOnSet(g, S)
<1> DEFINE B == {X \in SUBSET S : SumFunctionOnSet(h, X)
                                    # SumFunctionOnSet(f, X) + SumFunctionOnSet(g, X)}
<1> SUFFICES ASSUME B # {} PROVE FALSE
  OBVIOUS
<1>1. PICK X \in B : \A Y \in SUBSET X : Y # X => Y \notin B
  <2>1. B \in SUBSET (SUBSET S)
    OBVIOUS
  <2> HIDE DEF B
  <2> QED BY <2>1, SmallestBad
<1>2. X # {} /\ X \in SUBSET S /\ IsFiniteSet(X)
  <2>1. SumFunctionOnSet(h, {}) = SumFunctionOnSet(f, {}) + SumFunctionOnSet(g, {})
    BY SumEmpty
  <2> QED BY <2>1, FS_Subset
<1>3. Pick(X) \in X /\ Rest(X) \in SUBSET X /\ Rest(X) # X /\ Rest(X) \in SUBSET S
  BY <1>2 DEF Pick, Rest
<1>4. SumFunctionOnSet(h, Rest(X)) = SumFunctionOnSet(f, Rest(X)) + SumFunctionOnSet(g, Rest(X))
  BY <1>1, <1>3
<1>5. /\ SumFunctionOnSet(f, X) = f[Pick(X)] + SumFunctionOnSet(f, Rest(X))
      /\ SumFunctionOnSet(g, X) = g[Pick(X)] + SumFunctionOnSet(g, Rest(X))
      /\ SumFunctionOnSet(h, X) = h[Pick(X)] + SumFunctionOnSet(h, Rest(X))
  BY <1>2, SumPick
<1>6. SumFunctionOnSet(f, Rest(X)) \in Int /\ SumFunctionOnSet(g, Rest(X)) \in Int
  BY <1>3, FS_Subset, SumType
<1>7. f[Pick(X)] \in Int /\ g[Pick(X)] \in Int /\ h[Pick(X)] = f[Pick(X)] + g[Pick(X)]
  BY <1>2, <1>3
<1> HIDE DEF B
<1>8. SumFunctionOnSet(h, X) = SumFunctionOnSet(f, X) + SumFunctionOnSet(g, X)
  BY <1>4, <1>5, <1>6, <1>7
<1> QED BY <1>8 DEF B

\* A sum of zeros.
LEMMA SumZero ==
    ASSUME NEW f, NEW S, IsFiniteSet(S), \A x \in S : f[x] = 0
    PROVE  SumFunctionOnSet(f, S) = 0
<1>1. \A x \in S : f[x] \in Int /\ f[x] = f[x] + f[x]
  OBVIOUS
<1>2. SumFunctionOnSet(f, S) = SumFunctionOnSet(f, S) + SumFunctionOnSet(f, S)
  BY <1>1, SumPlus
<1>3. SumFunctionOnSet(f, S) \in Int
  BY SumType
<1>4. \A n \in Int : n = n + n => n = 0
  OBVIOUS
<1> QED BY <1>2, <1>3, <1>4

\* One element added.
LEMMA SumPutIn ==
    ASSUME NEW f, NEW S, IsFiniteSet(S), NEW e, e \notin S, \A x \in S \cup {e} : f[x] \in Int
    PROVE  SumFunctionOnSet(f, S \cup {e}) = f[e] + SumFunctionOnSet(f, S)
<1>1. IsFiniteSet(S \cup {e}) /\ (S \cup {e}) \ {e} = S
  BY FS_AddElement
<1> QED BY <1>1, SumTakeOut

\* No term is more than a sum of terms that are not negative.
LEMMA SumBound ==
    ASSUME NEW f, NEW S, IsFiniteSet(S), \A x \in S : f[x] \in Nat, NEW e \in S
    PROVE  f[e] <= SumFunctionOnSet(f, S)
<1>1. SumFunctionOnSet(f, S \ {e}) \in Nat
  BY FS_Subset, SumNat
<1>2. SumFunctionOnSet(f, S) = f[e] + SumFunctionOnSet(f, S \ {e})
  BY SumTakeOut
<1> QED BY <1>1, <1>2

\* A finite set of integers has a largest element...
LEMMA HasMax ==
    ASSUME NEW S, IsFiniteSet(S), S # {}, S \subseteq Int
    PROVE  \E x \in S : \A y \in S : x >= y
<1> DEFINE Largest(X) == \E x \in X : \A y \in X : x >= y
           B == {X \in SUBSET S : X # {} /\ ~Largest(X)}
<1> SUFFICES ASSUME B # {} PROVE FALSE
  OBVIOUS
<1>1. PICK X \in B : \A Y \in SUBSET X : Y # X => Y \notin B
  <2>1. B \in SUBSET (SUBSET S)
    OBVIOUS
  <2> HIDE DEF B
  <2> QED BY <2>1, SmallestBad
<1>2. PICK e \in X : TRUE
  OBVIOUS
<1>3. X \ {e} = {} \/ Largest(X \ {e})
  BY <1>1, <1>2
<1>4. CASE X \ {e} = {}
  <2>1. \A y \in X : e >= y
    BY <1>4
  <2> QED BY <2>1
<1>5. CASE Largest(X \ {e})
  <2>1. PICK m \in X \ {e} : \A y \in X \ {e} : m >= y
    BY <1>5
  <2>2. m \in Int /\ e \in Int
    OBVIOUS
  <2>3. CASE m >= e
    <3>1. \A y \in X : m >= y
      BY <2>1, <2>3
    <3> QED BY <3>1
  <2>4. CASE e >= m
    <3>1. \A y \in X : e >= y
      BY <2>1, <2>2, <2>4
    <3> QED BY <3>1
  <2> QED BY <2>2, <2>3, <2>4
<1> QED BY <1>3, <1>4, <1>5

\* ...and a smallest.
LEMMA HasMin ==
    ASSUME NEW S, IsFiniteSet(S), S # {}, S \subseteq Int
    PROVE  \E x \in S : \A y \in S : x =< y
<1> DEFINE Least(X) == \E x \in X : \A y \in X : x =< y
           B == {X \in SUBSET S : X # {} /\ ~Least(X)}
<1> SUFFICES ASSUME B # {} PROVE FALSE
  OBVIOUS
<1>1. PICK X \in B : \A Y \in SUBSET X : Y # X => Y \notin B
  <2>1. B \in SUBSET (SUBSET S)
    OBVIOUS
  <2> HIDE DEF B
  <2> QED BY <2>1, SmallestBad
<1>2. PICK e \in X : TRUE
  OBVIOUS
<1>3. X \ {e} = {} \/ Least(X \ {e})
  BY <1>1, <1>2
<1>4. CASE X \ {e} = {}
  <2>1. \A y \in X : e =< y
    BY <1>4
  <2> QED BY <2>1
<1>5. CASE Least(X \ {e})
  <2>1. PICK m \in X \ {e} : \A y \in X \ {e} : m =< y
    BY <1>5
  <2>2. m \in Int /\ e \in Int
    OBVIOUS
  <2>3. CASE m =< e
    <3>1. \A y \in X : m =< y
      BY <2>1, <2>3
    <3> QED BY <3>1
  <2>4. CASE e =< m
    <3>1. \A y \in X : e =< y
      BY <2>1, <2>2, <2>4
    <3> QED BY <3>1
  <2> QED BY <2>2, <2>3, <2>4
<1> QED BY <1>3, <1>4, <1>5

\* ... and a function from a finite set to the integers takes a largest value.
LEMMA HasTop ==
    ASSUME NEW S, IsFiniteSet(S), S # {}, NEW f \in [S -> Int]
    PROVE  \E x \in S : \A y \in S : f[x] >= f[y]
<1> DEFINE T == {f[x] : x \in S}
<1>1. f \in Surjection(S, T)
  BY DEF Surjection
<1>2. IsFiniteSet(T) /\ T # {} /\ T \subseteq Int
  BY <1>1, FS_Surjection
<1>3. PICK m \in T : \A y \in T : m >= y
  BY <1>2, HasMax
<1> QED BY <1>3
====
