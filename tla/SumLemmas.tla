---- MODULE SumLemmas ----
(***************************************************************************)
(* Facts about the sums of module Sums, for the proofs about quantities    *)
(* that add up.  The induction they need goes through the well-foundedness *)
(* of the subsets of a finite set.                                         *)
(***************************************************************************)
EXTENDS Sums, FiniteSetTheorems, WellFoundedInduction, TLAPS

\* The element the fold takes out of a set.
Some(s) == CHOOSE x \in s : TRUE

\* g computes the sums of f over the subsets of S as the fold does.
FoldsOver(g, f, S) ==
  g = [s \in SUBSET S |-> IF s = {} THEN 0 ELSE f[Some(s)] + g[s \ {Some(s)}]]

FoldOver(f, S) == CHOOSE g : FoldsOver(g, f, S)

\* A sum is the value at S of the function that the fold of Folds computes.
LEMMA SumIsFold ==
  ASSUME NEW f, NEW S
  PROVE  SumOver(f, S) = FoldOver(f, S)[S]
BY DEF SumOver, MapThenSumSet, MapThenFoldSet, FoldsOver, FoldOver, Some

\* Induction over the subsets of a finite set, by a minimal counterexample: the
\* property is a set P, for no prover instantiates a property that is an operator.
LEMMA FiniteSubsetsInduct ==
  ASSUME NEW S, IsFiniteSet(S), NEW P,
         \A T \in SUBSET S : (\A U \in SUBSET T : U # T => U \in P) => T \in P
  PROVE  \A T \in SUBSET S : T \in P
<1>1. IsWellFoundedOn(StrictSubsetOrdering(S), SUBSET S)
  BY FS_StrictSubsetOrderingWellFounded, FS_FiniteSubsetsOfFinite
<1>2. SUFFICES ASSUME (SUBSET S) \ P # {} PROVE FALSE
  OBVIOUS
<1> DEFINE Rest == (SUBSET S) \ P
<1>a. Rest \subseteq SUBSET S /\ Rest # {}
  BY <1>2
<1> HIDE DEF Rest
<1>3. PICK T \in Rest : \A U \in Rest : <<U, T>> \notin StrictSubsetOrdering(S)
  BY <1>1, <1>a, WFMin
<1>4. \A U \in SUBSET T : U # T => U \in P
  BY <1>3 DEF StrictSubsetOrdering, Rest
<1>5. QED BY <1>3, <1>4 DEF Rest

\* A set that has elements has some element.
LEMMA SomeIn == ASSUME NEW s, s # {} PROVE Some(s) \in s
BY DEF Some

\* A function that computes as the fold does satisfies the recursion everywhere.
LEMMA FoldUnfolds ==
  ASSUME NEW f, NEW S, NEW g, FoldsOver(g, f, S), NEW s \in SUBSET S
  PROVE  g[s] = IF s = {} THEN 0 ELSE f[Some(s)] + g[s \ {Some(s)}]
<1> DEFINE body(t) == IF t = {} THEN 0 ELSE f[Some(t)] + g[t \ {Some(t)}]
<1>1. g = [t \in SUBSET S |-> body(t)]
  BY DEF FoldsOver
<1> HIDE DEF body
<1>2. g[s] = body(s)
  BY <1>1
<1>3. QED BY <1>2 DEF body

\* Two functions that compute as the fold does agree where both are defined.
LEMMA FoldUnique ==
  ASSUME NEW f, NEW S, IsFiniteSet(S), NEW T \in SUBSET S, NEW g, NEW h, FoldsOver(g, f, S), FoldsOver(h, f, T)
  PROVE  \A s \in SUBSET T : g[s] = h[s]
<1> DEFINE P == {s \in SUBSET T : g[s] = h[s]}
<1>1. ASSUME NEW s \in SUBSET T, \A u \in SUBSET s : u # s => u \in P
      PROVE  s \in P
  <2>1. g[s] = IF s = {} THEN 0 ELSE f[Some(s)] + g[s \ {Some(s)}]
    BY FoldUnfolds
  <2>2. h[s] = IF s = {} THEN 0 ELSE f[Some(s)] + h[s \ {Some(s)}]
    BY FoldUnfolds
  <2>3. s # {} => g[s \ {Some(s)}] = h[s \ {Some(s)}]
    BY <1>1, SomeIn
  <2>4. QED BY <2>1, <2>2, <2>3
<1>2. IsFiniteSet(T)
  BY FS_Subset
<1> HIDE DEF P
<1>3. \A s \in SUBSET T : s \in P
  BY <1>1, <1>2, FiniteSubsetsInduct
<1>4. QED BY <1>3 DEF P

\* There is a function that computes as the fold does.
LEMMA FoldOverExists ==
  ASSUME NEW f, NEW S, IsFiniteSet(S)
  PROVE  FoldsOver(FoldOver(f, S), f, S)
<1> DEFINE P == {T \in SUBSET S : \E g : FoldsOver(g, f, T)}
<1>1. ASSUME NEW T \in SUBSET S, \A U \in SUBSET T : U # T => U \in P
      PROVE  T \in P
  <2> DEFINE G(U) == FoldOver(f, U)
             lower(s) == IF s = {} THEN 0 ELSE f[Some(s)] + G(s \ {Some(s)})[s \ {Some(s)}]
             h == [s \in SUBSET T |-> lower(s)]
  <2>1. ASSUME NEW U \in SUBSET T, U # T
        PROVE  FoldsOver(G(U), f, U)
    BY <1>1, <2>1 DEF FoldOver
  <2>2. ASSUME NEW U \in SUBSET T, U # T
        PROVE  G(U)[U] = lower(U)
    <3>1. CASE U = {}
      BY <3>1, <2>1, <2>2, FoldUnfolds
    <3>2. CASE U # {}
      <4> DEFINE V == U \ {Some(U)}
      <4>1. V \in SUBSET U /\ V # U
        BY <3>2, SomeIn
      <4>2. FoldsOver(G(U), f, U) /\ FoldsOver(G(V), f, V)
        BY <2>1, <2>2, <4>1
      <4>3. IsFiniteSet(U)
        BY FS_Subset
      <4>4. G(U)[V] = G(V)[V]
        BY <4>1, <4>2, <4>3, FoldUnique
      <4>5. G(U)[U] = IF U = {} THEN 0 ELSE f[Some(U)] + G(U)[V]
        BY <4>2, FoldUnfolds
      <4>6. QED BY <4>4, <4>5, <3>2
    <3>3. QED BY <3>1, <3>2
  <2>3. ASSUME NEW s \in SUBSET T, s # {}
        PROVE  h[s] = f[Some(s)] + h[s \ {Some(s)}]
    <3> DEFINE V == s \ {Some(s)}
    <3>1. V \in SUBSET T /\ V # T
      BY <2>3, SomeIn
    <3>2. h[V] = G(V)[V]
      BY <2>2, <3>1
    <3>3. QED BY <2>3, <3>2
  <2>4. FoldsOver(h, f, T)
    <3>0. \A s \in SUBSET T : h[s] = IF s = {} THEN 0 ELSE f[Some(s)] + h[s \ {Some(s)}]
      BY <2>3
    <3> HIDE DEF h
    <3>1. h = [s \in SUBSET T |-> h[s]]
      BY DEF h
    <3>2. QED BY <3>0, <3>1 DEF FoldsOver
  <2>5. QED BY <2>4
<1> HIDE DEF P
<1>2. \A T \in SUBSET S : T \in P
  BY <1>1, FiniteSubsetsInduct
<1>3. S \in P
  BY <1>2
<1>4. QED BY <1>3 DEF P, FoldOver

\* A sum takes out the element the fold chooses.
LEMMA SumUnfold ==
  ASSUME NEW f, NEW S, IsFiniteSet(S)
  PROVE  SumOver(f, S) = IF S = {} THEN 0
                         ELSE f[Some(S)] + SumOver(f, S \ {Some(S)})
<1>1. FoldsOver(FoldOver(f, S), f, S)
  BY FoldOverExists
<1>2. CASE S = {}
  BY <1>1, <1>2, FoldUnfolds, SumIsFold
<1>3. CASE S # {}
  <2> DEFINE V == S \ {Some(S)}
  <2>1. FoldsOver(FoldOver(f, V), f, V)
    BY FoldOverExists, FS_RemoveElement
  <2>2. V \in SUBSET S /\ V \in SUBSET V
    OBVIOUS
  <2> HIDE DEF V
  <2>3. \A s \in SUBSET V : FoldOver(f, S)[s] = FoldOver(f, V)[s]
    <3> DEFINE g == FoldOver(f, S)
               h == FoldOver(f, V)
    <3>1. FoldsOver(g, f, S) /\ FoldsOver(h, f, V)
      BY <1>1, <2>1
    <3> HIDE DEF g, h
    <3>2. \A s \in SUBSET V : g[s] = h[s]
      BY <2>2, <3>1, FoldUnique
    <3>3. QED BY <3>2 DEF g, h
  <2>4. FoldOver(f, S)[V] = FoldOver(f, V)[V]
    BY <2>2, <2>3
  <2>5. FoldOver(f, S)[S] = IF S = {} THEN 0 ELSE f[Some(S)] + FoldOver(f, S)[V]
    BY <1>1, FoldUnfolds DEF V
  <2>6. SumOver(f, S) = FoldOver(f, S)[S] /\ SumOver(f, V) = FoldOver(f, V)[V]
    BY SumIsFold
  <2>7. QED BY <2>4, <2>5, <2>6, <1>3 DEF V
<1>4. QED BY <1>2, <1>3

\* f is an integer everywhere on S.
IntOn(f, S) == \A x \in S : f[x] \in Int

\* A sum of integers is an integer.
THEOREM SumType ==
  ASSUME NEW f, NEW S, IsFiniteSet(S), IntOn(f, S)
  PROVE  SumOver(f, S) \in Int
<1> DEFINE P == {T \in SUBSET S : SumOver(f, T) \in Int}
<1>1. ASSUME NEW T \in SUBSET S, \A U \in SUBSET T : U # T => U \in P
      PROVE  T \in P
  <2>1. IsFiniteSet(T)
    BY FS_Subset
  <2>2. T # {} => /\ Some(T) \in S /\ f[Some(T)] \in Int
                  /\ T \ {Some(T)} \in P
    BY <1>1, SomeIn DEF IntOn
  <2>3. SumOver(f, T) = IF T = {} THEN 0 ELSE f[Some(T)] + SumOver(f, T \ {Some(T)})
    BY <2>1, SumUnfold
  <2>4. QED BY <2>2, <2>3
<1> HIDE DEF P
<1>2. \A T \in SUBSET S : T \in P
  BY <1>1, FiniteSubsetsInduct
<1>3. S \in P
  BY <1>2
<1>4. QED BY <1>3 DEF P

\* A sum takes out any element.
THEOREM SumRemove ==
  ASSUME NEW f, NEW S, IsFiniteSet(S), IntOn(f, S), NEW x \in S
  PROVE  SumOver(f, S) = f[x] + SumOver(f, S \ {x})
<1> DEFINE P == {T \in SUBSET S : \A y \in T : SumOver(f, T) = f[y] + SumOver(f, T \ {y})}
<1>1. ASSUME NEW T \in SUBSET S, \A U \in SUBSET T : U # T => U \in P
      PROVE  T \in P
  <2> SUFFICES ASSUME NEW y \in T PROVE SumOver(f, T) = f[y] + SumOver(f, T \ {y})
    OBVIOUS
  <2> DEFINE c == Some(T)
             V == T \ {c}
             W == T \ {y}
             B == V \ {y}
  <2>1. c \in T
    BY SomeIn
  <2>2. IsFiniteSet(T) /\ IsFiniteSet(V) /\ IsFiniteSet(W) /\ IsFiniteSet(B)
    BY FS_Subset, FS_RemoveElement
  <2>3. SumOver(f, T) = f[c] + SumOver(f, V)
    BY <2>2, SumUnfold
  <2>4. CASE y = c
    BY <2>3, <2>4
  <2>5. CASE y # c
    <3>1. V \in P /\ W \in P
      BY <1>1, <2>1
    <3>2. SumOver(f, V) = f[y] + SumOver(f, B)
      BY <3>1, <2>5
    <3>3. W \ {c} = B
      OBVIOUS
    <3>4. SumOver(f, W) = f[c] + SumOver(f, B)
      BY <3>1, <3>3, <2>1, <2>5
    <3>5. IntOn(f, B)
      BY DEF IntOn
    <3>6. f[c] \in Int /\ f[y] \in Int /\ SumOver(f, B) \in Int
      BY <2>1, <2>2, <3>5, SumType DEF IntOn
    <3> HIDE DEF c, V, W, B
    <3>7. QED BY <2>3, <3>2, <3>4, <3>6 DEF W
  <2>6. QED BY <2>4, <2>5
<1> HIDE DEF P
<1>2. \A T \in SUBSET S : T \in P
  BY <1>1, FiniteSubsetsInduct
<1>3. S \in P
  BY <1>2
<1>4. QED BY <1>3 DEF P

\* Functions that agree on a set have the same sum over it.
THEOREM SumSame ==
  ASSUME NEW f, NEW g, NEW S, IsFiniteSet(S), \A x \in S : f[x] = g[x]
  PROVE  SumOver(f, S) = SumOver(g, S)
<1> DEFINE P == {T \in SUBSET S : SumOver(f, T) = SumOver(g, T)}
<1>1. ASSUME NEW T \in SUBSET S, \A U \in SUBSET T : U # T => U \in P
      PROVE  T \in P
  <2>1. IsFiniteSet(T)
    BY FS_Subset
  <2>2. T # {} => Some(T) \in S /\ f[Some(T)] = g[Some(T)] /\ T \ {Some(T)} \in P
    BY <1>1, SomeIn
  <2>3. /\ SumOver(f, T) = IF T = {} THEN 0 ELSE f[Some(T)] + SumOver(f, T \ {Some(T)})
        /\ SumOver(g, T) = IF T = {} THEN 0 ELSE g[Some(T)] + SumOver(g, T \ {Some(T)})
    BY <2>1, SumUnfold
  <2>4. QED BY <2>2, <2>3
<1> HIDE DEF P
<1>2. \A T \in SUBSET S : T \in P
  BY <1>1, FiniteSubsetsInduct
<1>3. S \in P
  BY <1>2
<1>4. QED BY <1>3 DEF P

\* Nothing sums to zero.
LEMMA SumEmpty == \A f : SumOver(f, {}) = 0
BY SumUnfold, FS_EmptySet

\* A sum grows by the element that is added.
THEOREM SumAdd ==
  ASSUME NEW f, NEW S, IsFiniteSet(S), NEW x, x \notin S, IntOn(f, S \cup {x})
  PROVE  SumOver(f, S \cup {x}) = f[x] + SumOver(f, S)
<1>1. IsFiniteSet(S \cup {x}) /\ (S \cup {x}) \ {x} = S
  BY FS_AddElement
<1>2. QED BY <1>1, SumRemove

\* What x contributes to the sum of f over S.
Share(f, S, x) == IF x \in S THEN f[x] ELSE 0

\* When one element changes its value, comes or goes, the sum changes by the
\* difference of its shares.
THEOREM SumOneChange ==
  ASSUME NEW f, NEW S, IsFiniteSet(S), IntOn(f, S),
         NEW g, NEW T, IsFiniteSet(T), IntOn(g, T),
         NEW x, S \ {x} = T \ {x},
         \A y \in S \ {x} : f[y] = g[y]
  PROVE  /\ SumOver(f, S) \in Int
         /\ SumOver(g, T) \in Int
         /\ SumOver(g, T) - SumOver(f, S) = Share(g, T, x) - Share(f, S, x)
<1> DEFINE R == S \ {x}
<1>1. IsFiniteSet(R) /\ IntOn(f, R)
  BY FS_RemoveElement DEF IntOn
<1>2. SumOver(f, R) \in Int /\ SumOver(g, R) = SumOver(f, R)
  BY <1>1, SumType, SumSame
<1>3. SumOver(f, S) = Share(f, S, x) + SumOver(f, R)
  <2>1. CASE x \in S
    BY <2>1, SumRemove DEF Share
  <2>2. CASE x \notin S
    <3>1. R = S
      BY <2>2
    <3> HIDE DEF R
    <3>2. QED BY <2>2, <3>1, <1>2 DEF Share
  <2>3. QED BY <2>1, <2>2
<1>4. SumOver(g, T) = Share(g, T, x) + SumOver(g, R)
  <2>1. CASE x \in T
    BY <2>1, SumRemove DEF Share
  <2>2. CASE x \notin T
    <3>1. R = T
      BY <2>2
    <3> HIDE DEF R
    <3>2. QED BY <2>2, <3>1, <1>2 DEF Share
  <2>3. QED BY <2>1, <2>2
<1>5. Share(f, S, x) \in Int /\ Share(g, T, x) \in Int
  BY DEF Share, IntOn
<1> HIDE DEF R
<1>6. QED BY <1>2, <1>3, <1>4, <1>5

\* The sum over two sets that share no element.
THEOREM SumDisjoint ==
  ASSUME NEW f, NEW S, IsFiniteSet(S), IntOn(f, S),
         NEW T, IsFiniteSet(T), IntOn(f, T), S \cap T = {}
  PROVE  SumOver(f, S \cup T) = SumOver(f, S) + SumOver(f, T)
<1> DEFINE P == {U \in SUBSET T : SumOver(f, S \cup U) = SumOver(f, S) + SumOver(f, U)}
<1>1. ASSUME NEW U \in SUBSET T, \A V \in SUBSET U : V # U => V \in P
      PROVE  U \in P
  <2>1. CASE U = {}
    BY <2>1, SumEmpty, SumType
  <2>2. CASE U # {}
    <3> DEFINE c == Some(U)
               V == U \ {c}
    <3>1. c \in U /\ c \notin S /\ V \in P
      BY <1>1, <2>2, SomeIn
    <3>2. /\ IsFiniteSet(U) /\ IsFiniteSet(V) /\ IsFiniteSet(S \cup V)
          /\ IntOn(f, U) /\ IntOn(f, V) /\ IntOn(f, (S \cup V) \cup {c})
      BY <3>1, FS_Subset, FS_Union DEF IntOn
    <3>3. S \cup U = (S \cup V) \cup {c} /\ c \notin S \cup V /\ U = V \cup {c}
      BY <3>1
    <3>4. SumOver(f, S \cup U) = f[c] + SumOver(f, S \cup V)
      BY <3>2, <3>3, SumAdd
    <3>5. SumOver(f, U) = f[c] + SumOver(f, V)
      BY <3>1, <3>2, SumRemove
    <3>6. SumOver(f, S \cup V) = SumOver(f, S) + SumOver(f, V)
      BY <3>1
    <3>7. f[c] \in Int /\ SumOver(f, S) \in Int /\ SumOver(f, V) \in Int
      BY <3>1, <3>2, SumType DEF IntOn
    <3> HIDE DEF c, V
    <3>8. QED BY <3>4, <3>5, <3>6, <3>7
  <2>3. QED BY <2>1, <2>2
<1> HIDE DEF P
<1>2. \A U \in SUBSET T : U \in P
  BY <1>1, FiniteSubsetsInduct
<1>3. T \in P
  BY <1>2
<1>4. QED BY <1>3 DEF P

\* A sum of natural numbers is one.
THEOREM SumNat ==
  ASSUME NEW f, NEW S, IsFiniteSet(S), \A x \in S : f[x] \in Nat
  PROVE  SumOver(f, S) \in Nat
<1> DEFINE P == {T \in SUBSET S : SumOver(f, T) \in Nat}
<1>1. ASSUME NEW T \in SUBSET S, \A U \in SUBSET T : U # T => U \in P
      PROVE  T \in P
  <2>1. IsFiniteSet(T)
    BY FS_Subset
  <2>2. T # {} => /\ f[Some(T)] \in Nat
                  /\ T \ {Some(T)} \in P
    BY <1>1, SomeIn
  <2>3. SumOver(f, T) = IF T = {} THEN 0 ELSE f[Some(T)] + SumOver(f, T \ {Some(T)})
    BY <2>1, SumUnfold
  <2>4. QED BY <2>2, <2>3
<1> HIDE DEF P
<1>2. \A T \in SUBSET S : T \in P
  BY <1>1, FiniteSubsetsInduct
<1>3. S \in P
  BY <1>2
<1>4. QED BY <1>3 DEF P

\* A sum over some of the elements is no more than the sum over all of them.
THEOREM SumMonotone ==
  ASSUME NEW f, NEW S, IsFiniteSet(S), \A x \in S : f[x] \in Nat, NEW T \in SUBSET S
  PROVE  SumOver(f, T) <= SumOver(f, S)
<1>1. IsFiniteSet(T) /\ IsFiniteSet(S \ T) /\ S = T \cup (S \ T)
  BY FS_Subset
<1>2. IntOn(f, T) /\ IntOn(f, S \ T)
  BY DEF IntOn
<1>3. SumOver(f, S) = SumOver(f, T) + SumOver(f, S \ T)
  BY <1>1, <1>2, SumDisjoint
<1>4. SumOver(f, T) \in Int /\ SumOver(f, S \ T) \in Nat
  BY <1>1, <1>2, SumType, SumNat
<1>5. QED BY <1>3, <1>4

\* A sum of zeros is zero.
THEOREM SumZero ==
  ASSUME NEW f, NEW S, IsFiniteSet(S), \A x \in S : f[x] = 0
  PROVE  SumOver(f, S) = 0
<1> DEFINE P == {T \in SUBSET S : SumOver(f, T) = 0}
<1>1. ASSUME NEW T \in SUBSET S, \A U \in SUBSET T : U # T => U \in P
      PROVE  T \in P
  <2>1. IsFiniteSet(T)
    BY FS_Subset
  <2>2. T # {} => f[Some(T)] = 0 /\ T \ {Some(T)} \in P
    BY <1>1, SomeIn
  <2>3. SumOver(f, T) = IF T = {} THEN 0 ELSE f[Some(T)] + SumOver(f, T \ {Some(T)})
    BY <2>1, SumUnfold
  <2>4. QED BY <2>2, <2>3
<1> HIDE DEF P
<1>2. \A T \in SUBSET S : T \in P
  BY <1>1, FiniteSubsetsInduct
<1>3. S \in P
  BY <1>2
<1>4. QED BY <1>3 DEF P

====
