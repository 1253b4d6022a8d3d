----------------------------- MODULE SumTheorems -----------------------------
(***************************************************************************)
(* Facts about SumFunctionOnSet, the sum of a function over a finite set,   *)
(* that the proofs about counters use.  The library defines it by a         *)
(* recursive function on the subsets of the set; induction over the subsets *)
(* is done by taking a smallest counterexample (FewestElements).            *)
(***************************************************************************)
EXTENDS Integers, Functions, FiniteSetTheorems, WellFoundedInduction, TLAPS

LEMMA FewestElements ==
  ASSUME NEW S, IsFiniteSet(S), NEW P, P \subseteq SUBSET S, P # {}
  PROVE  \E T \in P : \A U \in P : U \subseteq T => U = T
<1> DEFINE R == StrictSubsetOrdering(S)
<1>1. IsWellFoundedOn(R, SUBSET S)
  BY FS_StrictSubsetOrderingWellFounded, FS_FiniteSubsetsOfFinite
<1>2. \A U, T \in SUBSET S : U \subseteq T /\ U # T => <<U, T>> \in R
  BY DEF StrictSubsetOrdering
<1> HIDE DEF R
<1>3. PICK T \in P : \A U \in P : ~ (<<U, T>> \in R)
  BY <1>1, WFMin
<1> QED
  BY <1>2, <1>3

(* A non-empty set of natural numbers has a smallest element.               *)
LEMMA SmallestElement ==
  ASSUME NEW T, T \subseteq Nat, T # {}
  PROVE  \E x \in T : \A y \in T : x <= y
<1> DEFINE R == OpToRel(<, Nat)
<1>1. IsWellFoundedOn(R, Nat)
  BY NatLessThanWellFounded
<1>2. \A x, y \in Nat : x < y => <<x, y>> \in R
  BY DEF OpToRel
<1> HIDE DEF R
<1>3. PICK x \in T : \A y \in T : ~ (<<y, x>> \in R)
  BY <1>1, WFMin
<1>4. \A y \in T : x <= y
  <2> TAKE y \in T
  <2>1. x \in Nat /\ y \in Nat /\ ~(y < x)
    BY <1>2, <1>3
  <2> QED
    BY <2>1
<1> QED
  BY <1>4
-----------------------------------------------------------------------------
(* The recursive function, and why it exists.                               *)
First(s) == CHOOSE x \in s : TRUE
IsSum(g, f, S) ==
  g = [s \in SUBSET S |-> IF s = {} THEN 0 ELSE f[First(s)] + g[s \ {First(s)}]]
Partial(f, S) == CHOOSE g : IsSum(g, f, S)

LEMMA SumUnfold ==
  ASSUME NEW f, NEW S
  PROVE  SumFunctionOnSet(f, S) = Partial(f, S)[S]
  BY DEF SumFunctionOnSet, FoldFunctionOnSet, MapThenFoldSet, Partial, IsSum, First

LEMMA FirstIn ==
  ASSUME NEW s, s # {}
  PROVE  First(s) \in s
  BY DEF First

LEMMA IsSumAt ==
  ASSUME NEW f, NEW S, NEW g, IsSum(g, f, S)
  PROVE  \A s \in SUBSET S : g[s] = IF s = {} THEN 0 ELSE f[First(s)] + g[s \ {First(s)}]
  BY Zenon DEF IsSum

LEMMA IsSumUnique ==
  ASSUME NEW f, NEW S, IsFiniteSet(S), NEW g, IsSum(g, f, S), NEW h, IsSum(h, f, S)
  PROVE  \A s \in SUBSET S : g[s] = h[s]
<1> DEFINE P == {s \in SUBSET S : g[s] # h[s]}
<1> SUFFICES ASSUME P # {} PROVE FALSE
  OBVIOUS
<1>1. PICK T \in P : \A U \in P : U \subseteq T => U = T
  <2>1. P \subseteq SUBSET S
    OBVIOUS
  <2> HIDE DEF P
  <2> QED
    BY <2>1, FewestElements
<1>2. CASE T = {}
  BY <1>1, <1>2, IsSumAt
<1>3. CASE T # {}
  <2>1. First(T) \in T /\ T \ {First(T)} \in SUBSET S
    BY <1>1, <1>3, FirstIn
  <2>2. g[T \ {First(T)}] = h[T \ {First(T)}]
    BY <1>1, <2>1
  <2>3. /\ g[T] = f[First(T)] + g[T \ {First(T)}]
        /\ h[T] = f[First(T)] + h[T \ {First(T)}]
    BY <1>1, <1>3, IsSumAt
  <2> QED
    BY <1>1, <2>2, <2>3
<1> QED
  BY <1>2, <1>3

LEMMA IsSumRestrict ==
  ASSUME NEW f, NEW S, NEW g, IsSum(g, f, S), NEW T \in SUBSET S
  PROVE  IsSum([s \in SUBSET T |-> g[s]], f, T)
<1> DEFINE h == [s \in SUBSET T |-> g[s]]
<1>1. ASSUME NEW s \in SUBSET T
      PROVE  h[s] = IF s = {} THEN 0 ELSE f[First(s)] + h[s \ {First(s)}]
  <2>1. s \in SUBSET S /\ s \ {First(s)} \in SUBSET T
    OBVIOUS
  <2>2. h[s] = g[s] /\ h[s \ {First(s)}] = g[s \ {First(s)}]
    BY <2>1
  <2> HIDE DEF h
  <2> QED
    BY <2>1, <2>2, IsSumAt
<1>2. h = [s \in SUBSET T |-> h[s]]
  OBVIOUS
<1> HIDE DEF h
<1>3. h = [s \in SUBSET T |-> IF s = {} THEN 0 ELSE f[First(s)] + h[s \ {First(s)}]]
  BY <1>1, <1>2
<1> QED
  BY <1>3 DEF IsSum, h

LEMMA IsSumPartial ==
  ASSUME NEW f, NEW S, IsFiniteSet(S), NEW g, IsSum(g, f, S), NEW T \in SUBSET S
  PROVE  g[T] = Partial(f, T)[T] /\ IsSum(Partial(f, T), f, T)
<1>1. IsSum([s \in SUBSET T |-> g[s]], f, T)
  BY IsSumRestrict
<1>2. IsSum(Partial(f, T), f, T)
  BY <1>1, Zenon DEF Partial
<1>3. IsFiniteSet(T)
  BY FS_Subset
<1>4. [s \in SUBSET T |-> g[s]][T] = Partial(f, T)[T]
  BY <1>1, <1>2, <1>3, IsSumUnique
<1> QED
  BY <1>2, <1>4

LEMMA IsSumExists ==
  ASSUME NEW f, NEW S, IsFiniteSet(S)
  PROVE  \E g : IsSum(g, f, S)
<1> DEFINE P == {T \in SUBSET S : ~ \E g : IsSum(g, f, T)}
<1> SUFFICES ASSUME P # {} PROVE FALSE
  OBVIOUS
<1>1. PICK T \in P : \A U \in P : U \subseteq T => U = T
  <2>1. P \subseteq SUBSET S
    OBVIOUS
  <2> HIDE DEF P
  <2> QED
    BY <2>1, FewestElements
<1>2. \A U \in SUBSET T : U # T => \E g : IsSum(g, f, U)
  BY <1>1
<1>3. \A U \in SUBSET T : U # T => IsSum(Partial(f, U), f, U)
  BY <1>2, Zenon DEF Partial
<1> DEFINE val(U) == Partial(f, U)[U]
           h == [U \in SUBSET T |-> IF U = {} THEN 0 ELSE f[First(U)] + val(U \ {First(U)})]
<1>4. \A U \in SUBSET T : U # T => h[U] = val(U)
  <2> SUFFICES ASSUME NEW U \in SUBSET T, U # T PROVE h[U] = val(U)
    OBVIOUS
  <2>1. IsSum(Partial(f, U), f, U) /\ IsFiniteSet(U)
    BY <1>1, <1>3, FS_Subset
  <2>2. CASE U = {}
    BY <2>1, <2>2, IsSumAt
  <2>3. CASE U # {}
    <3>1. val(U) = f[First(U)] + Partial(f, U)[U \ {First(U)}]
      BY <2>1, <2>3, IsSumAt
    <3>2. Partial(f, U)[U \ {First(U)}] = val(U \ {First(U)})
      BY <2>1, IsSumPartial
    <3> QED
      BY <2>3, <3>1, <3>2
  <2> QED
    BY <2>2, <2>3
<1>5. \A U \in SUBSET T : h[U] = IF U = {} THEN 0 ELSE f[First(U)] + h[U \ {First(U)}]
  <2> SUFFICES ASSUME NEW U \in SUBSET T, U # {}
               PROVE  h[U] = f[First(U)] + h[U \ {First(U)}]
    OBVIOUS
  <2>1. U \ {First(U)} \in SUBSET T /\ U \ {First(U)} # T
    BY FirstIn
  <2>2. h[U \ {First(U)}] = val(U \ {First(U)})
    BY <1>4, <2>1
  <2>3. h[U] = f[First(U)] + val(U \ {First(U)})
    OBVIOUS
  <2> QED
    BY <2>2, <2>3
<1>6. h = [U \in SUBSET T |-> h[U]]
  OBVIOUS
<1> HIDE DEF h
<1>7. h = [U \in SUBSET T |-> IF U = {} THEN 0 ELSE f[First(U)] + h[U \ {First(U)}]]
  BY <1>5, <1>6
<1>8. IsSum(h, f, T)
  BY <1>7 DEF IsSum
<1> QED
  BY <1>1, <1>8
-----------------------------------------------------------------------------
(* The two equations of the sum.                                            *)
THEOREM SumEmpty == \A f : SumFunctionOnSet(f, {}) = 0
<1> SUFFICES ASSUME NEW f PROVE SumFunctionOnSet(f, {}) = 0
  OBVIOUS
<1>1. PICK g : IsSum(g, f, {})
  BY IsSumExists, FS_EmptySet
<1>2. IsSum(Partial(f, {}), f, {})
  BY <1>1, Zenon DEF Partial
<1> QED
  BY <1>2, IsSumAt, SumUnfold

THEOREM SumFirst ==
  ASSUME NEW f, NEW S, IsFiniteSet(S), S # {}
  PROVE  /\ First(S) \in S
         /\ SumFunctionOnSet(f, S) = f[First(S)] + SumFunctionOnSet(f, S \ {First(S)})
<1>1. IsSum(Partial(f, S), f, S)
  BY IsSumExists, Zenon DEF Partial
<1>2. Partial(f, S)[S] = f[First(S)] + Partial(f, S)[S \ {First(S)}]
  BY <1>1, IsSumAt
<1>3. ASSUME NEW T \in SUBSET S PROVE Partial(f, S)[T] = Partial(f, T)[T]
  <2> DEFINE g == Partial(f, S)
  <2>1. IsSum(g, f, S)
    BY <1>1
  <2> HIDE DEF g
  <2>2. g[T] = Partial(f, T)[T]
    BY <2>1, IsSumPartial
  <2> QED
    BY <2>2 DEF g
<1> QED
  BY <1>2, <1>3, SumUnfold, FirstIn

-----------------------------------------------------------------------------
THEOREM SumType ==
  ASSUME NEW f, NEW S, IsFiniteSet(S), \A x \in S : f[x] \in Int
  PROVE  SumFunctionOnSet(f, S) \in Int
<1> DEFINE P == {T \in SUBSET S : SumFunctionOnSet(f, T) \notin Int}
<1> SUFFICES ASSUME P # {} PROVE FALSE
  OBVIOUS
<1>1. PICK T \in P : \A U \in P : U \subseteq T => U = T
  <2>1. P \subseteq SUBSET S
    OBVIOUS
  <2> HIDE DEF P
  <2> QED
    BY <2>1, FewestElements
<1>2. IsFiniteSet(T)
  BY <1>1, FS_Subset
<1>3. CASE T = {}
  BY <1>1, <1>3, SumEmpty
<1>4. CASE T # {}
  <2>1. /\ First(T) \in T
        /\ SumFunctionOnSet(f, T) = f[First(T)] + SumFunctionOnSet(f, T \ {First(T)})
    BY <1>2, <1>4, SumFirst
  <2>2. SumFunctionOnSet(f, T \ {First(T)}) \in Int
    BY <1>1, <2>1
  <2> QED
    BY <1>1, <2>1, <2>2
<1> QED
  BY <1>3, <1>4

(* A sum grows with its terms.                                              *)
THEOREM SumMonotone ==
  ASSUME NEW f, NEW g, NEW S, IsFiniteSet(S),
         \A x \in S : f[x] \in Int /\ g[x] \in Int /\ f[x] <= g[x]
  PROVE  SumFunctionOnSet(f, S) <= SumFunctionOnSet(g, S)
<1> DEFINE P == {T \in SUBSET S : ~(SumFunctionOnSet(f, T) <= SumFunctionOnSet(g, T))}
<1> SUFFICES ASSUME P # {} PROVE FALSE
  OBVIOUS
<1>1. PICK T \in P : \A U \in P : U \subseteq T => U = T
  <2>1. P \subseteq SUBSET S
    OBVIOUS
  <2> HIDE DEF P
  <2> QED
    BY <2>1, FewestElements
<1>2. IsFiniteSet(T)
  BY <1>1, FS_Subset
<1>3. CASE T = {}
  BY <1>1, <1>3, SumEmpty
<1>4. CASE T # {}
  <2> DEFINE x == First(T)
             a == SumFunctionOnSet(f, T \ {x})
             b == SumFunctionOnSet(g, T \ {x})
  <2>1. x \in T /\ SumFunctionOnSet(f, T) = f[x] + a /\ SumFunctionOnSet(g, T) = g[x] + b
    BY <1>2, <1>4, SumFirst
  <2>2. a <= b
    BY <1>1, <2>1
  <2>3. a \in Int /\ b \in Int
    BY <1>1, <1>2, SumType, FS_Subset
  <2>4. f[x] \in Int /\ g[x] \in Int /\ f[x] <= g[x]
    BY <1>1, <2>1
  <2> HIDE DEF x, a, b
  <2>5. f[x] + a <= g[x] + b
    BY <2>2, <2>3, <2>4
  <2> QED
    BY <1>1, <2>1, <2>5
<1> QED
  BY <1>3, <1>4

(* It depends on the terms of the set only.                                 *)
THEOREM SumSame ==
  ASSUME NEW f, NEW g, NEW S, IsFiniteSet(S), \A x \in S : f[x] = g[x]
  PROVE  SumFunctionOnSet(f, S) = SumFunctionOnSet(g, S)
<1> DEFINE P == {T \in SUBSET S : SumFunctionOnSet(f, T) # SumFunctionOnSet(g, T)}
<1> SUFFICES ASSUME P # {} PROVE FALSE
  OBVIOUS
<1>1. PICK T \in P : \A U \in P : U \subseteq T => U = T
  <2>1. P \subseteq SUBSET S
    OBVIOUS
  <2> HIDE DEF P
  <2> QED
    BY <2>1, FewestElements
<1>2. IsFiniteSet(T)
  BY <1>1, FS_Subset
<1>3. CASE T = {}
  BY <1>1, <1>3, SumEmpty
<1>4. CASE T # {}
  <2>1. /\ First(T) \in T
        /\ SumFunctionOnSet(f, T) = f[First(T)] + SumFunctionOnSet(f, T \ {First(T)})
        /\ SumFunctionOnSet(g, T) = g[First(T)] + SumFunctionOnSet(g, T \ {First(T)})
    BY <1>2, <1>4, SumFirst
  <2>2. SumFunctionOnSet(f, T \ {First(T)}) = SumFunctionOnSet(g, T \ {First(T)})
    BY <1>1, <2>1
  <2> QED
    BY <1>1, <2>1, <2>2
<1> QED
  BY <1>3, <1>4

(* The order in which the terms are added does not matter: any of them can  *)
(* be taken out of the sum.                                                 *)
THEOREM SumRemove ==
  ASSUME NEW f, NEW S, IsFiniteSet(S), \A x \in S : f[x] \in Int, NEW y \in S
  PROVE  SumFunctionOnSet(f, S) = f[y] + SumFunctionOnSet(f, S \ {y})
<1> DEFINE P == {T \in SUBSET S :
                   \E z \in T : SumFunctionOnSet(f, T) # f[z] + SumFunctionOnSet(f, T \ {z})}
<1> SUFFICES ASSUME P # {} PROVE FALSE
  OBVIOUS
<1>1. PICK T \in P : \A U \in P : U \subseteq T => U = T
  <2>1. P \subseteq SUBSET S
    OBVIOUS
  <2> HIDE DEF P
  <2> QED
    BY <2>1, FewestElements
<1>2. PICK z \in T : SumFunctionOnSet(f, T) # f[z] + SumFunctionOnSet(f, T \ {z})
  BY <1>1
<1>3. \A U \in SUBSET T : U # T =>
        \A v \in U : SumFunctionOnSet(f, U) = f[v] + SumFunctionOnSet(f, U \ {v})
  BY <1>1
<1>4. \A U \in SUBSET T : IsFiniteSet(U) /\ SumFunctionOnSet(f, U) \in Int
  BY <1>1, FS_Subset, SumType
<1> DEFINE x == First(T)
<1>5. x \in T /\ SumFunctionOnSet(f, T) = f[x] + SumFunctionOnSet(f, T \ {x})
  BY <1>2, <1>4, SumFirst
<1>5a. x \in S /\ z \in S
  BY <1>1, <1>2, <1>5
<1> HIDE DEF x, P
<1>6. x # z
  BY <1>2, <1>5
<1> DEFINE rest == SumFunctionOnSet(f, T \ {x, z})
<1>7. SumFunctionOnSet(f, T \ {x}) = f[z] + rest
  <2>1. (T \ {x}) \ {z} = T \ {x, z} /\ z \in T \ {x} /\ T \ {x} # T
    BY <1>5, <1>6
  <2> QED
    BY <1>3, <2>1
<1>8. SumFunctionOnSet(f, T \ {z}) = f[x] + rest
  <2>1. (T \ {z}) \ {x} = T \ {x, z} /\ x \in T \ {z} /\ T \ {z} # T
    BY <1>5, <1>6
  <2> QED
    BY <1>3, <2>1
<1>9. rest \in Int /\ f[x] \in Int /\ f[z] \in Int
  <2>1. T \ {x, z} \in SUBSET T
    OBVIOUS
  <2>2. rest \in Int
    BY <1>4, <2>1
  <2> QED
    BY <1>5a, <2>2
<1> HIDE DEF rest
<1>10. f[x] + (f[z] + rest) = f[z] + (f[x] + rest)
  BY <1>9
<1> QED
  BY <1>2, <1>5, <1>7, <1>8, <1>10

THEOREM SumAdd ==
  ASSUME NEW f, NEW S, IsFiniteSet(S), NEW y, y \notin S, \A x \in S \cup {y} : f[x] \in Int
  PROVE  SumFunctionOnSet(f, S \cup {y}) = f[y] + SumFunctionOnSet(f, S)
<1>1. IsFiniteSet(S \cup {y}) /\ (S \cup {y}) \ {y} = S
  BY FS_AddElement
<1> QED
  BY <1>1, SumRemove

(* Changing one term changes the sum by as much.                            *)
THEOREM SumChange ==
  ASSUME NEW f, NEW g, NEW S, IsFiniteSet(S), \A x \in S : f[x] \in Int /\ g[x] \in Int,
         NEW y \in S, \A x \in S : x # y => g[x] = f[x]
  PROVE  SumFunctionOnSet(g, S) = SumFunctionOnSet(f, S) + g[y] - f[y]
<1> DEFINE rest == SumFunctionOnSet(f, S \ {y})
<1>1. SumFunctionOnSet(f, S) = f[y] + rest
  BY SumRemove
<1>2. SumFunctionOnSet(g, S) = g[y] + SumFunctionOnSet(g, S \ {y})
  BY SumRemove
<1>3. SumFunctionOnSet(g, S \ {y}) = rest
  BY SumSame, FS_Subset
<1>4. rest \in Int
  BY SumType, FS_Subset
<1> HIDE DEF rest
<1> QED
  BY <1>1, <1>2, <1>3, <1>4

(* The sum of nothing but zeros, and of no negative terms.                  *)
THEOREM SumZero ==
  ASSUME NEW f, NEW S, IsFiniteSet(S), \A x \in S : f[x] = 0
  PROVE  SumFunctionOnSet(f, S) = 0
<1> DEFINE P == {T \in SUBSET S : SumFunctionOnSet(f, T) # 0}
<1> SUFFICES ASSUME P # {} PROVE FALSE
  OBVIOUS
<1>1. PICK T \in P : \A U \in P : U \subseteq T => U = T
  <2>1. P \subseteq SUBSET S
    OBVIOUS
  <2> HIDE DEF P
  <2> QED
    BY <2>1, FewestElements
<1>2. IsFiniteSet(T)
  BY <1>1, FS_Subset
<1>3. CASE T = {}
  BY <1>1, <1>3, SumEmpty
<1>4. CASE T # {}
  <2>1. /\ First(T) \in T
        /\ SumFunctionOnSet(f, T) = f[First(T)] + SumFunctionOnSet(f, T \ {First(T)})
    BY <1>2, <1>4, SumFirst
  <2>2. SumFunctionOnSet(f, T \ {First(T)}) = 0 /\ f[First(T)] = 0
    BY <1>1, <2>1
  <2> QED
    BY <1>1, <2>1, <2>2
<1> QED
  BY <1>3, <1>4

THEOREM SumNat ==
  ASSUME NEW f, NEW S, IsFiniteSet(S), \A x \in S : f[x] \in Nat
  PROVE  SumFunctionOnSet(f, S) \in Nat
<1> DEFINE zero == [x \in S |-> 0]
<1>1. SumFunctionOnSet(zero, S) = 0
  BY SumZero
<1>2. SumFunctionOnSet(zero, S) <= SumFunctionOnSet(f, S)
  BY SumMonotone
<1>3. SumFunctionOnSet(f, S) \in Int
  BY SumType
<1> QED
  BY <1>1, <1>2, <1>3

(* The terms of two functions are added one by one or sum by sum.           *)
AddsUp(h, f, g, S) == \A x \in S : f[x] \in Int /\ g[x] \in Int /\ h[x] = f[x] + g[x]

THEOREM SumPlus ==
  ASSUME NEW f, NEW g, NEW h, NEW S, IsFiniteSet(S), AddsUp(h, f, g, S)
  PROVE  SumFunctionOnSet(h, S) = SumFunctionOnSet(f, S) + SumFunctionOnSet(g, S)
<1> DEFINE P == {T \in SUBSET S : SumFunctionOnSet(h, T)
                                   # SumFunctionOnSet(f, T) + SumFunctionOnSet(g, T)}
<1> SUFFICES ASSUME P # {} PROVE FALSE
  OBVIOUS
<1>1. PICK T \in P : \A U \in P : U \subseteq T => U = T
  <2>1. P \subseteq SUBSET S
    OBVIOUS
  <2> HIDE DEF P
  <2> QED
    BY <2>1, FewestElements
<1>2. IsFiniteSet(T)
  BY <1>1, FS_Subset
<1>3. CASE T = {}
  BY <1>1, <1>3, SumEmpty
<1>4. CASE T # {}
  <2> DEFINE x == First(T)
             a == SumFunctionOnSet(f, T \ {x})
             b == SumFunctionOnSet(g, T \ {x})
  <2>1. x \in T /\ SumFunctionOnSet(f, T) = f[x] + a /\ SumFunctionOnSet(g, T) = g[x] + b
        /\ SumFunctionOnSet(h, T) = h[x] + SumFunctionOnSet(h, T \ {x})
    BY <1>2, <1>4, SumFirst
  <2>2. SumFunctionOnSet(h, T \ {x}) = a + b
    BY <1>1, <2>1
  <2>3. a \in Int /\ b \in Int
    BY <1>1, <1>2, SumType, FS_Subset DEF AddsUp
  <2>4. f[x] \in Int /\ g[x] \in Int /\ h[x] = f[x] + g[x]
    BY <1>1, <2>1 DEF AddsUp
  <2> HIDE DEF x, a, b
  <2>5. h[x] + (a + b) = (f[x] + a) + (g[x] + b)
    BY <2>3, <2>4
  <2> QED
    BY <1>1, <2>1, <2>2, <2>5
<1> QED
  BY <1>3, <1>4

(* A sum over more elements, of terms as large at least, is as large at     *)
(* least; terms that are zero can be left out.                              *)
THEOREM SumWithin ==
  ASSUME NEW f, NEW g, NEW S, NEW A, NEW B, IsFiniteSet(S), A \subseteq S, B \subseteq S,
         \A x \in A : f[x] \in Nat, \A x \in B : g[x] \in Nat,
         \A x \in A : f[x] # 0 => x \in B /\ f[x] <= g[x]
  PROVE  SumFunctionOnSet(f, A) <= SumFunctionOnSet(g, B)
<1> DEFINE F(V) == SumFunctionOnSet(f, V \cap A)
           G(V) == SumFunctionOnSet(g, V \cap B)
           P == {V \in SUBSET S : ~(F(V) <= G(V))}
<1>1. F(S) = SumFunctionOnSet(f, A) /\ G(S) = SumFunctionOnSet(g, B)
  <2>1. S \cap A = A /\ S \cap B = B
    OBVIOUS
  <2> QED
    BY <2>1
<1> SUFFICES ASSUME P # {} PROVE FALSE
  BY <1>1
<1>2. PICK V \in P : \A U \in P : U \subseteq V => U = V
  <2>1. P \subseteq SUBSET S
    OBVIOUS
  <2> HIDE DEF P
  <2> QED
    BY <2>1, FewestElements
<1>3. IsFiniteSet(V) /\ V \subseteq S
  BY <1>2, FS_Subset
<1>4. ~(F(V) <= G(V))
  BY <1>2
<1>5. V # {}
  <2>1. F({}) = 0 /\ G({}) = 0
    <3>1. {} \cap A = {} /\ {} \cap B = {}
      OBVIOUS
    <3> QED
      BY <3>1, SumEmpty
  <2> HIDE DEF F, G
  <2> QED
    BY <1>4, <2>1
<1>6. PICK x \in V : TRUE
  BY <1>5
<1> DEFINE a == F(V \ {x})
           b == G(V \ {x})
           n == F(V)
           m == G(V)
           fx == f[x]
           gx == g[x]
<1>7. a <= b
  <2>1. V \ {x} \in SUBSET S /\ V \ {x} \subseteq V /\ V \ {x} # V
    BY <1>3, <1>6
  <2>2. V \ {x} \notin P
    <3> HIDE DEF P
    <3> QED
      BY <1>2, <2>1
  <2> HIDE DEF F, G
  <2> QED
    BY <2>1, <2>2
<1>8. IsFiniteSet(V \cap A) /\ IsFiniteSet(V \cap B)
  BY <1>3, FS_Subset
<1>9. a \in Int /\ b \in Int
  <2>1. IsFiniteSet((V \ {x}) \cap A) /\ IsFiniteSet((V \ {x}) \cap B)
    BY <1>3, FS_Subset
  <2>2. /\ \A y \in (V \ {x}) \cap A : f[y] \in Int
        /\ \A y \in (V \ {x}) \cap B : g[y] \in Int
    OBVIOUS
  <2> QED
    BY <2>1, <2>2, SumType
<1>10. /\ x \in A => n = fx + a
       /\ x \notin A => n = a
  <2>1. (V \cap A) \ {x} = (V \ {x}) \cap A
    OBVIOUS
  <2>2. ASSUME x \in A PROVE n = fx + a
    <3>1. x \in V \cap A /\ \A y \in V \cap A : f[y] \in Int
      BY <1>6, <2>2
    <3> QED
      BY <1>8, <2>1, <3>1, SumRemove
  <2>3. ASSUME x \notin A PROVE n = a
    <3>1. (V \ {x}) \cap A = V \cap A
      BY <2>3
    <3> QED
      BY <3>1
  <2> QED
    BY <2>2, <2>3
<1>11. /\ x \in B => m = gx + b
       /\ x \notin B => m = b
  <2>1. (V \cap B) \ {x} = (V \ {x}) \cap B
    OBVIOUS
  <2>2. ASSUME x \in B PROVE m = gx + b
    <3>1. x \in V \cap B /\ \A y \in V \cap B : g[y] \in Int
      BY <1>6, <2>2
    <3> QED
      BY <1>8, <2>1, <3>1, SumRemove
  <2>3. ASSUME x \notin B PROVE m = b
    <3>1. (V \ {x}) \cap B = V \cap B
      BY <2>3
    <3> QED
      BY <3>1
  <2> QED
    BY <2>2, <2>3
<1>12. /\ x \in A => fx \in Nat /\ (fx # 0 => x \in B /\ fx <= gx)
       /\ x \in B => gx \in Nat
  OBVIOUS
<1>13. ~(n <= m)
  BY <1>4
<1> HIDE DEF n, m, fx, gx, a, b
<1> QED
  BY <1>7, <1>9, <1>10, <1>11, <1>12, <1>13
=============================================================================
