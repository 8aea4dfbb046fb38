---------------------------- MODULE CreditsProofs ----------------------------
(***************************************************************************)
(* What the steps of the credit engine preserve, for any users, bundles,   *)
(* spends, instances and bounds: first the arithmetic of the ledger (sums  *)
(* of amounts, and what the FIFO loop leaves in each bundle), then the     *)
(* invariants of CreditHistory.                                            *)
(***************************************************************************)
EXTENDS CreditHistory, FiniteSetTheorems, SequenceTheorems, WellFoundedInduction, TLAPS

-----------------------------------------------------------------------------
(* Folds over a finite set.                                                *)

LEMMA HasLeast ==
    ASSUME NEW T, T \subseteq Nat, T # {}
    PROVE  \E x \in T : \A y \in T : x <= y
<1>1. PICK R : IsWellFoundedOn(R, Nat) /\ \A x, y \in Nat : y < x => <<y, x>> \in R
  <2>1. \A x, y \in Nat : y < x => <<y, x>> \in OpToRel(<, Nat)
    BY DEF OpToRel
  <2> QED
    BY <2>1, NatLessThanWellFounded
<1>2. PICK x \in T : \A y \in T : ~(<<y, x>> \in R)
  BY <1>1, WFMin, Zenon
<1>3. \A y \in T : ~(y < x)
  BY <1>1, <1>2
<1> QED
  BY <1>3

\* The element a fold takes first.
First(S) == CHOOSE x \in S : TRUE

\* Removing an element makes a finite set smaller.
LEMMA Smaller ==
    ASSUME NEW S, IsFiniteSet(S), NEW x \in S
    PROVE  /\ IsFiniteSet(S \ {x}) /\ Cardinality(S) \in Nat /\ Cardinality(S) # 0
           /\ Cardinality(S \ {x}) = Cardinality(S) - 1
<1>1. IsFiniteSet(S \ {x}) /\ Cardinality(S \ {x}) = Cardinality(S) - 1
  BY FS_RemoveElement
<1>2. Cardinality(S) \in Nat /\ Cardinality(S \ {x}) \in Nat
  BY <1>1, FS_CardinalityType
<1> QED
  BY <1>1, <1>2

\* g computes the fold of G over every subset of S.
Folds2(g, S, f, G, base) ==
    /\ g \in [SUBSET S -> Nat]
    /\ g[{}] = base
    /\ \A T \in SUBSET S : T # {} => g[T] = G[<<f[First(T)], g[T \ {First(T)}]>>]

LEMMA FoldExists ==
    ASSUME NEW S, IsFiniteSet(S), NEW f, \A x \in S : f[x] \in Nat,
           NEW G, G \in [Nat \X Nat -> Nat], NEW base \in Nat
    PROVE  \E g : Folds2(g, S, f, G, base)
<1> DEFINE Good(n, g) == /\ g \in [SUBSET S -> Nat]
                         /\ g[{}] = base
                         /\ \A T \in SUBSET S : T # {} /\ Cardinality(T) <= n
                               => g[T] = G[<<f[First(T)], g[T \ {First(T)}]>>]
           Bad == {n \in Nat : ~ \E g : Good(n, g)}
<1>1. ASSUME NEW T \in SUBSET S, T # {}
      PROVE  /\ First(T) \in T /\ T \ {First(T)} \in SUBSET S
             /\ Cardinality(T) \in Nat /\ Cardinality(T) # 0
             /\ Cardinality(T \ {First(T)}) = Cardinality(T) - 1
  <2>1. First(T) \in T
    BY <1>1 DEF First
  <2>2. IsFiniteSet(T)
    BY FS_Subset
  <2>3. PICK x : x = First(T)
    OBVIOUS
  <2> QED
    BY <2>1, <2>2, <2>3, Smaller
<1>2. Bad = {}
  <2> SUFFICES ASSUME Bad # {} PROVE FALSE
    OBVIOUS
  <2>1. PICK n \in Bad : \A m \in Bad : n <= m
    <3>1. Bad \subseteq Nat
      OBVIOUS
    <3> HIDE DEF Bad
    <3> QED
      BY <3>1, HasLeast
  <2>2. CASE n = 0
    <3> DEFINE g == [T \in SUBSET S |-> base]
    <3>1. Good(0, g)
      <4>1. ASSUME NEW T \in SUBSET S, T # {} PROVE ~(Cardinality(T) <= 0)
        <5>1. Cardinality(T) \in Nat /\ Cardinality(T) # 0
          BY <1>1, <4>1
        <5> QED
          BY <5>1
      <4>2. g \in [SUBSET S -> Nat] /\ g[{}] = base
        OBVIOUS
      <4> QED
        BY <4>1, <4>2
    <3> QED
      BY <3>1, <2>1, <2>2
  <2>3. CASE n # 0
    <3>1. n - 1 \in Nat /\ n - 1 \notin Bad
      <4>1. n \in Nat
        BY <2>1
      <4> HIDE DEF Bad
      <4> QED
        BY <2>1, <2>3, <4>1
    <3>2. PICK g : Good(n - 1, g)
      BY <3>1
    <3> DEFINE h == [T \in SUBSET S |-> IF T = {} \/ Cardinality(T) <= n - 1 THEN g[T]
                                        ELSE G[<<f[First(T)], g[T \ {First(T)}]>>]]
    <3>3. h \in [SUBSET S -> Nat]
      <4>1. ASSUME NEW T \in SUBSET S, T # {}
            PROVE  G[<<f[First(T)], g[T \ {First(T)}]>>] \in Nat
        <5>1. f[First(T)] \in Nat /\ g[T \ {First(T)}] \in Nat
          BY <1>1, <3>2, <4>1
        <5> QED
          BY <5>1
      <4>2. \A T \in SUBSET S : g[T] \in Nat
        BY <3>2
      <4> QED
        BY <4>1, <4>2
    <3>4. h[{}] = base
      BY <3>2
    <3>5. ASSUME NEW T \in SUBSET S, T # {}, Cardinality(T) <= n
          PROVE  h[T] = G[<<f[First(T)], h[T \ {First(T)}]>>]
      <4>1. T \ {First(T)} \in SUBSET S /\ Cardinality(T \ {First(T)}) <= n - 1
        BY <1>1, <3>5
      <4>2. h[T \ {First(T)}] = g[T \ {First(T)}]
        BY <4>1
      <4>3. h[T] = G[<<f[First(T)], g[T \ {First(T)}]>>]
        BY <3>2, <3>5
      <4> QED
        BY <4>2, <4>3
    <3>6. Good(n, h)
      BY <3>3, <3>4, <3>5
    <3> HIDE DEF h
    <3> QED
      BY <3>6, <2>1
  <2> QED
    BY <2>2, <2>3
<1>3. Cardinality(S) \in Nat
  BY FS_CardinalityType
<1>4. PICK g : Good(Cardinality(S), g)
  BY <1>2, <1>3
<1>5. ASSUME NEW T \in SUBSET S PROVE Cardinality(T) <= Cardinality(S)
  BY FS_Subset
<1> QED
  BY <1>4, <1>5 DEF Folds2

\* Induction over the subsets of a finite set.
LEMMA SetInduction ==
    ASSUME NEW S, IsFiniteSet(S), NEW Good,
           \A T \in SUBSET S : (\A U \in SUBSET T : U # T => U \in Good) => T \in Good
    PROVE  \A T \in SUBSET S : T \in Good
<1> DEFINE Bad == {Cardinality(U) : U \in (SUBSET S) \ Good}
<1>1. ASSUME NEW U \in SUBSET S PROVE IsFiniteSet(U) /\ Cardinality(U) \in Nat
  BY FS_Subset, FS_CardinalityType
<1>2. Bad = {}
  <2> SUFFICES ASSUME Bad # {} PROVE FALSE
    OBVIOUS
  <2>1. PICK n \in Bad : \A m \in Bad : n <= m
    <3>1. Bad \subseteq Nat
      BY <1>1
    <3> HIDE DEF Bad
    <3> QED
      BY <3>1, HasLeast
  <2>2. PICK T \in SUBSET S : T \notin Good /\ Cardinality(T) = n
    BY <2>1
  <2>3. ASSUME NEW U \in SUBSET T, U # T PROVE U \in Good
    <3>1. IsFiniteSet(T) /\ Cardinality(T) \in Nat /\ Cardinality(U) \in Nat /\ U \in SUBSET S
      BY <1>1
    <3>2. Cardinality(U) < Cardinality(T)
      BY <2>3, <3>1, FS_Subset
    <3>3. Cardinality(U) \notin Bad
      BY <2>1, <2>2, <3>1, <3>2
    <3> QED
      BY <3>1, <3>3
  <2> QED
    BY <2>2, <2>3
<1> QED
  BY <1>2

\* Two functions of the subsets of S agree when they agree on {} and on a set
\* whenever they do on that set without its first element.
LEMMA SameByRemoval ==
    ASSUME NEW S, IsFiniteSet(S), NEW g, NEW h, g[{}] = h[{}],
           \A T \in SUBSET S : T # {} /\ g[T \ {First(T)}] = h[T \ {First(T)}] => g[T] = h[T]
    PROVE  \A T \in SUBSET S : g[T] = h[T]
<1> DEFINE Good == {T \in SUBSET S : g[T] = h[T]}
<1>1. ASSUME NEW T \in SUBSET S, \A U \in SUBSET T : U # T => U \in Good
      PROVE  T \in Good
  <2>1. CASE T = {}
    BY <2>1
  <2>2. CASE T # {}
    <3>1. First(T) \in T
      BY <2>2 DEF First
    <3>2. T \ {First(T)} \in Good
      BY <1>1, <3>1
    <3> QED
      BY <2>2, <3>2
  <2> QED
    BY <2>1, <2>2
<1>2. \A T \in SUBSET S : T \in Good
  <2> HIDE DEF Good
  <2> QED
    BY <1>1, SetInduction
<1> QED
  BY <1>2

\* There is one fold: where two of them are defined they agree.
LEMMA FoldUnique ==
    ASSUME NEW S, IsFiniteSet(S), NEW T \in SUBSET S, NEW f, NEW G, NEW base,
           NEW g, Folds2(g, S, f, G, base), NEW h, Folds2(h, T, f, G, base)
    PROVE  \A U \in SUBSET T : g[U] = h[U]
<1>1. IsFiniteSet(T)
  BY FS_Subset
<1>2. g[{}] = h[{}]
  BY DEF Folds2
<1>3. ASSUME NEW U \in SUBSET T, U # {}, g[U \ {First(U)}] = h[U \ {First(U)}]
      PROVE  g[U] = h[U]
  BY <1>3 DEF Folds2
<1> QED
  BY <1>1, <1>2, <1>3, SameByRemoval

SumOf   == [p \in Nat \X Nat |-> p[1] + p[2]]
DrainOf == [p \in Nat \X Nat |-> p[2] - Min({p[2], p[1]})]

LEMMA MinOfTwo ==
    ASSUME NEW a \in Nat, NEW b \in Nat
    PROVE  Min({a, b}) = IF a <= b THEN a ELSE b
<1>1. ASSUME NEW m \in {a, b}, \A y \in {a, b} : m =< y
      PROVE  m = IF a <= b THEN a ELSE b
  BY <1>1
<1>2. \E m \in {a, b} : \A y \in {a, b} : m =< y
  OBVIOUS
<1> QED
  BY <1>1, <1>2 DEF Min

LEMMA FoldTypes == SumOf \in [Nat \X Nat -> Nat] /\ DrainOf \in [Nat \X Nat -> Nat]
<1>1. ASSUME NEW a \in Nat, NEW b \in Nat PROVE b - Min({b, a}) \in Nat
  BY MinOfTwo
<1>2. ASSUME NEW p \in Nat \X Nat PROVE p[2] - Min({p[2], p[1]}) \in Nat
  <2>1. PICK a \in Nat, b \in Nat : p = <<a, b>>
    OBVIOUS
  <2>2. p[1] = a /\ p[2] = b
    BY <2>1
  <2> QED
    BY <1>1, <2>2
<1>3. SumOf \in [Nat \X Nat -> Nat]
  BY DEF SumOf
<1> QED
  BY <1>2, <1>3 DEF DrainOf

LEMMA SumIsFold ==
    ASSUME NEW S, IsFiniteSet(S), NEW f, \A x \in S : f[x] \in Nat
    PROVE  \E g : Folds2(g, S, f, SumOf, 0) /\ SumFunctionOnSet(f, S) = g[S]
<1> DEFINE Step(g, T) == IF T = {} THEN 0
                         ELSE f[CHOOSE x \in T : TRUE] + g[T \ {CHOOSE x \in T : TRUE}]
           iter == CHOOSE g : g = [T \in SUBSET S |-> Step(g, T)]
<1>1. PICK g : Folds2(g, S, f, SumOf, 0)
  BY FoldExists, FoldTypes
<1>2. ASSUME NEW T \in SUBSET S, T # {}, NEW h, h \in [SUBSET S -> Nat]
      PROVE  SumOf[<<f[First(T)], h[T \ {First(T)}]>>] = Step(h, T)
  <2>1. First(T) \in T /\ T \ {First(T)} \in SUBSET S
    BY <1>2 DEF First
  <2>2. f[First(T)] \in Nat /\ h[T \ {First(T)}] \in Nat
    BY <1>2, <2>1
  <2>3. SumOf[<<f[First(T)], h[T \ {First(T)}]>>] = f[First(T)] + h[T \ {First(T)}]
    BY <2>2 DEF SumOf
  <2> QED
    BY <1>2, <2>3 DEF First
<1>3. g = [T \in SUBSET S |-> Step(g, T)]
  <2>1. \A T \in SUBSET S : g[T] = Step(g, T)
    BY <1>1, <1>2 DEF Folds2
  <2> HIDE DEF Step
  <2> QED
    BY <1>1, <2>1 DEF Folds2
<1>4. iter = [T \in SUBSET S |-> Step(iter, T)]
  BY <1>3
<1>5. \A T \in SUBSET S : iter[T] = Step(iter, T) /\ g[T] = Step(g, T)
  <2> HIDE DEF Step, iter
  <2> QED
    BY <1>3, <1>4
<1>6. \A T \in SUBSET S : iter[T] = g[T]
  <2>1. iter[{}] = g[{}]
    BY <1>5
  <2>2. ASSUME NEW T \in SUBSET S, T # {}, iter[T \ {First(T)}] = g[T \ {First(T)}]
        PROVE  iter[T] = g[T]
    <3> HIDE DEF iter
    <3> QED
      BY <1>5, <2>2 DEF First
  <2> HIDE DEF iter
  <2> QED
    BY <2>1, <2>2, SameByRemoval
<1>7. iter[S] = g[S]
  BY <1>6
<1> QED
  BY <1>1, <1>7 DEF SumFunctionOnSet, FoldFunctionOnSet, MapThenFoldSet

LEMMA SumEmpty == ASSUME NEW f PROVE SumFunctionOnSet(f, {}) = 0
<1>1. IsFiniteSet({})
  BY FS_EmptySet
<1>2. PICK g : Folds2(g, {}, f, SumOf, 0) /\ SumFunctionOnSet(f, {}) = g[{}]
  BY <1>1, SumIsFold
<1> QED
  BY <1>2 DEF Folds2

LEMMA SumFirst ==
    ASSUME NEW S, IsFiniteSet(S), NEW f, \A x \in S : f[x] \in Nat
    PROVE  /\ SumFunctionOnSet(f, S) \in Nat
           /\ S # {} => SumFunctionOnSet(f, S)
                          = f[First(S)] + SumFunctionOnSet(f, S \ {First(S)})
<1>1. PICK g : Folds2(g, S, f, SumOf, 0) /\ SumFunctionOnSet(f, S) = g[S]
  BY SumIsFold
<1>2. SumFunctionOnSet(f, S) \in Nat
  BY <1>1 DEF Folds2
<1>3. ASSUME S # {}
      PROVE  SumFunctionOnSet(f, S) = f[First(S)] + SumFunctionOnSet(f, S \ {First(S)})
  <2>1. PICK R : R = S \ {First(S)}
    OBVIOUS
  <2>2. First(S) \in S
    BY <1>3 DEF First
  <2>3. R \in SUBSET S /\ IsFiniteSet(R)
    BY <2>1, FS_Subset
  <2>4. PICK h : Folds2(h, R, f, SumOf, 0) /\ SumFunctionOnSet(f, R) = h[R]
    BY <2>3, SumIsFold
  <2>5. g[R] = h[R]
    BY <1>1, <2>3, <2>4, FoldUnique
  <2>6. g[S] = SumOf[<<f[First(S)], g[R]>>]
    BY <1>1, <1>3, <2>1 DEF Folds2
  <2>7. f[First(S)] \in Nat /\ g[R] \in Nat
    BY <1>1, <2>2, <2>3 DEF Folds2
  <2>8. SumOf[<<f[First(S)], g[R]>>] = f[First(S)] + g[R]
    BY <2>7 DEF SumOf
  <2> QED
    BY <1>1, <2>1, <2>4, <2>5, <2>6, <2>8
<1> QED
  BY <1>2, <1>3

\* A sum takes its terms in any order.
LEMMA SumTake ==
    ASSUME NEW S, IsFiniteSet(S), NEW f, \A x \in S : f[x] \in Nat, NEW y \in S
    PROVE  /\ SumFunctionOnSet(f, S) = f[y] + SumFunctionOnSet(f, S \ {y})
           /\ SumFunctionOnSet(f, S \ {y}) \in Nat
<1> DEFINE Good == {T \in SUBSET S : \A x \in T : SumFunctionOnSet(f, T) = f[x] + SumFunctionOnSet(f, T \ {x})}
<1>1. ASSUME NEW T \in SUBSET S PROVE IsFiniteSet(T) /\ SumFunctionOnSet(f, T) \in Nat
  BY FS_Subset, SumFirst
<1>2. ASSUME NEW T \in SUBSET S, \A U \in SUBSET T : U # T => U \in Good
      PROVE  T \in Good
  <2> SUFFICES ASSUME NEW x \in T
               PROVE  SumFunctionOnSet(f, T) = f[x] + SumFunctionOnSet(f, T \ {x})
    OBVIOUS
  <2>1. PICK p : p = First(T)
    OBVIOUS
  <2>2. p \in T
    BY <2>1 DEF First
  <2>3. SumFunctionOnSet(f, T) = f[p] + SumFunctionOnSet(f, T \ {p})
    BY <1>1, <2>1, SumFirst
  <2>4. CASE x # p
    <3>1. T \ {p} \in Good /\ T \ {x} \in Good
      BY <1>2, <2>2
    <3>2. SumFunctionOnSet(f, T \ {p}) = f[x] + SumFunctionOnSet(f, (T \ {p}) \ {x})
      BY <2>4, <3>1
    <3>3. SumFunctionOnSet(f, T \ {x}) = f[p] + SumFunctionOnSet(f, (T \ {x}) \ {p})
      BY <2>2, <2>4, <3>1
    <3>4. (T \ {p}) \ {x} = (T \ {x}) \ {p} /\ (T \ {x}) \ {p} \in SUBSET S
      OBVIOUS
    <3>5. f[x] \in Nat /\ f[p] \in Nat /\ SumFunctionOnSet(f, (T \ {x}) \ {p}) \in Nat
      BY <1>1, <2>2, <3>4
    <3> HIDE DEF Good
    <3> QED
      BY <2>3, <3>2, <3>3, <3>4, <3>5
  <2> QED
    BY <2>3, <2>4
<1>3. S \in Good
  <2> HIDE DEF Good
  <2> QED
    BY <1>2, SetInduction
<1> QED
  BY <1>1, <1>3

LEMMA SumAdd ==
    ASSUME NEW S, IsFiniteSet(S), NEW f, \A x \in S : f[x] \in Nat, NEW y, y \notin S, f[y] \in Nat
    PROVE  SumFunctionOnSet(f, S \cup {y}) = f[y] + SumFunctionOnSet(f, S)
<1>1. PICK T : T = S \cup {y}
  OBVIOUS
<1>2. IsFiniteSet(T) /\ y \in T /\ T \ {y} = S /\ \A x \in T : f[x] \in Nat
  BY <1>1, FS_AddElement
<1>3. SumFunctionOnSet(f, T) = f[y] + SumFunctionOnSet(f, T \ {y})
  BY <1>2, SumTake
<1> QED
  BY <1>1, <1>2, <1>3

LEMMA SumOfOne ==
    ASSUME NEW f, NEW y, f[y] \in Nat
    PROVE  SumFunctionOnSet(f, {y}) = f[y]
<1>1. IsFiniteSet({}) /\ {} \cup {y} = {y}
  BY FS_EmptySet
<1>2. SumFunctionOnSet(f, {} \cup {y}) = f[y] + SumFunctionOnSet(f, {})
  BY <1>1, SumAdd
<1>3. SumFunctionOnSet(f, {}) = 0
  BY SumEmpty
<1> QED
  BY <1>1, <1>2, <1>3

LEMMA RemovalInduction ==
    ASSUME NEW S, IsFiniteSet(S), NEW Good, {} \in Good,
           \A T \in SUBSET S : \A x \in T : T \ {x} \in Good => T \in Good
    PROVE  S \in Good
<1>1. ASSUME NEW T \in SUBSET S, \A U \in SUBSET T : U # T => U \in Good
      PROVE  T \in Good
  <2>1. CASE T = {}
    BY <2>1
  <2>2. ASSUME NEW x \in T PROVE T \in Good
    <3>1. T \ {x} \in SUBSET T /\ T \ {x} # T
      OBVIOUS
    <3> QED
      BY <1>1, <3>1
  <2> QED
    BY <2>1, <2>2
<1> QED
  BY <1>1, SetInduction

\* Sums of two functions of the same values, and of the sum of two functions.
LEMMA SumPlus ==
    ASSUME NEW S, IsFiniteSet(S), NEW f, NEW e, NEW h,
           \A x \in S : f[x] \in Nat /\ e[x] \in Nat /\ h[x] = f[x] + e[x]
    PROVE  SumFunctionOnSet(h, S) = SumFunctionOnSet(f, S) + SumFunctionOnSet(e, S)
<1> DEFINE Good == {T \in SUBSET S : SumFunctionOnSet(h, T) = SumFunctionOnSet(f, T) + SumFunctionOnSet(e, T)}
<1>1. {} \in Good
  <2>1. SumFunctionOnSet(h, {}) = 0 /\ SumFunctionOnSet(f, {}) = 0 /\ SumFunctionOnSet(e, {}) = 0
    BY SumEmpty
  <2> QED
    BY <2>1
<1>2. ASSUME NEW T \in SUBSET S, NEW x \in T, T \ {x} \in Good PROVE T \in Good
  <2>1. IsFiniteSet(T) /\ \A y \in T : f[y] \in Nat /\ e[y] \in Nat /\ h[y] \in Nat
    BY FS_Subset
  <2>2. SumFunctionOnSet(f, T) = f[x] + SumFunctionOnSet(f, T \ {x}) /\ SumFunctionOnSet(f, T \ {x}) \in Nat
    BY <2>1, SumTake
  <2>3. SumFunctionOnSet(e, T) = e[x] + SumFunctionOnSet(e, T \ {x}) /\ SumFunctionOnSet(e, T \ {x}) \in Nat
    BY <2>1, SumTake
  <2>4. SumFunctionOnSet(h, T) = h[x] + SumFunctionOnSet(h, T \ {x})
    BY <2>1, SumTake
  <2>5. SumFunctionOnSet(h, T \ {x}) = SumFunctionOnSet(f, T \ {x}) + SumFunctionOnSet(e, T \ {x})
    BY <1>2
  <2>6. h[x] = f[x] + e[x] /\ f[x] \in Nat /\ e[x] \in Nat
    OBVIOUS
  <2>7. SumFunctionOnSet(h, T) = SumFunctionOnSet(f, T) + SumFunctionOnSet(e, T)
    BY <2>2, <2>3, <2>4, <2>5, <2>6
  <2> QED
    BY <2>7
<1>3. S \in Good
  <2> HIDE DEF Good
  <2> QED
    BY <1>1, <1>2, RemovalInduction
<1> QED
  BY <1>3

LEMMA SumZero ==
    ASSUME NEW S, IsFiniteSet(S), NEW f, \A x \in S : f[x] = 0
    PROVE  SumFunctionOnSet(f, S) = 0
<1>1. \A x \in S : f[x] \in Nat /\ f[x] = f[x] + f[x]
  OBVIOUS
<1>2. SumFunctionOnSet(f, S) = SumFunctionOnSet(f, S) + SumFunctionOnSet(f, S)
  BY <1>1, SumPlus
<1>3. PICK n \in Nat : n = SumFunctionOnSet(f, S)
  BY <1>1, SumFirst
<1>4. n = n + n
  BY <1>2, <1>3
<1>5. ASSUME NEW k \in Nat, k = k + k PROVE k = 0
  BY <1>5
<1> QED
  BY <1>3, <1>4, <1>5

LEMMA SumSame ==
    ASSUME NEW S, IsFiniteSet(S), NEW f, NEW h, \A x \in S : f[x] \in Nat /\ h[x] = f[x]
    PROVE  SumFunctionOnSet(h, S) = SumFunctionOnSet(f, S)
<1>1. PICK e : e = [x \in S |-> 0]
  OBVIOUS
<1>2. \A x \in S : f[x] \in Nat /\ e[x] = 0 /\ h[x] = f[x] + e[x]
  BY <1>1
<1>5. SumFunctionOnSet(e, S) = 0
  BY <1>2, SumZero
<1>3. SumFunctionOnSet(h, S) = SumFunctionOnSet(f, S) + SumFunctionOnSet(e, S)
  BY <1>2, SumPlus
<1>4. SumFunctionOnSet(f, S) \in Nat
  BY SumFirst
<1> QED
  BY <1>3, <1>4, <1>5

LEMMA SumLess ==
    ASSUME NEW S, IsFiniteSet(S), NEW f, NEW h, \A x \in S : f[x] \in Nat /\ h[x] \in Nat /\ f[x] <= h[x]
    PROVE  SumFunctionOnSet(f, S) <= SumFunctionOnSet(h, S)
<1>1. PICK e : e = [x \in S |-> h[x] - f[x]]
  OBVIOUS
<1>2. \A x \in S : e[x] \in Nat /\ h[x] = f[x] + e[x]
  BY <1>1
<1>3. SumFunctionOnSet(h, S) = SumFunctionOnSet(f, S) + SumFunctionOnSet(e, S)
  BY <1>2, SumPlus
<1>4. SumFunctionOnSet(f, S) \in Nat /\ SumFunctionOnSet(e, S) \in Nat
  BY <1>2, SumFirst
<1> QED
  BY <1>3, <1>4

LEMMA SumUnion ==
    ASSUME NEW S, IsFiniteSet(S), NEW T, IsFiniteSet(T), S \cap T = {},
           NEW f, \A x \in S \cup T : f[x] \in Nat
    PROVE  SumFunctionOnSet(f, S \cup T) = SumFunctionOnSet(f, S) + SumFunctionOnSet(f, T)
<1> DEFINE Good == {U \in SUBSET S : SumFunctionOnSet(f, U \cup T) = SumFunctionOnSet(f, U) + SumFunctionOnSet(f, T)}
<1>1. SumFunctionOnSet(f, T) \in Nat
  BY SumFirst
<1>2. {} \in Good
  <2>1. SumFunctionOnSet(f, {}) = 0 /\ {} \cup T = T
    BY SumEmpty
  <2> QED
    BY <1>1, <2>1
<1>3. ASSUME NEW U \in SUBSET S, NEW x \in U, U \ {x} \in Good PROVE U \in Good
  <2>1. IsFiniteSet(U)
    BY FS_Subset
  <2>2. PICK V : V = U \cup T
    OBVIOUS
  <2>3. IsFiniteSet(V) /\ x \in V /\ V \ {x} = (U \ {x}) \cup T
    BY <2>1, <2>2, FS_Union
  <2>4. SumFunctionOnSet(f, V) = f[x] + SumFunctionOnSet(f, V \ {x})
    BY <2>2, <2>3, SumTake
  <2>5. SumFunctionOnSet(f, U) = f[x] + SumFunctionOnSet(f, U \ {x}) /\ SumFunctionOnSet(f, U \ {x}) \in Nat
    BY <2>1, SumTake
  <2>6. SumFunctionOnSet(f, (U \ {x}) \cup T) = SumFunctionOnSet(f, U \ {x}) + SumFunctionOnSet(f, T)
    BY <1>3
  <2>7. f[x] \in Nat
    OBVIOUS
  <2>9. PICK n \in Nat, m \in Nat : n = SumFunctionOnSet(f, T) /\ m = SumFunctionOnSet(f, U \ {x})
    BY <1>1, <2>5
  <2>10. SumFunctionOnSet(f, V) = f[x] + (m + n) /\ SumFunctionOnSet(f, U) = f[x] + m
    BY <2>3, <2>4, <2>5, <2>6, <2>9
  <2>8. SumFunctionOnSet(f, V) = SumFunctionOnSet(f, U) + SumFunctionOnSet(f, T)
    BY <2>7, <2>9, <2>10
  <2> QED
    BY <2>2, <2>8
<1>4. S \in Good
  <2> HIDE DEF Good
  <2> QED
    BY <1>2, <1>3, RemovalInduction
<1> QED
  BY <1>4

LEMMA SumSubset ==
    ASSUME NEW S, IsFiniteSet(S), NEW T \in SUBSET S, NEW f, \A x \in S : f[x] \in Nat
    PROVE  /\ SumFunctionOnSet(f, S) = SumFunctionOnSet(f, T) + SumFunctionOnSet(f, S \ T)
           /\ SumFunctionOnSet(f, T) \in Nat /\ SumFunctionOnSet(f, S \ T) \in Nat
           /\ SumFunctionOnSet(f, T) <= SumFunctionOnSet(f, S)
<1>1. PICK R : R = S \ T
  OBVIOUS
<1>2. IsFiniteSet(T) /\ IsFiniteSet(R) /\ T \cap R = {} /\ T \cup R = S
  BY <1>1, FS_Subset
<1>3. SumFunctionOnSet(f, T \cup R) = SumFunctionOnSet(f, T) + SumFunctionOnSet(f, R)
  BY <1>2, SumUnion
<1>4. SumFunctionOnSet(f, T) \in Nat /\ SumFunctionOnSet(f, R) \in Nat
  BY <1>1, <1>2, SumFirst
<1>5. SumFunctionOnSet(f, S) = SumFunctionOnSet(f, T) + SumFunctionOnSet(f, R)
  BY <1>2, <1>3
<1>6. SumFunctionOnSet(f, T) <= SumFunctionOnSet(f, S)
  BY <1>4, <1>5
<1> QED
  BY <1>1, <1>4, <1>5, <1>6

-----------------------------------------------------------------------------
(* The FIFO loop.                                                          *)

LEMMA RemainingIsFold ==
    ASSUME NEW S, IsFiniteSet(S), NEW f, \A x \in S : f[x] \in Nat, NEW debits \in Nat
    PROVE  \E g : Folds2(g, S, f, DrainOf, debits) /\ Remaining(debits, f, S) = g[S]
<1> DEFINE Step(g, T) == IF T = {} THEN debits
                         ELSE g[T \ {CHOOSE x \in T : TRUE}]
                                - Min({g[T \ {CHOOSE x \in T : TRUE}], f[CHOOSE x \in T : TRUE]})
           iter == CHOOSE g : g = [T \in SUBSET S |-> Step(g, T)]
<1>1. PICK g : Folds2(g, S, f, DrainOf, debits)
  BY FoldExists, FoldTypes
<1>2. ASSUME NEW T \in SUBSET S, T # {}, NEW h, h \in [SUBSET S -> Nat]
      PROVE  DrainOf[<<f[First(T)], h[T \ {First(T)}]>>] = Step(h, T)
  <2>1. First(T) \in T /\ T \ {First(T)} \in SUBSET S
    BY <1>2 DEF First
  <2>2. PICK a \in Nat, b \in Nat : a = f[First(T)] /\ b = h[T \ {First(T)}]
    BY <1>2, <2>1
  <2>3. DrainOf[<<a, b>>] = b - Min({b, a})
    BY DEF DrainOf
  <2> QED
    BY <1>2, <2>2, <2>3 DEF First
<1>3. g = [T \in SUBSET S |-> Step(g, T)]
  <2>1. \A T \in SUBSET S : g[T] = Step(g, T)
    BY <1>1, <1>2 DEF Folds2
  <2> HIDE DEF Step
  <2> QED
    BY <1>1, <2>1 DEF Folds2
<1>4. iter = [T \in SUBSET S |-> Step(iter, T)]
  BY <1>3
<1>5. \A T \in SUBSET S : iter[T] = Step(iter, T) /\ g[T] = Step(g, T)
  <2> HIDE DEF Step, iter
  <2> QED
    BY <1>3, <1>4
<1>6. \A T \in SUBSET S : iter[T] = g[T]
  <2>1. iter[{}] = g[{}]
    <3>1. Step(iter, {}) = debits /\ Step(g, {}) = debits
      OBVIOUS
    <3>2. iter[{}] = Step(iter, {}) /\ g[{}] = Step(g, {})
      <4> HIDE DEF Step, iter
      <4> QED
        BY <1>5
    <3> HIDE DEF Step, iter
    <3> QED
      BY <3>1, <3>2
  <2>2. ASSUME NEW T \in SUBSET S, T # {}, iter[T \ {First(T)}] = g[T \ {First(T)}]
        PROVE  iter[T] = g[T]
    <3> HIDE DEF iter
    <3> QED
      BY <1>5, <2>2 DEF First
  <2> HIDE DEF iter
  <2> QED
    BY <2>1, <2>2, SameByRemoval
<1>7. iter[S] = g[S]
  BY <1>6
<1> QED
  BY <1>1, <1>7 DEF Remaining, FoldFunctionOnSet, MapThenFoldSet

\* What the loop leaves of the debits: all that the bundles cannot pay.
LEMMA RemainingClosed ==
    ASSUME NEW S, IsFiniteSet(S), NEW f, \A x \in S : f[x] \in Nat, NEW debits \in Nat
    PROVE  Remaining(debits, f, S) = IF debits <= SumFunctionOnSet(f, S) THEN 0
                                     ELSE debits - SumFunctionOnSet(f, S)
<1>1. PICK g : Folds2(g, S, f, DrainOf, debits) /\ Remaining(debits, f, S) = g[S]
  BY RemainingIsFold
<1> DEFINE Good == {T \in SUBSET S : g[T] = IF debits <= SumFunctionOnSet(f, T) THEN 0
                                            ELSE debits - SumFunctionOnSet(f, T)}
<1>2. ASSUME NEW T \in SUBSET S, \A U \in SUBSET T : U # T => U \in Good
      PROVE  T \in Good
  <2>1. CASE T = {}
    <3>1. SumFunctionOnSet(f, {}) = 0 /\ g[{}] = debits
      BY <1>1, SumEmpty DEF Folds2
    <3> QED
      BY <2>1, <3>1
  <2>2. CASE T # {}
    <3>1. PICK p : p = First(T)
      OBVIOUS
    <3>2. p \in T /\ IsFiniteSet(T) /\ \A x \in T : f[x] \in Nat
      BY <2>2, <3>1, FS_Subset DEF First
    <3>3. SumFunctionOnSet(f, T) = f[p] + SumFunctionOnSet(f, T \ {p}) /\ SumFunctionOnSet(f, T \ {p}) \in Nat
      BY <3>2, SumTake
    <3>4. PICK m \in Nat, a \in Nat : m = SumFunctionOnSet(f, T \ {p}) /\ a = f[p]
      BY <3>2, <3>3
    <3>5. g[T \ {p}] = IF debits <= m THEN 0 ELSE debits - m
      <4>1. T \ {p} \in Good
        BY <1>2, <3>2
      <4> QED
        BY <3>4, <4>1
    <3>6. PICK b \in Nat : b = g[T \ {p}]
      BY <1>1 DEF Folds2
    <3>7. g[T] = b - Min({b, a})
      <4>1. g[T] = DrainOf[<<a, b>>]
        BY <1>1, <2>2, <3>1, <3>4, <3>6 DEF Folds2
      <4>2. DrainOf[<<a, b>>] = b - Min({b, a})
        BY DEF DrainOf
      <4> QED
        BY <4>1, <4>2
    <3>8. g[T] = IF debits <= a + m THEN 0 ELSE debits - (a + m)
      BY <3>5, <3>6, <3>7, MinOfTwo
    <3> QED
      BY <3>3, <3>4, <3>8
  <2> QED
    BY <2>1, <2>2
<1>3. S \in Good
  <2> HIDE DEF Good
  <2> QED
    BY <1>2, SetInduction
<1> QED
  BY <1>1, <1>3

\* Sooner orders the bundles: by expiry, and by age where the expiry is the same.
LEMMA SoonerOrder ==
    ASSUME NEW B, B \subseteq Nat, NEW rows, \A i \in B : rows[i].expiresAt \in Nat
    PROVE  /\ \A i \in B : ~Sooner(rows, i, i)
           /\ \A i, j \in B : i # j => Sooner(rows, i, j) \/ Sooner(rows, j, i)
           /\ \A i, j \in B : ~(Sooner(rows, i, j) /\ Sooner(rows, j, i))
           /\ \A i, j, k \in B : Sooner(rows, i, j) /\ Sooner(rows, j, k) => Sooner(rows, i, k)
<1> PICK e : e = [i \in B |-> rows[i].expiresAt]
  OBVIOUS
<1>1. \A i \in B : e[i] \in Nat /\ i \in Nat
  OBVIOUS
<1>2. \A i, j \in B : Sooner(rows, i, j) <=> e[i] < e[j] \/ (e[i] = e[j] /\ i < j)
  BY DEF Sooner
<1>3. \A i, j \in B : e[i] \in Nat /\ e[j] \in Nat /\ i \in Nat /\ j \in Nat
  BY <1>1
<1>4. \A i \in B : ~Sooner(rows, i, i)
  BY <1>2, <1>3
<1>5. \A i, j \in B : i # j => Sooner(rows, i, j) \/ Sooner(rows, j, i)
  BY <1>2, <1>3
<1>6. \A i, j \in B : ~(Sooner(rows, i, j) /\ Sooner(rows, j, i))
  BY <1>2, <1>3
<1>7. ASSUME NEW i \in B, NEW j \in B, NEW k \in B, Sooner(rows, i, j), Sooner(rows, j, k)
      PROVE  Sooner(rows, i, k)
  <2>1. PICK a \in Nat, b \in Nat, c \in Nat : a = e[i] /\ b = e[j] /\ c = e[k]
    BY <1>1
  <2>2. (a < b \/ (a = b /\ i < j)) /\ (b < c \/ (b = c /\ j < k)) /\ i \in Nat /\ j \in Nat /\ k \in Nat
    BY <1>1, <1>2, <1>7, <2>1
  <2>3. a < c \/ (a = c /\ i < k)
    BY <2>2
  <2> QED
    BY <1>2, <2>1, <2>3
<1> QED
  BY <1>4, <1>5, <1>6, <1>7

LEMMA HasLast ==
    ASSUME NEW A, IsFiniteSet(A), A # {}, A \subseteq Nat, NEW rows,
           \A i \in A : rows[i].expiresAt \in Nat
    PROVE  \E m \in A : \A j \in A \ {m} : Sooner(rows, j, m)
<1> DEFINE Good == {T \in SUBSET A : T = {} \/ \E m \in T : \A j \in T \ {m} : Sooner(rows, j, m)}
<1>1. {} \in Good
  OBVIOUS
<1>2. ASSUME NEW T \in SUBSET A, NEW x \in T, T \ {x} \in Good PROVE T \in Good
  <2>1. CASE T \ {x} = {}
    <3>1. \A j \in T \ {x} : Sooner(rows, j, x)
      BY <2>1
    <3> QED
      BY <3>1
  <2>2. CASE T \ {x} # {}
    <3>1. PICK m \in T \ {x} : \A j \in (T \ {x}) \ {m} : Sooner(rows, j, m)
      BY <1>2, <2>2
    <3>2. CASE Sooner(rows, x, m)
      <4>1. \A j \in T \ {m} : Sooner(rows, j, m)
        BY <3>1, <3>2
      <4> QED
        BY <3>1, <4>1
    <3>3. CASE ~Sooner(rows, x, m)
      <4>1. Sooner(rows, m, x)
        BY <3>1, <3>3, SoonerOrder
      <4>2. ASSUME NEW j \in T \ {x} PROVE Sooner(rows, j, x)
        <5>1. CASE j = m
          BY <4>1, <5>1
        <5>2. CASE j # m
          <6>1. Sooner(rows, j, m) /\ j \in A /\ m \in A /\ x \in A
            BY <3>1, <5>2
          <6> QED
            BY <4>1, <6>1, SoonerOrder
        <5> QED
          BY <5>1, <5>2
      <4> QED
        BY <4>2
    <3> QED
      BY <3>2, <3>3
  <2> QED
    BY <2>1, <2>2
<1>3. A \in Good
  <2> HIDE DEF Good
  <2> QED
    BY <1>1, <1>2, RemovalInduction
<1> QED
  BY <1>3

\* pays is what the loop takes from each bundle of B; A holds the first of B.
IsLoop(B, rows, size, debits, pays) ==
    /\ IsFiniteSet(B) /\ B \subseteq Nat /\ debits \in Nat
    /\ \A i \in B : rows[i].expiresAt \in Nat
    /\ \A i \in B : size[i] \in Nat
    /\ \A i \in B : pays[i] = Drained(debits, size, B, rows, i)

AreFirst(A, B, rows) == A \subseteq B /\ \A i \in A, j \in B : Sooner(rows, j, i) => j \in A

\* The first bundles of the order, taken together, pay all the debits they can.
LEMMA LoopPays ==
    ASSUME NEW B, NEW rows, NEW size, NEW debits, NEW pays, IsLoop(B, rows, size, debits, pays),
           NEW A, AreFirst(A, B, rows)
    PROVE  /\ \A i \in B : pays[i] \in Nat /\ pays[i] <= size[i]
           /\ SumFunctionOnSet(pays, A) = IF debits <= SumFunctionOnSet(size, A) THEN debits
                                          ELSE SumFunctionOnSet(size, A)
<1> USE DEF IsLoop, AreFirst
<1> DEFINE Before(i) == {j \in B : Sooner(rows, j, i)}
           Good == {T \in SUBSET B : (\A i \in T, j \in B : Sooner(rows, j, i) => j \in T)
                      => SumFunctionOnSet(pays, T) = IF debits <= SumFunctionOnSet(size, T) THEN debits
                                                     ELSE SumFunctionOnSet(size, T)}
<1>1. ASSUME NEW i \in B
      PROVE  /\ SumFunctionOnSet(size, Before(i)) \in Nat
             /\ pays[i] = IF debits <= SumFunctionOnSet(size, Before(i)) THEN 0
                          ELSE IF debits - SumFunctionOnSet(size, Before(i)) <= size[i]
                               THEN debits - SumFunctionOnSet(size, Before(i)) ELSE size[i]
  <2>1. PICK S : S = Before(i)
    OBVIOUS
  <2>2. IsFiniteSet(S) /\ \A j \in S : size[j] \in Nat
    BY <2>1, FS_Subset
  <2>3. PICK n \in Nat : n = SumFunctionOnSet(size, S)
    BY <2>2, SumFirst
  <2>4. Remaining(debits, size, S) = IF debits <= n THEN 0 ELSE debits - n
    BY <2>2, <2>3, RemainingClosed
  <2>5. PICK m \in Nat : m = Remaining(debits, size, S)
    BY <2>4
  <2>6. pays[i] = Min({size[i], m})
    BY <2>1, <2>5 DEF Drained
  <2>7. pays[i] = IF size[i] <= m THEN size[i] ELSE m
    BY <2>6, MinOfTwo
  <2>8. pays[i] = IF debits <= n THEN 0 ELSE IF debits - n <= size[i] THEN debits - n ELSE size[i]
    BY <2>4, <2>5, <2>7
  <2> QED
    BY <2>1, <2>3, <2>8
<1>2. ASSUME NEW i \in B PROVE pays[i] \in Nat /\ pays[i] <= size[i]
  <2>1. PICK n \in Nat, s \in Nat : n = SumFunctionOnSet(size, Before(i)) /\ s = size[i]
    BY <1>1
  <2>2. pays[i] = IF debits <= n THEN 0 ELSE IF debits - n <= s THEN debits - n ELSE s
    BY <1>1, <2>1
  <2>3. pays[i] \in Nat /\ pays[i] <= s
    BY <2>2
  <2> QED
    BY <2>1, <2>3
<1>3. ASSUME NEW T \in SUBSET B, \A U \in SUBSET T : U # T => U \in Good PROVE T \in Good
  <2> SUFFICES ASSUME \A i \in T, j \in B : Sooner(rows, j, i) => j \in T
               PROVE  SumFunctionOnSet(pays, T) = IF debits <= SumFunctionOnSet(size, T) THEN debits
                                                  ELSE SumFunctionOnSet(size, T)
    OBVIOUS
  <2>1. CASE T = {}
    <3>1. SumFunctionOnSet(pays, {}) = 0 /\ SumFunctionOnSet(size, {}) = 0
      BY SumEmpty
    <3> QED
      BY <2>1, <3>1
  <2>2. CASE T # {}
    <3>1. IsFiniteSet(T)
      BY FS_Subset
    <3>2. PICK m \in T : \A j \in T \ {m} : Sooner(rows, j, m)
      BY <2>2, <3>1, HasLast
    <3>3. Before(m) = T \ {m}
      <4>1. \A j \in B : Sooner(rows, j, m) => j \in T /\ j # m
        BY SoonerOrder
      <4> QED
        BY <3>2, <4>1
    <3>4. ASSUME NEW i \in T \ {m}, NEW j \in B, Sooner(rows, j, i) PROVE j \in T \ {m}
      <4>1. j \in T /\ Sooner(rows, i, m) /\ m \in B /\ i \in B
        BY <3>2, <3>4
      <4>3. ~(Sooner(rows, i, m) /\ Sooner(rows, m, i))
        BY <4>1, SoonerOrder
      <4>2. j # m
        BY <3>4, <4>1, <4>3
      <4> QED
        BY <4>1, <4>2
    <3>5. PICK U : U = T \ {m}
      OBVIOUS
    <3>6. U \in Good
      BY <1>3, <3>5
    <3>7. \A i \in U, j \in B : Sooner(rows, j, i) => j \in U
      BY <3>4, <3>5
    <3>8. SumFunctionOnSet(pays, U) = IF debits <= SumFunctionOnSet(size, U) THEN debits ELSE SumFunctionOnSet(size, U)
      BY <3>6, <3>7
    <3>9. \A i \in T : size[i] \in Nat /\ pays[i] \in Nat
      BY <1>2
    <3>10. SumFunctionOnSet(size, T) = size[m] + SumFunctionOnSet(size, U) /\ SumFunctionOnSet(size, U) \in Nat
      BY <3>1, <3>5, <3>9, SumTake
    <3>11. SumFunctionOnSet(pays, T) = pays[m] + SumFunctionOnSet(pays, U)
      BY <3>1, <3>5, <3>9, SumTake
    <3>12. PICK n \in Nat, s \in Nat : n = SumFunctionOnSet(size, U) /\ s = size[m]
      BY <3>10
    <3>13. pays[m] = IF debits <= n THEN 0 ELSE IF debits - n <= s THEN debits - n ELSE s
      BY <1>1, <3>3, <3>5, <3>12
    <3>14. SumFunctionOnSet(pays, U) = IF debits <= n THEN debits ELSE n
      BY <3>8, <3>12
    <3>15. pays[m] + SumFunctionOnSet(pays, U) = IF debits <= s + n THEN debits ELSE s + n
      BY <3>13, <3>14
    <3> QED
      BY <3>10, <3>11, <3>12, <3>15
  <2> QED
    BY <2>1, <2>2
<1>4. \A T \in SUBSET B : T \in Good
  <2> HIDE DEF Good, Before
  <2> QED
    BY <1>3, SetInduction
<1> QED
  BY <1>2, <1>4

-----------------------------------------------------------------------------
(* Numbers and rows.                                                       *)

LEMMA Bounds ==
    /\ MaxTime \in Nat /\ MaxGrants \in Nat /\ MaxSpends \in Nat /\ MaxFaults \in Nat
    /\ Cost \in Nat /\ Cost > 0 /\ BatchSize \in Nat /\ BatchSize > 0
    /\ Users \subseteq Nat /\ 0 \notin Users /\ IsFiniteSet(Users)
    /\ 0 \notin Txs /\ IsFiniteSet(Txs) /\ Txs # {} /\ IsFiniteSet(Txs \cup {0})
    /\ Amounts \subseteq Nat \ {0} /\ ExpiryDays \subseteq Nat
<1>1. IsFiniteSet(Txs \cup {0})
  BY TxsAssumption, FS_AddElement
<1> QED
  BY <1>1, UsersAssumption, TxsAssumption, NumbersAssumption

LEMMA MaxOf ==
    ASSUME NEW S, IsFiniteSet(S), S \subseteq Int, S # {}
    PROVE  Max(S) \in S /\ \A y \in S : Max(S) >= y
<1> DEFINE Good == {T \in SUBSET S : T = {} \/ \E x \in T : \A y \in T : x >= y}
<1>1. {} \in Good
  OBVIOUS
<1>2. ASSUME NEW T \in SUBSET S, NEW x \in T, T \ {x} \in Good PROVE T \in Good
  <2>1. CASE T \ {x} = {}
    <3>1. \A y \in T : x >= y
      BY <2>1
    <3> QED
      BY <3>1
  <2>2. CASE T \ {x} # {}
    <3>1. PICK m \in T \ {x} : \A y \in T \ {x} : m >= y
      BY <1>2, <2>2
    <3>2. CASE m >= x
      <4>1. \A y \in T : m >= y
        BY <3>1, <3>2
      <4> QED
        BY <4>1
    <3>3. CASE ~(m >= x)
      <4>1. \A y \in T : x >= y
        BY <3>1, <3>3
      <4> QED
        BY <4>1
    <3> QED
      BY <3>2, <3>3
  <2> QED
    BY <2>1, <2>2
<1>3. S \in Good
  <2> HIDE DEF Good
  <2> QED
    BY <1>1, <1>2, RemovalInduction
<1>4. \E x \in S : \A y \in S : x >= y
  BY <1>3
<1> QED
  BY <1>4 DEF Max

LEMMA MinOf ==
    ASSUME NEW S, S \subseteq Nat, S # {}
    PROVE  Min(S) \in S
<1>1. \E x \in S : \A y \in S : x =< y
  BY HasLeast
<1> QED
  BY <1>1 DEF Min

\* A permanent bundle outlives every other, and the last day.
LEMMA NeverLast ==
    /\ Never \in Nat /\ Never > MaxTime
    /\ \A days \in ExpiryDays, day \in 0 .. MaxTime : day + days \in Nat /\ day + days < Never
<1>1. PICK S : S = ExpiryDays \cup {0}
  OBVIOUS
<1>2. IsFiniteSet(S) /\ S \subseteq Int /\ S \subseteq Nat /\ S # {}
  BY <1>1, NumbersAssumption, FS_AddElement
<1>3. PICK m \in Nat : m = Max(S) /\ \A y \in S : m >= y
  BY <1>2, MaxOf
<1>4. Never = MaxTime + 1 + m
  BY <1>1, <1>3 DEF Never
<1>5. ASSUME NEW days \in ExpiryDays, NEW day \in 0 .. MaxTime
      PROVE  day + days \in Nat /\ day + days < Never
  <2>1. days \in Nat /\ m >= days
    BY <1>1, <1>3, Bounds
  <2> QED
    BY <1>4, <2>1, Bounds
<1> QED
  BY <1>4, <1>5, Bounds

LEMMA RowFields ==
    ASSUME NEW rows \in Seq(Rows), NEW i \in DOMAIN rows
    PROVE  /\ i \in Nat /\ i \in 1 .. Len(rows) /\ rows[i] \in Rows
           /\ rows[i].user \in Users /\ rows[i].type \in {"CREDIT", "DEBIT"}
           /\ rows[i].amount \in Nat /\ rows[i].amount > 0
           /\ rows[i].source \in {"GRANT", "LIKE_USAGE", "EXPIRED"} /\ rows[i].ref \in Nat
           /\ rows[i].expiresAt \in Nat /\ rows[i].expiresAt >= 1 /\ rows[i].expiresAt <= Never
<1>1. i \in 1 .. Len(rows) /\ rows[i] \in Rows /\ Len(rows) \in Nat
  OBVIOUS
<1>2. rows[i].expiresAt \in 1 .. Never
  BY <1>1 DEF Rows
<1> QED
  BY <1>1, <1>2, NeverLast DEF Rows

LEMMA RowsFinite ==
    ASSUME NEW rows \in Seq(Rows), NEW ids \in SUBSET DOMAIN rows
    PROVE  /\ IsFiniteSet(DOMAIN rows) /\ IsFiniteSet(ids) /\ ids \subseteq Nat
           /\ SumAmounts(rows, ids) \in Nat
<1>1. DOMAIN rows = 1 .. Len(rows) /\ Len(rows) \in Nat
  OBVIOUS
<1>2. IsFiniteSet(1 .. Len(rows))
  BY <1>1, FS_Interval
<1>3. IsFiniteSet(ids)
  BY <1>1, <1>2, FS_Subset
<1>4. PICK f : f = [i \in DOMAIN rows |-> rows[i].amount]
  OBVIOUS
<1>5. \A i \in ids : f[i] \in Nat
  BY <1>4, RowFields
<1>6. SumFunctionOnSet(f, ids) \in Nat
  BY <1>3, <1>5, SumFirst
<1> QED
  BY <1>1, <1>2, <1>3, <1>4, <1>6 DEF SumAmounts

LEMMA BundleFacts ==
    ASSUME NEW rows \in Seq(Rows), NEW u
    PROVE  /\ Bundles(rows, u) \in SUBSET DOMAIN rows /\ IsFiniteSet(Bundles(rows, u))
           /\ Bundles(rows, u) \subseteq Nat
           /\ \A i \in Bundles(rows, u) : rows[i].expiresAt \in Nat /\ rows[i].amount \in Nat
<1>1. Bundles(rows, u) \in SUBSET DOMAIN rows
  BY DEF Bundles
<1> QED
  BY <1>1, RowsFinite, RowFields

\* What the loop leaves in the bundles: in each no more than its size, and in
\* the first of the order, taken together, what the debits leave of them.
LEMMA DrainFacts ==
    ASSUME NEW rows \in Seq(Rows), NEW u, NEW debits \in Nat,
           NEW A, AreFirst(A, Bundles(rows, u), rows)
    PROVE  /\ DOMAIN Drain(rows, u, debits) = Bundles(rows, u)
           /\ \A i \in Bundles(rows, u) : /\ Drain(rows, u, debits)[i] \in Nat
                                          /\ Drain(rows, u, debits)[i] <= rows[i].amount
           /\ SumFunctionOnSet(Drain(rows, u, debits), A)
                = IF debits <= SumAmounts(rows, A) THEN SumAmounts(rows, A) - debits ELSE 0
<1>1. PICK B : B = Bundles(rows, u)
  OBVIOUS
<1>2. B \in SUBSET DOMAIN rows /\ IsFiniteSet(B) /\ B \subseteq Nat
      /\ \A i \in B : rows[i].expiresAt \in Nat /\ rows[i].amount \in Nat
  BY <1>1, BundleFacts
<1>3. PICK size : size = [i \in B |-> rows[i].amount]
  OBVIOUS
<1>4. PICK pays : pays = [i \in B |-> Drained(debits, size, B, rows, i)]
  OBVIOUS
<1>5. PICK left : left = [i \in B |-> size[i] - pays[i]]
  OBVIOUS
<1>6. left = Drain(rows, u, debits)
  <2>1. Drain(rows, u, debits) = [i \in B |-> size[i] - Drained(debits, size, B, rows, i)]
    BY <1>1, <1>3 DEF Drain
  <2> QED
    BY <1>4, <1>5, <2>1
<1>7. \A i \in B : size[i] \in Nat /\ pays[i] = Drained(debits, size, B, rows, i)
  BY <1>2, <1>3, <1>4
<1>8. A \subseteq B /\ AreFirst(A, B, rows)
  BY <1>1 DEF AreFirst
<1>9. /\ \A i \in B : pays[i] \in Nat /\ pays[i] <= size[i]
      /\ SumFunctionOnSet(pays, A) = IF debits <= SumFunctionOnSet(size, A) THEN debits
                                     ELSE SumFunctionOnSet(size, A)
  <2>1. IsLoop(B, rows, size, debits, pays)
    BY <1>2, <1>7 DEF IsLoop
  <2> QED
    BY <1>8, <2>1, LoopPays
<1>10. ASSUME NEW i \in B
       PROVE  left[i] \in Nat /\ left[i] <= rows[i].amount /\ size[i] = left[i] + pays[i]
  <2>1. PICK s \in Nat, p \in Nat : s = size[i] /\ p = pays[i] /\ p <= s
    BY <1>7, <1>9
  <2>2. left[i] = s - p /\ rows[i].amount = s
    BY <1>3, <1>5, <2>1
  <2> QED
    BY <2>1, <2>2
<1>11. IsFiniteSet(A) /\ A \in SUBSET DOMAIN rows
  BY <1>2, <1>8, FS_Subset
<1>12. SumFunctionOnSet(size, A) = SumFunctionOnSet(left, A) + SumFunctionOnSet(pays, A)
  BY <1>8, <1>9, <1>10, <1>11, SumPlus
<1>13. SumFunctionOnSet(size, A) = SumAmounts(rows, A)
  <2>1. PICK f : f = [i \in DOMAIN rows |-> rows[i].amount]
    OBVIOUS
  <2>2. \A i \in A : size[i] \in Nat /\ f[i] = size[i]
    BY <1>3, <1>7, <1>8, <1>11, <2>1
  <2>3. SumFunctionOnSet(f, A) = SumFunctionOnSet(size, A)
    BY <1>11, <2>2, SumSame
  <2> QED
    BY <2>1, <2>3 DEF SumAmounts
<1>14. SumFunctionOnSet(left, A) \in Nat
  BY <1>8, <1>10, <1>11, SumFirst
<1>15. PICK n \in Nat, m \in Nat : n = SumAmounts(rows, A) /\ m = SumFunctionOnSet(left, A)
  BY <1>11, <1>14, RowsFinite
<1>16. n = m + SumFunctionOnSet(pays, A) /\ SumFunctionOnSet(pays, A) = IF debits <= n THEN debits ELSE n
  BY <1>9, <1>12, <1>13, <1>15
<1>17. m = IF debits <= n THEN n - debits ELSE 0
  BY <1>16
<1>18. DOMAIN left = B
  BY <1>5
<1> QED
  BY <1>1, <1>6, <1>10, <1>15, <1>17, <1>18

-----------------------------------------------------------------------------
(* Sums over a ledger that grows.                                          *)

LEMMA SumSameRows ==
    ASSUME NEW rows \in Seq(Rows), NEW more \in Seq(Rows), NEW ids \in SUBSET DOMAIN rows,
           ids \subseteq DOMAIN more, \A i \in ids : more[i] = rows[i]
    PROVE  SumAmounts(more, ids) = SumAmounts(rows, ids)
<1>1. PICK f, g : f = [i \in DOMAIN rows |-> rows[i].amount] /\ g = [i \in DOMAIN more |-> more[i].amount]
  OBVIOUS
<1>2. IsFiniteSet(ids)
  BY RowsFinite
<1>3. \A i \in ids : f[i] \in Nat /\ g[i] = f[i]
  BY <1>1, RowFields
<1>4. SumFunctionOnSet(g, ids) = SumFunctionOnSet(f, ids)
  BY <1>2, <1>3, SumSame
<1> QED
  BY <1>1, <1>4 DEF SumAmounts

LEMMA SumRowAdd ==
    ASSUME NEW rows \in Seq(Rows), NEW ids \in SUBSET DOMAIN rows, NEW i \in DOMAIN rows, i \notin ids
    PROVE  SumAmounts(rows, ids \cup {i}) = rows[i].amount + SumAmounts(rows, ids)
<1>1. PICK f : f = [j \in DOMAIN rows |-> rows[j].amount]
  OBVIOUS
<1>2. IsFiniteSet(ids) /\ (\A j \in ids : f[j] \in Nat) /\ f[i] \in Nat
  BY <1>1, RowsFinite, RowFields
<1>3. SumFunctionOnSet(f, ids \cup {i}) = f[i] + SumFunctionOnSet(f, ids)
  BY <1>2, SumAdd
<1> QED
  BY <1>1, <1>3 DEF SumAmounts

LEMMA SumNoRows == ASSUME NEW rows PROVE SumAmounts(rows, {}) = 0
<1>1. PICK f : f = [j \in DOMAIN rows |-> rows[j].amount]
  OBVIOUS
<1>2. SumFunctionOnSet(f, {}) = 0
  BY SumEmpty
<1> QED
  BY <1>1, <1>2 DEF SumAmounts

LEMMA SumRowsSubset ==
    ASSUME NEW rows \in Seq(Rows), NEW ids \in SUBSET DOMAIN rows, NEW some \in SUBSET ids
    PROVE  /\ SumAmounts(rows, some) \in Nat /\ SumAmounts(rows, ids) \in Nat
           /\ SumAmounts(rows, some) <= SumAmounts(rows, ids)
<1>1. PICK f : f = [j \in DOMAIN rows |-> rows[j].amount]
  OBVIOUS
<1>2. IsFiniteSet(ids) /\ \A j \in ids : f[j] \in Nat
  BY <1>1, RowsFinite, RowFields
<1>3. SumFunctionOnSet(f, some) <= SumFunctionOnSet(f, ids)
  BY <1>2, SumSubset
<1> QED
  BY <1>1, <1>3, RowsFinite DEF SumAmounts

LEMMA SumRowsUnion ==
    ASSUME NEW rows \in Seq(Rows), NEW A \in SUBSET DOMAIN rows, NEW B \in SUBSET DOMAIN rows, A \cap B = {}
    PROVE  SumAmounts(rows, A \cup B) = SumAmounts(rows, A) + SumAmounts(rows, B)
<1>1. PICK f : f = [j \in DOMAIN rows |-> rows[j].amount]
  OBVIOUS
<1>2. IsFiniteSet(A) /\ IsFiniteSet(B) /\ \A j \in A \cup B : f[j] \in Nat
  BY <1>1, RowsFinite, RowFields
<1>3. SumFunctionOnSet(f, A \cup B) = SumFunctionOnSet(f, A) + SumFunctionOnSet(f, B)
  BY <1>2, SumUnion
<1> QED
  BY <1>1, <1>3 DEF SumAmounts

LEMMA Concat ==
    ASSUME NEW rows \in Seq(Rows), NEW new \in Seq(Rows)
    PROVE  /\ rows \o new \in Seq(Rows) /\ Len(rows) \in Nat
           /\ DOMAIN (rows \o new) = DOMAIN rows \cup {Len(rows) + k : k \in DOMAIN new}
           /\ \A i \in DOMAIN rows : i <= Len(rows) /\ (rows \o new)[i] = rows[i]
           /\ \A k \in DOMAIN new : Len(rows) + k \notin DOMAIN rows /\ (rows \o new)[Len(rows) + k] = new[k]
<1>1. rows \o new \in Seq(Rows) /\ Len(rows) \in Nat /\ Len(new) \in Nat
      /\ DOMAIN rows = 1 .. Len(rows) /\ DOMAIN new = 1 .. Len(new)
  OBVIOUS
<1>2. Len(rows \o new) = Len(rows) + Len(new) /\ DOMAIN (rows \o new) = 1 .. Len(rows) + Len(new)
  OBVIOUS
<1>3. \A i \in DOMAIN rows : i <= Len(rows) /\ (rows \o new)[i] = rows[i]
  OBVIOUS
<1>4. \A k \in DOMAIN new : Len(rows) + k \notin DOMAIN rows /\ (rows \o new)[Len(rows) + k] = new[k]
  BY <1>1
<1>5. 1 .. Len(rows) + Len(new) = 1 .. Len(rows) \cup {Len(rows) + k : k \in 1 .. Len(new)}
  <2>1. ASSUME NEW a \in Nat, NEW b \in Nat PROVE 1 .. a + b = 1 .. a \cup {a + k : k \in 1 .. b}
    <3>1. ASSUME NEW i \in 1 .. a + b, i \notin 1 .. a PROVE i \in {a + k : k \in 1 .. b}
      <4>1. i - a \in 1 .. b /\ a + (i - a) = i
        BY <3>1
      <4> QED
        BY <4>1
    <3> QED
      BY <3>1
  <2> QED
    BY <1>1, <2>1
<1> QED
  BY <1>1, <1>2, <1>3, <1>4, <1>5

\* The sum over a grown ledger: the old rows, and the new ones at their new place.
LEMMA SumConcat ==
    ASSUME NEW rows \in Seq(Rows), NEW new \in Seq(Rows),
           NEW A \in SUBSET DOMAIN rows, NEW B \in SUBSET DOMAIN new
    PROVE  SumAmounts(rows \o new, A \cup {Len(rows) + k : k \in B})
             = SumAmounts(rows, A) + SumAmounts(new, B)
<1> DEFINE At2(T) == A \cup {Len(rows) + k : k \in T}
           Good == {T \in SUBSET B : SumAmounts(rows \o new, At2(T)) = SumAmounts(rows, A) + SumAmounts(new, T)}
<1>1. PICK all : all = rows \o new
  OBVIOUS
<1>2. /\ all \in Seq(Rows) /\ Len(rows) \in Nat
      /\ DOMAIN all = DOMAIN rows \cup {Len(rows) + k : k \in DOMAIN new}
      /\ \A i \in DOMAIN rows : i <= Len(rows) /\ all[i] = rows[i]
      /\ \A k \in DOMAIN new : Len(rows) + k \notin DOMAIN rows /\ all[Len(rows) + k] = new[k]
  BY <1>1, Concat
<1>3. SumAmounts(rows, A) \in Nat
  BY RowsFinite
<1>4. {} \in Good
  <2>1. At2({}) = A
    OBVIOUS
  <2>2. SumAmounts(all, A) = SumAmounts(rows, A)
    BY <1>2, SumSameRows
  <2>3. SumAmounts(new, {}) = 0
    BY SumNoRows
  <2> HIDE DEF At2
  <2> QED
    BY <1>1, <1>3, <2>1, <2>2, <2>3
<1>5. ASSUME NEW T \in SUBSET B, NEW x \in T, T \ {x} \in Good PROVE T \in Good
  <2>1. PICK U : U = T \ {x}
    OBVIOUS
  <2>2. PICK V : V = At2(U)
    OBVIOUS
  <2>3. x \in DOMAIN new /\ U \in SUBSET DOMAIN new /\ x \in Nat /\ \A k \in U : k \in Nat
    BY <2>1, RowFields
  <2>4. V \in SUBSET DOMAIN all /\ Len(rows) + x \in DOMAIN all
    BY <1>2, <2>2, <2>3
  <2>5. Len(rows) + x \notin V
    <3>1. ASSUME NEW k \in U, Len(rows) + x = Len(rows) + k PROVE FALSE
      BY <1>2, <2>1, <2>3, <3>1
    <3> QED
      BY <1>2, <2>2, <2>3, <3>1
  <2>6. At2(T) = V \cup {Len(rows) + x}
    BY <2>1, <2>2
  <2>7. SumAmounts(all, V \cup {Len(rows) + x}) = all[Len(rows) + x].amount + SumAmounts(all, V)
    BY <1>2, <2>4, <2>5, SumRowAdd
  <2>8. all[Len(rows) + x].amount = new[x].amount
    BY <1>2, <2>3
  <2>9. SumAmounts(new, U \cup {x}) = new[x].amount + SumAmounts(new, U) /\ U \cup {x} = T
    BY <2>1, <2>3, SumRowAdd
  <2>10. SumAmounts(all, V) = SumAmounts(rows, A) + SumAmounts(new, U)
    BY <1>1, <1>5, <2>1, <2>2
  <2>11. new[x].amount \in Nat /\ SumAmounts(new, U) \in Nat
    BY <2>3, RowsFinite, RowFields
  <2>12. SumAmounts(all, V \cup {Len(rows) + x}) = SumAmounts(rows, A) + SumAmounts(new, T)
    <3>1. PICK n \in Nat, m \in Nat, a \in Nat :
              n = SumAmounts(rows, A) /\ m = SumAmounts(new, U) /\ a = new[x].amount
      BY <1>3, <2>11
    <3>2. SumAmounts(all, V \cup {Len(rows) + x}) = a + (n + m) /\ SumAmounts(new, T) = a + m
      BY <2>7, <2>8, <2>9, <2>10, <3>1
    <3> QED
      BY <3>1, <3>2
  <2>13. SumAmounts(rows \o new, At2(T)) = SumAmounts(rows, A) + SumAmounts(new, T)
    <3> HIDE DEF At2
    <3> QED
      BY <1>1, <2>6, <2>12
  <2> QED
    BY <2>13
<1>6. IsFiniteSet(B)
  BY RowsFinite
<1>7. B \in Good
  <2> HIDE DEF Good, At2
  <2> QED
    BY <1>4, <1>5, <1>6, RemovalInduction
<1> QED
  BY <1>7

RealIds(rows, u) == {i \in DOMAIN rows : /\ rows[i].user = u
                                         /\ rows[i].type = "DEBIT"
                                         /\ rows[i].source # "EXPIRED"}

DebitIds(rows, u) == {i \in DOMAIN rows : rows[i].user = u /\ rows[i].type = "DEBIT"}

GrantedIn(rows, u) == SumAmounts(rows, Bundles(rows, u))

LEMMA DebitsAreSums ==
    ASSUME NEW rows \in Seq(Rows), NEW u
    PROVE  /\ RealDebits(rows, u) = SumAmounts(rows, RealIds(rows, u))
           /\ AllDebits(rows, u) = SumAmounts(rows, DebitIds(rows, u))
           /\ RealIds(rows, u) \in SUBSET DOMAIN rows /\ DebitIds(rows, u) \in SUBSET DOMAIN rows
           /\ RealDebits(rows, u) \in Nat /\ AllDebits(rows, u) \in Nat /\ GrantedIn(rows, u) \in Nat
<1>1. RealDebits(rows, u) = SumAmounts(rows, RealIds(rows, u))
  BY DEF RealDebits, RealIds
<1>2. AllDebits(rows, u) = SumAmounts(rows, DebitIds(rows, u))
  BY DEF AllDebits, DebitIds
<1>3. RealIds(rows, u) \in SUBSET DOMAIN rows /\ DebitIds(rows, u) \in SUBSET DOMAIN rows
  BY DEF RealIds, DebitIds
<1>4. Bundles(rows, u) \in SUBSET DOMAIN rows
  BY BundleFacts
<1> QED
  BY <1>1, <1>2, <1>3, <1>4, RowsFinite DEF GrantedIn

\* The rows of some kind in a grown ledger.
LEMMA FilterConcat ==
    ASSUME NEW rows \in Seq(Rows), NEW new \in Seq(Rows), NEW Kind
    PROVE  {i \in DOMAIN (rows \o new) : (rows \o new)[i] \in Kind}
             = {i \in DOMAIN rows : rows[i] \in Kind}
                 \cup {Len(rows) + k : k \in {j \in DOMAIN new : new[j] \in Kind}}
<1>1. PICK all : all = rows \o new
  OBVIOUS
<1>2. /\ DOMAIN all = DOMAIN rows \cup {Len(rows) + k : k \in DOMAIN new}
      /\ \A i \in DOMAIN rows : all[i] = rows[i]
      /\ \A k \in DOMAIN new : all[Len(rows) + k] = new[k]
  BY <1>1, Concat
<1>3. ASSUME NEW i \in DOMAIN all, all[i] \in Kind, i \notin DOMAIN rows
      PROVE  i \in {Len(rows) + k : k \in {j \in DOMAIN new : new[j] \in Kind}}
  <2>1. PICK k \in DOMAIN new : i = Len(rows) + k
    BY <1>2, <1>3
  <2> QED
    BY <1>2, <1>3, <2>1
<1>4. ASSUME NEW k \in DOMAIN new, new[k] \in Kind
      PROVE  Len(rows) + k \in DOMAIN all /\ all[Len(rows) + k] \in Kind
  BY <1>2, <1>4
<1>5. \A i \in DOMAIN rows : i \in DOMAIN all /\ all[i] = rows[i]
  BY <1>2
<1>6. {i \in DOMAIN all : all[i] \in Kind}
        = {i \in DOMAIN rows : rows[i] \in Kind}
            \cup {Len(rows) + k : k \in {j \in DOMAIN new : new[j] \in Kind}}
  BY <1>3, <1>4, <1>5
<1> QED
  BY <1>1, <1>6

LEMMA KindsOfRows ==
    ASSUME NEW rows \in Seq(Rows), NEW u
    PROVE  /\ Bundles(rows, u) = {i \in DOMAIN rows : rows[i] \in {r \in Rows : r.user = u /\ r.type = "CREDIT"}}
           /\ RealIds(rows, u) = {i \in DOMAIN rows : rows[i] \in {r \in Rows :
                                     r.user = u /\ r.type = "DEBIT" /\ r.source # "EXPIRED"}}
           /\ DebitIds(rows, u) = {i \in DOMAIN rows : rows[i] \in {r \in Rows : r.user = u /\ r.type = "DEBIT"}}
<1>1. \A i \in DOMAIN rows : rows[i] \in Rows
  OBVIOUS
<1> QED
  BY <1>1 DEF Bundles, RealIds, DebitIds

\* New rows add to each sum what they sum to among themselves.
LEMMA SumsGrow ==
    ASSUME NEW rows \in Seq(Rows), NEW new \in Seq(Rows), NEW u
    PROVE  /\ Bundles(rows \o new, u) = Bundles(rows, u) \cup {Len(rows) + k : k \in Bundles(new, u)}
           /\ RealDebits(rows \o new, u) = RealDebits(rows, u) + RealDebits(new, u)
           /\ AllDebits(rows \o new, u) = AllDebits(rows, u) + AllDebits(new, u)
           /\ GrantedIn(rows \o new, u) = GrantedIn(rows, u) + GrantedIn(new, u)
<1>1. PICK all : all = rows \o new
  OBVIOUS
<1>2. /\ all \in Seq(Rows) /\ Len(rows) \in Nat
      /\ DOMAIN all = DOMAIN rows \cup {Len(rows) + k : k \in DOMAIN new}
      /\ \A i \in DOMAIN rows : all[i] = rows[i]
      /\ \A k \in DOMAIN new : all[Len(rows) + k] = new[k]
  BY <1>1, Concat
<1>3. Bundles(all, u) = Bundles(rows, u) \cup {Len(rows) + k : k \in Bundles(new, u)}
  <2>1. PICK K : K = {r \in Rows : r.user = u /\ r.type = "CREDIT"}
    OBVIOUS
  <2>2. ASSUME NEW some \in Seq(Rows)
        PROVE  Bundles(some, u) = {i \in DOMAIN some : some[i] \in K}
    BY <2>1, KindsOfRows
  <2>4. /\ Bundles(all, u) = {i \in DOMAIN all : all[i] \in K}
        /\ Bundles(rows, u) = {i \in DOMAIN rows : rows[i] \in K}
        /\ Bundles(new, u) = {i \in DOMAIN new : new[i] \in K}
    BY <1>2, <2>2
  <2>3. {i \in DOMAIN all : all[i] \in K}
          = {i \in DOMAIN rows : rows[i] \in K} \cup {Len(rows) + k : k \in {j \in DOMAIN new : new[j] \in K}}
    BY <1>1, FilterConcat
  <2> QED
    BY <2>3, <2>4, Zenon
<1>4. RealIds(all, u) = RealIds(rows, u) \cup {Len(rows) + k : k \in RealIds(new, u)}
  <2>1. PICK K : K = {r \in Rows : r.user = u /\ r.type = "DEBIT" /\ r.source # "EXPIRED"}
    OBVIOUS
  <2>2. ASSUME NEW some \in Seq(Rows)
        PROVE  RealIds(some, u) = {i \in DOMAIN some : some[i] \in K}
    BY <2>1, KindsOfRows
  <2>4. /\ RealIds(all, u) = {i \in DOMAIN all : all[i] \in K}
        /\ RealIds(rows, u) = {i \in DOMAIN rows : rows[i] \in K}
        /\ RealIds(new, u) = {i \in DOMAIN new : new[i] \in K}
    BY <1>2, <2>2
  <2>3. {i \in DOMAIN all : all[i] \in K}
          = {i \in DOMAIN rows : rows[i] \in K} \cup {Len(rows) + k : k \in {j \in DOMAIN new : new[j] \in K}}
    BY <1>1, FilterConcat
  <2> QED
    BY <2>3, <2>4, Zenon
<1>5. DebitIds(all, u) = DebitIds(rows, u) \cup {Len(rows) + k : k \in DebitIds(new, u)}
  <2>1. PICK K : K = {r \in Rows : r.user = u /\ r.type = "DEBIT"}
    OBVIOUS
  <2>2. ASSUME NEW some \in Seq(Rows)
        PROVE  DebitIds(some, u) = {i \in DOMAIN some : some[i] \in K}
    BY <2>1, KindsOfRows
  <2>4. /\ DebitIds(all, u) = {i \in DOMAIN all : all[i] \in K}
        /\ DebitIds(rows, u) = {i \in DOMAIN rows : rows[i] \in K}
        /\ DebitIds(new, u) = {i \in DOMAIN new : new[i] \in K}
    BY <1>2, <2>2
  <2>3. {i \in DOMAIN all : all[i] \in K}
          = {i \in DOMAIN rows : rows[i] \in K} \cup {Len(rows) + k : k \in {j \in DOMAIN new : new[j] \in K}}
    BY <1>1, FilterConcat
  <2> QED
    BY <2>3, <2>4, Zenon
<1>6. RealDebits(all, u) = RealDebits(rows, u) + RealDebits(new, u)
  <2>1. PICK A, B : A = RealIds(rows, u) /\ B = RealIds(new, u)
    OBVIOUS
  <2>2. A \in SUBSET DOMAIN rows /\ B \in SUBSET DOMAIN new
    BY <2>1, DebitsAreSums
  <2>3. SumAmounts(all, A \cup {Len(rows) + k : k \in B}) = SumAmounts(rows, A) + SumAmounts(new, B)
    BY <1>1, <2>2, SumConcat
  <2> QED
    BY <1>2, <1>4, <2>1, <2>3, DebitsAreSums
<1>7. AllDebits(all, u) = AllDebits(rows, u) + AllDebits(new, u)
  <2>1. PICK A, B : A = DebitIds(rows, u) /\ B = DebitIds(new, u)
    OBVIOUS
  <2>2. A \in SUBSET DOMAIN rows /\ B \in SUBSET DOMAIN new
    BY <2>1, DebitsAreSums
  <2>3. SumAmounts(all, A \cup {Len(rows) + k : k \in B}) = SumAmounts(rows, A) + SumAmounts(new, B)
    BY <1>1, <2>2, SumConcat
  <2> QED
    BY <1>2, <1>5, <2>1, <2>3, DebitsAreSums
<1>8. GrantedIn(all, u) = GrantedIn(rows, u) + GrantedIn(new, u)
  <2>1. PICK A, B : A = Bundles(rows, u) /\ B = Bundles(new, u)
    OBVIOUS
  <2>2. A \in SUBSET DOMAIN rows /\ B \in SUBSET DOMAIN new
    BY <2>1, BundleFacts
  <2>3. SumAmounts(all, A \cup {Len(rows) + k : k \in B}) = SumAmounts(rows, A) + SumAmounts(new, B)
    BY <1>1, <2>2, SumConcat
  <2> QED
    BY <1>3, <2>1, <2>3 DEF GrantedIn
<1> QED
  BY <1>1, <1>3, <1>6, <1>7, <1>8

LEMMA OneRow ==
    ASSUME NEW r \in Rows
    PROVE  /\ <<r>> \in Seq(Rows) /\ DOMAIN <<r>> = {1} /\ <<r>>[1] = r
           /\ SumAmounts(<<r>>, {1}) = r.amount /\ SumAmounts(<<r>>, {}) = 0
           /\ \A rows \in Seq(Rows) : Append(rows, r) = rows \o <<r>>
<1>1. <<r>> \in Seq(Rows) /\ DOMAIN <<r>> = {1} /\ <<r>>[1] = r
  OBVIOUS
<1>2. SumAmounts(<<r>>, {}) = 0
  BY SumNoRows
<1>3. SumAmounts(<<r>>, {} \cup {1}) = <<r>>[1].amount + SumAmounts(<<r>>, {})
  BY <1>1, SumRowAdd
<1>4. r.amount \in Nat
  BY DEF Rows
<1>5. SumAmounts(<<r>>, {1}) = r.amount
  <2>1. {} \cup {1} = {1}
    OBVIOUS
  <2> QED
    BY <1>1, <1>2, <1>3, <1>4, <2>1
<1>6. ASSUME NEW rows \in Seq(Rows) PROVE Append(rows, r) = rows \o <<r>>
  OBVIOUS
<1> QED
  BY <1>1, <1>2, <1>5, <1>6

\* A granted bundle.
LEMMA GrantGrows ==
    ASSUME NEW rows \in Seq(Rows), NEW u, NEW r \in Rows, r.type = "CREDIT"
    PROVE  /\ Append(rows, r) \in Seq(Rows)
           /\ RealDebits(Append(rows, r), u) = RealDebits(rows, u)
           /\ AllDebits(Append(rows, r), u) = AllDebits(rows, u)
           /\ GrantedIn(Append(rows, r), u) >= GrantedIn(rows, u)
           /\ Bundles(Append(rows, r), u)
                = IF r.user = u THEN Bundles(rows, u) \cup {Len(rows) + 1} ELSE Bundles(rows, u)
<1>1. PICK one : one = <<r>>
  OBVIOUS
<1>2. one \in Seq(Rows) /\ DOMAIN one = {1} /\ one[1] = r /\ Append(rows, r) = rows \o one
      /\ SumAmounts(one, {}) = 0
  BY <1>1, OneRow
<1>3. RealIds(one, u) = {} /\ DebitIds(one, u) = {}
  BY <1>2 DEF RealIds, DebitIds
<1>4. RealDebits(one, u) = 0 /\ AllDebits(one, u) = 0
  BY <1>2, <1>3, DebitsAreSums
<1>5. Bundles(one, u) = IF r.user = u THEN {1} ELSE {}
  BY <1>2 DEF Bundles
<1>6. rows \o one \in Seq(Rows)
  BY <1>2, Concat
<1>7. /\ Bundles(rows \o one, u) = Bundles(rows, u) \cup {Len(rows) + k : k \in Bundles(one, u)}
      /\ RealDebits(rows \o one, u) = RealDebits(rows, u) + RealDebits(one, u)
      /\ AllDebits(rows \o one, u) = AllDebits(rows, u) + AllDebits(one, u)
      /\ GrantedIn(rows \o one, u) = GrantedIn(rows, u) + GrantedIn(one, u)
  BY <1>2, SumsGrow
<1>8. /\ RealDebits(rows, u) \in Nat /\ AllDebits(rows, u) \in Nat
      /\ GrantedIn(rows, u) \in Nat /\ GrantedIn(one, u) \in Nat
  BY <1>2, DebitsAreSums
<1>9. GrantedIn(rows \o one, u) >= GrantedIn(rows, u)
  BY <1>7, <1>8
<1>10. RealDebits(rows \o one, u) = RealDebits(rows, u) /\ AllDebits(rows \o one, u) = AllDebits(rows, u)
  BY <1>4, <1>7, <1>8
<1>11. Bundles(rows \o one, u) = IF r.user = u THEN Bundles(rows, u) \cup {Len(rows) + 1} ELSE Bundles(rows, u)
  BY <1>5, <1>7
<1> QED
  BY <1>2, <1>6, <1>9, <1>10, <1>11

\* A spend.
LEMMA SpendGrows ==
    ASSUME NEW rows \in Seq(Rows), NEW u, NEW r \in Rows, r.type = "DEBIT", r.source # "EXPIRED"
    PROVE  /\ Append(rows, r) \in Seq(Rows)
           /\ RealDebits(Append(rows, r), u) = RealDebits(rows, u) + IF r.user = u THEN r.amount ELSE 0
           /\ AllDebits(Append(rows, r), u) = AllDebits(rows, u) + IF r.user = u THEN r.amount ELSE 0
           /\ GrantedIn(Append(rows, r), u) = GrantedIn(rows, u)
           /\ Bundles(Append(rows, r), u) = Bundles(rows, u)
<1>1. PICK one : one = <<r>>
  OBVIOUS
<1>2. one \in Seq(Rows) /\ DOMAIN one = {1} /\ one[1] = r /\ Append(rows, r) = rows \o one
      /\ SumAmounts(one, {}) = 0 /\ SumAmounts(one, {1}) = r.amount
  BY <1>1, OneRow
<1>3. /\ RealIds(one, u) = IF r.user = u THEN {1} ELSE {}
      /\ DebitIds(one, u) = IF r.user = u THEN {1} ELSE {}
  BY <1>2 DEF RealIds, DebitIds
<1>4. /\ RealDebits(one, u) = IF r.user = u THEN r.amount ELSE 0
      /\ AllDebits(one, u) = IF r.user = u THEN r.amount ELSE 0
  BY <1>2, <1>3, DebitsAreSums
<1>5. Bundles(one, u) = {}
  BY <1>2 DEF Bundles
<1>6. GrantedIn(one, u) = 0
  BY <1>2, <1>5 DEF GrantedIn
<1>7. rows \o one \in Seq(Rows)
  BY <1>2, Concat
<1>8. /\ Bundles(rows \o one, u) = Bundles(rows, u) \cup {Len(rows) + k : k \in Bundles(one, u)}
      /\ RealDebits(rows \o one, u) = RealDebits(rows, u) + RealDebits(one, u)
      /\ AllDebits(rows \o one, u) = AllDebits(rows, u) + AllDebits(one, u)
      /\ GrantedIn(rows \o one, u) = GrantedIn(rows, u) + GrantedIn(one, u)
  BY <1>2, SumsGrow
<1>9. GrantedIn(rows, u) \in Nat
  BY DebitsAreSums
<1>10. GrantedIn(rows \o one, u) = GrantedIn(rows, u) /\ Bundles(rows \o one, u) = Bundles(rows, u)
  BY <1>5, <1>6, <1>8, <1>9
<1> QED
  BY <1>2, <1>4, <1>7, <1>8, <1>10

\* EXPIRED rows of one user.
AreExpired(new, v) == \A k \in DOMAIN new : new[k].user = v /\ new[k].type = "DEBIT" /\ new[k].source = "EXPIRED"

LEMMA ExpiredGrows ==
    ASSUME NEW rows \in Seq(Rows), NEW new \in Seq(Rows), NEW v, AreExpired(new, v), NEW u
    PROVE  /\ rows \o new \in Seq(Rows)
           /\ RealDebits(rows \o new, u) = RealDebits(rows, u)
           /\ AllDebits(rows \o new, u)
                = AllDebits(rows, u) + IF u = v THEN SumAmounts(new, DOMAIN new) ELSE 0
           /\ GrantedIn(rows \o new, u) = GrantedIn(rows, u)
           /\ Bundles(rows \o new, u) = Bundles(rows, u)
<1>1. SumAmounts(new, {}) = 0
  BY SumNoRows
<1>2. RealIds(new, u) = {} /\ Bundles(new, u) = {}
  BY DEF RealIds, Bundles, AreExpired
<1>3. DebitIds(new, u) = IF u = v THEN DOMAIN new ELSE {}
  BY DEF DebitIds, AreExpired
<1>4. RealDebits(new, u) = 0 /\ AllDebits(new, u) = IF u = v THEN SumAmounts(new, DOMAIN new) ELSE 0
  BY <1>1, <1>2, <1>3, DebitsAreSums
<1>5. GrantedIn(new, u) = 0
  BY <1>1, <1>2 DEF GrantedIn
<1>6. rows \o new \in Seq(Rows)
  BY Concat
<1>7. /\ Bundles(rows \o new, u) = Bundles(rows, u) \cup {Len(rows) + k : k \in Bundles(new, u)}
      /\ RealDebits(rows \o new, u) = RealDebits(rows, u) + RealDebits(new, u)
      /\ AllDebits(rows \o new, u) = AllDebits(rows, u) + AllDebits(new, u)
      /\ GrantedIn(rows \o new, u) = GrantedIn(rows, u) + GrantedIn(new, u)
  BY SumsGrow
<1>8. GrantedIn(rows, u) \in Nat /\ RealDebits(rows, u) \in Nat
  BY DebitsAreSums
<1>9. GrantedIn(rows \o new, u) = GrantedIn(rows, u) /\ RealDebits(rows \o new, u) = RealDebits(rows, u)
      /\ Bundles(rows \o new, u) = Bundles(rows, u)
  BY <1>2, <1>4, <1>5, <1>7, <1>8
<1> QED
  BY <1>4, <1>6, <1>7, <1>9

-----------------------------------------------------------------------------
(* What the readers compute.                                               *)

\* The loop reads the bundles and nothing else of the ledger.
LEMMA DrainSame ==
    ASSUME NEW rows, NEW more, NEW u, NEW debits, Bundles(more, u) = Bundles(rows, u),
           \A i \in Bundles(rows, u) : more[i] = rows[i]
    PROVE  Drain(more, u, debits) = Drain(rows, u, debits)
<1>1. PICK B : B = Bundles(rows, u)
  OBVIOUS
<1>2. PICK size : size = [i \in B |-> rows[i].amount]
  OBVIOUS
<1>3. size = [i \in B |-> more[i].amount]
  BY <1>1, <1>2
<1>4. ASSUME NEW i \in B PROVE Drained(debits, size, B, more, i) = Drained(debits, size, B, rows, i)
  <2>1. {j \in B : Sooner(more, j, i)} = {j \in B : Sooner(rows, j, i)}
    BY <1>1 DEF Sooner
  <2> QED
    BY <2>1 DEF Drained
<1>5. Drain(rows, u, debits) = [i \in B |-> size[i] - Drained(debits, size, B, rows, i)]
  BY <1>1, <1>2 DEF Drain
<1>6. Drain(more, u, debits) = [i \in B |-> size[i] - Drained(debits, size, B, more, i)]
  BY <1>1, <1>3 DEF Drain
<1> QED
  BY <1>4, <1>5, <1>6

LEMMA BalanceSame ==
    ASSUME NEW rows, NEW more, NEW u, NEW time, Bundles(more, u) = Bundles(rows, u),
           \A i \in Bundles(rows, u) : more[i] = rows[i], RealDebits(more, u) = RealDebits(rows, u)
    PROVE  Balance(more, u, time) = Balance(rows, u, time)
<1>1. Drain(more, u, RealDebits(more, u)) = Drain(rows, u, RealDebits(rows, u))
  BY DrainSame
<1>2. {i \in Bundles(more, u) : more[i].expiresAt > time} = {i \in Bundles(rows, u) : rows[i].expiresAt > time}
  OBVIOUS
<1> QED
  BY <1>1, <1>2 DEF Balance

LEMMA AllAreFirst == ASSUME NEW B, NEW rows PROVE AreFirst(B, B, rows)
BY DEF AreFirst

\* A balance that is not nought is covered by what was granted and not spent.
LEMMA BalanceCovered ==
    ASSUME NEW rows \in Seq(Rows), NEW u, NEW time
    PROVE  /\ Balance(rows, u, time) \in Nat
           /\ Balance(rows, u, time) > 0 => Balance(rows, u, time) + RealDebits(rows, u) <= GrantedIn(rows, u)
<1>1. PICK B : B = Bundles(rows, u)
  OBVIOUS
<1>2. PICK d \in Nat : d = RealDebits(rows, u)
  BY DebitsAreSums
<1>3. PICK unused : unused = Drain(rows, u, d)
  OBVIOUS
<1>4. /\ \A i \in B : unused[i] \in Nat
      /\ SumFunctionOnSet(unused, B) = IF d <= SumAmounts(rows, B) THEN SumAmounts(rows, B) - d ELSE 0
  BY <1>1, <1>2, <1>3, DrainFacts, AllAreFirst
<1>5. PICK live \in SUBSET B : live = {i \in B : rows[i].expiresAt > time}
  OBVIOUS
<1>6. IsFiniteSet(B)
  BY <1>1, BundleFacts
<1>7. SumFunctionOnSet(unused, live) \in Nat /\ SumFunctionOnSet(unused, live) <= SumFunctionOnSet(unused, B)
  BY <1>4, <1>5, <1>6, SumSubset
<1>8. PICK n \in Nat : n = GrantedIn(rows, u)
  BY DebitsAreSums
<1>9. SumFunctionOnSet(unused, B) = IF d <= n THEN n - d ELSE 0
  BY <1>1, <1>4, <1>8 DEF GrantedIn
<1>10. Balance(rows, u, time) = SumFunctionOnSet(unused, live)
  BY <1>1, <1>2, <1>3, <1>5 DEF Balance
<1>11. PICK b \in Nat : b = SumFunctionOnSet(unused, live)
  BY <1>7
<1>12. b > 0 => b + d <= n
  BY <1>7, <1>9, <1>11
<1> QED
  BY <1>2, <1>8, <1>10, <1>11, <1>12

\* The rows new that the worker finds missing, for the bundles due.
IsRun(rows, u, asOf, new, unused, due) ==
    /\ new = Expirations(rows, u, asOf)
    /\ unused = Drain(rows, u, AllDebits(rows, u))
    /\ due = {i \in Bundles(rows, u) : rows[i].expiresAt <= asOf /\ unused[i] > 0}

LEMMA ExpirationsFacts ==
    ASSUME NEW rows \in Seq(Rows), NEW u \in Users, NEW asOf, NEW new, NEW unused, NEW due,
           IsRun(rows, u, asOf, new, unused, due)
    PROVE  /\ new \in Seq(Rows) /\ AreExpired(new, u)
           /\ \A k \in DOMAIN new : new[k].ref \in due /\ new[k].amount = unused[new[k].ref]
           /\ \A k, l \in DOMAIN new : k # l => new[k].ref # new[l].ref
           /\ \A i \in due : \E k \in DOMAIN new : new[k].ref = i
           /\ new = <<>> <=> due = {}
<1> USE DEF IsRun
<1>1. PICK order : order = SetToSeq(due)
  OBVIOUS
<1>2. due \subseteq Bundles(rows, u) /\ IsFiniteSet(due)
  BY BundleFacts, FS_Subset
<1>3. PICK n \in Nat : n = Cardinality(due) /\ ExistsBijection(1 .. n, due)
  BY <1>2, FS_CardinalityType
<1>4. order \in [1 .. n -> due] /\ IsInjective(order)
  <2>1. PICK f : f \in Bijection(1 .. n, due)
    BY <1>3 DEF ExistsBijection
  <2>2. f \in [1 .. n -> due] /\ IsInjective(f)
    BY <2>1 DEF Bijection, Injection
  <2> QED
    BY <1>1, <1>3, <2>2 DEF SetToSeq
<1>5. order \in Surjection(1 .. n, due)
  <2>1. order \in Injection(1 .. n, due)
    BY <1>4 DEF Injection
  <2>2. Cardinality(1 .. n) = n
    BY FS_Interval
  <2> QED
    BY <1>2, <1>3, <2>1, <2>2, FS_Injection
<1>6. new = [k \in 1 .. n |-> DebitRow(u, unused[order[k]], "EXPIRED", order[k])]
  <2>1. DOMAIN order = 1 .. n
    BY <1>4
  <2> QED
    BY <1>1, <2>1 DEF Expirations
<1>7. ASSUME NEW k \in 1 .. n
      PROVE  /\ new[k] \in Rows /\ new[k].ref = order[k] /\ new[k].amount = unused[order[k]]
             /\ new[k].user = u /\ new[k].type = "DEBIT" /\ new[k].source = "EXPIRED"
             /\ order[k] \in due
  <2>1. PICK i : i = order[k]
    OBVIOUS
  <2>2. i \in due
    BY <1>4, <2>1
  <2>3. new[k] = DebitRow(u, unused[i], "EXPIRED", i)
    BY <1>6, <2>1
  <2>4. unused[i] \in Nat \ {0} /\ i \in Nat
    <3>1. AllDebits(rows, u) \in Nat
      BY DebitsAreSums
    <3>2. i \in Bundles(rows, u) /\ unused[i] > 0
      BY <2>2
    <3>3. unused[i] \in Nat
      BY <3>1, <3>2, DrainFacts, AllAreFirst
    <3> QED
      BY <3>2, <3>3, BundleFacts
  <2>5. Never \in 1 .. Never
    BY NeverLast, Bounds
  <2>6. new[k] = [user |-> u, type |-> "DEBIT", amount |-> unused[i], source |-> "EXPIRED",
                  ref |-> i, expiresAt |-> Never]
    BY <2>3 DEF DebitRow
  <2>7. new[k] \in Rows
    BY <2>4, <2>5, <2>6 DEF Rows
  <2> QED
    BY <2>1, <2>2, <2>6, <2>7
<1>8. new \in Seq(Rows) /\ DOMAIN new = 1 .. n
  BY <1>6, <1>7
<1>9. AreExpired(new, u)
  BY <1>7, <1>8 DEF AreExpired
<1>10. \A k \in DOMAIN new : new[k].ref \in due /\ new[k].amount = unused[new[k].ref]
  BY <1>7, <1>8
<1>11. ASSUME NEW k \in DOMAIN new, NEW l \in DOMAIN new, k # l PROVE new[k].ref # new[l].ref
  <2>1. order[k] # order[l]
    BY <1>4, <1>8, <1>11 DEF IsInjective
  <2> QED
    BY <1>7, <1>8, <2>1
<1>12. ASSUME NEW i \in due PROVE \E k \in DOMAIN new : new[k].ref = i
  <2>1. PICK k \in 1 .. n : order[k] = i
    BY <1>5 DEF Surjection
  <2> QED
    BY <1>7, <1>8, <2>1
<1>13. new = <<>> <=> due = {}
  <2>1. ASSUME new = <<>> PROVE due = {}
    <3>1. DOMAIN new = {}
      BY <2>1
    <3> QED
      BY <1>12, <3>1
  <2>2. ASSUME due = {} PROVE new = <<>>
    <3>1. 1 .. n = {}
      BY <1>4, <2>2
    <3>2. DOMAIN new = {} /\ Len(new) = 0
      BY <1>8, <3>1
    <3> QED
      BY <1>8, <3>2
  <2> QED
    BY <2>1, <2>2
<1> QED
  BY <1>8, <1>9, <1>10, <1>11, <1>12, <1>13

LEMMA ExpirationsTyped ==
    ASSUME NEW rows \in Seq(Rows), NEW u \in Users, NEW asOf
    PROVE  Expirations(rows, u, asOf) \in Seq(Rows) /\ AreExpired(Expirations(rows, u, asOf), u)
<1>1. PICK new : new = Expirations(rows, u, asOf)
  OBVIOUS
<1>2. PICK unused : unused = Drain(rows, u, AllDebits(rows, u))
  OBVIOUS
<1>3. PICK due : due = {i \in Bundles(rows, u) : rows[i].expiresAt <= asOf /\ unused[i] > 0}
  OBVIOUS
<1>4. new \in Seq(Rows) /\ AreExpired(new, u)
  <2>1. IsRun(rows, u, asOf, new, unused, due)
    BY <1>1, <1>2, <1>3 DEF IsRun
  <2> QED
    BY <2>1, ExpirationsFacts
<1> QED
  BY <1>1, <1>4

\* The amounts of rows that refer to different bundles, summed over the bundles.
LEMMA SumByRef ==
    ASSUME NEW new \in Seq(Rows), NEW f, \A k \in DOMAIN new : new[k].amount = f[new[k].ref],
           \A k, l \in DOMAIN new : k # l => new[k].ref # new[l].ref
    PROVE  SumAmounts(new, DOMAIN new) = SumFunctionOnSet(f, {new[k].ref : k \in DOMAIN new})
<1> DEFINE Refs(K) == {new[k].ref : k \in K}
           Good == {K \in SUBSET DOMAIN new : IsFiniteSet(Refs(K)) /\ SumAmounts(new, K) = SumFunctionOnSet(f, Refs(K))}
<1>1. {} \in Good
  <2>1. Refs({}) = {}
    OBVIOUS
  <2>2. SumFunctionOnSet(f, {}) = 0 /\ SumAmounts(new, {}) = 0 /\ IsFiniteSet({})
    BY SumEmpty, SumNoRows, FS_EmptySet
  <2> HIDE DEF Refs
  <2> QED
    BY <2>1, <2>2
<1>2. ASSUME NEW K \in SUBSET DOMAIN new, NEW x \in K, K \ {x} \in Good PROVE K \in Good
  <2>1. PICK L : L = K \ {x}
    OBVIOUS
  <2>2. PICK R, r : R = Refs(L) /\ r = new[x].ref
    OBVIOUS
  <2>3. Refs(K) = R \cup {r}
    BY <2>1, <2>2
  <2>4. r \notin R
    BY <2>1, <2>2
  <2>5. IsFiniteSet(R) /\ SumAmounts(new, L) = SumFunctionOnSet(f, R)
    BY <1>2, <2>1, <2>2
  <2>6. \A i \in R \cup {r} : f[i] \in Nat
    <3>1. \A k \in K : f[new[k].ref] \in Nat
      BY RowFields
    <3> QED
      BY <2>1, <2>2, <3>1
  <2>7. SumFunctionOnSet(f, R \cup {r}) = f[r] + SumFunctionOnSet(f, R)
    BY <2>4, <2>5, <2>6, SumAdd
  <2>8. SumAmounts(new, L \cup {x}) = new[x].amount + SumAmounts(new, L) /\ L \cup {x} = K
    BY <2>1, SumRowAdd
  <2>9. new[x].amount = f[r]
    BY <2>2
  <2>10. IsFiniteSet(R \cup {r})
    BY <2>5, FS_AddElement
  <2>11. SumAmounts(new, K) = SumFunctionOnSet(f, R \cup {r})
    BY <2>5, <2>7, <2>8, <2>9
  <2>12. IsFiniteSet(Refs(K)) /\ SumAmounts(new, K) = SumFunctionOnSet(f, Refs(K))
    <3> HIDE DEF Refs
    <3> QED
      BY <2>3, <2>10, <2>11
  <2> QED
    BY <2>12
<1>3. IsFiniteSet(DOMAIN new)
  BY RowsFinite
<1>4. DOMAIN new \in Good
  <2> HIDE DEF Good, Refs
  <2> QED
    BY <1>1, <1>2, <1>3, RemovalInduction
<1> QED
  BY <1>4

-----------------------------------------------------------------------------
(* Types.                                                                  *)

Requests == [pc : {"checked"}, user : Users]
Pagings  == [pc : {"paging"}, asOf : 0 .. MaxTime, cursor : Users \cup {0}]
Workings == [pc : {"read", "write"}, msg : Batches, todo : SUBSET Users, rows : Seq(Rows)]

\* The variables apart from the history.
Typed ==
    /\ ledger \in Seq(Rows) /\ now \in 0 .. MaxTime
    /\ tx \in [Txs -> {Idle} \cup Requests]
    /\ job \in {Idle} \cup Pagings /\ jobDay \in 0 .. MaxTime + 1
    /\ topic \subseteq Batches
    /\ worker \in [Workers -> {Idle} \cup Workings]
    /\ spends \in 0 .. MaxSpends /\ faults \in 0 .. MaxFaults

\* The history: who is charged is a bundle that is there.
Recorded ==
    /\ DOMAIN charged = Txs \cup {0}
    /\ \A t \in Txs \cup {0} : /\ charged[t] \in [DOMAIN charged[t] -> Nat]
                             /\ DOMAIN charged[t] \subseteq DOMAIN ledger
    /\ closedTo \in [Users -> -1 .. MaxTime]

LEMMA TypesSplit == TypeOK <=> Typed /\ Recorded
BY DEF TypeOK, Typed, Recorded, Requests, Pagings, Workings

LEMMA IdleApart == Idle \notin Requests /\ Idle \notin Pagings /\ Idle \notin Workings /\ Idle.pc = "idle"
BY DEF Idle, Requests, Pagings, Workings

LEMMA TxFields ==
    ASSUME Typed, NEW t \in Txs, tx[t] # Idle \/ tx[t].pc = "checked"
    PROVE  tx[t] # Idle /\ tx[t] \in Requests /\ tx[t].user \in Users /\ tx[t].pc = "checked"
<1>1. tx[t] \in Requests
  BY IdleApart DEF Typed
<1> QED
  BY <1>1, IdleApart DEF Requests

LEMMA JobFields ==
    ASSUME Typed, job.pc = "paging"
    PROVE  job \in Pagings /\ job.asOf \in 0 .. MaxTime /\ job.cursor \in Users \cup {0}
<1>1. job \in Pagings
  BY IdleApart DEF Typed
<1> QED
  BY <1>1 DEF Pagings

LEMMA WorkerFields ==
    ASSUME Typed, NEW w \in Workers, worker[w] # Idle \/ worker[w].pc = "read" \/ worker[w].pc = "write"
    PROVE  /\ worker[w] # Idle /\ worker[w] \in Workings /\ worker[w].pc \in {"read", "write"}
           /\ worker[w].msg \in Batches /\ worker[w].msg.asOf \in 0 .. MaxTime
           /\ worker[w].todo \in SUBSET Users /\ worker[w].rows \in Seq(Rows)
<1>1. worker[w] \in Workings
  BY IdleApart DEF Typed
<1>2. worker[w].msg \in Batches /\ worker[w].todo \in SUBSET Users /\ worker[w].rows \in Seq(Rows)
      /\ worker[w].pc \in {"read", "write"}
  BY <1>1 DEF Workings
<1> QED
  BY <1>1, <1>2, IdleApart DEF Batches

LEMMA TodoFirst ==
    ASSUME Typed, NEW w \in Workers, worker[w] # Idle, worker[w].todo # {}
    PROVE  Min(worker[w].todo) \in worker[w].todo /\ Min(worker[w].todo) \in Users
<1>1. worker[w].todo \in SUBSET Users
  BY WorkerFields
<1>2. PICK S : S = worker[w].todo
  OBVIOUS
<1>3. S \subseteq Nat /\ S # {} /\ S \subseteq Users
  BY <1>1, <1>2, Bounds
<1>4. Min(S) \in S
  BY <1>3, MinOf
<1> QED
  BY <1>2, <1>3, <1>4

LEMMA NowFacts == ASSUME Typed PROVE now \in Nat /\ now <= MaxTime /\ now \in 0 .. MaxTime
BY Bounds DEF Typed

LEMMA NewCredit ==
    ASSUME Typed, NEW u \in Users, NEW amount \in Amounts, NEW days \in ExpiryDays, NEW r,
           r = CreditRow(u, amount, IF days = 0 THEN Never ELSE now + days)
    PROVE  /\ r \in Rows /\ r.type = "CREDIT" /\ r.user = u /\ r.amount = amount
           /\ r.source = "GRANT" /\ r.expiresAt \in Nat /\ r.expiresAt > now
<1>1. PICK e : e = IF days = 0 THEN Never ELSE now + days
  OBVIOUS
<1>2. e \in 1 .. Never /\ e > now
  BY <1>1, NowFacts, NeverLast, Bounds
<1>3. amount \in Nat \ {0}
  BY Bounds
<1>4. r = [user |-> u, type |-> "CREDIT", amount |-> amount, source |-> "GRANT", ref |-> 0, expiresAt |-> e]
  BY <1>1 DEF CreditRow, NoRef
<1>5. r \in Rows
  BY <1>2, <1>3, <1>4 DEF Rows
<1>6. Never \in Nat
  BY NeverLast
<1> QED
  BY <1>2, <1>4, <1>5, <1>6

LEMMA NewDebit ==
    ASSUME NEW u \in Users, NEW r, r = DebitRow(u, Cost, "LIKE_USAGE", NoRef)
    PROVE  r \in Rows /\ r.type = "DEBIT" /\ r.user = u /\ r.amount = Cost /\ r.source = "LIKE_USAGE"
<1>1. r = [user |-> u, type |-> "DEBIT", amount |-> Cost, source |-> "LIKE_USAGE", ref |-> 0, expiresAt |-> Never]
  BY DEF DebitRow, NoRef
<1>2. Never \in 1 .. Never /\ Cost \in Nat \ {0}
  BY NeverLast, Bounds
<1>3. r \in Rows
  BY <1>1, <1>2 DEF Rows
<1> QED
  BY <1>1, <1>3

LEMMA GrantTyped ==
    ASSUME Typed, NEW u \in Users, NEW amount \in Amounts, NEW days \in ExpiryDays,
           GrantCredits(u, amount, days)
    PROVE  Typed'
<1>1. PICK r : r = CreditRow(u, amount, IF days = 0 THEN Never ELSE now + days)
  OBVIOUS
<1>2. ledger' = Append(ledger, r) /\ r \in Rows
  BY <1>1, NewCredit DEF GrantCredits
<1>3. ledger' \in Seq(Rows)
  BY <1>2 DEF Typed
<1> QED
  BY <1>3 DEF Typed, GrantCredits

LEMMA CheckTyped ==
    ASSUME Typed, NEW t \in Txs, NEW u \in Users, CheckBalance(t, u)
    PROVE  Typed'
<1>1. tx' \in [Txs -> {Idle} \cup Requests]
  <2>1. [pc |-> "checked", user |-> u] \in Requests
    BY DEF Requests
  <2> QED
    BY <2>1 DEF Typed, CheckBalance
<1>2. spends' \in 0 .. MaxSpends
  BY Bounds DEF Typed, CheckBalance
<1> QED
  BY <1>1, <1>2 DEF Typed, CheckBalance

LEMMA CommitTyped ==
    ASSUME Typed, NEW t \in Txs, CommitSpend(t)
    PROVE  Typed'
<1>1. PICK u \in Users : u = tx[t].user
  BY TxFields DEF CommitSpend
<1>2. PICK r : r = DebitRow(u, Cost, "LIKE_USAGE", NoRef)
  OBVIOUS
<1>3. ledger' = Append(ledger, r) /\ r \in Rows
  BY <1>1, <1>2, NewDebit DEF CommitSpend
<1>4. ledger' \in Seq(Rows)
  BY <1>3 DEF Typed
<1>5. tx' \in [Txs -> {Idle} \cup Requests]
  BY DEF Typed, CommitSpend
<1> QED
  BY <1>4, <1>5 DEF Typed, CommitSpend

LEMMA RollbackTyped ==
    ASSUME Typed, NEW t \in Txs, RollbackSpend(t)
    PROVE  Typed'
<1>1. tx' \in [Txs -> {Idle} \cup Requests]
  BY DEF Typed, RollbackSpend
<1> QED
  BY <1>1 DEF Typed, RollbackSpend

LEMMA StartTyped ==
    ASSUME Typed, StartJob
    PROVE  Typed'
<1>1. job' \in Pagings
  BY DEF Typed, StartJob, Pagings
<1>2. jobDay' \in 0 .. MaxTime + 1
  BY NowFacts, Bounds DEF StartJob
<1> QED
  BY <1>1, <1>2 DEF Typed, StartJob

LEMMA PublishTyped ==
    ASSUME Typed, PublishPage
    PROVE  Typed'
<1>1. PICK page : page = Page(job.asOf, job.cursor)
  OBVIOUS
<1>2. page \in SUBSET Users /\ IsFiniteSet(page) /\ page \subseteq Int
  <2>1. page \in SUBSET Users
    BY <1>1 DEF Page, UsersDue
  <2>2. Users \subseteq Nat /\ IsFiniteSet(Users)
    BY Bounds
  <2>3. IsFiniteSet(page)
    BY <2>1, <2>2, FS_Subset
  <2> QED
    BY <2>1, <2>2, <2>3
<1>3. job \in Pagings /\ job.asOf \in 0 .. MaxTime /\ job.cursor \in Users \cup {0}
  BY JobFields DEF PublishPage
<1>4. [userIds |-> page, asOf |-> job.asOf] \in Batches
  BY <1>2, <1>3 DEF Batches
<1>5. topic' \subseteq Batches
  BY <1>1, <1>4 DEF Typed, PublishPage
<1>6. ASSUME ~(Cardinality(page) < BatchSize) PROVE Max(page) \in Users
  <2>1. page # {}
    <3>1. Cardinality({}) = 0
      BY FS_EmptySet
    <3> QED
      BY <1>6, <3>1, Bounds
  <2> QED
    BY <1>2, <2>1, MaxOf
<1>7. job' \in {Idle} \cup Pagings
  <2>1. CASE Cardinality(page) < BatchSize
    BY <1>1, <2>1 DEF PublishPage
  <2>2. CASE ~(Cardinality(page) < BatchSize)
    <3>1. job' = [job EXCEPT !.cursor = Max(page)]
      BY <1>1, <2>2 DEF PublishPage
    <3> QED
      BY <1>3, <1>6, <2>2, <3>1 DEF Pagings
  <2> QED
    BY <2>1, <2>2
<1> QED
  BY <1>5, <1>7 DEF Typed, PublishPage

LEMMA JobFailsTyped ==
    ASSUME Typed, JobFails
    PROVE  Typed'
<1>1. job.asOf \in 0 .. MaxTime
  BY JobFields DEF JobFails
<1>2. jobDay' \in 0 .. MaxTime + 1 /\ faults' \in 0 .. MaxFaults
  BY <1>1, Bounds DEF Typed, JobFails
<1> QED
  BY <1>2 DEF Typed, JobFails

LEMMA DeliverTyped ==
    ASSUME Typed, NEW w \in Workers, NEW m \in topic, Deliver(w, m)
    PROVE  Typed'
<1>1. m \in Batches
  BY DEF Typed
<1>2. m.userIds \in SUBSET Users /\ <<>> \in Seq(Rows)
  BY <1>1 DEF Batches
<1>3. [pc |-> "read", msg |-> m, todo |-> m.userIds, rows |-> <<>>] \in Workings
  BY <1>1, <1>2 DEF Workings
<1>4. worker' \in [Workers -> {Idle} \cup Workings]
  BY <1>3 DEF Typed, Deliver
<1> QED
  BY <1>4 DEF Typed, Deliver

\* What ReadLedger leaves in the worker.
LEMMA ReadStep ==
    ASSUME Typed, NEW w \in Workers, ReadLedger(w), NEW u, u = Min(worker[w].todo),
           NEW new, new = Expirations(ledger, u, worker[w].msg.asOf)
    PROVE  /\ worker[w] \in Workings /\ u \in Users /\ u \in worker[w].todo /\ new \in Seq(Rows)
           /\ worker' \in [Workers -> {Idle} \cup Workings]
           /\ \A v \in Workers \ {w} : worker'[v] = worker[v]
           /\ worker'[w] \in Workings /\ worker'[w].msg = worker[w].msg
           /\ new = <<>> => worker'[w].pc = "read" /\ worker'[w].todo = worker[w].todo \ {u}
           /\ new # <<>> => /\ worker'[w].pc = "write" /\ worker'[w].rows = new
                            /\ worker'[w].todo = worker[w].todo
<1>1. worker[w] # Idle /\ worker[w] \in Workings
  BY WorkerFields DEF ReadLedger
<1>2. u \in Users /\ u \in worker[w].todo
  BY <1>1, TodoFirst DEF ReadLedger
<1>3. new \in Seq(Rows)
  <2>1. ledger \in Seq(Rows)
    BY DEF Typed
  <2> QED
    BY <1>2, <2>1, ExpirationsTyped
<1>4. PICK W : W = IF new = <<>> THEN [worker[w] EXCEPT !.todo = @ \ {u}]
                   ELSE [worker[w] EXCEPT !.pc = "write", !.rows = new]
  OBVIOUS
<1>5. /\ W \in Workings /\ W.msg = worker[w].msg
      /\ new = <<>> => W.pc = worker[w].pc /\ W.todo = worker[w].todo \ {u}
      /\ new # <<>> => W.pc = "write" /\ W.rows = new /\ W.todo = worker[w].todo
  BY <1>1, <1>3, <1>4 DEF Workings
<1>6. worker' = [worker EXCEPT ![w] = W]
  <2>1. worker' = IF new = <<>> THEN [worker EXCEPT ![w].todo = @ \ {u}]
                  ELSE [worker EXCEPT ![w].pc = "write", ![w].rows = new]
    BY DEF ReadLedger
  <2>2. CASE new = <<>>
    <3>1. worker' = [worker EXCEPT ![w].todo = @ \ {u}] /\ W = [worker[w] EXCEPT !.todo = @ \ {u}]
      BY <1>4, <2>1, <2>2
    <3> QED
      BY <1>1, <3>1 DEF Typed, Workings
  <2>3. CASE new # <<>>
    <3>1. worker' = [worker EXCEPT ![w].pc = "write", ![w].rows = new]
          /\ W = [worker[w] EXCEPT !.pc = "write", !.rows = new]
      BY <1>4, <2>1, <2>3
    <3> QED
      BY <1>1, <3>1 DEF Typed, Workings
  <2> QED
    BY <2>2, <2>3
<1>7. worker' \in [Workers -> {Idle} \cup Workings] /\ worker'[w] = W
      /\ \A v \in Workers \ {w} : worker'[v] = worker[v]
  BY <1>5, <1>6 DEF Typed
<1>8. worker[w].pc = "read"
  BY DEF ReadLedger
<1> QED
  BY <1>1, <1>2, <1>3, <1>5, <1>7, <1>8

LEMMA ReadTyped ==
    ASSUME Typed, NEW w \in Workers, ReadLedger(w)
    PROVE  Typed'
<1>1. PICK u : u = Min(worker[w].todo)
  OBVIOUS
<1>2. PICK new : new = Expirations(ledger, u, worker[w].msg.asOf)
  OBVIOUS
<1>3. worker' \in [Workers -> {Idle} \cup Workings]
  BY <1>1, <1>2, ReadStep
<1> QED
  BY <1>3 DEF Typed, ReadLedger

LEMMA InsertStep ==
    ASSUME Typed, NEW w \in Workers, InsertExpired(w)
    PROVE  /\ worker[w] \in Workings /\ worker[w].rows \in Seq(Rows)
           /\ ledger' = ledger \o worker[w].rows /\ ledger' \in Seq(Rows)
           /\ worker' \in [Workers -> {Idle} \cup Workings]
           /\ \A v \in Workers \ {w} : worker'[v] = worker[v]
           /\ worker'[w] \in Workings /\ worker'[w].msg = worker[w].msg /\ worker'[w].pc = "read"
           /\ worker'[w].todo = worker[w].todo \ {Min(worker[w].todo)}
<1>1. worker[w] \in Workings /\ worker[w].rows \in Seq(Rows) /\ worker[w].todo \in SUBSET Users
  BY WorkerFields DEF InsertExpired
<1>2. ledger' = ledger \o worker[w].rows /\ ledger' \in Seq(Rows)
  BY <1>1, Concat DEF Typed, InsertExpired
<1>3. PICK W : W = [worker[w] EXCEPT !.pc = "read", !.rows = <<>>, !.todo = @ \ {Min(@)}]
  OBVIOUS
<1>4. <<>> \in Seq(Rows)
  OBVIOUS
<1>5. W \in Workings /\ W.msg = worker[w].msg /\ W.pc = "read" /\ W.todo = worker[w].todo \ {Min(worker[w].todo)}
  BY <1>1, <1>3, <1>4 DEF Workings
<1>6. worker' = [worker EXCEPT ![w] = W]
  BY <1>1, <1>3 DEF Typed, InsertExpired, Workings
<1>7. worker' \in [Workers -> {Idle} \cup Workings] /\ worker'[w] = W
      /\ \A v \in Workers \ {w} : worker'[v] = worker[v]
  BY <1>5, <1>6 DEF Typed
<1> QED
  BY <1>1, <1>2, <1>5, <1>7

LEMMA InsertTyped ==
    ASSUME Typed, NEW w \in Workers, InsertExpired(w)
    PROVE  Typed'
<1>1. ledger' \in Seq(Rows) /\ worker' \in [Workers -> {Idle} \cup Workings]
  BY InsertStep
<1> QED
  BY <1>1 DEF Typed, InsertExpired

LEMMA AckTyped ==
    ASSUME Typed, NEW w \in Workers, AckBatch(w)
    PROVE  Typed'
<1>1. worker' \in [Workers -> {Idle} \cup Workings] /\ topic' \subseteq Batches
  BY DEF Typed, AckBatch
<1> QED
  BY <1>1 DEF Typed, AckBatch

LEMMA FailTyped ==
    ASSUME Typed, NEW w \in Workers, WorkerFails(w)
    PROVE  Typed'
<1>1. worker' \in [Workers -> {Idle} \cup Workings] /\ faults' \in 0 .. MaxFaults
  BY Bounds DEF Typed, WorkerFails
<1> QED
  BY <1>1 DEF Typed, WorkerFails

LEMMA TickTyped ==
    ASSUME Typed, Tick
    PROVE  Typed'
<1>1. now' \in 0 .. MaxTime
  BY NowFacts, Bounds DEF Tick
<1> QED
  BY <1>1 DEF Typed, Tick

-----------------------------------------------------------------------------
(* The steps, and what a worker has in its hands.                          *)

\* The rows a worker is about to insert are EXPIRED rows of the user it works on.
Pending ==
    \A w \in Workers : worker[w].pc = "write" =>
        worker[w].todo # {} /\ AreExpired(worker[w].rows, Min(worker[w].todo))

Core == Typed /\ Pending

LEMMA InitCore == HInit => Core
<1> SUFFICES ASSUME HInit PROVE Core
  OBVIOUS
<1>1. <<>> \in Seq(Rows) /\ 0 \in 0 .. MaxTime /\ 0 \in 0 .. MaxTime + 1
      /\ 0 \in 0 .. MaxSpends /\ 0 \in 0 .. MaxFaults
  BY Bounds
<1>2. Typed
  BY <1>1 DEF HInit, Init, Typed
<1>3. Pending
  BY IdleApart DEF HInit, Init, Pending
<1> QED
  BY <1>2, <1>3 DEF Core

LEMMA PendingFacts ==
    ASSUME Core, NEW w \in Workers, InsertExpired(w)
    PROVE  /\ Min(worker[w].todo) \in worker[w].todo /\ Min(worker[w].todo) \in Users
           /\ AreExpired(worker[w].rows, Min(worker[w].todo))
<1>1. Typed /\ worker[w].pc = "write"
  BY DEF Core, InsertExpired
<1>2. worker[w] # Idle
  BY <1>1, IdleApart
<1>3. worker[w].todo # {} /\ AreExpired(worker[w].rows, Min(worker[w].todo))
  BY <1>1 DEF Core, Pending
<1> QED
  BY <1>1, <1>2, <1>3, TodoFirst

\* A worker step that leaves every other worker alone.
Others(w) == \A v \in Workers \ {w} : worker'[v] = worker[v]

LEMMA PendingStep ==
    ASSUME Core, NEW w \in Workers, Others(w),
           worker'[w].pc = "write" =>
              worker'[w].todo # {} /\ AreExpired(worker'[w].rows, Min(worker'[w].todo))
    PROVE  Pending'
<1>1. ASSUME NEW v \in Workers, worker'[v].pc = "write"
      PROVE  worker'[v].todo # {} /\ AreExpired(worker'[v].rows, Min(worker'[v].todo))
  <2>1. CASE v = w
    BY <1>1, <2>1
  <2>2. CASE v # w
    <3>1. worker'[v] = worker[v]
      BY <2>2 DEF Others
    <3>2. worker[v].pc = "write"
      BY <1>1, <3>1
    <3>3. worker[v].todo # {} /\ AreExpired(worker[v].rows, Min(worker[v].todo))
      BY <3>2 DEF Core, Pending
    <3> QED
      BY <3>1, <3>3
  <2> QED
    BY <2>1, <2>2
<1> QED
  BY <1>1 DEF Pending

LEMMA DeliverStep ==
    ASSUME Typed, NEW w \in Workers, NEW m \in topic, Deliver(w, m)
    PROVE  /\ worker'[w] = [pc |-> "read", msg |-> m, todo |-> m.userIds, rows |-> <<>>]
           /\ worker'[w].pc = "read" /\ worker'[w].msg = m /\ worker'[w].todo = m.userIds
           /\ Others(w)
<1>1. worker'[w] = [pc |-> "read", msg |-> m, todo |-> m.userIds, rows |-> <<>>]
  BY DEF Typed, Deliver
<1>2. Others(w)
  BY DEF Typed, Deliver, Others
<1> QED
  BY <1>1, <1>2

LEMMA RestStep ==
    ASSUME Typed, NEW w \in Workers, AckBatch(w) \/ WorkerFails(w)
    PROVE  worker'[w] = Idle /\ Others(w)
BY DEF Typed, AckBatch, WorkerFails, Others

\* The next-state relation, action by action.
LEMMA StepCases ==
    ASSUME HNext
    PROVE  \/ \E t \in Txs, u \in Users : CheckBalance(t, u) /\ Checks(t) /\ UNCHANGED closedTo
           \/ \E t \in Txs : CommitSpend(t) /\ Commits(t) /\ UNCHANGED closedTo
           \/ \E t \in Txs : RollbackSpend(t) /\ Undoes(t) /\ UNCHANGED closedTo
           \/ \E w \in Workers : ReadLedger(w) /\ Closes(w) /\ UNCHANGED charged
           \/ \E w \in Workers : InsertExpired(w) /\ Closes(w) /\ UNCHANGED charged
           \/ \E u \in Users, amount \in Amounts, days \in ExpiryDays :
                 GrantCredits(u, amount, days) /\ UNCHANGED <<charged, closedTo>>
           \/ (StartJob \/ PublishPage \/ JobFails \/ Tick) /\ UNCHANGED <<charged, closedTo>>
           \/ \E w \in Workers, m \in topic : Deliver(w, m) /\ UNCHANGED <<charged, closedTo>>
           \/ \E w \in Workers : (AckBatch(w) \/ WorkerFails(w)) /\ UNCHANGED <<charged, closedTo>>
<1> USE DEF HNext
<1>1. CASE \E t \in Txs : Checks(t) /\ UNCHANGED closedTo
  BY <1>1, Zenon DEF Checks
<1>2. CASE \E t \in Txs : Commits(t) /\ UNCHANGED closedTo
  BY <1>2, Zenon DEF Commits
<1>3. CASE \E t \in Txs : Undoes(t) /\ UNCHANGED closedTo
  BY <1>3, Zenon DEF Undoes
<1>4. CASE \E w \in Workers : Closes(w) /\ UNCHANGED charged
  <2>1. PICK w \in Workers : Closes(w) /\ UNCHANGED charged
    BY <1>4
  <2>2. ReadLedger(w) \/ InsertExpired(w)
    BY <2>1 DEF Closes, Reads, Inserts
  <2> QED
    BY <2>1, <2>2, Zenon
<1> QED
  BY <1>1, <1>2, <1>3, <1>4, Zenon

LEMMA NextCore ==
    ASSUME Core, HNext
    PROVE  Core'
<1>1. Typed /\ Pending
  BY DEF Core
<1>2. ASSUME NEW t \in Txs, NEW u \in Users, CheckBalance(t, u) PROVE Core'
  <2>1. Typed'
    BY <1>1, <1>2, CheckTyped
  <2> QED
    BY <1>1, <1>2, <2>1 DEF Core, Pending, CheckBalance
<1>3. ASSUME NEW t \in Txs, CommitSpend(t) PROVE Core'
  <2>1. Typed'
    BY <1>1, <1>3, CommitTyped
  <2> QED
    BY <1>1, <1>3, <2>1 DEF Core, Pending, CommitSpend
<1>4. ASSUME NEW t \in Txs, RollbackSpend(t) PROVE Core'
  <2>1. Typed'
    BY <1>1, <1>4, RollbackTyped
  <2> QED
    BY <1>1, <1>4, <2>1 DEF Core, Pending, RollbackSpend
<1>5. ASSUME NEW w \in Workers, ReadLedger(w) PROVE Core'
  <2>1. Typed'
    BY <1>1, <1>5, ReadTyped
  <2>2. PICK u : u = Min(worker[w].todo)
    OBVIOUS
  <2>3. PICK new : new = Expirations(ledger, u, worker[w].msg.asOf)
    OBVIOUS
  <2>4. /\ u \in Users /\ u \in worker[w].todo /\ Others(w)
        /\ new = <<>> => worker'[w].pc = "read"
        /\ new # <<>> => worker'[w].rows = new /\ worker'[w].todo = worker[w].todo
    BY <1>1, <1>5, <2>2, <2>3, ReadStep DEF Others
  <2>5. AreExpired(new, u)
    <3>1. ledger \in Seq(Rows)
      BY <1>1 DEF Typed
    <3> QED
      BY <2>3, <2>4, <3>1, ExpirationsTyped
  <2>6. Pending'
    BY <2>2, <2>4, <2>5, PendingStep
  <2> QED
    BY <2>1, <2>6 DEF Core
<1>6. ASSUME NEW w \in Workers, InsertExpired(w) PROVE Core'
  <2>1. Typed'
    BY <1>1, <1>6, InsertTyped
  <2>2. worker'[w].pc = "read" /\ Others(w)
    BY <1>1, <1>6, InsertStep DEF Others
  <2>3. Pending'
    BY <2>2, PendingStep
  <2> QED
    BY <2>1, <2>3 DEF Core
<1>7. ASSUME NEW u \in Users, NEW amount \in Amounts, NEW days \in ExpiryDays,
             GrantCredits(u, amount, days)
      PROVE  Core'
  <2>1. Typed'
    BY <1>1, <1>7, GrantTyped
  <2> QED
    BY <1>1, <1>7, <2>1 DEF Core, Pending, GrantCredits
<1>8. ASSUME StartJob \/ PublishPage \/ JobFails \/ Tick PROVE Core'
  <2>1. Typed'
    BY <1>1, <1>8, StartTyped, PublishTyped, JobFailsTyped, TickTyped
  <2>2. worker' = worker
    BY <1>8 DEF StartJob, PublishPage, JobFails, Tick
  <2> QED
    BY <1>1, <2>1, <2>2 DEF Core, Pending
<1>9. ASSUME NEW w \in Workers, NEW m \in topic, Deliver(w, m) PROVE Core'
  <2>1. Typed'
    BY <1>1, <1>9, DeliverTyped
  <2>2. worker'[w].pc = "read" /\ Others(w)
    BY <1>1, <1>9, DeliverStep
  <2>3. Pending'
    BY <2>2, PendingStep
  <2> QED
    BY <2>1, <2>3 DEF Core
<1>10. ASSUME NEW w \in Workers, AckBatch(w) \/ WorkerFails(w) PROVE Core'
  <2>1. Typed'
    BY <1>1, <1>10, AckTyped, FailTyped
  <2>2. worker'[w] = Idle /\ Others(w)
    BY <1>1, <1>10, RestStep
  <2>3. Pending'
    BY <2>2, IdleApart, PendingStep
  <2> QED
    BY <2>1, <2>3 DEF Core
<1> QED
  BY <1>2, <1>3, <1>4, <1>5, <1>6, <1>7, <1>8, <1>9, <1>10, StepCases

LEMMA StutterCore ==
    ASSUME Core, UNCHANGED hvars
    PROVE  Core'
<1>1. UNCHANGED <<ledger, now, tx, job, jobDay, topic, worker, spends, faults>>
  BY DEF hvars, vars
<1> QED
  BY <1>1 DEF Core, Typed, Pending

\* The types of everything but the history, and what a worker will insert.
THEOREM CoreHolds == HSpec => []Core
<1>1. Core /\ [HNext]_hvars => Core'
  BY NextCore, StutterCore
<1> QED
  BY <1>1, InitCore, PTL DEF HSpec

\* What an insert does to the ledger: debits of one user grow, nothing else.
LEMMA InsertGrows ==
    ASSUME Core, NEW w \in Workers, InsertExpired(w)
    PROVE  \E v \in Users, new \in Seq(Rows) :
              /\ v = Min(worker[w].todo) /\ v \in worker[w].todo /\ new = worker[w].rows
              /\ AreExpired(new, v) /\ ledger' = ledger \o new
<1>1. Typed
  BY DEF Core
<1>2. worker[w].rows \in Seq(Rows) /\ ledger' = ledger \o worker[w].rows
  BY <1>1, InsertStep
<1> QED
  BY <1>2, PendingFacts

-----------------------------------------------------------------------------
(* The balance and the job.                                                *)

\* Writing the EXPIRED rows of a batch (createMany in expireCreditsForUsers)
\* changes the balance of no user: getBalance counts no cron row.
THEOREM InsertsMoveNoBalance == HSpec => CronMovesNoBalance
<1>1. ASSUME Core, Core', HNext, NEW w \in Workers, InsertExpired(w), NEW u \in Users
      PROVE  Balance(ledger', u, now') = GetBalance(u)
  <2>1. PICK v \in Users, new \in Seq(Rows) : AreExpired(new, v) /\ ledger' = ledger \o new
    BY <1>1, InsertGrows
  <2>2. PICK rows \in Seq(Rows) : rows = ledger
    BY <1>1 DEF Core, Typed
  <2>3. PICK more : more = rows \o new
    OBVIOUS
  <2>4. RealDebits(more, u) = RealDebits(rows, u) /\ Bundles(more, u) = Bundles(rows, u)
    BY <2>1, <2>3, ExpiredGrows
  <2>5. \A i \in Bundles(rows, u) : more[i] = rows[i]
    <3>1. Bundles(rows, u) \in SUBSET DOMAIN rows
      BY BundleFacts
    <3>2. \A i \in DOMAIN rows : more[i] = rows[i]
      BY <2>3, Concat
    <3> QED
      BY <3>1, <3>2
  <2>6. Balance(more, u, now) = Balance(rows, u, now)
    BY <2>4, <2>5, BalanceSame
  <2>7. ledger' = more /\ now' = now
    BY <1>1, <2>1, <2>2, <2>3 DEF InsertExpired
  <2> QED
    BY <2>2, <2>6, <2>7 DEF GetBalance
<1>2. Core /\ Core' /\ [HNext]_hvars
        => [\A w \in Workers : Inserts(w) => \A u \in Users : Balance(ledger', u, now') = GetBalance(u)]_hvars
  BY <1>1 DEF Inserts
<1> QED
  BY <1>2, CoreHolds, PTL DEF HSpec, CronMovesNoBalance

-----------------------------------------------------------------------------
(* Overdraft.                                                              *)

LEMMA FlightFacts ==
    ASSUME Typed, NEW u
    PROVE  /\ IsFiniteSet(InFlight(u)) /\ Cardinality(InFlight(u)) \in Nat
           /\ Cardinality(Txs) \in Nat /\ Cardinality(Txs) >= 1
           /\ Cardinality(InFlight(u)) <= Cardinality(Txs)
           /\ \A t \in Txs \ InFlight(u) : Cardinality(InFlight(u)) <= Cardinality(Txs) - 1
<1>1. PICK S : S = InFlight(u)
  OBVIOUS
<1>2. S \in SUBSET Txs
  BY <1>1 DEF InFlight
<1>3. IsFiniteSet(Txs) /\ Txs # {}
  BY Bounds
<1>4. IsFiniteSet(S) /\ Cardinality(S) <= Cardinality(Txs)
  BY <1>2, <1>3, FS_Subset
<1>5. Cardinality(S) \in Nat /\ Cardinality(Txs) \in Nat
  BY <1>3, <1>4, FS_CardinalityType
<1>6. Cardinality(Txs) # 0
  <2>1. PICK x \in Txs : TRUE
    BY <1>3
  <2> QED
    BY <1>3, <2>1, Smaller
<1>7. ASSUME NEW t \in Txs \ S PROVE Cardinality(S) <= Cardinality(Txs) - 1
  <2>1. S # Txs
    BY <1>7
  <2>2. Cardinality(S) # Cardinality(Txs)
    BY <1>2, <1>3, <2>1, FS_Subset
  <2> QED
    BY <1>4, <1>5, <2>2
<1> QED
  BY <1>1, <1>4, <1>5, <1>6, <1>7

\* The bound on the overdraft, for one user.
Bounded(u) ==
    RealDebits(ledger, u) + Cost * Cardinality(InFlight(u))
        <= GrantedIn(ledger, u) + Cost * (Cardinality(Txs) - 1)

LEMMA OverdraftSplits == OverdraftBounded <=> \A u \in Users : Bounded(u)
BY DEF OverdraftBounded, Bounded, Granted, GrantedIn

LEMMA Times ==
    ASSUME NEW c \in Nat, NEW a \in Nat, NEW b \in Nat
    PROVE  /\ c * a \in Nat /\ c * (a + 1) = c * a + c
           /\ a <= b => c * a <= c * b
           /\ c * (b - 1) \in Int
<1>1. ASSUME a <= b PROVE c * a <= c * b
  <2>1. PICK d \in Nat : b = a + d
    <3>1. b - a \in Nat /\ b = a + (b - a)
      BY <1>1
    <3> QED
      BY <3>1
  <2>2. c * b = c * a + c * d /\ c * d \in Nat /\ c * a \in Nat
    BY <2>1
  <2> QED
    BY <2>2
<1> QED
  BY <1>1

LEMMA CheckBounded ==
    ASSUME Typed, NEW t \in Txs, NEW v \in Users, CheckBalance(t, v), NEW u \in Users, Bounded(u)
    PROVE  Bounded(u)'
<1>1. tx' = [tx EXCEPT ![t] = [pc |-> "checked", user |-> v]] /\ tx[t] = Idle /\ ledger' = ledger
  BY DEF CheckBalance
<1>2. ledger \in Seq(Rows) /\ tx \in [Txs -> {Idle} \cup Requests]
  BY DEF Typed
<1>3. PICK S, T : S = InFlight(u) /\ T = InFlight(u)'
  OBVIOUS
<1>4. T = IF u = v THEN S \cup {t} ELSE S
  <2>1. [pc |-> "checked", user |-> v] # Idle /\ [pc |-> "checked", user |-> v].user = v
    BY DEF Idle
  <2>2. \A s \in Txs : tx'[s] = IF s = t THEN [pc |-> "checked", user |-> v] ELSE tx[s]
    BY <1>1, <1>2
  <2> QED
    BY <1>1, <1>3, <2>1, <2>2 DEF InFlight
<1>5. t \in Txs \ S
  BY <1>1, <1>3 DEF InFlight
<1>6. PICK n \in Nat, m \in Nat : n = Cardinality(S) /\ m = Cardinality(Txs) /\ n <= m - 1 /\ m >= 1
  BY <1>3, <1>5, FlightFacts
<1>7. Cardinality(T) = IF u = v THEN n + 1 ELSE n
  <2>1. IsFiniteSet(S)
    BY <1>3, FlightFacts
  <2>2. Cardinality(S \cup {t}) = n + 1
    BY <1>5, <1>6, <2>1, FS_AddElement
  <2> QED
    BY <1>4, <1>6, <2>2
<1>8. PICK d \in Nat, g \in Nat : d = RealDebits(ledger, u) /\ g = GrantedIn(ledger, u)
  BY <1>2, DebitsAreSums
<1>9. Bounded(u)' <=> d + Cost * Cardinality(T) <= g + Cost * (m - 1)
  BY <1>1, <1>3, <1>6, <1>8 DEF Bounded
<1>10. CASE u # v
  <2>1. d + Cost * n <= g + Cost * (m - 1)
    BY <1>3, <1>6, <1>8 DEF Bounded
  <2> QED
    BY <1>7, <1>9, <1>10, <2>1
<1>11. CASE u = v
  <2>1. PICK b \in Nat : b = Balance(ledger, u, now) /\ (b > 0 => b + d <= g)
    BY <1>2, <1>8, BalanceCovered
  <2>2. b >= Cost
    BY <1>11, <2>1 DEF CheckBalance, HasSufficientCredits, GetBalance
  <2>3. Cost \in Nat /\ Cost > 0
    BY Bounds
  <2>4. Cost + d <= g
    BY <2>1, <2>2, <2>3
  <2>5. PICK l \in Nat : l = m - 1
    BY <1>6
  <2>6. Cost * n \in Nat /\ Cost * l \in Nat /\ Cost * (n + 1) = Cost * n + Cost /\ Cost * n <= Cost * l
    BY <1>6, <2>3, <2>5, Times
  <2>7. d + Cost * (n + 1) <= g + Cost * l
    BY <2>3, <2>4, <2>6
  <2> QED
    BY <1>7, <1>9, <1>11, <2>5, <2>7
<1> QED
  BY <1>10, <1>11

\* A request that ends leaves one less in flight for its user.
LEMMA FlightEnds ==
    ASSUME Typed, NEW t \in Txs, tx[t].pc = "checked", tx' = [tx EXCEPT ![t] = Idle], NEW u \in Users
    PROVE  /\ Cardinality(InFlight(u)) \in Nat /\ Cardinality(InFlight(u)') \in Nat
           /\ Cardinality(InFlight(u)) = Cardinality(InFlight(u)') + IF u = tx[t].user THEN 1 ELSE 0
<1>1. PICK S, T : S = InFlight(u) /\ T = InFlight(u)'
  OBVIOUS
<1>2. tx[t] # Idle
  BY TxFields
<1>3. tx \in [Txs -> {Idle} \cup Requests]
  BY DEF Typed
<1>4. \A s \in Txs : tx'[s] = IF s = t THEN Idle ELSE tx[s]
  BY <1>3
<1>5. S = {s \in Txs : tx[s] # Idle /\ tx[s].user = u} /\ T = {s \in Txs : tx'[s] # Idle /\ tx'[s].user = u}
  BY <1>1 DEF InFlight
<1>6. T = IF u = tx[t].user THEN S \ {t} ELSE S
  BY <1>4, <1>5
<1>7. u = tx[t].user => t \in S
  BY <1>2, <1>5
<1>8. IsFiniteSet(S) /\ Cardinality(S) \in Nat
  BY <1>1, FlightFacts
<1>9. CASE u = tx[t].user
  <2>1. T = S \ {t} /\ t \in S
    BY <1>6, <1>7, <1>9
  <2>2. Cardinality(S) # 0 /\ Cardinality(S \ {t}) = Cardinality(S) - 1
    BY <1>8, <2>1, Smaller
  <2>3. PICK n \in Nat : n = Cardinality(S)
    BY <1>8
  <2>4. n - 1 \in Nat /\ n = (n - 1) + 1 /\ Cardinality(T) = n - 1
    BY <2>1, <2>2, <2>3
  <2> QED
    BY <1>1, <1>9, <2>3, <2>4
<1>10. CASE u # tx[t].user
  BY <1>1, <1>6, <1>8, <1>10
<1> QED
  BY <1>9, <1>10

LEMMA CommitBounded ==
    ASSUME Typed, NEW t \in Txs, CommitSpend(t), NEW u \in Users, Bounded(u)
    PROVE  Bounded(u)'
<1>1. PICK v \in Users : v = tx[t].user
  BY TxFields DEF CommitSpend
<1>2. PICK r : r = DebitRow(v, Cost, "LIKE_USAGE", NoRef)
  OBVIOUS
<1>3. r \in Rows /\ r.type = "DEBIT" /\ r.user = v /\ r.amount = Cost /\ r.source = "LIKE_USAGE"
  BY <1>2, NewDebit
<1>4. ledger' = Append(ledger, r) /\ tx' = [tx EXCEPT ![t] = Idle] /\ tx[t].pc = "checked"
  BY <1>1, <1>2 DEF CommitSpend
<1>5. ledger \in Seq(Rows)
  BY DEF Typed
<1>6. PICK n \in Nat, k \in Nat : n = Cardinality(InFlight(u)) /\ k = Cardinality(InFlight(u)')
                                 /\ n = k + IF u = v THEN 1 ELSE 0
  BY <1>1, <1>4, FlightEnds
<1>7. PICK m \in Nat : m = Cardinality(Txs) /\ m >= 1
  BY FlightFacts
<1>8. PICK d \in Nat, g \in Nat : d = RealDebits(ledger, u) /\ g = GrantedIn(ledger, u)
  BY <1>5, DebitsAreSums
<1>9. RealDebits(ledger', u) = d + (IF u = v THEN Cost ELSE 0) /\ GrantedIn(ledger', u) = g
  BY <1>3, <1>4, <1>5, <1>8, SpendGrows
<1>10. d + Cost * n <= g + Cost * (m - 1)
  BY <1>6, <1>7, <1>8 DEF Bounded
<1>11. Cost \in Nat
  BY Bounds
<1>12. Cost * n = Cost * k + IF u = v THEN Cost ELSE 0
  <2>1. Cost * (k + 1) = Cost * k + Cost /\ Cost * k \in Nat
    BY <1>11, Times
  <2> QED
    BY <1>6, <1>11, <2>1
<1>13. Cost * k \in Nat /\ Cost * (m - 1) \in Int
  BY <1>11, Times
<1>14. (d + IF u = v THEN Cost ELSE 0) + Cost * k <= g + Cost * (m - 1)
  BY <1>10, <1>11, <1>12, <1>13
<1> QED
  BY <1>6, <1>7, <1>9, <1>14 DEF Bounded

LEMMA RollbackBounded ==
    ASSUME Typed, NEW t \in Txs, RollbackSpend(t), NEW u \in Users, Bounded(u)
    PROVE  Bounded(u)'
<1>1. tx' = [tx EXCEPT ![t] = Idle] /\ tx[t].pc = "checked" /\ ledger' = ledger
  BY DEF RollbackSpend
<1>2. ledger \in Seq(Rows)
  BY DEF Typed
<1>3. PICK n \in Nat, k \in Nat : n = Cardinality(InFlight(u)) /\ k = Cardinality(InFlight(u)') /\ k <= n
  <2>1. PICK n \in Nat, k \in Nat : n = Cardinality(InFlight(u)) /\ k = Cardinality(InFlight(u)')
                                   /\ n = k + IF u = tx[t].user THEN 1 ELSE 0
    BY <1>1, FlightEnds
  <2>2. k <= n
    BY <2>1
  <2> QED
    BY <2>1, <2>2
<1>4. PICK m \in Nat : m = Cardinality(Txs)
  BY FlightFacts
<1>5. PICK d \in Nat, g \in Nat : d = RealDebits(ledger, u) /\ g = GrantedIn(ledger, u)
  BY <1>2, DebitsAreSums
<1>6. Cost * k <= Cost * n /\ Cost * k \in Nat /\ Cost * n \in Nat /\ Cost * (m - 1) \in Int
  BY <1>3, Bounds, Times
<1>7. d + Cost * n <= g + Cost * (m - 1)
  BY <1>3, <1>4, <1>5 DEF Bounded
<1>8. d + Cost * k <= g + Cost * (m - 1)
  BY <1>6, <1>7
<1> QED
  BY <1>1, <1>3, <1>4, <1>5, <1>8 DEF Bounded

\* A step of the rest of the system: no more is spent, no less is granted.
LEMMA RestBounded ==
    ASSUME Typed, Typed', tx' = tx, NEW u \in Users, Bounded(u),
           RealDebits(ledger', u) = RealDebits(ledger, u), GrantedIn(ledger', u) >= GrantedIn(ledger, u)
    PROVE  Bounded(u)'
<1>1. ledger \in Seq(Rows) /\ ledger' \in Seq(Rows)
  BY DEF Typed
<1>2. PICK d \in Nat, g \in Nat, h \in Nat : d = RealDebits(ledger, u) /\ g = GrantedIn(ledger, u)
                                            /\ h = GrantedIn(ledger', u) /\ h >= g
  BY <1>1, DebitsAreSums
<1>3. PICK n \in Nat, m \in Nat : n = Cardinality(InFlight(u)) /\ m = Cardinality(Txs)
  BY FlightFacts
<1>4. InFlight(u)' = InFlight(u)
  BY DEF InFlight
<1>5. d + Cost * n <= g + Cost * (m - 1)
  BY <1>2, <1>3 DEF Bounded
<1>6. Cost * n \in Nat /\ Cost * (m - 1) \in Int
  BY Bounds, Times
<1>7. d + Cost * n <= h + Cost * (m - 1)
  BY <1>2, <1>5, <1>6
<1> QED
  BY <1>2, <1>3, <1>4, <1>7 DEF Bounded

\* Spends overdraw what was granted by no more than the other requests in
\* flight can take (consumeCredits checks the balance before it writes the
\* debit, in transactions that do not see each other).
THEOREM SpendsOverdrawLittle == HSpec => []OverdraftBounded
<1>1. HInit => \A u \in Users : Bounded(u)
  <2> SUFFICES ASSUME HInit, NEW u \in Users PROVE Bounded(u)
    OBVIOUS
  <2>1. ledger = <<>> /\ \A t \in Txs : tx[t] = Idle
    BY DEF HInit, Init
  <2>2. Typed
    BY InitCore DEF Core
  <2>3. PICK m \in Nat : m = Cardinality(Txs) /\ m >= 1
    BY <2>2, FlightFacts
  <2>4. InFlight(u) = {} /\ Cardinality({}) = 0
    BY <2>1, FS_EmptySet DEF InFlight
  <2>5. RealDebits(ledger, u) = 0 /\ GrantedIn(ledger, u) = 0
    <3>1. RealIds(ledger, u) = {} /\ Bundles(ledger, u) = {}
      BY <2>1 DEF RealIds, Bundles
    <3>2. RealDebits(ledger, u) = SumAmounts(ledger, {}) /\ GrantedIn(ledger, u) = SumAmounts(ledger, {})
      BY <2>2, <3>1, DebitsAreSums DEF Typed, GrantedIn
    <3> QED
      BY <3>2, SumNoRows
  <2>6. Cost * (m - 1) >= 0 /\ Cost * (m - 1) \in Int /\ Cost * 0 = 0
    <3>1. m - 1 \in Nat /\ Cost \in Nat
      BY <2>3, Bounds
    <3>2. Cost * (m - 1) \in Nat
      BY <3>1, Times
    <3> QED
      BY <3>1, <3>2
  <2>7. 0 + Cost * 0 <= 0 + Cost * (m - 1)
    BY <2>6
  <2> QED
    BY <2>3, <2>4, <2>5, <2>7 DEF Bounded
<1>2. ASSUME Core, Core', HNext, NEW u \in Users, Bounded(u) PROVE Bounded(u)'
  <2>1. Typed /\ Typed' /\ ledger \in Seq(Rows)
    BY <1>2 DEF Core, Typed
  <2>2. PICK d \in Nat, g \in Nat : d = RealDebits(ledger, u) /\ g = GrantedIn(ledger, u)
    BY <2>1, DebitsAreSums
  <2>3. ASSUME tx' = tx, ledger' = ledger PROVE Bounded(u)'
    BY <1>2, <2>1, <2>2, <2>3, RestBounded
  <2>4. ASSUME NEW t \in Txs, NEW v \in Users, CheckBalance(t, v) PROVE Bounded(u)'
    BY <1>2, <2>1, <2>4, CheckBounded
  <2>5. ASSUME NEW t \in Txs, CommitSpend(t) PROVE Bounded(u)'
    BY <1>2, <2>1, <2>5, CommitBounded
  <2>6. ASSUME NEW t \in Txs, RollbackSpend(t) PROVE Bounded(u)'
    BY <1>2, <2>1, <2>6, RollbackBounded
  <2>7. ASSUME NEW w \in Workers, InsertExpired(w) PROVE Bounded(u)'
    <3>1. PICK v \in Users, new \in Seq(Rows) : AreExpired(new, v) /\ ledger' = ledger \o new
      BY <1>2, <2>7, InsertGrows
    <3>2. RealDebits(ledger', u) = d /\ GrantedIn(ledger', u) = g
      BY <2>1, <2>2, <3>1, ExpiredGrows
    <3>3. tx' = tx
      BY <2>7 DEF InsertExpired
    <3> QED
      BY <1>2, <2>1, <2>2, <3>2, <3>3, RestBounded
  <2>8. ASSUME NEW v \in Users, NEW amount \in Amounts, NEW days \in ExpiryDays,
               GrantCredits(v, amount, days)
        PROVE  Bounded(u)'
    <3>1. PICK r : r = CreditRow(v, amount, IF days = 0 THEN Never ELSE now + days)
      OBVIOUS
    <3>2. r \in Rows /\ r.type = "CREDIT"
      BY <2>1, <3>1, NewCredit
    <3>3. ledger' = Append(ledger, r) /\ tx' = tx
      BY <2>8, <3>1 DEF GrantCredits
    <3>4. RealDebits(ledger', u) = RealDebits(ledger, u) /\ GrantedIn(ledger', u) >= GrantedIn(ledger, u)
      BY <2>1, <3>2, <3>3, GrantGrows
    <3> QED
      BY <1>2, <2>1, <3>3, <3>4, RestBounded
  <2>9. ASSUME StartJob \/ PublishPage \/ JobFails \/ Tick PROVE Bounded(u)'
    BY <2>3, <2>9 DEF StartJob, PublishPage, JobFails, Tick
  <2>10. ASSUME NEW w \in Workers, ReadLedger(w) \/ AckBatch(w) \/ WorkerFails(w) PROVE Bounded(u)'
    BY <2>3, <2>10 DEF ReadLedger, AckBatch, WorkerFails
  <2>11. ASSUME NEW w \in Workers, NEW m \in topic, Deliver(w, m) PROVE Bounded(u)'
    BY <2>3, <2>11 DEF Deliver
  <2> QED
    BY <1>2, <2>4, <2>5, <2>6, <2>7, <2>8, <2>9, <2>10, <2>11, StepCases
<1>3. ASSUME NEW u \in Users, Bounded(u), UNCHANGED hvars PROVE Bounded(u)'
  <2>1. UNCHANGED <<ledger, tx>>
    BY <1>3 DEF hvars, vars
  <2> QED
    BY <1>3, <2>1 DEF Bounded, InFlight
<1>4. (\A u \in Users : Bounded(u)) /\ Core /\ Core' /\ [HNext]_hvars => (\A u \in Users : Bounded(u))'
  BY <1>2, <1>3
<1>5. (\A u \in Users : Bounded(u)) => OverdraftBounded
  BY OverdraftSplits
<1> QED
  BY <1>1, <1>4, <1>5, CoreHolds, PTL DEF HSpec

-----------------------------------------------------------------------------
(* Closing the books of lapsed bundles.                                    *)

LEMMA MaxOfTwo ==
    ASSUME NEW a \in Int, NEW b \in Int
    PROVE  Max({a, b}) = IF a >= b THEN a ELSE b
<1>1. ASSUME NEW m \in {a, b}, \A y \in {a, b} : m >= y
      PROVE  m = IF a >= b THEN a ELSE b
  BY <1>1
<1>2. \E m \in {a, b} : \A y \in {a, b} : m >= y
  OBVIOUS
<1> QED
  BY <1>1, <1>2 DEF Max

\* The bundles of u that have lapsed at asOf, and their credits.
Lapsed(rows, u, asOf)    == {i \in Bundles(rows, u) : rows[i].expiresAt <= asOf}
LapsedSum(rows, u, asOf) == SumAmounts(rows, Lapsed(rows, u, asOf))

LEMMA LapsedFirst ==
    ASSUME NEW rows \in Seq(Rows), NEW u, NEW asOf \in Int
    PROVE  /\ AreFirst(Lapsed(rows, u, asOf), Bundles(rows, u), rows)
           /\ Lapsed(rows, u, asOf) \in SUBSET DOMAIN rows /\ IsFiniteSet(Lapsed(rows, u, asOf))
           /\ LapsedSum(rows, u, asOf) \in Nat
<1>1. PICK B, A : B = Bundles(rows, u) /\ A = Lapsed(rows, u, asOf)
  OBVIOUS
<1>2. B \in SUBSET DOMAIN rows /\ \A i \in B : rows[i].expiresAt \in Nat
  BY <1>1, BundleFacts
<1>3. A = {i \in B : rows[i].expiresAt <= asOf}
  BY <1>1 DEF Lapsed
<1>4. ASSUME NEW i \in A, NEW j \in B, Sooner(rows, j, i) PROVE j \in A
  <2>1. PICK e \in Nat, d \in Nat : e = rows[i].expiresAt /\ d = rows[j].expiresAt
    BY <1>2, <1>3
  <2>2. e <= asOf /\ d <= e
    BY <1>3, <1>4, <2>1 DEF Sooner
  <2>3. d <= asOf
    BY <2>2
  <2> QED
    BY <1>3, <2>1, <2>3
<1>5. AreFirst(A, B, rows)
  BY <1>3, <1>4 DEF AreFirst
<1>6. A \in SUBSET DOMAIN rows
  BY <1>2, <1>3
<1>7. IsFiniteSet(A) /\ SumAmounts(rows, A) \in Nat
  BY <1>6, RowsFinite
<1> QED
  BY <1>1, <1>5, <1>6, <1>7 DEF LapsedSum

\* The rows found missing make up for what the debits leave of the lapsed
\* bundles; none is missing when the debits use them up.
LEMMA MissingRows ==
    ASSUME NEW rows \in Seq(Rows), NEW u \in Users, NEW asOf \in Int, NEW new, NEW unused, NEW due,
           IsRun(rows, u, asOf, new, unused, due)
    PROVE  /\ SumAmounts(new, DOMAIN new) = IF AllDebits(rows, u) <= LapsedSum(rows, u, asOf)
                                            THEN LapsedSum(rows, u, asOf) - AllDebits(rows, u) ELSE 0
           /\ new = <<>> <=> LapsedSum(rows, u, asOf) <= AllDebits(rows, u)
<1>1. PICK B, A : B = Bundles(rows, u) /\ A = Lapsed(rows, u, asOf)
  OBVIOUS
<1>2. AreFirst(A, B, rows) /\ A \in SUBSET DOMAIN rows /\ IsFiniteSet(A) /\ A \subseteq B
  BY <1>1, LapsedFirst DEF AreFirst
<1>3. PICK d \in Nat, n \in Nat : d = AllDebits(rows, u) /\ n = LapsedSum(rows, u, asOf)
  BY LapsedFirst, DebitsAreSums
<1>4. unused = Drain(rows, u, d) /\ due = {i \in B : rows[i].expiresAt <= asOf /\ unused[i] > 0}
  BY <1>1, <1>3 DEF IsRun
<1>5. SumAmounts(rows, A) = n
  BY <1>1, <1>3 DEF LapsedSum
<1>6. /\ \A i \in B : unused[i] \in Nat
      /\ SumFunctionOnSet(unused, A) = IF d <= n THEN n - d ELSE 0
  BY <1>1, <1>2, <1>4, <1>5, DrainFacts
<1>7. due = {i \in A : unused[i] > 0} /\ due \in SUBSET A
  BY <1>1, <1>4 DEF Lapsed
<1>8. \A i \in A : unused[i] \in Nat
  BY <1>2, <1>6
<1>9. /\ SumFunctionOnSet(unused, A) = SumFunctionOnSet(unused, due) + SumFunctionOnSet(unused, A \ due)
      /\ SumFunctionOnSet(unused, due) \in Nat
  BY <1>2, <1>7, <1>8, SumSubset
<1>10. SumFunctionOnSet(unused, A \ due) = 0
  <2>1. PICK R : R = A \ due
    OBVIOUS
  <2>2. IsFiniteSet(R) /\ \A i \in R : unused[i] = 0
    BY <1>2, <1>7, <1>8, <2>1, FS_Subset
  <2>3. SumFunctionOnSet(unused, R) = 0
    BY <2>2, SumZero
  <2> QED
    BY <2>1, <2>3
<1>11. PICK s \in Nat : s = SumFunctionOnSet(unused, due)
  BY <1>9
<1>12. s = IF d <= n THEN n - d ELSE 0
  BY <1>6, <1>9, <1>10, <1>11
<1>13. /\ new \in Seq(Rows)
       /\ \A k \in DOMAIN new : new[k].ref \in due /\ new[k].amount = unused[new[k].ref]
       /\ \A k, l \in DOMAIN new : k # l => new[k].ref # new[l].ref
       /\ \A i \in due : \E k \in DOMAIN new : new[k].ref = i
       /\ new = <<>> <=> due = {}
  BY ExpirationsFacts
<1>14. SumAmounts(new, DOMAIN new) = s
  <2>1. SumAmounts(new, DOMAIN new) = SumFunctionOnSet(unused, {new[k].ref : k \in DOMAIN new})
    BY <1>13, SumByRef
  <2>2. {new[k].ref : k \in DOMAIN new} = due
    BY <1>13
  <2> QED
    BY <1>11, <2>1, <2>2
<1>15. new = <<>> <=> n <= d
  <2>1. ASSUME due = {} PROVE n <= d
    <3>1. s = 0
      BY <1>11, <2>1, SumEmpty
    <3> QED
      BY <1>12, <3>1
  <2>2. ASSUME n <= d, NEW i \in due PROVE FALSE
    <3>1. s = 0
      BY <1>12, <2>2
    <3>2. IsFiniteSet(due) /\ \A j \in due : unused[j] \in Nat
      BY <1>2, <1>7, <1>8, FS_Subset
    <3>3. SumFunctionOnSet(unused, due) = unused[i] + SumFunctionOnSet(unused, due \ {i})
          /\ SumFunctionOnSet(unused, due \ {i}) \in Nat
      BY <3>2, SumTake
    <3>4. PICK a \in Nat, b \in Nat : a = unused[i] /\ a > 0 /\ b = SumFunctionOnSet(unused, due \ {i})
      BY <1>7, <3>2, <3>3
    <3>5. s = a + b
      BY <1>11, <3>3, <3>4
    <3> QED
      BY <3>1, <3>4, <3>5
  <2> QED
    BY <1>13, <2>1, <2>2
<1> QED
  BY <1>3, <1>12, <1>14, <1>15

\* A user is settled at asOf exactly when the worker finds nothing to insert.
LEMMA SettledFinds ==
    ASSUME NEW rows \in Seq(Rows), NEW u \in Users, NEW asOf \in Int
    PROVE  Expirations(rows, u, asOf) = <<>> <=> LapsedSum(rows, u, asOf) <= AllDebits(rows, u)
<1>1. PICK new : new = Expirations(rows, u, asOf)
  OBVIOUS
<1>2. PICK unused : unused = Drain(rows, u, AllDebits(rows, u))
  OBVIOUS
<1>3. PICK due : due = {i \in Bundles(rows, u) : rows[i].expiresAt <= asOf /\ unused[i] > 0}
  OBVIOUS
<1>4. IsRun(rows, u, asOf, new, unused, due)
  BY <1>1, <1>2, <1>3 DEF IsRun
<1>5. new = <<>> <=> LapsedSum(rows, u, asOf) <= AllDebits(rows, u)
  BY <1>4, MissingRows
<1> QED
  BY <1>1, <1>5

\* What has lapsed by day stays as it is, and debits only grow.
Grown(rows, more, day) ==
    \A u \in Users : /\ AllDebits(more, u) >= AllDebits(rows, u)
                     /\ \A asOf \in Int : asOf <= day => LapsedSum(more, u, asOf) = LapsedSum(rows, u, asOf)

LEMMA SameLapsed ==
    ASSUME NEW rows \in Seq(Rows), NEW new \in Seq(Rows), NEW u, NEW asOf \in Int,
           \A k \in Bundles(new, u) : new[k].expiresAt > asOf
    PROVE  LapsedSum(rows \o new, u, asOf) = LapsedSum(rows, u, asOf)
<1>1. PICK more : more = rows \o new
  OBVIOUS
<1>2. /\ more \in Seq(Rows) /\ DOMAIN rows \subseteq DOMAIN more
      /\ \A i \in DOMAIN rows : more[i] = rows[i]
      /\ \A k \in DOMAIN new : more[Len(rows) + k] = new[k]
  BY <1>1, Concat
<1>3. Bundles(more, u) = Bundles(rows, u) \cup {Len(rows) + k : k \in Bundles(new, u)}
  BY <1>1, SumsGrow
<1>4. Bundles(rows, u) \in SUBSET DOMAIN rows /\ Bundles(new, u) \in SUBSET DOMAIN new
  BY BundleFacts
<1>5. ASSUME NEW k \in Bundles(new, u) PROVE ~(more[Len(rows) + k].expiresAt <= asOf)
  <2>1. more[Len(rows) + k] = new[k] /\ new[k].expiresAt \in Nat
    BY <1>2, <1>4, BundleFacts
  <2> QED
    BY <2>1
<1>6. Lapsed(more, u, asOf) = Lapsed(rows, u, asOf)
  BY <1>2, <1>3, <1>4, <1>5 DEF Lapsed
<1>7. PICK A : A = Lapsed(rows, u, asOf)
  OBVIOUS
<1>8. A \in SUBSET DOMAIN rows
  BY <1>4, <1>7 DEF Lapsed
<1>9. SumAmounts(more, A) = SumAmounts(rows, A)
  BY <1>2, <1>8, SumSameRows
<1> QED
  BY <1>1, <1>6, <1>7, <1>9 DEF LapsedSum

LEMMA GrownByRows ==
    ASSUME NEW rows \in Seq(Rows), NEW new \in Seq(Rows), NEW day \in Int,
           \A u \in Users : \A k \in Bundles(new, u) : new[k].expiresAt > day
    PROVE  Grown(rows, rows \o new, day)
<1>1. ASSUME NEW u \in Users PROVE AllDebits(rows \o new, u) >= AllDebits(rows, u)
  <2>1. AllDebits(rows \o new, u) = AllDebits(rows, u) + AllDebits(new, u)
    BY SumsGrow
  <2>2. AllDebits(rows, u) \in Nat /\ AllDebits(new, u) \in Nat
    BY DebitsAreSums
  <2> QED
    BY <2>1, <2>2
<1>2. ASSUME NEW u \in Users, NEW asOf \in Int, asOf <= day
      PROVE  LapsedSum(rows \o new, u, asOf) = LapsedSum(rows, u, asOf)
  <2>1. \A k \in Bundles(new, u) : new[k].expiresAt \in Nat /\ new[k].expiresAt > day
    BY BundleFacts
  <2>2. \A k \in Bundles(new, u) : new[k].expiresAt > asOf
    BY <1>2, <2>1
  <2> QED
    BY <2>2, SameLapsed
<1> QED
  BY <1>1, <1>2 DEF Grown

\* No step of the system touches what has lapsed, and none takes a debit back.
LEMMA LedgerGrows ==
    ASSUME Core, HNext
    PROVE  Grown(ledger, ledger', now)
<1>1. Typed /\ ledger \in Seq(Rows) /\ now \in Int
  BY NowFacts DEF Core, Typed
<1>2. ASSUME ledger' = ledger PROVE Grown(ledger, ledger', now)
  <2>1. ASSUME NEW u \in Users PROVE AllDebits(ledger, u) >= AllDebits(ledger, u)
    <3>1. AllDebits(ledger, u) \in Nat
      BY <1>1, DebitsAreSums
    <3> QED
      BY <3>1
  <2> QED
    BY <1>2, <2>1 DEF Grown
<1>3. ASSUME NEW t \in Txs, CommitSpend(t) PROVE Grown(ledger, ledger', now)
  <2>1. PICK v \in Users : v = tx[t].user
    BY <1>1, <1>3, TxFields DEF CommitSpend
  <2>2. PICK r : r = DebitRow(v, Cost, "LIKE_USAGE", NoRef)
    OBVIOUS
  <2>3. r \in Rows /\ r.type = "DEBIT" /\ ledger' = Append(ledger, r)
    BY <1>3, <2>1, <2>2, NewDebit DEF CommitSpend
  <2>4. PICK new : new = <<r>>
    OBVIOUS
  <2>5. new \in Seq(Rows) /\ DOMAIN new = {1} /\ new[1] = r /\ ledger' = ledger \o new
    BY <1>1, <2>3, <2>4, OneRow
  <2>6. \A u \in Users : Bundles(new, u) = {}
    BY <2>3, <2>5 DEF Bundles
  <2> QED
    BY <1>1, <2>5, <2>6, GrownByRows
<1>4. ASSUME NEW w \in Workers, InsertExpired(w) PROVE Grown(ledger, ledger', now)
  <2>1. PICK v \in Users, new \in Seq(Rows) : AreExpired(new, v) /\ ledger' = ledger \o new
    BY <1>4, InsertGrows
  <2>2. \A u \in Users : Bundles(new, u) = {}
    BY <2>1 DEF Bundles, AreExpired
  <2> QED
    BY <1>1, <2>1, <2>2, GrownByRows
<1>5. ASSUME NEW v \in Users, NEW amount \in Amounts, NEW days \in ExpiryDays,
             GrantCredits(v, amount, days)
      PROVE  Grown(ledger, ledger', now)
  <2>1. PICK r : r = CreditRow(v, amount, IF days = 0 THEN Never ELSE now + days)
    OBVIOUS
  <2>2. r \in Rows /\ r.expiresAt > now /\ ledger' = Append(ledger, r)
    BY <1>1, <1>5, <2>1, NewCredit DEF GrantCredits
  <2>3. PICK new : new = <<r>>
    OBVIOUS
  <2>4. new \in Seq(Rows) /\ DOMAIN new = {1} /\ new[1] = r /\ ledger' = ledger \o new
    BY <1>1, <2>2, <2>3, OneRow
  <2>5. \A u \in Users : \A k \in Bundles(new, u) : new[k].expiresAt > now
    BY <2>2, <2>4 DEF Bundles
  <2> QED
    BY <1>1, <2>4, <2>5, GrownByRows
<1>6. ASSUME NEW t \in Txs, NEW u \in Users, CheckBalance(t, u) PROVE ledger' = ledger
  BY <1>6 DEF CheckBalance
<1>7. ASSUME NEW t \in Txs, RollbackSpend(t) PROVE ledger' = ledger
  BY <1>7 DEF RollbackSpend
<1>8. ASSUME StartJob \/ PublishPage \/ JobFails \/ Tick PROVE ledger' = ledger
  BY <1>8 DEF StartJob, PublishPage, JobFails, Tick
<1>9. ASSUME NEW w \in Workers, ReadLedger(w) \/ AckBatch(w) \/ WorkerFails(w) PROVE ledger' = ledger
  BY <1>9 DEF ReadLedger, AckBatch, WorkerFails
<1>10. ASSUME NEW w \in Workers, NEW m \in topic, Deliver(w, m) PROVE ledger' = ledger
  BY <1>10 DEF Deliver
<1> QED
  BY <1>2, <1>3, <1>4, <1>5, <1>6, <1>7, <1>8, <1>9, <1>10, StepCases

\* No day the job works for lies ahead.
Dated ==
    /\ job # Idle => job.asOf <= now
    /\ \A m \in topic : m.asOf <= now
    /\ \A w \in Workers : worker[w] # Idle => worker[w].msg.asOf <= now
    /\ closedTo \in [Users -> -1 .. MaxTime]
    /\ \A u \in Users : closedTo[u] <= now

\* The step by which a worker is done with a user, or with nobody.
LEMMA ClosesStep ==
    ASSUME Core, Dated, NEW w \in Workers, Closes(w)
    PROVE  /\ closedTo' \in [Users -> -1 .. MaxTime]
           /\ \A u \in Users : closedTo'[u] <= now
           /\ \A u \in Users : \/ closedTo'[u] = closedTo[u]
                               \/ /\ u = Min(worker[w].todo) /\ u \in worker[w].todo
                                  /\ u \notin worker'[w].todo /\ closedTo'[u] = worker[w].msg.asOf
<1>1. Typed /\ (ReadLedger(w) \/ InsertExpired(w))
  BY DEF Core, Closes, Reads, Inserts
<1>2. worker[w] # Idle /\ worker[w].todo \in SUBSET Users /\ worker[w].msg.asOf \in 0 .. MaxTime
  BY <1>1, WorkerFields DEF ReadLedger, InsertExpired
<1>3. PICK d \in 0 .. MaxTime : d = worker[w].msg.asOf /\ d <= now
  BY <1>2 DEF Dated
<1>4. worker[w].todo \ worker'[w].todo \subseteq {Min(worker[w].todo)}
  <2>1. CASE InsertExpired(w)
    <3>1. worker'[w].todo = worker[w].todo \ {Min(worker[w].todo)}
      BY <1>1, <2>1, InsertStep
    <3> QED
      BY <3>1
  <2>2. CASE ReadLedger(w)
    <3>1. PICK u : u = Min(worker[w].todo)
      OBVIOUS
    <3>2. PICK new : new = Expirations(ledger, u, worker[w].msg.asOf)
      OBVIOUS
    <3>3. worker'[w].todo = worker[w].todo \/ worker'[w].todo = worker[w].todo \ {u}
      BY <1>1, <2>2, <3>1, <3>2, ReadStep
    <3> QED
      BY <3>1, <3>3
  <2> QED
    BY <1>1, <2>1, <2>2
<1>5. closedTo' = [u \in Users |-> IF u \in worker[w].todo \ worker'[w].todo
                                   THEN Max({closedTo[u], d}) ELSE closedTo[u]]
  BY <1>3 DEF Closes
<1>6. ASSUME NEW u \in Users
      PROVE  /\ closedTo'[u] \in -1 .. MaxTime /\ closedTo'[u] <= now
             /\ \/ closedTo'[u] = closedTo[u]
                \/ u \in worker[w].todo \ worker'[w].todo /\ closedTo'[u] = d
  <2>1. PICK c \in -1 .. MaxTime : c = closedTo[u] /\ c <= now
    BY DEF Dated
  <2>2. Max({c, d}) = IF c >= d THEN c ELSE d
    BY MaxOfTwo
  <2>3. d \in -1 .. MaxTime
    BY <1>3
  <2>4. closedTo'[u] = IF u \in worker[w].todo \ worker'[w].todo THEN Max({c, d}) ELSE c
    BY <1>5, <2>1
  <2> QED
    BY <1>3, <2>1, <2>2, <2>3, <2>4
<1>7. \A u \in Users : u \in worker[w].todo \ worker'[w].todo => u = Min(worker[w].todo)
  BY <1>4
<1>8. closedTo' \in [Users -> -1 .. MaxTime]
  <2>1. DOMAIN closedTo' = Users /\ \A u \in Users : closedTo'[u] \in -1 .. MaxTime
    BY <1>5, <1>6
  <2> QED
    BY <1>5, <2>1
<1> QED
  BY <1>3, <1>6, <1>7, <1>8

LEMMA DatedStep ==
    ASSUME Core, Dated, NEW w \in Workers, Others(w), now' = now,
           topic' \subseteq topic, job' = job,
           worker'[w] # Idle => worker'[w].msg.asOf <= now,
           closedTo' \in [Users -> -1 .. MaxTime], \A u \in Users : closedTo'[u] <= now
    PROVE  Dated'
<1>1. ASSUME NEW v \in Workers, worker'[v] # Idle PROVE worker'[v].msg.asOf <= now
  <2>1. CASE v = w
    BY <1>1, <2>1
  <2>2. CASE v # w
    BY <1>1, <2>2 DEF Others, Dated
  <2> QED
    BY <2>1, <2>2
<1> QED
  BY <1>1 DEF Dated

LEMMA NextDated ==
    ASSUME Core, Dated, HNext
    PROVE  Dated'
<1>1. Typed /\ now \in Nat
  BY NowFacts DEF Core
<1>2. ASSUME UNCHANGED <<now, job, topic, worker, closedTo>> PROVE Dated'
  BY <1>2 DEF Dated
<1>3. ASSUME NEW t \in Txs, NEW u \in Users, CheckBalance(t, u), UNCHANGED closedTo PROVE Dated'
  BY <1>2, <1>3 DEF CheckBalance
<1>4. ASSUME NEW t \in Txs, CommitSpend(t), UNCHANGED closedTo PROVE Dated'
  BY <1>2, <1>4 DEF CommitSpend
<1>5. ASSUME NEW t \in Txs, RollbackSpend(t), UNCHANGED closedTo PROVE Dated'
  BY <1>2, <1>5 DEF RollbackSpend
<1>6. ASSUME NEW u \in Users, NEW amount \in Amounts, NEW days \in ExpiryDays,
             GrantCredits(u, amount, days), UNCHANGED closedTo
      PROVE  Dated'
  BY <1>2, <1>6 DEF GrantCredits
<1>7. ASSUME NEW w \in Workers, ReadLedger(w), Closes(w) PROVE Dated'
  <2>1. PICK u : u = Min(worker[w].todo)
    OBVIOUS
  <2>2. PICK new : new = Expirations(ledger, u, worker[w].msg.asOf)
    OBVIOUS
  <2>3. Others(w) /\ worker'[w].msg = worker[w].msg
    BY <1>1, <1>7, <2>1, <2>2, ReadStep DEF Others
  <2>4. worker[w].msg.asOf <= now
    BY <1>1, <1>7, WorkerFields DEF Dated, ReadLedger
  <2>5. now' = now /\ topic' = topic /\ job' = job
    BY <1>7 DEF ReadLedger
  <2>6. closedTo' \in [Users -> -1 .. MaxTime] /\ \A v \in Users : closedTo'[v] <= now
    BY <1>7, ClosesStep
  <2> QED
    BY <2>3, <2>4, <2>5, <2>6, DatedStep
<1>8. ASSUME NEW w \in Workers, InsertExpired(w), Closes(w) PROVE Dated'
  <2>3. Others(w) /\ worker'[w].msg = worker[w].msg
    BY <1>1, <1>8, InsertStep DEF Others
  <2>4. worker[w].msg.asOf <= now
    BY <1>1, <1>8, WorkerFields DEF Dated, InsertExpired
  <2>5. now' = now /\ topic' = topic /\ job' = job
    BY <1>8 DEF InsertExpired
  <2>6. closedTo' \in [Users -> -1 .. MaxTime] /\ \A v \in Users : closedTo'[v] <= now
    BY <1>8, ClosesStep
  <2> QED
    BY <2>3, <2>4, <2>5, <2>6, DatedStep
<1>9. ASSUME NEW w \in Workers, NEW m \in topic, Deliver(w, m), UNCHANGED closedTo PROVE Dated'
  <2>1. Others(w) /\ worker'[w].msg = m
    BY <1>1, <1>9, DeliverStep
  <2>2. now' = now /\ topic' = topic /\ job' = job
    BY <1>9 DEF Deliver
  <2> QED
    BY <1>9, <2>1, <2>2, DatedStep DEF Dated
<1>10. ASSUME NEW w \in Workers, AckBatch(w) \/ WorkerFails(w), UNCHANGED closedTo PROVE Dated'
  <2>1. Others(w) /\ worker'[w] = Idle
    BY <1>1, <1>10, RestStep
  <2>2. now' = now /\ topic' \subseteq topic /\ job' = job
    BY <1>10 DEF AckBatch, WorkerFails
  <2> QED
    BY <1>10, <2>1, <2>2, DatedStep DEF Dated
<1>11. ASSUME StartJob, UNCHANGED closedTo PROVE Dated'
  <2>1. job'.asOf = now /\ UNCHANGED <<now, topic, worker>>
    BY <1>11 DEF StartJob
  <2> QED
    BY <1>1, <1>11, <2>1 DEF Dated
<1>12. ASSUME PublishPage, UNCHANGED closedTo PROVE Dated'
  <2>1. job \in Pagings /\ job.asOf \in 0 .. MaxTime
    BY <1>1, <1>12, JobFields DEF PublishPage
  <2>2. job.asOf <= now
    BY <2>1, IdleApart DEF Dated
  <2>3. PICK page : page = Page(job.asOf, job.cursor)
    OBVIOUS
  <2>4. /\ topic' = topic \/ topic' = topic \cup {[userIds |-> page, asOf |-> job.asOf]}
        /\ job' = Idle \/ job' = [job EXCEPT !.cursor = Max(page)]
        /\ UNCHANGED <<now, worker>>
    BY <1>12, <2>3 DEF PublishPage
  <2>5. job' # Idle => job'.asOf = job.asOf
    BY <2>1, <2>4 DEF Pagings
  <2>6. \A m \in topic' : m.asOf <= now
    BY <2>2, <2>4 DEF Dated
  <2>7. job' # Idle => job'.asOf <= now
    BY <2>2, <2>5
  <2> QED
    BY <1>12, <2>4, <2>6, <2>7 DEF Dated
<1>13. ASSUME JobFails, UNCHANGED closedTo PROVE Dated'
  BY <1>13 DEF JobFails, Dated
<1>14. ASSUME Tick, UNCHANGED closedTo PROVE Dated'
  <2>1. now' = now + 1 /\ UNCHANGED <<job, topic, worker>>
    BY <1>14 DEF Tick
  <2>2. \A m \in topic : m.asOf \in 0 .. MaxTime
    BY <1>1 DEF Typed, Batches
  <2>3. \A w \in Workers : worker[w] # Idle => worker[w].msg.asOf \in 0 .. MaxTime
    BY <1>1, WorkerFields
  <2>4. job # Idle => job.asOf \in 0 .. MaxTime
    BY <1>1, IdleApart DEF Typed, Pagings
  <2>5. /\ \A m \in topic : m.asOf <= now + 1
        /\ \A w \in Workers : worker[w] # Idle => worker[w].msg.asOf <= now + 1
        /\ job # Idle => job.asOf <= now + 1
        /\ \A u \in Users : closedTo[u] <= now + 1
    BY <1>1, <2>2, <2>3, <2>4 DEF Dated
  <2> QED
    BY <1>14, <2>1, <2>5 DEF Dated
<1> QED
  BY <1>3, <1>4, <1>5, <1>6, <1>7, <1>8, <1>9, <1>10, <1>11, <1>12, <1>13, <1>14, StepCases

\* The debits of a user use up what had lapsed at closedTo.
Settled == \A u \in Users : LapsedSum(ledger, u, closedTo[u]) <= AllDebits(ledger, u)

\* With the rows a worker is about to insert, those of its user use up what had lapsed at its asOf.
Settling ==
    \A w \in Workers : worker[w].pc = "write" =>
        LapsedSum(ledger, Min(worker[w].todo), worker[w].msg.asOf)
          <= AllDebits(ledger, Min(worker[w].todo)) + SumAmounts(worker[w].rows, DOMAIN worker[w].rows)

Books == Dated /\ Settled /\ Settling

LEMMA InitBooks == HInit => Books
<1> SUFFICES ASSUME HInit PROVE Books
  OBVIOUS
<1>1. Typed /\ ledger = <<>> /\ ledger \in Seq(Rows) /\ now = 0
  BY InitCore DEF Core, Typed, HInit, Init
<1>2. /\ \A u \in Users : closedTo[u] = -1
      /\ closedTo \in [Users -> -1 .. MaxTime] /\ \A u \in Users : closedTo[u] <= now
  BY <1>1, Bounds DEF HInit
<1>3. Dated
  BY <1>2 DEF HInit, Init, Dated
<1>4. ASSUME NEW u \in Users PROVE LapsedSum(ledger, u, closedTo[u]) <= AllDebits(ledger, u)
  <2>1. Lapsed(ledger, u, closedTo[u]) = {}
    BY <1>1 DEF Lapsed, Bundles
  <2>2. LapsedSum(ledger, u, closedTo[u]) = 0
    BY <2>1, SumNoRows DEF LapsedSum
  <2>3. AllDebits(ledger, u) \in Nat
    BY <1>1, DebitsAreSums
  <2> QED
    BY <2>2, <2>3
<1>5. Settling
  BY IdleApart DEF HInit, Init, Settling
<1> QED
  BY <1>3, <1>4, <1>5 DEF Books, Settled

\* A user who is settled stays so while the ledger grows.
LEMMA StaysSettled ==
    ASSUME Core, Core', Dated, Settled, Grown(ledger, ledger', now),
           NEW u \in Users, closedTo'[u] = closedTo[u]
    PROVE  LapsedSum(ledger', u, closedTo'[u]) <= AllDebits(ledger', u)
<1>1. PICK c \in Int : c = closedTo[u] /\ c <= now
  BY DEF Dated
<1>2. ledger \in Seq(Rows) /\ ledger' \in Seq(Rows)
  BY DEF Core, Typed
<1>3. PICK n \in Nat, d \in Nat, e \in Nat :
         n = LapsedSum(ledger, u, c) /\ d = AllDebits(ledger, u) /\ e = AllDebits(ledger', u)
  BY <1>2, LapsedFirst, DebitsAreSums
<1>4. LapsedSum(ledger', u, c) = n /\ e >= d
  BY <1>1, <1>3 DEF Grown
<1>5. n <= d
  BY <1>1, <1>3 DEF Settled
<1> QED
  BY <1>1, <1>3, <1>4, <1>5

\* So is a worker's claim about its user, while the worker waits.
LEMMA StaysSettling ==
    ASSUME Core, Core', Dated, Settling, Grown(ledger, ledger', now),
           NEW w \in Workers, worker'[w] = worker[w], worker'[w].pc = "write"
    PROVE  LapsedSum(ledger', Min(worker'[w].todo), worker'[w].msg.asOf)
             <= AllDebits(ledger', Min(worker'[w].todo)) + SumAmounts(worker'[w].rows, DOMAIN worker'[w].rows)
<1>1. worker[w] # Idle /\ worker[w].pc = "write" /\ Typed
  BY IdleApart DEF Core
<1>2. PICK u \in Users : u = Min(worker[w].todo)
  BY <1>1, TodoFirst DEF Core, Pending
<1>3. PICK c \in Int : c = worker[w].msg.asOf /\ c <= now
  BY <1>1, WorkerFields DEF Dated
<1>4. PICK new \in Seq(Rows) : new = worker[w].rows
  BY <1>1, WorkerFields
<1>5. PICK s \in Nat : s = SumAmounts(new, DOMAIN new)
  BY RowsFinite
<1>6. ledger \in Seq(Rows) /\ ledger' \in Seq(Rows)
  BY DEF Core, Typed
<1>7. PICK n \in Nat, d \in Nat, e \in Nat :
         n = LapsedSum(ledger, u, c) /\ d = AllDebits(ledger, u) /\ e = AllDebits(ledger', u)
  BY <1>6, LapsedFirst, DebitsAreSums
<1>8. LapsedSum(ledger', u, c) = n /\ e >= d
  BY <1>3, <1>7 DEF Grown
<1>9. n <= d + s
  BY <1>1, <1>2, <1>3, <1>4, <1>5, <1>7 DEF Settling
<1>10. n <= e + s
  BY <1>8, <1>9
<1> QED
  BY <1>2, <1>3, <1>4, <1>5, <1>7, <1>8, <1>10

LEMMA ReadSettles ==
    ASSUME Core, Core', Books, NEW w \in Workers, ReadLedger(w), Closes(w), Grown(ledger, ledger', now)
    PROVE  Settled' /\ Settling'
<1>1. Typed /\ ledger \in Seq(Rows) /\ ledger' = ledger
  BY DEF Core, Typed, ReadLedger
<1>2. PICK u : u = Min(worker[w].todo)
  OBVIOUS
<1>3. PICK new : new = Expirations(ledger, u, worker[w].msg.asOf)
  OBVIOUS
<1>4. /\ u \in Users /\ new \in Seq(Rows) /\ Others(w)
      /\ worker'[w].msg = worker[w].msg
      /\ new = <<>> => worker'[w].pc = "read"
      /\ new # <<>> => worker'[w].rows = new /\ worker'[w].todo = worker[w].todo
  BY <1>1, <1>2, <1>3, ReadStep DEF Others
<1>5. PICK c \in Int : c = worker[w].msg.asOf
  BY <1>1, WorkerFields DEF ReadLedger
<1>6. PICK unused : unused = Drain(ledger, u, AllDebits(ledger, u))
  OBVIOUS
<1>7. PICK due : due = {i \in Bundles(ledger, u) : ledger[i].expiresAt <= c /\ unused[i] > 0}
  OBVIOUS
<1>8. PICK rows \in Seq(Rows) : rows = ledger
  BY <1>1
<1>9. IsRun(rows, u, c, new, unused, due)
  BY <1>3, <1>5, <1>6, <1>7, <1>8 DEF IsRun
<1>10. PICK n \in Nat, d \in Nat, s \in Nat :
          n = LapsedSum(rows, u, c) /\ d = AllDebits(rows, u) /\ s = SumAmounts(new, DOMAIN new)
  BY <1>4, LapsedFirst, DebitsAreSums, RowsFinite
<1>11. (s = IF d <= n THEN n - d ELSE 0) /\ (new = <<>> <=> n <= d)
  BY <1>4, <1>9, <1>10, MissingRows
<1>12. n <= d + s
  BY <1>11
<1>13. ASSUME NEW v \in Users PROVE LapsedSum(ledger', v, closedTo'[v]) <= AllDebits(ledger', v)
  <2>1. CASE closedTo'[v] = closedTo[v]
    BY <2>1, StaysSettled DEF Books
  <2>2. CASE closedTo'[v] # closedTo[v]
    <3>1. v = u /\ closedTo'[v] = c /\ v \in worker[w].todo /\ v \notin worker'[w].todo
      BY <1>2, <1>5, <2>2, ClosesStep DEF Books
    <3>2. new = <<>>
      BY <1>4, <3>1
    <3>3. n <= d
      BY <1>11, <3>2
    <3> QED
      BY <1>1, <1>8, <1>10, <3>1, <3>3
  <2> QED
    BY <2>1, <2>2
<1>14. ASSUME NEW v \in Workers, worker'[v].pc = "write"
       PROVE  LapsedSum(ledger', Min(worker'[v].todo), worker'[v].msg.asOf)
                <= AllDebits(ledger', Min(worker'[v].todo)) + SumAmounts(worker'[v].rows, DOMAIN worker'[v].rows)
  <2>1. CASE v # w
    BY <1>4, <1>14, <2>1, StaysSettling DEF Books, Others
  <2>2. CASE v = w
    <3>1. new # <<>>
      BY <1>4, <1>14, <2>2
    <3>2. worker'[v].rows = new /\ Min(worker'[v].todo) = u /\ worker'[v].msg.asOf = c
      BY <1>2, <1>4, <1>5, <2>2, <3>1
    <3> QED
      BY <1>1, <1>8, <1>10, <1>12, <3>2
  <2> QED
    BY <2>1, <2>2
<1> QED
  BY <1>13, <1>14 DEF Settled, Settling

\* What an insert leaves settled: its user, for the day it works for.
LEMMA InsertCloses ==
    ASSUME Core, Books, NEW w \in Workers, InsertExpired(w), Grown(ledger, ledger', now)
    PROVE  LapsedSum(ledger', Min(worker[w].todo), worker[w].msg.asOf)
             <= AllDebits(ledger', Min(worker[w].todo))
<1>1. Typed /\ ledger \in Seq(Rows)
  BY DEF Core, Typed
<1>2. PICK u \in Users, new \in Seq(Rows) : /\ u = Min(worker[w].todo) /\ new = worker[w].rows
                                           /\ AreExpired(new, u) /\ ledger' = ledger \o new
  BY InsertGrows
<1>4. PICK c \in Int : c = worker[w].msg.asOf /\ c <= now
  BY <1>1, WorkerFields DEF InsertExpired, Books, Dated
<1>5. PICK n \in Nat, d \in Nat, s \in Nat :
          n = LapsedSum(ledger, u, c) /\ d = AllDebits(ledger, u) /\ s = SumAmounts(new, DOMAIN new)
  BY <1>1, LapsedFirst, DebitsAreSums, RowsFinite
<1>6. n <= d + s
  BY <1>2, <1>4, <1>5 DEF InsertExpired, Books, Settling
<1>7. AllDebits(ledger', u) = d + s /\ LapsedSum(ledger', u, c) = n
  <2>1. AllDebits(ledger', u) = d + s
    BY <1>1, <1>2, <1>5, ExpiredGrows
  <2>2. LapsedSum(ledger', u, c) = n
    BY <1>4, <1>5 DEF Grown
  <2> QED
    BY <2>1, <2>2
<1> QED
  BY <1>2, <1>4, <1>6, <1>7

LEMMA InsertSettles ==
    ASSUME Core, Core', Books, NEW w \in Workers, InsertExpired(w), Closes(w), Grown(ledger, ledger', now)
    PROVE  Settled' /\ Settling'
<1>1. Others(w) /\ worker'[w].pc = "read"
  BY InsertStep DEF Others, Core
<1>2. ASSUME NEW v \in Users PROVE LapsedSum(ledger', v, closedTo'[v]) <= AllDebits(ledger', v)
  <2>1. CASE closedTo'[v] = closedTo[v]
    BY <2>1, StaysSettled DEF Books
  <2>2. CASE closedTo'[v] # closedTo[v]
    <3>1. v = Min(worker[w].todo) /\ closedTo'[v] = worker[w].msg.asOf
      BY <2>2, ClosesStep DEF Books
    <3> QED
      BY <3>1, InsertCloses
  <2> QED
    BY <2>1, <2>2
<1>3. ASSUME NEW v \in Workers, worker'[v].pc = "write"
       PROVE  LapsedSum(ledger', Min(worker'[v].todo), worker'[v].msg.asOf)
                <= AllDebits(ledger', Min(worker'[v].todo)) + SumAmounts(worker'[v].rows, DOMAIN worker'[v].rows)
  <2>1. v # w
    BY <1>1, <1>3
  <2> QED
    BY <1>1, <1>3, <2>1, StaysSettling DEF Books, Others
<1> QED
  BY <1>2, <1>3 DEF Settled, Settling

\* A step in which no user is closed and no worker starts to write.
LEMMA RestSettles ==
    ASSUME Core, Core', Books, Grown(ledger, ledger', now), closedTo' = closedTo,
           \A w \in Workers : worker'[w].pc = "write" => worker'[w] = worker[w]
    PROVE  Settled' /\ Settling'
<1>1. ASSUME NEW u \in Users PROVE LapsedSum(ledger', u, closedTo'[u]) <= AllDebits(ledger', u)
  BY StaysSettled DEF Books
<1>2. ASSUME NEW w \in Workers, worker'[w].pc = "write"
      PROVE  LapsedSum(ledger', Min(worker'[w].todo), worker'[w].msg.asOf)
               <= AllDebits(ledger', Min(worker'[w].todo)) + SumAmounts(worker'[w].rows, DOMAIN worker'[w].rows)
  BY <1>2, StaysSettling DEF Books
<1> QED
  BY <1>1, <1>2 DEF Settled, Settling

LEMMA NextBooks ==
    ASSUME Core, Core', Books, HNext
    PROVE  Books'
<1>1. Dated' /\ Grown(ledger, ledger', now)
  BY NextDated, LedgerGrows DEF Books
<1>2. ASSUME worker' = worker, closedTo' = closedTo PROVE Settled' /\ Settling'
  BY <1>1, <1>2, RestSettles
<1>3. ASSUME NEW t \in Txs, NEW u \in Users, CheckBalance(t, u), UNCHANGED closedTo PROVE Settled' /\ Settling'
  BY <1>2, <1>3 DEF CheckBalance
<1>4. ASSUME NEW t \in Txs, CommitSpend(t) \/ RollbackSpend(t), UNCHANGED closedTo PROVE Settled' /\ Settling'
  BY <1>2, <1>4 DEF CommitSpend, RollbackSpend
<1>5. ASSUME NEW u \in Users, NEW amount \in Amounts, NEW days \in ExpiryDays,
             GrantCredits(u, amount, days), UNCHANGED closedTo
      PROVE  Settled' /\ Settling'
  BY <1>2, <1>5 DEF GrantCredits
<1>6. ASSUME StartJob \/ PublishPage \/ JobFails \/ Tick, UNCHANGED closedTo PROVE Settled' /\ Settling'
  BY <1>2, <1>6 DEF StartJob, PublishPage, JobFails, Tick
<1>7. ASSUME NEW w \in Workers, ReadLedger(w), Closes(w) PROVE Settled' /\ Settling'
  BY <1>1, <1>7, ReadSettles
<1>8. ASSUME NEW w \in Workers, InsertExpired(w), Closes(w) PROVE Settled' /\ Settling'
  BY <1>1, <1>8, InsertSettles
<1>9. ASSUME NEW w \in Workers, NEW m \in topic, Deliver(w, m), UNCHANGED closedTo PROVE Settled' /\ Settling'
  <2>1. Others(w) /\ worker'[w].pc = "read"
    BY <1>9, DeliverStep DEF Core
  <2> QED
    BY <1>1, <1>9, <2>1, RestSettles DEF Others
<1>10. ASSUME NEW w \in Workers, AckBatch(w) \/ WorkerFails(w), UNCHANGED closedTo PROVE Settled' /\ Settling'
  <2>1. Others(w) /\ worker'[w].pc = "idle"
    BY <1>10, RestStep, IdleApart DEF Core
  <2> QED
    BY <1>1, <1>10, <2>1, RestSettles DEF Others
<1>11. Settled' /\ Settling'
  BY <1>3, <1>4, <1>5, <1>6, <1>7, <1>8, <1>9, <1>10, StepCases
<1> QED
  BY <1>1, <1>11 DEF Books

\* The books of the expiry job: what a user's lapsed bundles hold is covered by
\* debits up to the day an instance has finished, and will be once what an
\* instance holds is inserted (expireCreditsForUsers reads, then inserts).
THEOREM BooksHold == HSpec => []Books
<1>1. Core /\ Core' /\ Books /\ [HNext]_hvars => Books'
  <2>1. ASSUME Books, UNCHANGED hvars PROVE Books'
    <3>1. UNCHANGED <<ledger, now, job, topic, worker, closedTo>>
      BY <2>1 DEF hvars, vars
    <3> QED
      BY <2>1, <3>1 DEF Books, Dated, Settled, Settling
  <2> QED
    BY <2>1, NextBooks
<1> QED
  BY <1>1, InitBooks, CoreHolds, PTL DEF HSpec

\* Once an instance has finished a user for a day, a rerun of the batch for
\* that day inserts nothing, whatever was spent, granted or inserted since and
\* however many instances ran at once (expireCreditsForUsers is retried blindly).
THEOREM FinishedUsersStayClosed == HSpec => []ClosedStaysClosed
<1>1. Core /\ Books => ClosedStaysClosed
  <2> SUFFICES ASSUME Core, Books, NEW u \in Users
               PROVE  Expirations(ledger, u, closedTo[u]) = <<>>
    BY DEF ClosedStaysClosed
  <2>1. closedTo[u] \in Int /\ ledger \in Seq(Rows)
    BY DEF Core, Typed, Books, Dated
  <2>2. LapsedSum(ledger, u, closedTo[u]) <= AllDebits(ledger, u)
    BY DEF Books, Settled
  <2> QED
    BY <2>1, <2>2, SettledFinds
<1> QED
  BY <1>1, CoreHolds, BooksHold, PTL

-----------------------------------------------------------------------------
(* A bundle is expired once.                                               *)

\* The EXPIRED rows that refer to bundle b, and their credits.
RefsTo(rows, b)     == {i \in DOMAIN rows : rows[i].source = "EXPIRED" /\ rows[i].ref = b}
ExpiredSum(rows, b) == SumAmounts(rows, RefsTo(rows, b))

LEMMA ExpiredAdds ==
    ASSUME NEW rows \in Seq(Rows), NEW new \in Seq(Rows), NEW b
    PROVE  /\ ExpiredSum(rows \o new, b) = ExpiredSum(rows, b) + ExpiredSum(new, b)
           /\ ExpiredSum(rows, b) \in Nat /\ ExpiredSum(new, b) \in Nat
<1>1. PICK all : all = rows \o new
  OBVIOUS
<1>2. all \in Seq(Rows)
  BY <1>1, Concat
<1>3. PICK K : K = {r \in Rows : r.source = "EXPIRED" /\ r.ref = b}
  OBVIOUS
<1>4. ASSUME NEW some \in Seq(Rows)
      PROVE  RefsTo(some, b) = {i \in DOMAIN some : some[i] \in K}
  <2>1. \A i \in DOMAIN some : some[i] \in Rows
    OBVIOUS
  <2> QED
    BY <1>3, <2>1 DEF RefsTo
<1>5. PICK A, B : A = RefsTo(rows, b) /\ B = RefsTo(new, b)
  OBVIOUS
<1>6. A \in SUBSET DOMAIN rows /\ B \in SUBSET DOMAIN new
  BY <1>5 DEF RefsTo
<1>7. RefsTo(all, b) = A \cup {Len(rows) + k : k \in B}
  <2>1. {i \in DOMAIN all : all[i] \in K}
          = {i \in DOMAIN rows : rows[i] \in K} \cup {Len(rows) + k : k \in {j \in DOMAIN new : new[j] \in K}}
    BY <1>1, FilterConcat
  <2>2. /\ RefsTo(all, b) = {i \in DOMAIN all : all[i] \in K}
        /\ A = {i \in DOMAIN rows : rows[i] \in K}
        /\ B = {i \in DOMAIN new : new[i] \in K}
    BY <1>2, <1>4, <1>5
  <2> QED
    BY <2>1, <2>2, Zenon
<1>8. SumAmounts(all, A \cup {Len(rows) + k : k \in B}) = SumAmounts(rows, A) + SumAmounts(new, B)
  BY <1>1, <1>6, SumConcat
<1>9. SumAmounts(rows, A) \in Nat /\ SumAmounts(new, B) \in Nat
  BY <1>6, RowsFinite
<1> QED
  BY <1>1, <1>5, <1>7, <1>8, <1>9 DEF ExpiredSum

\* Rows that do not expire b; a single row that does.
LEMMA ExpiresNot ==
    ASSUME NEW new \in Seq(Rows), NEW b, \A k \in DOMAIN new : ~(new[k].source = "EXPIRED" /\ new[k].ref = b)
    PROVE  ExpiredSum(new, b) = 0
<1>1. RefsTo(new, b) = {}
  BY DEF RefsTo
<1> QED
  BY <1>1, SumNoRows DEF ExpiredSum

LEMMA ExpiresOnce ==
    ASSUME NEW new \in Seq(Rows), NEW k \in DOMAIN new, new[k].source = "EXPIRED",
           \A l \in DOMAIN new : l # k => new[l].ref # new[k].ref
    PROVE  ExpiredSum(new, new[k].ref) = new[k].amount
<1>1. RefsTo(new, new[k].ref) = {} \cup {k}
  BY DEF RefsTo
<1>2. SumAmounts(new, {} \cup {k}) = new[k].amount + SumAmounts(new, {})
  BY SumRowAdd
<1>3. SumAmounts(new, {}) = 0 /\ new[k].amount \in Nat
  BY SumNoRows, RowFields
<1> QED
  BY <1>1, <1>2, <1>3 DEF ExpiredSum

LEMMA LapsedMonotone ==
    ASSUME NEW rows \in Seq(Rows), NEW u, NEW a \in Int, NEW b \in Int, a <= b
    PROVE  LapsedSum(rows, u, a) <= LapsedSum(rows, u, b)
<1>1. PICK S, T : S = Lapsed(rows, u, a) /\ T = Lapsed(rows, u, b)
  OBVIOUS
<1>2. \A i \in Bundles(rows, u) : rows[i].expiresAt \in Nat
  BY BundleFacts
<1>3. S \in SUBSET T
  BY <1>1, <1>2 DEF Lapsed
<1>4. T \in SUBSET DOMAIN rows
  BY <1>1, LapsedFirst
<1>5. SumAmounts(rows, S) <= SumAmounts(rows, T)
  BY <1>3, <1>4, SumRowsSubset
<1> QED
  BY <1>1, <1>5 DEF LapsedSum

\* A lapsed bundle of a settled user has nothing left.
LEMMA NothingLeft ==
    ASSUME NEW rows \in Seq(Rows), NEW u \in Users, NEW e \in Int,
           LapsedSum(rows, u, e) <= AllDebits(rows, u), NEW i \in Lapsed(rows, u, e)
    PROVE  ~(Drain(rows, u, AllDebits(rows, u))[i] > 0)
<1>1. PICK new : new = Expirations(rows, u, e)
  OBVIOUS
<1>2. PICK unused : unused = Drain(rows, u, AllDebits(rows, u))
  OBVIOUS
<1>3. PICK due : due = {j \in Bundles(rows, u) : rows[j].expiresAt <= e /\ unused[j] > 0}
  OBVIOUS
<1>4. IsRun(rows, u, e, new, unused, due)
  BY <1>1, <1>2, <1>3 DEF IsRun
<1>5. new = <<>>
  BY <1>4, MissingRows
<1>6. due = {}
  BY <1>4, <1>5, ExpirationsFacts
<1>7. i \in Bundles(rows, u) /\ rows[i].expiresAt <= e
  BY DEF Lapsed
<1> QED
  BY <1>2, <1>3, <1>6, <1>7

\* The rows new expire lapsed bundles of u, each for the first time.
FreshRows(rows, new, u, asOf) ==
    \A k \in DOMAIN new : /\ new[k].ref \in Lapsed(rows, u, asOf)
                          /\ new[k].amount <= rows[new[k].ref].amount
                          /\ ExpiredSum(rows, new[k].ref) = 0
                          /\ \A l \in DOMAIN new : l # k => new[l].ref # new[k].ref

\* An expired bundle of u has lapsed, and its user is settled for that day.
ExpiredOnce(rows, u, b, day) ==
    ExpiredSum(rows, b) > 0 => /\ ExpiredSum(rows, b) <= rows[b].amount
                               /\ rows[b].expiresAt <= day
                               /\ LapsedSum(rows, u, rows[b].expiresAt) <= AllDebits(rows, u)

RefsThere == \A i \in DOMAIN ledger : ledger[i].source = "EXPIRED" => ledger[i].ref \in DOMAIN ledger

Once ==
    /\ RefsThere
    /\ \A u \in Users : \A b \in Bundles(ledger, u) : ExpiredOnce(ledger, u, b, now)
    /\ \A w \in Workers : worker[w].pc = "write" =>
          FreshRows(ledger, worker[w].rows, Min(worker[w].todo), worker[w].msg.asOf)

\* One bundle, while the ledger grows by rows that do not expire it.
LEMMA StaysOnce ==
    ASSUME NEW rows \in Seq(Rows), NEW new \in Seq(Rows), NEW day \in Nat, NEW later \in Nat, day <= later,
           Grown(rows, rows \o new, day), NEW u \in Users, NEW b \in Bundles(rows, u),
           ExpiredSum(new, b) = 0, ExpiredOnce(rows, u, b, day)
    PROVE  ExpiredOnce(rows \o new, u, b, later)
<1>1. PICK more \in Seq(Rows) : more = rows \o new
  BY Concat
<1>2. b \in DOMAIN rows /\ more[b] = rows[b]
  BY <1>1, BundleFacts, Concat
<1>3. PICK x \in Nat : x = ExpiredSum(rows, b) /\ ExpiredSum(more, b) = x
  BY <1>1, ExpiredAdds
<1>4. PICK a \in Nat, e \in Nat : a = rows[b].amount /\ e = rows[b].expiresAt
  BY BundleFacts
<1>5. PICK n \in Nat, d \in Nat, c \in Nat :
         n = LapsedSum(rows, u, e) /\ d = AllDebits(rows, u) /\ c = AllDebits(more, u) /\ c >= d
  <2>1. LapsedSum(rows, u, e) \in Nat /\ AllDebits(rows, u) \in Nat /\ AllDebits(more, u) \in Nat
    BY <1>4, LapsedFirst, DebitsAreSums
  <2>2. AllDebits(more, u) >= AllDebits(rows, u)
    BY <1>1 DEF Grown
  <2> QED
    BY <2>1, <2>2
<1>6. ASSUME x > 0 PROVE x <= a /\ e <= later /\ LapsedSum(more, u, e) <= c
  <2>1. x <= a /\ e <= day /\ n <= d
    BY <1>3, <1>4, <1>5, <1>6 DEF ExpiredOnce
  <2>2. LapsedSum(more, u, e) = n
    BY <1>1, <1>4, <1>5, <2>1 DEF Grown
  <2> QED
    BY <1>5, <2>1, <2>2
<1> QED
  BY <1>1, <1>2, <1>3, <1>4, <1>5, <1>6 DEF ExpiredOnce

\* The rows in a worker's hands stay fresh while nobody inserts any.
LEMMA StaysFresh ==
    ASSUME NEW rows \in Seq(Rows), NEW new \in Seq(Rows), \A k \in DOMAIN new : new[k].source # "EXPIRED",
           NEW fresh, NEW u, NEW asOf, FreshRows(rows, fresh, u, asOf)
    PROVE  FreshRows(rows \o new, fresh, u, asOf)
<1>1. PICK more \in Seq(Rows) : more = rows \o new
  BY Concat
<1>2. ASSUME NEW k \in DOMAIN fresh
      PROVE  /\ fresh[k].ref \in Lapsed(more, u, asOf)
             /\ fresh[k].amount <= more[fresh[k].ref].amount
             /\ ExpiredSum(more, fresh[k].ref) = 0
  <2>1. PICK b : b = fresh[k].ref
    OBVIOUS
  <2>2. b \in Lapsed(rows, u, asOf) /\ fresh[k].amount <= rows[b].amount /\ ExpiredSum(rows, b) = 0
    BY <2>1 DEF FreshRows
  <2>3. b \in Bundles(rows, u) /\ rows[b].expiresAt <= asOf
    BY <2>2 DEF Lapsed
  <2>4. b \in DOMAIN rows /\ more[b] = rows[b]
    BY <1>1, <2>3, BundleFacts, Concat
  <2>5. b \in Bundles(more, u)
    BY <1>1, <2>3, SumsGrow
  <2>6. b \in Lapsed(more, u, asOf)
    BY <2>3, <2>4, <2>5 DEF Lapsed
  <2>7. ExpiredSum(new, b) = 0
    BY ExpiresNot
  <2>8. ExpiredSum(more, b) = 0
    BY <1>1, <2>2, <2>7, ExpiredAdds
  <2> QED
    BY <2>1, <2>2, <2>4, <2>6, <2>8
<1> QED
  BY <1>1, <1>2 DEF FreshRows

\* A step that inserts no EXPIRED row.
LEMMA PlainOnce ==
    ASSUME Core, Core', Once, Grown(ledger, ledger', now), now <= now',
           NEW new \in Seq(Rows), \A k \in DOMAIN new : new[k].source # "EXPIRED", ledger' = ledger \o new,
           \A w \in Workers : worker'[w].pc = "write" => worker'[w] = worker[w]
    PROVE  Once'
<1>1. PICK rows \in Seq(Rows), more \in Seq(Rows) : rows = ledger /\ more = ledger' /\ more = rows \o new
  BY DEF Core, Typed
<1>2. PICK day \in Nat, later \in Nat : day = now /\ later = now' /\ day <= later
  BY NowFacts DEF Core, Typed
<1>3. /\ DOMAIN rows \subseteq DOMAIN more
      /\ DOMAIN more = DOMAIN rows \cup {Len(rows) + k : k \in DOMAIN new}
      /\ \A i \in DOMAIN rows : more[i] = rows[i]
      /\ \A k \in DOMAIN new : more[Len(rows) + k] = new[k] /\ Len(rows) + k \notin DOMAIN rows
  BY <1>1, Concat
<1>4. \A i \in DOMAIN rows : rows[i].source = "EXPIRED" => rows[i].ref \in DOMAIN rows
  BY <1>1 DEF Once, RefsThere
<1>5. ASSUME NEW i \in DOMAIN more, more[i].source = "EXPIRED"
      PROVE  i \in DOMAIN rows /\ more[i].ref \in DOMAIN rows
  <2>1. i \in DOMAIN rows
    <3>1. ASSUME i \notin DOMAIN rows PROVE FALSE
      <4>1. PICK k \in DOMAIN new : i = Len(rows) + k
        BY <1>3, <3>1
      <4>2. more[i] = new[k]
        BY <1>3, <4>1
      <4> QED
        BY <1>5, <4>2
    <3> QED
      BY <3>1
  <2>2. more[i] = rows[i]
    BY <1>3, <2>1
  <2> QED
    BY <1>4, <1>5, <2>1, <2>2
<1>6. ASSUME NEW u \in Users, NEW b \in Bundles(more, u) PROVE ExpiredOnce(more, u, b, later)
  <2>1. Bundles(more, u) = Bundles(rows, u) \cup {Len(rows) + k : k \in Bundles(new, u)}
    BY <1>1, SumsGrow
  <2>2. CASE b \in Bundles(rows, u)
    <3>1. ExpiredSum(new, b) = 0
      BY ExpiresNot
    <3>2. ExpiredOnce(rows, u, b, day) /\ Grown(rows, rows \o new, day)
      BY <1>1, <1>2, <2>2 DEF Once
    <3>3. ExpiredOnce(rows \o new, u, b, later)
      BY <1>2, <2>2, <3>1, <3>2, StaysOnce
    <3> QED
      BY <1>1, <3>3
  <2>3. CASE b \notin Bundles(rows, u)
    <3>1. b \notin DOMAIN rows
      <4>1. PICK k \in Bundles(new, u) : b = Len(rows) + k
        BY <2>1, <2>3
      <4>2. k \in DOMAIN new
        BY BundleFacts
      <4> QED
        BY <1>3, <4>1, <4>2
    <3>2. ExpiredSum(more, b) = 0
      BY <1>5, <3>1, ExpiresNot
    <3> QED
      BY <3>2 DEF ExpiredOnce
  <2> QED
    BY <2>2, <2>3
<1>7. ASSUME NEW w \in Workers, worker'[w].pc = "write"
      PROVE  FreshRows(more, worker'[w].rows, Min(worker'[w].todo), worker'[w].msg.asOf)
  <2>1. worker'[w] = worker[w]
    BY <1>7
  <2>2. PICK fresh, u, asOf : fresh = worker[w].rows /\ u = Min(worker[w].todo) /\ asOf = worker[w].msg.asOf
    OBVIOUS
  <2>3. FreshRows(rows, fresh, u, asOf)
    BY <1>1, <1>7, <2>1, <2>2 DEF Once
  <2>4. FreshRows(rows \o new, fresh, u, asOf)
    BY <2>3, StaysFresh
  <2> QED
    BY <1>1, <2>1, <2>2, <2>4
<1>8. \A i \in DOMAIN more : more[i].source = "EXPIRED" => more[i].ref \in DOMAIN more
  BY <1>3, <1>5
<1> QED
  BY <1>1, <1>2, <1>6, <1>7, <1>8 DEF Once, RefsThere

OneWorker == \A v, w \in Workers : v = w

LEMMA ReadOnce ==
    ASSUME OneWorker, Core, Core', Books, Once, NEW w \in Workers, ReadLedger(w), Grown(ledger, ledger', now)
    PROVE  Once'
<1>1. Typed /\ ledger' = ledger /\ now' = now
  BY DEF Core, ReadLedger
<1>2. PICK rows \in Seq(Rows) : rows = ledger
  BY DEF Core, Typed
<1>3. PICK u : u = Min(worker[w].todo)
  OBVIOUS
<1>4. PICK new : new = Expirations(ledger, u, worker[w].msg.asOf)
  OBVIOUS
<1>5. /\ u \in Users /\ new \in Seq(Rows) /\ worker'[w].msg = worker[w].msg
      /\ new = <<>> => worker'[w].pc = "read"
      /\ new # <<>> => worker'[w].rows = new /\ worker'[w].todo = worker[w].todo
  BY <1>1, <1>3, <1>4, ReadStep
<1>6. PICK c \in Int : c = worker[w].msg.asOf
  BY <1>1, WorkerFields DEF ReadLedger
<1>7. PICK unused : unused = Drain(rows, u, AllDebits(rows, u))
  OBVIOUS
<1>8. PICK due : due = {i \in Bundles(rows, u) : rows[i].expiresAt <= c /\ unused[i] > 0}
  OBVIOUS
<1>9. IsRun(rows, u, c, new, unused, due)
  BY <1>2, <1>4, <1>6, <1>7, <1>8 DEF IsRun
<1>10. /\ \A k \in DOMAIN new : new[k].ref \in due /\ new[k].amount = unused[new[k].ref]
       /\ \A k, l \in DOMAIN new : k # l => new[k].ref # new[l].ref
  BY <1>5, <1>9, ExpirationsFacts
<1>11. ASSUME NEW b \in due
       PROVE  b \in Lapsed(rows, u, c) /\ unused[b] <= rows[b].amount /\ ExpiredSum(rows, b) = 0
  <2>1. b \in Bundles(rows, u) /\ rows[b].expiresAt <= c /\ unused[b] > 0
    BY <1>8
  <2>2. b \in Lapsed(rows, u, c)
    BY <2>1 DEF Lapsed
  <2>3. unused[b] <= rows[b].amount
    <3>1. PICK d \in Nat : d = AllDebits(rows, u)
      BY DebitsAreSums
    <3>2. unused = Drain(rows, u, d)
      BY <1>7, <3>1
    <3> QED
      BY <2>1, <3>2, DrainFacts, AllAreFirst
  <2>4. PICK x \in Nat, e \in Nat : x = ExpiredSum(rows, b) /\ e = rows[b].expiresAt
    BY <1>5, <2>1, ExpiredAdds, BundleFacts
  <2>5. ASSUME x > 0 PROVE FALSE
    <3>1. ExpiredOnce(rows, u, b, now)
      BY <1>2, <1>5, <2>1 DEF Once
    <3>2. LapsedSum(rows, u, e) <= AllDebits(rows, u)
      BY <2>4, <2>5, <3>1 DEF ExpiredOnce
    <3>3. b \in Lapsed(rows, u, e)
      BY <2>1, <2>4 DEF Lapsed
    <3>4. ~(Drain(rows, u, AllDebits(rows, u))[b] > 0)
      BY <1>5, <3>2, <3>3, NothingLeft
    <3> QED
      BY <1>7, <2>1, <3>4
  <2> QED
    BY <2>2, <2>3, <2>4, <2>5
<1>12. FreshRows(rows, new, u, c)
  BY <1>10, <1>11 DEF FreshRows
<1>13. ASSUME NEW v \in Workers, worker'[v].pc = "write"
       PROVE  FreshRows(ledger', worker'[v].rows, Min(worker'[v].todo), worker'[v].msg.asOf)
  <2>1. v = w
    BY DEF OneWorker
  <2>2. new # <<>>
    BY <1>5, <1>13, <2>1
  <2>3. worker'[v].rows = new /\ Min(worker'[v].todo) = u /\ worker'[v].msg.asOf = c
    BY <1>3, <1>5, <1>6, <2>1, <2>2
  <2> QED
    BY <1>1, <1>2, <1>12, <2>3
<1>14. ASSUME NEW v \in Users, NEW b \in Bundles(rows, v) PROVE ExpiredOnce(rows, v, b, now)
  BY <1>2 DEF Once
<1>15. \A i \in DOMAIN rows : rows[i].source = "EXPIRED" => rows[i].ref \in DOMAIN rows
  BY <1>2 DEF Once, RefsThere
<1> QED
  BY <1>1, <1>2, <1>13, <1>14, <1>15 DEF Once, RefsThere

LEMMA InsertOnce ==
    ASSUME OneWorker, Core, Core', Books, Once, NEW w \in Workers, InsertExpired(w), Grown(ledger, ledger', now)
    PROVE  Once'
<1>1. Typed /\ now' = now
  BY DEF Core, InsertExpired
<1>2. PICK u \in Users, new \in Seq(Rows) : /\ u = Min(worker[w].todo) /\ new = worker[w].rows
                                           /\ AreExpired(new, u) /\ ledger' = ledger \o new
  BY InsertGrows
<1>3. PICK rows \in Seq(Rows), more \in Seq(Rows) : rows = ledger /\ more = ledger' /\ more = rows \o new
  BY <1>2 DEF Core, Typed
<1>4. PICK c \in Int, day \in Nat : c = worker[w].msg.asOf /\ day = now /\ c <= day
  BY <1>1, WorkerFields, NowFacts DEF InsertExpired, Books, Dated
<1>5. FreshRows(rows, new, u, c)
  BY <1>2, <1>3, <1>4 DEF InsertExpired, Once
<1>6. LapsedSum(more, u, c) <= AllDebits(more, u)
  BY <1>2, <1>3, <1>4, InsertCloses
<1>7. worker'[w].pc = "read"
  BY <1>1, InsertStep
<1>8. /\ DOMAIN rows \subseteq DOMAIN more
      /\ DOMAIN more = DOMAIN rows \cup {Len(rows) + k : k \in DOMAIN new}
      /\ \A i \in DOMAIN rows : more[i] = rows[i]
      /\ \A k \in DOMAIN new : more[Len(rows) + k] = new[k]
  <2>1. DOMAIN more = DOMAIN rows \cup {Len(rows) + k : k \in DOMAIN new}
    BY <1>3, Concat
  <2>2. \A i \in DOMAIN rows : more[i] = rows[i]
    BY <1>3, Concat
  <2>3. \A k \in DOMAIN new : more[Len(rows) + k] = new[k]
    BY <1>3, Concat
  <2> QED
    BY <2>1, <2>2, <2>3
<1>9. Bundles(rows, u) \in SUBSET DOMAIN rows
  BY BundleFacts
<1>10. ASSUME NEW i \in DOMAIN more, more[i].source = "EXPIRED" PROVE more[i].ref \in DOMAIN more
  <2>1. CASE i \in DOMAIN rows
    <3>1. more[i] = rows[i] /\ rows[i].ref \in DOMAIN rows
      BY <1>3, <1>8, <1>10, <2>1 DEF Once, RefsThere
    <3> QED
      BY <1>8, <3>1
  <2>2. CASE i \notin DOMAIN rows
    <3>1. PICK k \in DOMAIN new : i = Len(rows) + k
      BY <1>8, <2>2
    <3>2. more[i] = new[k] /\ new[k].ref \in Bundles(rows, u)
      BY <1>5, <1>8, <3>1 DEF FreshRows, Lapsed
    <3> QED
      BY <1>8, <1>9, <3>2
  <2> QED
    BY <2>1, <2>2
<1>11. ASSUME NEW v \in Users, NEW b \in Bundles(more, v) PROVE ExpiredOnce(more, v, b, day)
  <2>1. b \in Bundles(rows, v) /\ b \in DOMAIN rows /\ more[b] = rows[b]
    BY <1>2, <1>3, <1>8, ExpiredGrows, BundleFacts
  <2>2. CASE \A k \in DOMAIN new : new[k].ref # b
    <3>1. ExpiredSum(new, b) = 0
      BY <2>2, ExpiresNot
    <3>2. ExpiredOnce(rows, v, b, day) /\ Grown(rows, rows \o new, day)
      BY <1>3, <1>4, <2>1 DEF Once
    <3>3. ExpiredOnce(rows \o new, v, b, day)
      BY <2>1, <3>1, <3>2, StaysOnce
    <3> QED
      BY <1>3, <3>3
  <2>3. ASSUME NEW k \in DOMAIN new, new[k].ref = b PROVE ExpiredOnce(more, v, b, day)
    <3>1. b \in Lapsed(rows, u, c) /\ new[k].amount <= rows[b].amount /\ ExpiredSum(rows, b) = 0
          /\ \A l \in DOMAIN new : l # k => new[l].ref # b
      BY <1>5, <2>3 DEF FreshRows
    <3>2. b \in Bundles(rows, u) /\ rows[b].expiresAt <= c
      BY <3>1 DEF Lapsed
    <3>3. v = u
      BY <2>1, <3>2 DEF Bundles
    <3>4. PICK e \in Nat, a \in Nat : e = rows[b].expiresAt /\ a = rows[b].amount
      BY <2>1, RowFields
    <3>5. ExpiredSum(more, b) = new[k].amount
      <4>1. ExpiredSum(new, b) = new[k].amount
        BY <1>2, <2>3, <3>1, ExpiresOnce DEF AreExpired
      <4>2. ExpiredSum(more, b) = ExpiredSum(rows, b) + ExpiredSum(new, b) /\ ExpiredSum(new, b) \in Nat
        BY <1>3, ExpiredAdds
      <4> QED
        BY <3>1, <4>1, <4>2
    <3>6. LapsedSum(more, u, e) <= AllDebits(more, u)
      <4>1. e <= c
        BY <3>2, <3>4
      <4>2. LapsedSum(more, u, e) <= LapsedSum(more, u, c)
        BY <3>4, <4>1, LapsedMonotone
      <4>3. LapsedSum(more, u, e) \in Nat /\ LapsedSum(more, u, c) \in Nat /\ AllDebits(more, u) \in Nat
        BY <3>4, LapsedFirst, DebitsAreSums
      <4> QED
        BY <1>6, <4>2, <4>3
    <3>7. e <= day
      BY <1>4, <3>2, <3>4
    <3> QED
      BY <2>1, <3>1, <3>3, <3>4, <3>5, <3>6, <3>7 DEF ExpiredOnce
  <2> QED
    BY <2>2, <2>3
<1>12. \A v \in Workers : worker'[v].pc # "write"
  BY <1>7 DEF OneWorker
<1> QED
  BY <1>1, <1>3, <1>4, <1>10, <1>11, <1>12 DEF Once, RefsThere

LEMMA NextOnce ==
    ASSUME OneWorker, Core, Core', Books, Once, HNext
    PROVE  Once'
<1>1. Typed /\ Grown(ledger, ledger', now) /\ ledger \in Seq(Rows) /\ now \in Nat
  BY LedgerGrows, NowFacts DEF Core, Typed
<1>2. ASSUME ledger' = ledger, now' = now \/ now' = now + 1,
             \A w \in Workers : worker'[w].pc = "write" => worker'[w] = worker[w]
      PROVE  Once'
  <2>4. <<>> \in Seq(Rows)
    OBVIOUS
  <2>1. PICK new \in Seq(Rows) : new = <<>>
    BY <2>4
  <2>2. ledger' = ledger \o new /\ \A k \in DOMAIN new : new[k].source # "EXPIRED"
    BY <1>1, <1>2, <2>1
  <2>3. now <= now'
    BY <1>1, <1>2
  <2> QED
    BY <1>1, <1>2, <2>2, <2>3, PlainOnce
<1>3. ASSUME NEW t \in Txs, NEW u \in Users, CheckBalance(t, u) PROVE Once'
  BY <1>2, <1>3 DEF CheckBalance
<1>4. ASSUME NEW t \in Txs, CommitSpend(t) PROVE Once'
  <2>1. PICK v \in Users : v = tx[t].user
    BY <1>1, <1>4, TxFields DEF CommitSpend
  <2>2. PICK r : r = DebitRow(v, Cost, "LIKE_USAGE", NoRef)
    OBVIOUS
  <2>3. r \in Rows /\ r.source = "LIKE_USAGE" /\ ledger' = Append(ledger, r)
    BY <1>4, <2>1, <2>2, NewDebit DEF CommitSpend
  <2>4. PICK new : new = <<r>>
    OBVIOUS
  <2>5. new \in Seq(Rows) /\ DOMAIN new = {1} /\ new[1] = r /\ ledger' = ledger \o new
    BY <1>1, <2>3, <2>4, OneRow
  <2>6. UNCHANGED <<now, worker>>
    BY <1>4 DEF CommitSpend
  <2>7. \A k \in DOMAIN new : new[k].source # "EXPIRED"
    BY <2>3, <2>5
  <2> QED
    BY <1>1, <2>5, <2>6, <2>7, PlainOnce
<1>5. ASSUME NEW t \in Txs, RollbackSpend(t) PROVE Once'
  BY <1>2, <1>5 DEF RollbackSpend
<1>6. ASSUME NEW w \in Workers, ReadLedger(w) PROVE Once'
  BY <1>1, <1>6, ReadOnce
<1>7. ASSUME NEW w \in Workers, InsertExpired(w) PROVE Once'
  BY <1>1, <1>7, InsertOnce
<1>8. ASSUME NEW v \in Users, NEW amount \in Amounts, NEW days \in ExpiryDays,
             GrantCredits(v, amount, days)
      PROVE  Once'
  <2>1. PICK r : r = CreditRow(v, amount, IF days = 0 THEN Never ELSE now + days)
    OBVIOUS
  <2>2. r \in Rows /\ r.source = "GRANT" /\ ledger' = Append(ledger, r)
    BY <1>1, <1>8, <2>1, NewCredit DEF GrantCredits
  <2>3. PICK new : new = <<r>>
    OBVIOUS
  <2>4. new \in Seq(Rows) /\ DOMAIN new = {1} /\ new[1] = r /\ ledger' = ledger \o new
    BY <1>1, <2>2, <2>3, OneRow
  <2>5. UNCHANGED <<now, worker>>
    BY <1>8 DEF GrantCredits
  <2>6. \A k \in DOMAIN new : new[k].source # "EXPIRED"
    BY <2>2, <2>4
  <2> QED
    BY <1>1, <2>4, <2>5, <2>6, PlainOnce
<1>9. ASSUME StartJob \/ PublishPage \/ JobFails \/ Tick PROVE Once'
  <2>1. ledger' = ledger /\ worker' = worker /\ (now' = now \/ now' = now + 1)
    BY <1>9 DEF StartJob, PublishPage, JobFails, Tick
  <2> QED
    BY <1>2, <2>1
<1>10. ASSUME NEW w \in Workers, NEW m \in topic, Deliver(w, m) PROVE Once'
  <2>1. worker'[w].pc = "read" /\ ledger' = ledger /\ now' = now
    BY <1>1, <1>10, DeliverStep DEF Deliver
  <2>2. \A v \in Workers : worker'[v].pc # "write"
    BY <2>1 DEF OneWorker
  <2> QED
    BY <1>2, <2>1, <2>2
<1>11. ASSUME NEW w \in Workers, AckBatch(w) \/ WorkerFails(w) PROVE Once'
  <2>1. worker'[w].pc = "idle" /\ ledger' = ledger /\ now' = now
    BY <1>1, <1>11, RestStep, IdleApart DEF AckBatch, WorkerFails
  <2>2. \A v \in Workers : worker'[v].pc # "write"
    BY <2>1 DEF OneWorker
  <2> QED
    BY <1>2, <2>1, <2>2
<1> QED
  BY <1>3, <1>4, <1>5, <1>6, <1>7, <1>8, <1>9, <1>10, <1>11, StepCases

\* With one instance at work no bundle is expired beyond its size, however
\* often its batch is redelivered and whatever is spent between the read and
\* the insert (expireCreditsForUsers; two instances on the same batch can).
THEOREM BundlesExpireOnce ==
    ASSUME OneWorker
    PROVE  HSpec => []ExpiredAtMostOnce
<1>1. HInit => Once
  <2> SUFFICES ASSUME HInit PROVE Once
    OBVIOUS
  <2>1. ledger = <<>> /\ \A w \in Workers : worker[w].pc # "write"
    BY IdleApart DEF HInit, Init
  <2> QED
    BY <2>1 DEF Once, RefsThere, Bundles
<1>2. Core /\ Core' /\ Books /\ Once /\ [HNext]_hvars => Once'
  <2>1. ASSUME Once, UNCHANGED hvars PROVE Once'
    <3>1. UNCHANGED <<ledger, now, worker>>
      BY <2>1 DEF hvars, vars
    <3> QED
      BY <2>1, <3>1 DEF Once, RefsThere
  <2> QED
    BY <2>1, NextOnce
<1>3. Core /\ Once => ExpiredAtMostOnce
  <2> SUFFICES ASSUME Core, Once, NEW u \in Users, NEW b \in Bundles(ledger, u)
               PROVE  ExpiredSum(ledger, b) <= ledger[b].amount
    BY DEF ExpiredAtMostOnce, ExpiredSum, RefsTo
  <2>1. ledger \in Seq(Rows) /\ <<>> \in Seq(Rows)
    BY DEF Core, Typed
  <2>2. ExpiredSum(ledger, b) \in Nat /\ ledger[b].amount \in Nat
    BY <2>1, ExpiredAdds, BundleFacts
  <2>3. ExpiredOnce(ledger, u, b, now)
    BY DEF Once
  <2> QED
    BY <2>2, <2>3 DEF ExpiredOnce
<1> QED
  BY <1>1, <1>2, <1>3, CoreHolds, BooksHold, PTL DEF HSpec

-----------------------------------------------------------------------------
(* What the spends take from each bundle.                                  *)

Slots == Txs \cup {0}

TakenBy(ch, i) == SumFunctionOnSet([t \in Slots |-> At(ch[t], i)], Slots)

\* No slot takes from a bundle that is not there, nor all together more than its size.
Charged(rows, ch) ==
    /\ DOMAIN ch = Slots
    /\ \A t \in Slots : ch[t] \in [DOMAIN ch[t] -> Nat] /\ DOMAIN ch[t] \subseteq DOMAIN rows
    /\ \A i \in DOMAIN rows : TakenBy(ch, i) <= rows[i].amount

LEMMA AtFacts ==
    /\ \A f, i : f \in [DOMAIN f -> Nat] => At(f, i) \in Nat
    /\ \A i : At(NoCharge, i) = 0
    /\ NoCharge \in [DOMAIN NoCharge -> Nat] /\ DOMAIN NoCharge = {}
<1>1. DOMAIN NoCharge = {}
  BY DEF NoCharge
<1>2. NoCharge \in [DOMAIN NoCharge -> Nat]
  <2>1. \A e : e = <<>> => e \in [{} -> Nat]
    OBVIOUS
  <2> QED
    BY <1>1, <2>1 DEF NoCharge
<1>3. ASSUME NEW f, NEW i, f \in [DOMAIN f -> Nat] PROVE At(f, i) \in Nat
  BY <1>3 DEF At
<1>4. \A i : At(NoCharge, i) = 0
  BY <1>1 DEF At
<1> QED
  BY <1>1, <1>2, <1>3, <1>4

LEMMA PlusFacts ==
    ASSUME NEW f, NEW g, f \in [DOMAIN f -> Nat], g \in [DOMAIN g -> Nat]
    PROVE  /\ DOMAIN Plus(f, g) = DOMAIN f \cup DOMAIN g
           /\ Plus(f, g) \in [DOMAIN Plus(f, g) -> Nat]
           /\ \A i : At(Plus(f, g), i) = At(f, i) + At(g, i)
<1>1. PICK h : h = [i \in DOMAIN f \cup DOMAIN g |-> At(f, i) + At(g, i)]
  OBVIOUS
<1>2. \A i : At(f, i) \in Nat /\ At(g, i) \in Nat
  BY AtFacts
<1>3. DOMAIN h = DOMAIN f \cup DOMAIN g /\ h \in [DOMAIN h -> Nat]
  BY <1>1, <1>2
<1>4. ASSUME NEW i PROVE At(h, i) = At(f, i) + At(g, i)
  <2>1. CASE i \in DOMAIN h
    BY <1>1, <1>3, <2>1 DEF At
  <2>2. CASE i \notin DOMAIN h
    BY <1>3, <2>2 DEF At
  <2> QED
    BY <2>1, <2>2
<1> QED
  BY <1>1, <1>3, <1>4 DEF Plus

LEMMA TakenFacts ==
    ASSUME NEW ch, \A t \in Slots : ch[t] \in [DOMAIN ch[t] -> Nat], NEW i
    PROVE  /\ TakenBy(ch, i) \in Nat /\ \A t \in Slots : At(ch[t], i) \in Nat
           /\ (\A t \in Slots : i \notin DOMAIN ch[t]) => TakenBy(ch, i) = 0
<1>1. PICK f : f = [t \in Slots |-> At(ch[t], i)]
  OBVIOUS
<1>2. IsFiniteSet(Slots)
  BY Bounds DEF Slots
<1>3. \A t \in Slots : At(ch[t], i) \in Nat /\ f[t] = At(ch[t], i)
  BY <1>1, AtFacts
<1>4. SumFunctionOnSet(f, Slots) \in Nat
  BY <1>2, <1>3, SumFirst
<1>5. ASSUME \A t \in Slots : i \notin DOMAIN ch[t] PROVE SumFunctionOnSet(f, Slots) = 0
  <2>1. \A t \in Slots : f[t] = 0
    BY <1>3, <1>5 DEF At
  <2> QED
    BY <1>2, <2>1, SumZero
<1> QED
  BY <1>1, <1>3, <1>4, <1>5 DEF TakenBy

\* What changes when the charges of one slot do.
Paid(ch)              == \A t \in Slots : ch[t] \in [DOMAIN ch[t] -> Nat]
OnlySlot(s, ch, next) == \A t \in Slots \ {s} : next[t] = ch[t]
Sets(s, f, ch, next)  == next = [ch EXCEPT ![s] = f]
IsCharge(f, rows)     == f \in [DOMAIN f -> Nat] /\ DOMAIN f \subseteq DOMAIN rows

LEMMA TakenChange ==
    ASSUME NEW ch, Paid(ch), NEW next, Paid(next), NEW s \in Slots, OnlySlot(s, ch, next), NEW i
    PROVE  /\ TakenBy(next, i) + At(ch[s], i) = TakenBy(ch, i) + At(next[s], i)
           /\ TakenBy(next, i) \in Nat /\ TakenBy(ch, i) \in Nat
           /\ At(ch[s], i) \in Nat /\ At(next[s], i) \in Nat
<1> USE DEF Paid, OnlySlot
<1>1. PICK f, g : f = [t \in Slots |-> At(ch[t], i)] /\ g = [t \in Slots |-> At(next[t], i)]
  OBVIOUS
<1>2. IsFiniteSet(Slots)
  BY Bounds DEF Slots
<1>3. \A t \in Slots : f[t] = At(ch[t], i) /\ f[t] \in Nat /\ g[t] = At(next[t], i) /\ g[t] \in Nat
  BY <1>1, TakenFacts
<1>4. SumFunctionOnSet(f, Slots) = f[s] + SumFunctionOnSet(f, Slots \ {s}) /\ SumFunctionOnSet(f, Slots \ {s}) \in Nat
  BY <1>2, <1>3, SumTake
<1>5. SumFunctionOnSet(g, Slots) = g[s] + SumFunctionOnSet(g, Slots \ {s})
  BY <1>2, <1>3, SumTake
<1>6. SumFunctionOnSet(g, Slots \ {s}) = SumFunctionOnSet(f, Slots \ {s})
  <2>1. PICK R : R = Slots \ {s}
    OBVIOUS
  <2>2. IsFiniteSet(R) /\ \A t \in R : f[t] \in Nat /\ g[t] = f[t]
    BY <1>2, <1>3, <2>1, FS_Subset
  <2>3. SumFunctionOnSet(g, R) = SumFunctionOnSet(f, R)
    BY <2>2, SumSame
  <2> QED
    BY <2>1, <2>3
<1>7. PICK a \in Nat, b \in Nat, n \in Nat : a = f[s] /\ b = g[s] /\ n = SumFunctionOnSet(f, Slots \ {s})
  BY <1>3, <1>4
<1>8. TakenBy(ch, i) = a + n /\ TakenBy(next, i) = b + n /\ At(ch[s], i) = a /\ At(next[s], i) = b
  BY <1>1, <1>3, <1>4, <1>5, <1>6, <1>7 DEF TakenBy
<1> QED
  BY <1>7, <1>8

LEMMA ChargedGrows ==
    ASSUME NEW rows \in Seq(Rows), NEW new \in Seq(Rows), NEW ch, Charged(rows, ch)
    PROVE  Charged(rows \o new, ch)
<1>1. PICK more \in Seq(Rows) : more = rows \o new
  BY Concat
<1>2. DOMAIN rows \subseteq DOMAIN more /\ \A i \in DOMAIN rows : more[i] = rows[i]
  BY <1>1, Concat
<1>3. DOMAIN ch = Slots /\ \A t \in Slots : ch[t] \in [DOMAIN ch[t] -> Nat] /\ DOMAIN ch[t] \subseteq DOMAIN rows
  BY DEF Charged
<1>4. ASSUME NEW i \in DOMAIN more PROVE TakenBy(ch, i) <= more[i].amount
  <2>1. CASE i \in DOMAIN rows
    BY <1>2, <2>1 DEF Charged
  <2>2. CASE i \notin DOMAIN rows
    <3>1. TakenBy(ch, i) = 0
      BY <1>3, <2>2, TakenFacts
    <3>2. more[i].amount \in Nat
      BY RowFields
    <3> QED
      BY <3>1, <3>2
  <2> QED
    BY <2>1, <2>2
<1>5. \A t \in Slots : DOMAIN ch[t] \subseteq DOMAIN more
  BY <1>2, <1>3
<1> QED
  BY <1>1, <1>3, <1>4, <1>5 DEF Charged

\* A slot gets new charges.
LEMMA ChargedTo ==
    ASSUME NEW rows, NEW ch, Charged(rows, ch), NEW s \in Slots, NEW f, IsCharge(f, rows),
           NEW next, Sets(s, f, ch, next)
    PROVE  /\ DOMAIN next = Slots /\ next[s] = f /\ OnlySlot(s, ch, next) /\ Paid(ch) /\ Paid(next)
           /\ \A t \in Slots : DOMAIN next[t] \subseteq DOMAIN rows
<1> USE DEF IsCharge, Sets
<1>1. DOMAIN ch = Slots /\ \A t \in Slots : ch[t] \in [DOMAIN ch[t] -> Nat] /\ DOMAIN ch[t] \subseteq DOMAIN rows
  BY DEF Charged
<1>2. DOMAIN next = Slots /\ next[s] = f /\ \A t \in Slots \ {s} : next[t] = ch[t]
  BY <1>1
<1>3. \A t \in Slots : next[t] \in [DOMAIN next[t] -> Nat] /\ DOMAIN next[t] \subseteq DOMAIN rows
  BY <1>1, <1>2
<1> QED
  BY <1>1, <1>2, <1>3 DEF OnlySlot, Paid

LEMMA ChargedDrops ==
    ASSUME NEW rows \in Seq(Rows), NEW ch, Charged(rows, ch), NEW s \in Slots, NEW next, Sets(s, NoCharge, ch, next)
    PROVE  /\ Charged(rows, next) /\ next[s] = NoCharge /\ OnlySlot(s, ch, next)
           /\ \A i : TakenBy(next, i) + At(ch[s], i) = TakenBy(ch, i)
<1>1. IsCharge(NoCharge, rows)
  BY AtFacts DEF IsCharge
<1>2. /\ DOMAIN next = Slots /\ next[s] = NoCharge /\ OnlySlot(s, ch, next) /\ Paid(ch) /\ Paid(next)
      /\ \A t \in Slots : DOMAIN next[t] \subseteq DOMAIN rows
  BY <1>1, ChargedTo
<1>3. ASSUME NEW i
      PROVE  /\ TakenBy(next, i) + At(ch[s], i) = TakenBy(ch, i)
             /\ i \in DOMAIN rows => TakenBy(next, i) <= rows[i].amount
  <2>5. /\ TakenBy(next, i) + At(ch[s], i) = TakenBy(ch, i) + At(next[s], i)
        /\ TakenBy(next, i) \in Nat /\ TakenBy(ch, i) \in Nat /\ At(ch[s], i) \in Nat
    BY <1>2, TakenChange
  <2>1. PICK a \in Nat, b \in Nat, c \in Nat : a = TakenBy(next, i) /\ b = At(ch[s], i) /\ c = TakenBy(ch, i)
                                             /\ a + b = c + At(next[s], i)
    BY <2>5
  <2>2. At(next[s], i) = 0
    BY <1>2, AtFacts
  <2>3. a + b = c
    BY <2>1, <2>2
  <2>4. ASSUME i \in DOMAIN rows PROVE TakenBy(next, i) <= rows[i].amount
    <3>1. PICK n \in Nat : n = rows[i].amount
      BY <2>4, RowFields
    <3>2. c <= n
      BY <2>1, <2>4, <3>1 DEF Charged
    <3> QED
      BY <2>1, <2>3, <3>1, <3>2
  <2> QED
    BY <2>1, <2>3, <2>4
<1> QED
  BY <1>2, <1>3 DEF Charged, Paid

\* The charges of a slot become those of slot 0.
Moves(s, ch, next) == next = [ch EXCEPT ![0] = Plus(@, ch[s]), ![s] = NoCharge]

LEMMA ChargedMoves ==
    ASSUME NEW rows \in Seq(Rows), NEW ch, Charged(rows, ch), NEW s \in Txs, NEW next, Moves(s, ch, next)
    PROVE  /\ Charged(rows, next) /\ next[s] = NoCharge /\ \A t \in Txs \ {s} : next[t] = ch[t]
           /\ \A i : TakenBy(next, i) = TakenBy(ch, i)
<1>1. DOMAIN ch = Slots /\ s \in Slots /\ 0 \in Slots /\ s # 0 /\ 0 \notin Txs
      /\ \A t \in Slots : ch[t] \in [DOMAIN ch[t] -> Nat] /\ DOMAIN ch[t] \subseteq DOMAIN rows
  BY Bounds DEF Charged, Slots
<1>2. PICK half : half = [ch EXCEPT ![s] = NoCharge]
  OBVIOUS
<1>3. /\ Charged(rows, half) /\ half[s] = NoCharge /\ OnlySlot(s, ch, half)
      /\ \A i : TakenBy(half, i) + At(ch[s], i) = TakenBy(ch, i)
  <2>1. Sets(s, NoCharge, ch, half)
    BY <1>2 DEF Sets
  <2> QED
    BY <1>1, <2>1, ChargedDrops
<1>4. PICK f : f = Plus(ch[0], ch[s])
  OBVIOUS
<1>5. /\ DOMAIN f = DOMAIN ch[0] \cup DOMAIN ch[s] /\ f \in [DOMAIN f -> Nat]
      /\ \A i : At(f, i) = At(ch[0], i) + At(ch[s], i)
  BY <1>1, <1>4, PlusFacts
<1>6. IsCharge(f, rows)
  BY <1>1, <1>5 DEF IsCharge
<1>7. Sets(0, f, half, next)
  BY <1>1, <1>2, <1>4 DEF Sets, Moves
<1>8. /\ DOMAIN next = Slots /\ next[0] = f /\ OnlySlot(0, half, next) /\ Paid(half) /\ Paid(next)
      /\ \A t \in Slots : DOMAIN next[t] \subseteq DOMAIN rows
  BY <1>1, <1>3, <1>6, <1>7, ChargedTo
<1>9. ASSUME NEW i PROVE TakenBy(next, i) = TakenBy(ch, i)
  <2>1. half[0] = ch[0]
    BY <1>1, <1>3 DEF OnlySlot
  <2>8. /\ TakenBy(next, i) + At(half[0], i) = TakenBy(half, i) + At(next[0], i)
        /\ TakenBy(next, i) \in Nat /\ TakenBy(half, i) \in Nat
    <3>1. PICK z \in Slots : z = 0
      BY <1>1
    <3>2. OnlySlot(z, half, next) /\ Paid(half) /\ Paid(next)
      BY <1>8, <3>1
    <3>3. /\ TakenBy(next, i) + At(half[z], i) = TakenBy(half, i) + At(next[z], i)
          /\ TakenBy(next, i) \in Nat /\ TakenBy(half, i) \in Nat
      BY <3>2, TakenChange
    <3> QED
      BY <3>1, <3>3
  <2>2. PICK a \in Nat, b \in Nat : a = TakenBy(next, i) /\ b = TakenBy(half, i)
                                  /\ a + At(half[0], i) = b + At(next[0], i)
    BY <2>8
  <2>3. PICK c \in Nat, p \in Nat, q \in Nat : c = TakenBy(ch, i) /\ p = At(ch[0], i) /\ q = At(ch[s], i)
    BY <1>1, TakenFacts
  <2>4. b + q = c
    BY <1>3, <2>2, <2>3
  <2>5. At(next[0], i) = p + q
    BY <1>5, <1>8, <2>3
  <2>6. a + p = b + (p + q)
    BY <2>1, <2>2, <2>3, <2>5
  <2>7. a = c
    BY <2>4, <2>6
  <2> QED
    BY <2>2, <2>3, <2>7
<1>10. next[s] = NoCharge /\ \A t \in Txs \ {s} : next[t] = ch[t]
  BY <1>1, <1>3, <1>8 DEF Slots, OnlySlot
<1>11. \A i \in DOMAIN rows : TakenBy(next, i) <= rows[i].amount
  BY <1>9 DEF Charged
<1> QED
  BY <1>8, <1>9, <1>10, <1>11 DEF Charged, Paid

\* The charges f fit in what the others leave of each bundle.
Fits(f, rows, ch) ==
    /\ IsCharge(f, rows)
    /\ \A i \in DOMAIN f : f[i] + TakenBy(ch, i) <= rows[i].amount

LEMMA ChargedAdds ==
    ASSUME NEW rows \in Seq(Rows), NEW ch, Charged(rows, ch), NEW s \in Slots, ch[s] = NoCharge,
           NEW f, Fits(f, rows, ch), NEW next, Sets(s, f, ch, next)
    PROVE  /\ Charged(rows, next) /\ next[s] = f /\ OnlySlot(s, ch, next)
           /\ \A i : TakenBy(next, i) = TakenBy(ch, i) + At(f, i)
<1>1. IsCharge(f, rows)
  BY DEF Fits
<1>2. /\ DOMAIN next = Slots /\ next[s] = f /\ OnlySlot(s, ch, next) /\ Paid(ch) /\ Paid(next)
      /\ \A t \in Slots : DOMAIN next[t] \subseteq DOMAIN rows
  BY <1>1, ChargedTo
<1>3. ASSUME NEW i
      PROVE  /\ TakenBy(next, i) = TakenBy(ch, i) + At(f, i)
             /\ i \in DOMAIN rows => TakenBy(next, i) <= rows[i].amount
  <2>7. /\ TakenBy(next, i) + At(ch[s], i) = TakenBy(ch, i) + At(next[s], i)
        /\ TakenBy(next, i) \in Nat /\ TakenBy(ch, i) \in Nat /\ At(next[s], i) \in Nat
    BY <1>2, TakenChange
  <2>1. PICK a \in Nat, b \in Nat, c \in Nat : a = TakenBy(next, i) /\ b = At(next[s], i) /\ c = TakenBy(ch, i)
                                             /\ a + At(ch[s], i) = c + b
    BY <2>7
  <2>2. At(ch[s], i) = 0
    BY AtFacts
  <2>3. a = c + b
    BY <2>1, <2>2
  <2>4. b = At(f, i)
    BY <1>2, <2>1
  <2>5. CASE i \in DOMAIN f
    <3>1. b = f[i]
      BY <2>4, <2>5 DEF At
    <3>2. b + c <= rows[i].amount
      BY <2>1, <2>5, <3>1 DEF Fits
    <3> QED
      BY <2>1, <2>3, <2>4, <3>2
  <2>6. CASE i \notin DOMAIN f
    <3>1. b = 0
      BY <2>4, <2>6 DEF At
    <3>2. a = c
      BY <2>3, <3>1
    <3> QED
      BY <2>1, <2>3, <2>4, <3>2 DEF Charged
  <2> QED
    BY <2>5, <2>6
<1> QED
  BY <1>2, <1>3 DEF Charged, Paid

\* The live bundles at day, and what is taken from them.
LiveIn(rows, u, day)       == {i \in Bundles(rows, u) : rows[i].expiresAt > day}
TakenSum(rows, ch, u, day) == SumFunctionOnSet([i \in LiveIn(rows, u, day) |-> TakenBy(ch, i)], LiveIn(rows, u, day))

LEMMA LiveFacts ==
    ASSUME NEW rows \in Seq(Rows), NEW u, NEW day
    PROVE  /\ LiveIn(rows, u, day) \in SUBSET Bundles(rows, u) /\ LiveIn(rows, u, day) \in SUBSET DOMAIN rows
           /\ IsFiniteSet(LiveIn(rows, u, day))
<1>1. LiveIn(rows, u, day) \in SUBSET Bundles(rows, u)
  BY DEF LiveIn
<1>2. Bundles(rows, u) \in SUBSET DOMAIN rows
  BY BundleFacts
<1>3. LiveIn(rows, u, day) \in SUBSET DOMAIN rows
  BY <1>1, <1>2
<1> QED
  BY <1>1, <1>3, RowsFinite

\* What is left of the live bundles when the spends are paid as they are made.
LeftSum(rows, ch, u, day) ==
    SumFunctionOnSet([i \in LiveIn(rows, u, day) |-> rows[i].amount - TakenBy(ch, i)], LiveIn(rows, u, day))

LEMMA LeftFacts ==
    ASSUME NEW rows \in Seq(Rows), NEW ch, Charged(rows, ch), NEW u, NEW day
    PROVE  /\ \A i \in LiveIn(rows, u, day) : /\ TakenBy(ch, i) \in Nat
                                              /\ rows[i].amount - TakenBy(ch, i) \in Nat
           /\ TakenSum(rows, ch, u, day) \in Nat /\ LeftSum(rows, ch, u, day) \in Nat
           /\ SumAmounts(rows, LiveIn(rows, u, day)) = TakenSum(rows, ch, u, day) + LeftSum(rows, ch, u, day)
<1>1. PICK L : L = LiveIn(rows, u, day)
  OBVIOUS
<1>2. L \in SUBSET DOMAIN rows /\ IsFiniteSet(L)
  BY <1>1, LiveFacts
<1>3. PICK a : a = [i \in DOMAIN rows |-> rows[i].amount]
  OBVIOUS
<1>4. PICK t : t = [i \in L |-> TakenBy(ch, i)]
  OBVIOUS
<1>5. PICK l : l = [i \in L |-> rows[i].amount - TakenBy(ch, i)]
  OBVIOUS
<1>6. ASSUME NEW i \in L
      PROVE  /\ TakenBy(ch, i) \in Nat /\ rows[i].amount - TakenBy(ch, i) \in Nat
             /\ t[i] \in Nat /\ l[i] \in Nat /\ a[i] = t[i] + l[i]
  <2>1. \A s \in Slots : ch[s] \in [DOMAIN ch[s] -> Nat]
    BY DEF Charged
  <2>2. TakenBy(ch, i) \in Nat
    BY <2>1, TakenFacts
  <2>3. i \in DOMAIN rows /\ rows[i].amount \in Nat
    BY <1>2, RowFields
  <2>4. PICK n \in Nat, m \in Nat : n = TakenBy(ch, i) /\ m = rows[i].amount /\ n <= m
    BY <2>2, <2>3 DEF Charged
  <2>5. t[i] = n /\ l[i] = m - n /\ a[i] = m
    BY <1>3, <1>4, <1>5, <2>3, <2>4
  <2> QED
    BY <2>4, <2>5
<1>7. SumFunctionOnSet(a, L) = SumFunctionOnSet(t, L) + SumFunctionOnSet(l, L)
  BY <1>2, <1>6, SumPlus
<1>8. SumFunctionOnSet(t, L) \in Nat /\ SumFunctionOnSet(l, L) \in Nat
  BY <1>2, <1>6, SumFirst
<1>9. SumAmounts(rows, L) = SumFunctionOnSet(a, L)
  BY <1>3 DEF SumAmounts
<1>10. TakenSum(rows, ch, u, day) = SumFunctionOnSet(t, L) /\ LeftSum(rows, ch, u, day) = SumFunctionOnSet(l, L)
  BY <1>1, <1>4, <1>5 DEF TakenSum, LeftSum
<1> QED
  BY <1>1, <1>6, <1>7, <1>8, <1>9, <1>10

\* What the bundles that live hold, pay and have left of a spend made now.
LEMMA ChargePays ==
    ASSUME Typed, Charged(ledger, charged), NEW u \in Users
    PROVE  /\ Fits(Charge(u), ledger, charged) /\ DOMAIN Charge(u) = LiveIn(ledger, u, now)
           /\ SumFunctionOnSet(Charge(u), LiveIn(ledger, u, now))
                = IF Cost <= LeftSum(ledger, charged, u, now) THEN Cost ELSE LeftSum(ledger, charged, u, now)
<1>1. PICK rows \in Seq(Rows) : rows = ledger
  BY DEF Typed
<1>2. PICK L : L = LiveIn(rows, u, now)
  OBVIOUS
<1>3. Live(u) = L
  BY <1>1, <1>2 DEF Live, LiveIn
<1>4. PICK size : size = [i \in L |-> rows[i].amount - TakenBy(charged, i)]
  OBVIOUS
<1>5. size = [i \in L |-> Left(i)]
  BY <1>1, <1>4 DEF Left, Taken, TakenBy, Slots
<1>6. PICK pays : pays = [i \in L |-> Drained(Cost, size, L, rows, i)]
  OBVIOUS
<1>7. Charge(u) = pays
  BY <1>1, <1>3, <1>5, <1>6 DEF Charge
<1>8. L \in SUBSET DOMAIN rows /\ IsFiniteSet(L) /\ L \subseteq Nat /\ \A i \in L : rows[i].expiresAt \in Nat
  BY <1>2, LiveFacts, BundleFacts
<1>9. \A i \in L : TakenBy(charged, i) \in Nat /\ size[i] \in Nat
  BY <1>1, <1>2, <1>4, LeftFacts
<1>10. IsLoop(L, rows, size, Cost, pays)
  BY <1>6, <1>8, <1>9, Bounds DEF IsLoop
<1>11. /\ \A i \in L : pays[i] \in Nat /\ pays[i] <= size[i]
       /\ SumFunctionOnSet(pays, L) = IF Cost <= SumFunctionOnSet(size, L) THEN Cost ELSE SumFunctionOnSet(size, L)
  BY <1>10, AllAreFirst, LoopPays
<1>12. SumFunctionOnSet(size, L) = LeftSum(rows, charged, u, now)
  BY <1>2, <1>4 DEF LeftSum
<1>13. DOMAIN pays = L /\ pays \in [L -> Nat]
  BY <1>6, <1>11
<1>14. ASSUME NEW i \in L PROVE pays[i] + TakenBy(charged, i) <= rows[i].amount
  <2>1. PICK p \in Nat, n \in Nat, m \in Nat : p = pays[i] /\ n = TakenBy(charged, i) /\ m = rows[i].amount
    BY <1>8, <1>9, <1>11, RowFields
  <2>2. p <= m - n
    BY <1>4, <1>11, <2>1
  <2> QED
    BY <2>1, <2>2
<1>15. Fits(pays, rows, charged)
  BY <1>8, <1>13, <1>14 DEF Fits, IsCharge
<1> QED
  BY <1>1, <1>2, <1>7, <1>11, <1>12, <1>13, <1>15

\* What the charges f take in all; f pays for a spend of u.
Spent(f)            == SumFunctionOnSet(f, DOMAIN f)
PaysFor(f, u, rows) == DOMAIN f \subseteq Bundles(rows, u) /\ Spent(f) <= Cost

\* A slot holds charges while its request is in flight, and only that user's.
PaysRight(t) ==
    IF tx[t] = Idle THEN charged[t] = NoCharge ELSE PaysFor(charged[t], tx[t].user, ledger)

Paying == Charged(ledger, charged) /\ \A t \in Txs : PaysRight(t)

LEMMA InitPaying == HInit => Paying
<1> SUFFICES ASSUME HInit PROVE Paying
  OBVIOUS
<1>1. ledger = <<>> /\ tx = [t \in Txs |-> Idle] /\ charged = [t \in Slots |-> NoCharge]
  BY DEF HInit, Init, Slots
<1>2. DOMAIN charged = Slots /\ \A t \in Slots : charged[t] = NoCharge
  BY <1>1
<1>3. \A t \in Slots : charged[t] \in [DOMAIN charged[t] -> Nat] /\ DOMAIN charged[t] \subseteq DOMAIN ledger
  BY <1>2, AtFacts
<1>4. DOMAIN ledger = {}
  BY <1>1
<1>5. Charged(ledger, charged)
  BY <1>2, <1>3, <1>4 DEF Charged
<1>6. \A t \in Txs : tx[t] = Idle /\ charged[t] = NoCharge
  BY <1>1, <1>2 DEF Slots
<1> QED
  BY <1>5, <1>6 DEF Paying, PaysRight

LEMMA CheckCharges ==
    ASSUME Typed, NEW t \in Txs, NEW u \in Users, CheckBalance(t, u), Checks(t)
    PROVE  /\ Sets(t, Charge(u), charged, charged')
           /\ tx[t] = Idle /\ tx'[t] # Idle /\ tx'[t].user = u
           /\ \A s \in Txs \ {t} : tx'[s] = tx[s]
           /\ ledger' = ledger /\ now' = now
<1>1. PICK v \in Users : CheckBalance(t, v) /\ charged' = [charged EXCEPT ![t] = Charge(v)]
  BY DEF Checks
<1>2. tx \in [Txs -> {Idle} \cup Requests]
  BY DEF Typed
<1>3. tx' = [tx EXCEPT ![t] = [pc |-> "checked", user |-> u]] /\ tx' = [tx EXCEPT ![t] = [pc |-> "checked", user |-> v]]
      /\ tx[t] = Idle /\ ledger' = ledger /\ now' = now
  BY <1>1 DEF CheckBalance
<1>4. tx'[t] = [pc |-> "checked", user |-> u] /\ tx'[t].user = u /\ tx'[t].user = v /\ tx'[t].pc = "checked"
  BY <1>2, <1>3
<1>5. tx'[t] # Idle
  BY <1>4, IdleApart
<1>6. \A s \in Txs \ {t} : tx'[s] = tx[s]
  BY <1>2, <1>3
<1>7. u = v
  BY <1>4
<1>8. Sets(t, Charge(u), charged, charged')
  BY <1>1, <1>7 DEF Sets
<1> QED
  BY <1>3, <1>4, <1>5, <1>6, <1>8

LEMMA CheckPaying ==
    ASSUME Typed, Paying, NEW t \in Txs, NEW u \in Users, CheckBalance(t, u), Checks(t)
    PROVE  /\ Paying'
           /\ Fits(Charge(u), ledger, charged) /\ Spent(Charge(u)) <= Cost
           /\ \A i : TakenBy(charged', i) = TakenBy(charged, i) + At(Charge(u), i)
<1>1. ledger \in Seq(Rows) /\ Charged(ledger, charged) /\ t \in Slots /\ charged[t] = NoCharge
  BY CheckCharges DEF Typed, Paying, PaysRight, Slots
<1>2. PICK f : f = Charge(u)
  OBVIOUS
<1>3. /\ Fits(f, ledger, charged) /\ DOMAIN f = LiveIn(ledger, u, now)
      /\ SumFunctionOnSet(f, LiveIn(ledger, u, now))
           = IF Cost <= LeftSum(ledger, charged, u, now) THEN Cost ELSE LeftSum(ledger, charged, u, now)
  BY <1>1, <1>2, ChargePays
<1>4. Spent(f) <= Cost
  <2>1. LeftSum(ledger, charged, u, now) \in Nat /\ Cost \in Nat
    BY <1>1, LeftFacts, Bounds
  <2> QED
    BY <1>3, <2>1 DEF Spent
<1>5. Sets(t, f, charged, charged')
  BY <1>2, CheckCharges
<1>6. /\ Charged(ledger, charged') /\ charged'[t] = f /\ OnlySlot(t, charged, charged')
      /\ \A i : TakenBy(charged', i) = TakenBy(charged, i) + At(f, i)
  BY <1>1, <1>3, <1>5, ChargedAdds
<1>7. PaysFor(f, u, ledger)
  BY <1>1, <1>3, <1>4, LiveFacts DEF PaysFor
<1>8. \A s \in Txs : PaysRight(s)'
  <2>1. ASSUME NEW s \in Txs, s # t PROVE PaysRight(s)'
    <3>1. charged'[s] = charged[s] /\ tx'[s] = tx[s] /\ ledger' = ledger
      BY <1>6, <2>1, CheckCharges DEF OnlySlot, Slots
    <3> QED
      BY <3>1 DEF Paying, PaysRight
  <2>2. PaysRight(t)'
    <3>1. charged'[t] = f /\ tx'[t] # Idle /\ tx'[t].user = u /\ ledger' = ledger
      BY <1>6, CheckCharges
    <3> QED
      BY <1>7, <3>1 DEF PaysRight
  <2> QED
    BY <2>1, <2>2
<1>9. Charged(ledger', charged')
  BY <1>6, CheckCharges
<1>10. Paying'
  BY <1>8, <1>9 DEF Paying
<1> QED
  BY <1>2, <1>3, <1>4, <1>6, <1>10

\* Rows that are added leave the charges as they are.
LEMMA PaysOn ==
    ASSUME NEW rows \in Seq(Rows), NEW new \in Seq(Rows), NEW f, NEW u, PaysFor(f, u, rows)
    PROVE  PaysFor(f, u, rows \o new)
<1>1. Bundles(rows, u) \subseteq Bundles(rows \o new, u)
  BY SumsGrow
<1> QED
  BY <1>1 DEF PaysFor

LEMMA GrowPaying ==
    ASSUME Typed, Paying, NEW new \in Seq(Rows), ledger' = ledger \o new, tx' = tx, charged' = charged
    PROVE  Paying'
<1>1. ledger \in Seq(Rows) /\ Charged(ledger, charged)
  BY DEF Typed, Paying
<1>2. Charged(ledger', charged')
  BY <1>1, ChargedGrows
<1>3. ASSUME NEW t \in Txs PROVE PaysRight(t)'
  <2>1. PaysRight(t)
    BY DEF Paying
  <2>2. PICK f, u : f = charged[t] /\ u = tx[t].user
    OBVIOUS
  <2>3. PaysFor(f, u, ledger) => PaysFor(f, u, ledger')
    BY <1>1, PaysOn
  <2> QED
    BY <2>1, <2>2, <2>3 DEF PaysRight
<1> QED
  BY <1>2, <1>3 DEF Paying

LEMMA CommitPaying ==
    ASSUME Typed, Paying, NEW t \in Txs, CommitSpend(t), Commits(t)
    PROVE  /\ Paying' /\ \A i : TakenBy(charged', i) = TakenBy(charged, i)
           /\ \E r \in Rows : /\ r.type = "DEBIT" /\ r.user = tx[t].user /\ r.amount = Cost
                              /\ r.source = "LIKE_USAGE" /\ ledger' = Append(ledger, r)
<1>1. PICK v \in Users : v = tx[t].user
  BY TxFields DEF CommitSpend
<1>2. PICK r : r = DebitRow(v, Cost, "LIKE_USAGE", NoRef)
  OBVIOUS
<1>3. r \in Rows /\ r.type = "DEBIT" /\ r.user = v /\ r.amount = Cost /\ r.source = "LIKE_USAGE"
  BY <1>2, NewDebit
<1>4. ledger' = Append(ledger, r) /\ tx' = [tx EXCEPT ![t] = Idle]
  BY <1>1, <1>2 DEF CommitSpend
<1>5. ledger \in Seq(Rows) /\ Charged(ledger, charged) /\ tx \in [Txs -> {Idle} \cup Requests]
  BY DEF Typed, Paying
<1>6. PICK new : new = <<r>>
  OBVIOUS
<1>7. new \in Seq(Rows) /\ ledger' = ledger \o new
  BY <1>3, <1>4, <1>5, <1>6, OneRow
<1>8. Moves(t, charged, charged')
  BY DEF Commits, Moves
<1>9. /\ Charged(ledger, charged') /\ charged'[t] = NoCharge /\ \A s \in Txs \ {t} : charged'[s] = charged[s]
      /\ \A i : TakenBy(charged', i) = TakenBy(charged, i)
  BY <1>5, <1>8, ChargedMoves
<1>10. Charged(ledger', charged')
  BY <1>5, <1>7, <1>9, ChargedGrows
<1>11. ASSUME NEW s \in Txs PROVE PaysRight(s)'
  <2>1. CASE s = t
    <3>1. tx'[s] = Idle /\ charged'[s] = NoCharge
      BY <1>4, <1>5, <1>9, <2>1
    <3> QED
      BY <3>1 DEF PaysRight
  <2>2. CASE s # t
    <3>1. PaysRight(s) /\ tx'[s] = tx[s] /\ charged'[s] = charged[s]
      BY <1>4, <1>5, <1>9, <2>2 DEF Paying
    <3>2. PICK f, u : f = charged[s] /\ u = tx[s].user
      OBVIOUS
    <3>3. PaysFor(f, u, ledger) => PaysFor(f, u, ledger')
      BY <1>5, <1>7, PaysOn
    <3> QED
      BY <3>1, <3>2, <3>3 DEF PaysRight
  <2> QED
    BY <2>1, <2>2
<1>12. Paying'
  BY <1>10, <1>11 DEF Paying
<1> QED
  BY <1>1, <1>3, <1>4, <1>9, <1>12

LEMMA UndoPaying ==
    ASSUME Typed, Paying, NEW t \in Txs, RollbackSpend(t), Undoes(t)
    PROVE  /\ Paying' /\ \A i : TakenBy(charged', i) + At(charged[t], i) = TakenBy(charged, i)
<1>1. ledger' = ledger /\ tx' = [tx EXCEPT ![t] = Idle]
  BY DEF RollbackSpend
<1>2. ledger \in Seq(Rows) /\ Charged(ledger, charged) /\ tx \in [Txs -> {Idle} \cup Requests]
  BY DEF Typed, Paying
<1>3. Sets(t, NoCharge, charged, charged') /\ t \in Slots
  BY DEF Undoes, Sets, Slots
<1>4. /\ Charged(ledger, charged') /\ charged'[t] = NoCharge /\ OnlySlot(t, charged, charged')
      /\ \A i : TakenBy(charged', i) + At(charged[t], i) = TakenBy(charged, i)
  BY <1>2, <1>3, ChargedDrops
<1>5. ASSUME NEW s \in Txs PROVE PaysRight(s)'
  <2>1. CASE s = t
    <3>1. tx'[s] = Idle /\ charged'[s] = NoCharge
      BY <1>1, <1>2, <1>4, <2>1
    <3> QED
      BY <3>1 DEF PaysRight
  <2>2. CASE s # t
    <3>1. PaysRight(s) /\ tx'[s] = tx[s] /\ charged'[s] = charged[s] /\ ledger' = ledger
      BY <1>1, <1>2, <1>4, <2>2 DEF Paying, OnlySlot, Slots
    <3> QED
      BY <3>1 DEF PaysRight
  <2> QED
    BY <2>1, <2>2
<1>6. Paying'
  BY <1>1, <1>4, <1>5 DEF Paying
<1> QED
  BY <1>4, <1>6

LEMMA StutterPaying ==
    ASSUME Paying, UNCHANGED <<ledger, tx, charged>>
    PROVE  Paying'
BY DEF Paying, PaysRight

LEMMA NextPaying ==
    ASSUME Core, Paying, HNext
    PROVE  Paying'
<1>1. Typed
  BY DEF Core
<1>2. ASSUME NEW t \in Txs, NEW u \in Users, CheckBalance(t, u), Checks(t) PROVE Paying'
  BY <1>1, <1>2, CheckPaying
<1>3. ASSUME NEW t \in Txs, CommitSpend(t), Commits(t) PROVE Paying'
  BY <1>1, <1>3, CommitPaying
<1>4. ASSUME NEW t \in Txs, RollbackSpend(t), Undoes(t) PROVE Paying'
  BY <1>1, <1>4, UndoPaying
<1>5. ASSUME NEW w \in Workers, ReadLedger(w), UNCHANGED charged PROVE Paying'
  BY <1>5, StutterPaying DEF ReadLedger
<1>6. ASSUME NEW w \in Workers, InsertExpired(w), UNCHANGED charged PROVE Paying'
  <2>1. PICK new \in Seq(Rows) : ledger' = ledger \o new
    BY <1>6, InsertGrows
  <2>2. tx' = tx
    BY <1>6 DEF InsertExpired
  <2> QED
    BY <1>1, <1>6, <2>1, <2>2, GrowPaying
<1>7. ASSUME NEW u \in Users, NEW amount \in Amounts, NEW days \in ExpiryDays,
             GrantCredits(u, amount, days), UNCHANGED charged
      PROVE  Paying'
  <2>1. PICK r : r = CreditRow(u, amount, IF days = 0 THEN Never ELSE now + days)
    OBVIOUS
  <2>2. r \in Rows
    BY <1>1, <2>1, NewCredit
  <2>3. ledger' = Append(ledger, r) /\ tx' = tx
    BY <1>7, <2>1 DEF GrantCredits
  <2>4. ledger \in Seq(Rows)
    BY <1>1 DEF Typed
  <2>5. PICK new : new = <<r>>
    OBVIOUS
  <2>6. new \in Seq(Rows) /\ ledger' = ledger \o new
    BY <2>2, <2>3, <2>4, <2>5, OneRow
  <2> QED
    BY <1>1, <1>7, <2>3, <2>6, GrowPaying
<1>8. ASSUME StartJob \/ PublishPage \/ JobFails \/ Tick, UNCHANGED charged PROVE Paying'
  BY <1>8, StutterPaying DEF StartJob, PublishPage, JobFails, Tick
<1>9. ASSUME NEW w \in Workers, NEW m \in topic, Deliver(w, m), UNCHANGED charged PROVE Paying'
  BY <1>9, StutterPaying DEF Deliver
<1>10. ASSUME NEW w \in Workers, AckBatch(w) \/ WorkerFails(w), UNCHANGED charged PROVE Paying'
  BY <1>10, StutterPaying DEF AckBatch, WorkerFails
<1> QED
  BY <1>2, <1>3, <1>4, <1>5, <1>6, <1>7, <1>8, <1>9, <1>10, StepCases

\* What the spends have taken from a bundle, those in flight included, never
\* exceeds its size, and a request in flight takes no more than the price of
\* its spend, from bundles of its own user (the order getBalance drains them in).
THEOREM ChargesHold == HSpec => []Paying
<1>1. Core /\ Paying /\ [HNext]_hvars => Paying'
  <2>1. ASSUME Paying, UNCHANGED hvars PROVE Paying'
    <3>1. UNCHANGED <<ledger, tx, charged>>
      BY <2>1 DEF hvars, vars
    <3> QED
      BY <2>1, <3>1, StutterPaying
  <2> QED
    BY <2>1, NextPaying
<1> QED
  BY <1>1, InitPaying, CoreHolds, PTL DEF HSpec

\* Every variable of the engine and of its history has its type: rows, requests,
\* batches, what a worker holds, and charges made to bundles that are there.
THEOREM TypesHold == HSpec => []TypeOK
<1>1. Core /\ Books /\ Paying => TypeOK
  <2> SUFFICES ASSUME Core, Books, Paying PROVE Typed /\ Recorded
    BY TypesSplit
  <2>1. Typed
    BY DEF Core
  <2>2. closedTo \in [Users -> -1 .. MaxTime]
    BY DEF Books, Dated
  <2>3. Charged(ledger, charged)
    BY DEF Paying
  <2>4. Recorded
    BY <2>2, <2>3 DEF Recorded, Charged, Slots
  <2> QED
    BY <2>1, <2>4
<1> QED
  BY <1>1, CoreHolds, BooksHold, ChargesHold, PTL

-----------------------------------------------------------------------------
(* The balance and what is left of the live bundles.                       *)

LEMMA LiveLapsed ==
    ASSUME NEW rows \in Seq(Rows), NEW u, NEW day \in Int
    PROVE  /\ LapsedSum(rows, u, day) \in Nat /\ SumAmounts(rows, LiveIn(rows, u, day)) \in Nat
           /\ GrantedIn(rows, u) = LapsedSum(rows, u, day) + SumAmounts(rows, LiveIn(rows, u, day))
           /\ Bundles(rows, u) \ Lapsed(rows, u, day) = LiveIn(rows, u, day)
<1>1. PICK A, L, B : A = Lapsed(rows, u, day) /\ L = LiveIn(rows, u, day) /\ B = Bundles(rows, u)
  OBVIOUS
<1>2. \A i \in B : rows[i].expiresAt \in Nat
  BY <1>1, BundleFacts
<1>3. A = {i \in B : rows[i].expiresAt <= day} /\ L = {i \in B : rows[i].expiresAt > day}
  BY <1>1 DEF Lapsed, LiveIn
<1>4. A \cap L = {} /\ A \cup L = B /\ B \ A = L
  BY <1>2, <1>3
<1>5. A \in SUBSET DOMAIN rows /\ L \in SUBSET DOMAIN rows
  BY <1>1, LapsedFirst, LiveFacts
<1>6. SumAmounts(rows, A \cup L) = SumAmounts(rows, A) + SumAmounts(rows, L)
  BY <1>4, <1>5, SumRowsUnion
<1>7. SumAmounts(rows, A) \in Nat /\ SumAmounts(rows, L) \in Nat
  BY <1>5, RowsFinite
<1> QED
  BY <1>1, <1>4, <1>6, <1>7 DEF LapsedSum, GrantedIn

\* When what is spent is covered by what has lapsed and what the spends took
\* from the live bundles, the balance is no less than what is left of those.
LEMMA CoveredNeverShort ==
    ASSUME NEW rows \in Seq(Rows), NEW ch, Charged(rows, ch), NEW u, NEW day \in Int,
           RealDebits(rows, u) <= LapsedSum(rows, u, day) + TakenSum(rows, ch, u, day)
    PROVE  Balance(rows, u, day) >= LeftSum(rows, ch, u, day)
<1>1. PICK A, L, B : A = Lapsed(rows, u, day) /\ L = LiveIn(rows, u, day) /\ B = Bundles(rows, u)
  OBVIOUS
<1>2. PICK d \in Nat : d = RealDebits(rows, u)
  BY DebitsAreSums
<1>3. PICK a \in Nat, l \in Nat : /\ a = LapsedSum(rows, u, day) /\ l = SumAmounts(rows, L)
                                  /\ GrantedIn(rows, u) = a + l /\ B \ A = L
  BY <1>1, LiveLapsed
<1>4. PICK t \in Nat, f \in Nat : t = TakenSum(rows, ch, u, day) /\ f = LeftSum(rows, ch, u, day) /\ l = t + f
  BY <1>1, <1>3, LeftFacts
<1>5. PICK unused : unused = Drain(rows, u, d)
  OBVIOUS
<1>6. /\ AreFirst(A, B, rows) /\ AreFirst(B, B, rows) /\ A \in SUBSET B /\ IsFiniteSet(B)
  BY <1>1, LapsedFirst, AllAreFirst, BundleFacts DEF AreFirst
<1>7. /\ \A i \in B : unused[i] \in Nat
      /\ SumFunctionOnSet(unused, A) = IF d <= a THEN a - d ELSE 0
  BY <1>1, <1>3, <1>5, <1>6, DrainFacts DEF LapsedSum
<1>8. SumFunctionOnSet(unused, B) = IF d <= a + l THEN (a + l) - d ELSE 0
  <2>1. SumFunctionOnSet(unused, B) = IF d <= SumAmounts(rows, B) THEN SumAmounts(rows, B) - d ELSE 0
    BY <1>1, <1>5, <1>6, DrainFacts
  <2>2. SumAmounts(rows, B) = a + l
    BY <1>1, <1>3 DEF GrantedIn
  <2> QED
    BY <2>1, <2>2
<1>9. /\ SumFunctionOnSet(unused, B) = SumFunctionOnSet(unused, A) + SumFunctionOnSet(unused, L)
      /\ SumFunctionOnSet(unused, L) \in Nat
  BY <1>3, <1>6, <1>7, SumSubset
<1>10. Balance(rows, u, day) = SumFunctionOnSet(unused, L)
  BY <1>1, <1>2, <1>5 DEF Balance, LiveIn
<1>11. PICK b \in Nat : b = SumFunctionOnSet(unused, L)
  BY <1>9
<1>12. (IF d <= a + l THEN (a + l) - d ELSE 0) = (IF d <= a THEN a - d ELSE 0) + b
  BY <1>7, <1>8, <1>9, <1>11
<1>13. d <= a + t
  BY <1>2, <1>3, <1>4
<1>14. b >= f
  <2>1. d <= a + l /\ b \in Int /\ f \in Int
    BY <1>2, <1>3, <1>4, <1>13
  <2>2. CASE d <= a
    <3>1. b = l
      BY <1>12, <2>1, <2>2
    <3> QED
      BY <1>4, <3>1
  <2>3. CASE ~(d <= a)
    <3>1. b = (a + l) - d
      BY <1>12, <2>1, <2>3
    <3>2. l = t + f
      BY <1>4
    <3>3. b = (a + (t + f)) - d
      BY <3>1, <3>2
    <3>4. \A x, y, z, v, c \in Nat : c = (x + (y + z)) - v /\ v <= x + y => c >= z
      OBVIOUS
    <3> QED
      BY <1>13, <3>3, <3>4
  <2> QED
    BY <2>2, <2>3
<1> QED
  BY <1>4, <1>10, <1>11, <1>14

\* Live bundles stay live while the day does, and new rows may add some.
LEMMA LiveGrows ==
    ASSUME NEW rows \in Seq(Rows), NEW new \in Seq(Rows), NEW u, NEW day
    PROVE  LiveIn(rows, u, day) \subseteq LiveIn(rows \o new, u, day)
<1>1. PICK more : more = rows \o new
  OBVIOUS
<1>2. Bundles(rows, u) \subseteq Bundles(more, u)
  BY <1>1, SumsGrow
<1>3. \A i \in Bundles(rows, u) : more[i] = rows[i]
  BY <1>1, Concat, BundleFacts
<1> QED
  BY <1>1, <1>2, <1>3 DEF LiveIn

LEMMA TakenIs ==
    ASSUME NEW rows \in Seq(Rows), NEW ch, Paid(ch), NEW u, NEW day, NEW L, L = LiveIn(rows, u, day),
           NEW f, \A i \in L : f[i] = TakenBy(ch, i)
    PROVE  /\ TakenSum(rows, ch, u, day) = SumFunctionOnSet(f, L) /\ SumFunctionOnSet(f, L) \in Nat
           /\ \A i \in L : f[i] \in Nat
<1>1. PICK g : g = [i \in L |-> TakenBy(ch, i)]
  OBVIOUS
<1>2. IsFiniteSet(L)
  BY LiveFacts
<1>3. \A i \in L : g[i] = f[i] /\ f[i] \in Nat
  BY <1>1, TakenFacts DEF Paid
<1>4. SumFunctionOnSet(g, L) = SumFunctionOnSet(f, L) /\ SumFunctionOnSet(f, L) \in Nat
  BY <1>2, <1>3, SumSame, SumFirst
<1> QED
  BY <1>1, <1>3, <1>4 DEF TakenSum

LEMMA TakenGrows ==
    ASSUME NEW rows \in Seq(Rows), NEW ch, Paid(ch), NEW more \in Seq(Rows), NEW next, Paid(next),
           NEW u, NEW day, LiveIn(rows, u, day) \subseteq LiveIn(more, u, day),
           \A i \in LiveIn(rows, u, day) : TakenBy(next, i) = TakenBy(ch, i)
    PROVE  /\ TakenSum(rows, ch, u, day) \in Nat /\ TakenSum(more, next, u, day) \in Nat
           /\ TakenSum(rows, ch, u, day) <= TakenSum(more, next, u, day)
<1>1. PICK L, M : L = LiveIn(rows, u, day) /\ M = LiveIn(more, u, day)
  OBVIOUS
<1>2. PICK f : f = [i \in M |-> TakenBy(next, i)]
  OBVIOUS
<1>3. /\ TakenSum(more, next, u, day) = SumFunctionOnSet(f, M) /\ SumFunctionOnSet(f, M) \in Nat
      /\ \A i \in M : f[i] \in Nat
  BY <1>1, <1>2, TakenIs
<1>4. \A i \in L : f[i] = TakenBy(ch, i)
  BY <1>1, <1>2
<1>5. TakenSum(rows, ch, u, day) = SumFunctionOnSet(f, L) /\ SumFunctionOnSet(f, L) \in Nat
  BY <1>1, <1>4, TakenIs
<1>6. IsFiniteSet(M) /\ L \in SUBSET M
  BY <1>1, LiveFacts
<1>7. SumFunctionOnSet(f, L) <= SumFunctionOnSet(f, M)
  BY <1>3, <1>6, SumSubset
<1> QED
  BY <1>3, <1>5, <1>7

\* A day later some bundles have lapsed with all their credits, which is no
\* less than what was taken from them.
LEMMA DayCovered ==
    ASSUME NEW rows \in Seq(Rows), NEW ch, Charged(rows, ch), NEW u, NEW day \in Int
    PROVE  LapsedSum(rows, u, day) + TakenSum(rows, ch, u, day)
             <= LapsedSum(rows, u, day + 1) + TakenSum(rows, ch, u, day + 1)
<1>1. PICK A, C, L, M : /\ A = Lapsed(rows, u, day) /\ C = Lapsed(rows, u, day + 1)
                        /\ L = LiveIn(rows, u, day) /\ M = LiveIn(rows, u, day + 1)
  OBVIOUS
<1>2. \A i \in Bundles(rows, u) : rows[i].expiresAt \in Nat
  BY BundleFacts
<1>3. PICK X : X = L \ M
  OBVIOUS
<1>4. M \in SUBSET L /\ A \cap X = {} /\ A \cup X = C
  BY <1>1, <1>2, <1>3 DEF Lapsed, LiveIn
<1>5. L \in SUBSET DOMAIN rows /\ IsFiniteSet(L) /\ A \in SUBSET DOMAIN rows /\ X \in SUBSET DOMAIN rows /\ IsFiniteSet(X)
  BY <1>1, <1>3, LiveFacts, LapsedFirst, FS_Subset
<1>6. PICK f, g : f = [i \in L |-> TakenBy(ch, i)] /\ g = [i \in DOMAIN rows |-> rows[i].amount]
  OBVIOUS
<1>7. Paid(ch)
  BY DEF Charged, Paid
<1>8. (\A i \in L : f[i] = TakenBy(ch, i)) /\ (\A i \in M : f[i] = TakenBy(ch, i))
  BY <1>4, <1>6
<1>9. TakenSum(rows, ch, u, day) = SumFunctionOnSet(f, L) /\ \A i \in L : f[i] \in Nat
  BY <1>1, <1>7, <1>8, TakenIs
<1>10. TakenSum(rows, ch, u, day + 1) = SumFunctionOnSet(f, M)
  BY <1>1, <1>7, <1>8, TakenIs
<1>11. /\ SumFunctionOnSet(f, L) = SumFunctionOnSet(f, M) + SumFunctionOnSet(f, X)
       /\ SumFunctionOnSet(f, M) \in Nat /\ SumFunctionOnSet(f, X) \in Nat
  BY <1>3, <1>4, <1>5, <1>9, SumSubset
<1>12. \A i \in X : f[i] \in Nat /\ g[i] \in Nat /\ f[i] <= g[i]
  <2>1. ASSUME NEW i \in X PROVE f[i] \in Nat /\ g[i] \in Nat /\ f[i] <= g[i]
    <3>1. i \in L /\ i \in DOMAIN rows
      BY <1>3, <1>5
    <3>2. f[i] = TakenBy(ch, i) /\ g[i] = rows[i].amount /\ rows[i].amount \in Nat
      BY <1>6, <3>1, RowFields
    <3>3. TakenBy(ch, i) <= rows[i].amount
      BY <3>1 DEF Charged
    <3> QED
      BY <1>9, <3>1, <3>2, <3>3
  <2> QED
    BY <2>1
<1>13. SumFunctionOnSet(f, X) <= SumAmounts(rows, X)
  <2>1. SumFunctionOnSet(f, X) <= SumFunctionOnSet(g, X)
    BY <1>5, <1>12, SumLess
  <2> QED
    BY <1>6, <2>1 DEF SumAmounts
<1>14. SumAmounts(rows, C) = SumAmounts(rows, A) + SumAmounts(rows, X)
  BY <1>4, <1>5, SumRowsUnion
<1>15. PICK a \in Nat, x \in Nat, m \in Nat, y \in Nat :
          a = SumAmounts(rows, A) /\ x = SumAmounts(rows, X) /\ m = SumFunctionOnSet(f, M) /\ y = SumFunctionOnSet(f, X)
  BY <1>5, <1>11, RowsFinite
<1>16. LapsedSum(rows, u, day) = a /\ LapsedSum(rows, u, day + 1) = a + x
  BY <1>1, <1>14, <1>15 DEF LapsedSum
<1>17. TakenSum(rows, ch, u, day) = m + y /\ TakenSum(rows, ch, u, day + 1) = m /\ y <= x
  BY <1>9, <1>10, <1>11, <1>13, <1>15
<1> QED
  BY <1>15, <1>16, <1>17

\* The charges of one request add to, or give back, what is taken.
LEMMA TakenAdds ==
    ASSUME NEW rows \in Seq(Rows), NEW ch, Paid(ch), NEW next, Paid(next), NEW f, IsCharge(f, rows), NEW u, NEW day,
           \A i : TakenBy(next, i) = TakenBy(ch, i) + At(f, i)
    PROVE  /\ TakenSum(rows, ch, u, day) \in Nat /\ TakenSum(rows, next, u, day) \in Nat /\ Spent(f) \in Nat
           /\ TakenSum(rows, next, u, day) <= TakenSum(rows, ch, u, day) + Spent(f)
           /\ DOMAIN f = LiveIn(rows, u, day)
                => TakenSum(rows, next, u, day) = TakenSum(rows, ch, u, day) + Spent(f)
           /\ DOMAIN f \cap LiveIn(rows, u, day) = {}
                => TakenSum(rows, next, u, day) = TakenSum(rows, ch, u, day)
<1>1. PICK L : L = LiveIn(rows, u, day)
  OBVIOUS
<1>2. PICK g, h, e : /\ g = [i \in L |-> TakenBy(ch, i)] /\ h = [i \in L |-> TakenBy(next, i)]
                     /\ e = [i \in L |-> At(f, i)]
  OBVIOUS
<1>3. TakenSum(rows, ch, u, day) = SumFunctionOnSet(g, L) /\ SumFunctionOnSet(g, L) \in Nat /\ \A i \in L : g[i] \in Nat
  <2>1. \A i \in L : g[i] = TakenBy(ch, i)
    BY <1>2
  <2> QED
    BY <1>1, <2>1, TakenIs
<1>4. TakenSum(rows, next, u, day) = SumFunctionOnSet(h, L) /\ SumFunctionOnSet(h, L) \in Nat
  <2>1. \A i \in L : h[i] = TakenBy(next, i)
    BY <1>2
  <2> QED
    BY <1>1, <2>1, TakenIs
<1>5. PICK D : D = DOMAIN f
  OBVIOUS
<1>6. IsFiniteSet(L) /\ L \in SUBSET DOMAIN rows /\ D \in SUBSET DOMAIN rows /\ f \in [D -> Nat]
  BY <1>1, <1>5, LiveFacts DEF IsCharge
<1>7. IsFiniteSet(D) /\ \A i \in D : f[i] \in Nat
  BY <1>6, RowsFinite
<1>8. SumFunctionOnSet(f, D) \in Nat /\ Spent(f) = SumFunctionOnSet(f, D)
  BY <1>5, <1>7, SumFirst DEF Spent
<1>9. \A i \in L : e[i] = At(f, i) /\ e[i] \in Nat /\ h[i] = g[i] + e[i]
  BY <1>2, <1>5, <1>6, AtFacts
<1>10. SumFunctionOnSet(h, L) = SumFunctionOnSet(g, L) + SumFunctionOnSet(e, L)
  BY <1>3, <1>6, <1>9, SumPlus
<1>11. PICK C, N : C = L \cap D /\ N = L \ C
  OBVIOUS
<1>12. C \in SUBSET L /\ C \in SUBSET D /\ IsFiniteSet(C) /\ IsFiniteSet(N)
  BY <1>6, <1>11, FS_Subset
<1>13. SumFunctionOnSet(e, L) = SumFunctionOnSet(e, C) + SumFunctionOnSet(e, N) /\ SumFunctionOnSet(e, C) \in Nat
  BY <1>6, <1>9, <1>11, <1>12, SumSubset
<1>14. SumFunctionOnSet(e, N) = 0
  <2>1. \A i \in N : e[i] = 0
    BY <1>5, <1>9, <1>11 DEF At
  <2> QED
    BY <1>12, <2>1, SumZero
<1>15. SumFunctionOnSet(e, C) = SumFunctionOnSet(f, C)
  <2>1. \A i \in C : f[i] \in Nat /\ e[i] = f[i]
    BY <1>5, <1>7, <1>9, <1>12 DEF At
  <2> QED
    BY <1>12, <2>1, SumSame
<1>16. SumFunctionOnSet(f, C) <= SumFunctionOnSet(f, D)
  BY <1>7, <1>12, SumSubset
<1>17. D = L => C = D
  BY <1>11
<1>18. D \cap L = {} => SumFunctionOnSet(f, C) = 0
  <2>1. D \cap L = {} => C = {}
    BY <1>11
  <2> QED
    BY <2>1, SumEmpty
<1>19. PICK p \in Nat, q \in Nat, s \in Nat :
          p = SumFunctionOnSet(g, L) /\ q = SumFunctionOnSet(f, C) /\ s = SumFunctionOnSet(f, D)
  BY <1>3, <1>8, <1>13, <1>15
<1>20. SumFunctionOnSet(h, L) = p + q /\ q <= s
  BY <1>10, <1>13, <1>14, <1>15, <1>16, <1>19
<1>21. (D = L => q = s) /\ (D \cap L = {} => q = 0)
  BY <1>17, <1>18, <1>19
<1> QED
  BY <1>1, <1>3, <1>4, <1>5, <1>8, <1>19, <1>20, <1>21

\* One request at a time.
OneTx == \A s, t \in Txs : s = t

\* What u has spent, a spend in flight included, is covered by what has lapsed
\* and what the spends took from the live bundles.
InHand(u)  == IF InFlight(u) = {} THEN 0 ELSE Cost
Covered(u) == RealDebits(ledger, u) + InHand(u) <= LapsedSum(ledger, u, now) + TakenSum(ledger, charged, u, now)

LEMMA CoveredFacts ==
    ASSUME Typed, Charged(ledger, charged), NEW u
    PROVE  /\ ledger \in Seq(Rows) /\ now \in Int /\ Paid(charged) /\ Cost \in Nat
           /\ RealDebits(ledger, u) \in Nat /\ InHand(u) \in Nat /\ InHand(u) <= Cost
           /\ LapsedSum(ledger, u, now) \in Nat /\ TakenSum(ledger, charged, u, now) \in Nat
<1>1. ledger \in Seq(Rows) /\ now \in Int
  BY NowFacts DEF Typed
<1>2. Cost \in Nat
  BY Bounds
<1>3. Paid(charged)
  BY DEF Charged, Paid
<1>4. InHand(u) \in Nat /\ InHand(u) <= Cost
  BY <1>2 DEF InHand
<1> QED
  BY <1>1, <1>2, <1>3, <1>4, DebitsAreSums, LapsedFirst, LeftFacts

\* A step that spends nothing and takes back nothing.
LEMMA StaysCovered ==
    ASSUME Typed, Typed', Charged(ledger, charged), Charged(ledger', charged'), NEW u, Covered(u),
           RealDebits(ledger', u) + InHand(u)' <= RealDebits(ledger, u) + InHand(u),
           LapsedSum(ledger, u, now) + TakenSum(ledger, charged, u, now)
              <= LapsedSum(ledger', u, now') + TakenSum(ledger', charged', u, now')
    PROVE  Covered(u)'
<1>1. PICK a \in Nat, b \in Nat, c \in Nat, d \in Nat :
         /\ a = RealDebits(ledger, u) /\ b = InHand(u)
         /\ c = LapsedSum(ledger, u, now) /\ d = TakenSum(ledger, charged, u, now)
  BY CoveredFacts
<1>2. /\ RealDebits(ledger', u) \in Nat /\ InHand(u)' \in Nat
      /\ LapsedSum(ledger', u, now') \in Nat /\ TakenSum(ledger', charged', u, now') \in Nat
  <2>1. ledger' \in Seq(Rows) /\ now' \in Int
    BY NowFacts DEF Typed
  <2>2. InHand(u)' \in Nat
    BY Bounds DEF InHand
  <2> QED
    BY <2>1, <2>2, DebitsAreSums, LapsedFirst, LeftFacts
<1>3. PICK e \in Nat, f \in Nat, g \in Nat, h \in Nat :
         /\ e = RealDebits(ledger', u) /\ f = InHand(u)'
         /\ g = LapsedSum(ledger', u, now') /\ h = TakenSum(ledger', charged', u, now')
  BY <1>2
<1>4. a + b <= c + d /\ e + f <= a + b /\ c + d <= g + h
  BY <1>1, <1>3 DEF Covered
<1>5. e + f <= g + h
  BY <1>4
<1> QED
  BY <1>3, <1>5 DEF Covered

\* Bundles of two users are two bundles.
LEMMA LiveApart ==
    ASSUME NEW rows, NEW u, NEW v, u # v, NEW day, NEW S, S \subseteq Bundles(rows, v)
    PROVE  S \cap LiveIn(rows, u, day) = {}
BY DEF LiveIn, Bundles

LEMMA CheckCovered ==
    ASSUME OneTx, Typed, Paying, NEW t \in Txs, NEW v \in Users, CheckBalance(t, v), Checks(t),
           NEW u \in Users, Covered(u)
    PROVE  Covered(u)'
<1>1. Charged(ledger, charged) /\ ledger' = ledger /\ now' = now /\ tx[t] = Idle /\ tx'[t] # Idle /\ tx'[t].user = v
  BY CheckCharges DEF Paying
<1>2. PICK rows \in Seq(Rows), day \in Int : rows = ledger /\ day = now
  BY <1>1, CoveredFacts
<1>3. InHand(u) = 0 /\ InHand(u)' = IF u = v THEN Cost ELSE 0
  <2>1. \A s \in Txs : s = t
    BY DEF OneTx
  <2>2. InFlight(u) = {}
    BY <1>1, <2>1 DEF InFlight
  <2>3. InFlight(u)' = IF u = v THEN {t} ELSE {}
    BY <1>1, <2>1 DEF InFlight
  <2>4. InHand(u) = 0
    BY <2>2 DEF InHand
  <2>5. InHand(u)' = IF u = v THEN Cost ELSE 0
    BY <2>3 DEF InHand
  <2> QED
    BY <2>4, <2>5
<1>4. PICK f : f = Charge(v)
  OBVIOUS
<1>5. /\ Paying' /\ IsCharge(f, rows)
      /\ \A i : TakenBy(charged', i) = TakenBy(charged, i) + At(f, i)
  BY <1>2, <1>4, CheckPaying DEF Fits
<1>6. Paid(charged) /\ Paid(charged')
  BY <1>1, <1>5 DEF Paying, Charged, Paid
<1>7. /\ DOMAIN f = LiveIn(rows, v, day)
      /\ SumFunctionOnSet(f, LiveIn(rows, v, day))
           = IF Cost <= LeftSum(rows, charged, v, day) THEN Cost ELSE LeftSum(rows, charged, v, day)
  BY <1>1, <1>2, <1>4, ChargePays
<1>8. Spent(f) = IF Cost <= LeftSum(rows, charged, v, day) THEN Cost ELSE LeftSum(rows, charged, v, day)
  BY <1>7 DEF Spent
<1>9. PICK d \in Nat, a \in Nat, c \in Nat :
         d = RealDebits(rows, u) /\ a = LapsedSum(rows, u, day) /\ c = TakenSum(rows, charged, u, day)
  BY <1>1, <1>2, CoveredFacts
<1>10. d <= a + c
  BY <1>2, <1>3, <1>9 DEF Covered
<1>11. CASE u # v
  <2>1. DOMAIN f \cap LiveIn(rows, u, day) = {}
    BY <1>7, <1>11, LiveFacts, LiveApart
  <2>2. TakenSum(rows, charged', u, day) = c
    BY <1>5, <1>6, <1>9, <2>1, TakenAdds
  <2>3. Covered(u)' <=> d + 0 <= a + c
    BY <1>1, <1>2, <1>3, <1>9, <1>11, <2>2 DEF Covered
  <2> QED
    BY <1>10, <2>3
<1>12. CASE u = v
  <2>1. TakenSum(rows, charged', u, day) = c + Spent(f)
    BY <1>5, <1>6, <1>7, <1>9, <1>12, TakenAdds
  <2>2. PICK l \in Nat, k \in Nat : /\ l = LeftSum(rows, charged, u, day) /\ k = Cost /\ k > 0
                                    /\ SumAmounts(rows, LiveIn(rows, u, day)) = c + l
    BY <1>1, <1>2, <1>9, LeftFacts, Bounds
  <2>3. TakenSum(rows, charged', u, day) = c + IF k <= l THEN k ELSE l
    BY <1>8, <1>12, <2>1, <2>2
  <2>4. GrantedIn(rows, u) = a + (c + l)
    BY <1>9, <2>2, LiveLapsed
  <2>5. PICK b \in Nat : b = Balance(rows, u, day) /\ (b > 0 => b + d <= a + (c + l))
    BY <1>9, <2>4, BalanceCovered
  <2>6. b >= k
    BY <1>2, <1>12, <2>2, <2>5 DEF CheckBalance, HasSufficientCredits, GetBalance
  <2>7. k + d <= a + (c + l)
    BY <2>2, <2>5, <2>6
  <2>8. Covered(u)' <=> d + k <= a + (c + IF k <= l THEN k ELSE l)
    BY <1>1, <1>2, <1>3, <1>9, <1>12, <2>2, <2>3 DEF Covered
  <2>9. CASE k <= l
    <3>1. d + k <= a + (c + k)
      BY <1>10
    <3> QED
      BY <2>8, <2>9, <3>1
  <2>10. CASE ~(k <= l)
    <3>1. d + k <= a + (c + l)
      BY <2>7
    <3> QED
      BY <2>8, <2>10, <3>1
  <2> QED
    BY <2>9, <2>10
<1> QED
  BY <1>11, <1>12

\* With one request, the one that ends was the only one in flight.
LEMMA HandEmpties ==
    ASSUME OneTx, Typed, NEW t \in Txs, tx[t].pc = "checked", tx' = [tx EXCEPT ![t] = Idle], NEW u
    PROVE  InHand(u) = (IF u = tx[t].user THEN Cost ELSE 0) /\ InHand(u)' = 0
<1>1. \A s \in Txs : s = t
  BY DEF OneTx
<1>2. tx[t] # Idle /\ tx'[t] = Idle
  BY TxFields DEF Typed
<1>3. InFlight(u) = IF u = tx[t].user THEN {t} ELSE {}
  BY <1>1, <1>2 DEF InFlight
<1>4. InFlight(u)' = {}
  BY <1>1, <1>2 DEF InFlight
<1>5. InHand(u)' = 0
  BY <1>4 DEF InHand
<1> QED
  BY <1>3, <1>5 DEF InHand

LEMMA CommitCovered ==
    ASSUME OneTx, Core, Core', Paying, HNext, NEW t \in Txs, CommitSpend(t), Commits(t), NEW u \in Users, Covered(u)
    PROVE  Covered(u)'
<1>1. Typed /\ Typed' /\ ledger \in Seq(Rows) /\ now \in Int /\ now' = now
  BY NowFacts DEF Core, Typed, CommitSpend
<1>2. /\ Paying' /\ \A i : TakenBy(charged', i) = TakenBy(charged, i)
      /\ \E r \in Rows : /\ r.type = "DEBIT" /\ r.user = tx[t].user /\ r.amount = Cost
                         /\ r.source = "LIKE_USAGE" /\ ledger' = Append(ledger, r)
  BY <1>1, CommitPaying
<1>3. PICK r \in Rows : /\ r.type = "DEBIT" /\ r.user = tx[t].user /\ r.amount = Cost
                        /\ r.source = "LIKE_USAGE" /\ ledger' = Append(ledger, r)
  BY <1>2
<1>4. PICK new : new = <<r>>
  OBVIOUS
<1>5. new \in Seq(Rows) /\ ledger' = ledger \o new
  BY <1>1, <1>3, <1>4, OneRow
<1>6. PICK d \in Nat, k \in Nat : d = RealDebits(ledger, u) /\ k = Cost
  BY <1>1, DebitsAreSums, Bounds
<1>7. RealDebits(ledger', u) = d + IF u = tx[t].user THEN k ELSE 0
  BY <1>1, <1>3, <1>6, SpendGrows
<1>8. InHand(u) = (IF u = tx[t].user THEN k ELSE 0) /\ InHand(u)' = 0
  BY <1>1, <1>6, HandEmpties DEF CommitSpend
<1>9. RealDebits(ledger', u) + InHand(u)' <= RealDebits(ledger, u) + InHand(u)
  BY <1>6, <1>7, <1>8
<1>10. LapsedSum(ledger', u, now) = LapsedSum(ledger, u, now)
  BY <1>1, LedgerGrows DEF Grown
<1>11. Charged(ledger, charged) /\ Charged(ledger', charged') /\ Paid(charged) /\ Paid(charged')
  BY <1>2 DEF Paying, Charged, Paid
<1>12. /\ TakenSum(ledger, charged, u, now) \in Nat /\ TakenSum(ledger', charged', u, now) \in Nat
       /\ TakenSum(ledger, charged, u, now) <= TakenSum(ledger', charged', u, now)
  <2>1. PICK more \in Seq(Rows) : more = ledger'
    BY <1>1 DEF Typed
  <2>2. LiveIn(ledger, u, now) \subseteq LiveIn(more, u, now)
    BY <1>1, <1>5, <2>1, LiveGrows
  <2> QED
    BY <1>1, <1>2, <1>11, <2>1, <2>2, TakenGrows
<1>13. LapsedSum(ledger, u, now) \in Nat
  BY <1>1, LapsedFirst
<1>14. LapsedSum(ledger, u, now) + TakenSum(ledger, charged, u, now)
          <= LapsedSum(ledger', u, now') + TakenSum(ledger', charged', u, now')
  BY <1>1, <1>10, <1>12, <1>13
<1> QED
  BY <1>1, <1>9, <1>11, <1>14, StaysCovered

LEMMA UndoCovered ==
    ASSUME OneTx, Typed, Typed', Paying, NEW t \in Txs, RollbackSpend(t), Undoes(t), NEW u \in Users, Covered(u)
    PROVE  Covered(u)'
<1>1. ledger' = ledger /\ now' = now /\ tx' = [tx EXCEPT ![t] = Idle] /\ tx[t].pc = "checked"
  BY DEF RollbackSpend
<1>2. tx[t] # Idle
  BY <1>1, TxFields
<1>3. PICK v : v = tx[t].user
  OBVIOUS
<1>4. PICK f : f = charged[t]
  OBVIOUS
<1>5. Charged(ledger, charged) /\ PaysFor(f, v, ledger)
  BY <1>2, <1>3, <1>4 DEF Paying, PaysRight
<1>6. PICK rows \in Seq(Rows), day \in Int : rows = ledger /\ day = now
  BY <1>5, CoveredFacts
<1>7. IsCharge(f, rows)
  BY <1>4, <1>5, <1>6 DEF Charged, Slots, IsCharge
<1>8. Paying' /\ \A i : TakenBy(charged', i) + At(f, i) = TakenBy(charged, i)
  BY <1>4, UndoPaying
<1>9. Paid(charged) /\ Paid(charged')
  BY <1>5, <1>8 DEF Paying, Charged, Paid
<1>10. /\ TakenSum(rows, charged', u, day) \in Nat /\ TakenSum(rows, charged, u, day) \in Nat /\ Spent(f) \in Nat
       /\ TakenSum(rows, charged, u, day) <= TakenSum(rows, charged', u, day) + Spent(f)
       /\ DOMAIN f \cap LiveIn(rows, u, day) = {}
            => TakenSum(rows, charged, u, day) = TakenSum(rows, charged', u, day)
  <2>1. \A i : TakenBy(charged, i) = TakenBy(charged', i) + At(f, i)
    BY <1>8
  <2>2. PICK ch, next : ch = charged' /\ next = charged
    OBVIOUS
  <2>3. Paid(ch) /\ Paid(next) /\ \A i : TakenBy(next, i) = TakenBy(ch, i) + At(f, i)
    BY <1>9, <2>1, <2>2
  <2>4. /\ TakenSum(rows, ch, u, day) \in Nat /\ TakenSum(rows, next, u, day) \in Nat /\ Spent(f) \in Nat
        /\ TakenSum(rows, next, u, day) <= TakenSum(rows, ch, u, day) + Spent(f)
        /\ DOMAIN f \cap LiveIn(rows, u, day) = {}
             => TakenSum(rows, next, u, day) = TakenSum(rows, ch, u, day)
    BY <1>7, <2>3, TakenAdds
  <2> QED
    BY <2>2, <2>4
<1>11. PICK d \in Nat, a \in Nat, c \in Nat, e \in Nat, s \in Nat, k \in Nat :
         /\ d = RealDebits(rows, u) /\ a = LapsedSum(rows, u, day)
         /\ c = TakenSum(rows, charged, u, day) /\ e = TakenSum(rows, charged', u, day)
         /\ s = Spent(f) /\ k = Cost
  BY <1>5, <1>6, <1>10, CoveredFacts
<1>12. s <= k /\ c <= e + s
  BY <1>5, <1>10, <1>11 DEF PaysFor
<1>13. u # v => c = e
  BY <1>5, <1>6, <1>10, <1>11, LiveApart DEF PaysFor
<1>14. InHand(u) = (IF u = v THEN k ELSE 0) /\ InHand(u)' = 0
  BY <1>1, <1>3, <1>11, HandEmpties
<1>15. d + (IF u = v THEN k ELSE 0) <= a + c
  BY <1>6, <1>11, <1>14 DEF Covered
<1>16. d + 0 <= a + e
  BY <1>12, <1>13, <1>15
<1>17. Covered(u)' <=> d + 0 <= a + e
  BY <1>1, <1>6, <1>11, <1>14 DEF Covered
<1> QED
  BY <1>16, <1>17

LEMMA GrowCovered ==
    ASSUME Core, Core', Paying, Paying', HNext, tx' = tx, now' = now, charged' = charged,
           NEW new \in Seq(Rows), ledger' = ledger \o new,
           NEW u \in Users, RealDebits(ledger', u) = RealDebits(ledger, u), Covered(u)
    PROVE  Covered(u)'
<1>1. Typed /\ Typed' /\ ledger \in Seq(Rows) /\ now \in Int
  BY NowFacts DEF Core, Typed
<1>2. InHand(u)' = InHand(u)
  BY DEF InHand, InFlight
<1>3. Charged(ledger, charged) /\ Charged(ledger', charged') /\ Paid(charged)
  BY DEF Paying, Charged, Paid
<1>4. RealDebits(ledger, u) \in Nat /\ InHand(u) \in Nat /\ LapsedSum(ledger, u, now) \in Nat
  BY <1>1, <1>3, CoveredFacts
<1>5. LapsedSum(ledger', u, now) = LapsedSum(ledger, u, now)
  BY <1>1, LedgerGrows DEF Grown
<1>6. /\ TakenSum(ledger, charged, u, now) \in Nat /\ TakenSum(ledger', charged, u, now) \in Nat
      /\ TakenSum(ledger, charged, u, now) <= TakenSum(ledger', charged, u, now)
  <2>1. PICK more \in Seq(Rows) : more = ledger'
    BY <1>1 DEF Typed
  <2>2. LiveIn(ledger, u, now) \subseteq LiveIn(more, u, now)
    BY <1>1, <2>1, LiveGrows
  <2> QED
    BY <1>1, <1>3, <2>1, <2>2, TakenGrows
<1>7. RealDebits(ledger', u) + InHand(u)' <= RealDebits(ledger, u) + InHand(u)
  BY <1>2, <1>4
<1>8. LapsedSum(ledger, u, now) + TakenSum(ledger, charged, u, now)
         <= LapsedSum(ledger', u, now') + TakenSum(ledger', charged', u, now')
  BY <1>4, <1>5, <1>6
<1> QED
  BY <1>1, <1>3, <1>7, <1>8, StaysCovered

LEMMA TickCovered ==
    ASSUME Core, Core', Paying, Paying', Tick, charged' = charged, NEW u \in Users, Covered(u)
    PROVE  Covered(u)'
<1>1. Typed /\ Typed' /\ ledger \in Seq(Rows) /\ now \in Int
  BY NowFacts DEF Core, Typed
<1>2. now' = now + 1 /\ ledger' = ledger /\ tx' = tx
  BY DEF Tick
<1>3. Charged(ledger, charged) /\ Charged(ledger', charged')
  BY DEF Paying
<1>4. RealDebits(ledger', u) + InHand(u)' <= RealDebits(ledger, u) + InHand(u)
  <2>1. InHand(u)' = InHand(u)
    BY <1>2 DEF InHand, InFlight
  <2>2. RealDebits(ledger, u) \in Nat /\ InHand(u) \in Nat
    BY <1>1, <1>3, CoveredFacts
  <2> QED
    BY <1>2, <2>1, <2>2
<1>5. LapsedSum(ledger, u, now) + TakenSum(ledger, charged, u, now)
         <= LapsedSum(ledger, u, now + 1) + TakenSum(ledger, charged, u, now + 1)
  BY <1>1, <1>3, DayCovered
<1>6. LapsedSum(ledger, u, now) + TakenSum(ledger, charged, u, now)
         <= LapsedSum(ledger', u, now') + TakenSum(ledger', charged', u, now')
  BY <1>2, <1>5
<1> QED
  BY <1>1, <1>3, <1>4, <1>6, StaysCovered

LEMMA SameCovered ==
    ASSUME NEW u, Covered(u), UNCHANGED <<ledger, tx, now, charged>>
    PROVE  Covered(u)'
BY DEF Covered, InHand, InFlight

LEMMA NextCovered ==
    ASSUME OneTx, Core, Core', Paying, Paying', HNext, NEW u \in Users, Covered(u)
    PROVE  Covered(u)'
<1>1. Typed /\ Typed' /\ ledger \in Seq(Rows)
  BY DEF Core, Typed
<1>2. ASSUME NEW t \in Txs, NEW v \in Users, CheckBalance(t, v), Checks(t) PROVE Covered(u)'
  BY <1>1, <1>2, CheckCovered
<1>3. ASSUME NEW t \in Txs, CommitSpend(t), Commits(t) PROVE Covered(u)'
  BY <1>1, <1>3, CommitCovered
<1>4. ASSUME NEW t \in Txs, RollbackSpend(t), Undoes(t) PROVE Covered(u)'
  BY <1>1, <1>4, UndoCovered
<1>5. ASSUME NEW w \in Workers, ReadLedger(w), UNCHANGED charged PROVE Covered(u)'
  BY <1>5, SameCovered DEF ReadLedger
<1>6. ASSUME NEW w \in Workers, InsertExpired(w), UNCHANGED charged PROVE Covered(u)'
  <2>1. PICK v \in Users, new \in Seq(Rows) : AreExpired(new, v) /\ ledger' = ledger \o new
    BY <1>6, InsertGrows
  <2>2. tx' = tx /\ now' = now
    BY <1>6 DEF InsertExpired
  <2>3. RealDebits(ledger', u) = RealDebits(ledger, u)
    BY <1>1, <2>1, ExpiredGrows
  <2> QED
    BY <1>6, <2>1, <2>2, <2>3, GrowCovered
<1>7. ASSUME NEW v \in Users, NEW amount \in Amounts, NEW days \in ExpiryDays,
             GrantCredits(v, amount, days), UNCHANGED charged
      PROVE  Covered(u)'
  <2>1. PICK r : r = CreditRow(v, amount, IF days = 0 THEN Never ELSE now + days)
    OBVIOUS
  <2>2. r \in Rows /\ r.type = "CREDIT"
    BY <1>1, <2>1, NewCredit
  <2>3. ledger' = Append(ledger, r) /\ tx' = tx /\ now' = now
    BY <1>7, <2>1 DEF GrantCredits
  <2>4. PICK new : new = <<r>>
    OBVIOUS
  <2>5. new \in Seq(Rows) /\ ledger' = ledger \o new
    BY <1>1, <2>2, <2>3, <2>4, OneRow
  <2>6. RealDebits(ledger', u) = RealDebits(ledger, u)
    BY <1>1, <2>2, <2>3, GrantGrows
  <2> QED
    BY <1>7, <2>3, <2>5, <2>6, GrowCovered
<1>8. ASSUME StartJob \/ PublishPage \/ JobFails, UNCHANGED charged PROVE Covered(u)'
  BY <1>8, SameCovered DEF StartJob, PublishPage, JobFails
<1>9. ASSUME Tick, UNCHANGED charged PROVE Covered(u)'
  BY <1>9, TickCovered
<1>10. ASSUME NEW w \in Workers, NEW m \in topic, Deliver(w, m), UNCHANGED charged PROVE Covered(u)'
  BY <1>10, SameCovered DEF Deliver
<1>11. ASSUME NEW w \in Workers, AckBatch(w) \/ WorkerFails(w), UNCHANGED charged PROVE Covered(u)'
  BY <1>11, SameCovered DEF AckBatch, WorkerFails
<1> QED
  BY <1>2, <1>3, <1>4, <1>5, <1>6, <1>7, <1>8, <1>9, <1>10, <1>11, StepCases

LEMMA InitCovered ==
    ASSUME HInit, NEW u \in Users
    PROVE  Covered(u)
<1>1. Typed /\ Paying
  BY InitCore, InitPaying DEF Core
<1>2. ledger = <<>> /\ \A t \in Txs : tx[t] = Idle
  BY DEF HInit, Init
<1>3. ledger \in Seq(Rows) /\ LapsedSum(ledger, u, now) \in Nat /\ TakenSum(ledger, charged, u, now) \in Nat
  BY <1>1, CoveredFacts DEF Paying
<1>4. RealDebits(ledger, u) = 0
  <2>1. RealIds(ledger, u) = {}
    BY <1>2 DEF RealIds
  <2> QED
    BY <1>3, <2>1, DebitsAreSums, SumNoRows
<1>5. InHand(u) = 0
  BY <1>2 DEF InHand, InFlight
<1>6. 0 + 0 <= LapsedSum(ledger, u, now) + TakenSum(ledger, charged, u, now)
  BY <1>3
<1> QED
  BY <1>4, <1>5, <1>6 DEF Covered

\* While requests spend one at a time, the balance shown is never less
\* than what is left of the live bundles when each spend is paid, as it is made,
\* by the live bundle that expires first: attributing all spends anew at every
\* read (getBalance) costs the user no credit.  Two spends at once can overdraw
\* (SpendsOverdrawLittle), and the next grant then pays for the overdraft.
THEOREM BalancesNeverShort ==
    ASSUME OneTx
    PROVE  HSpec => []BalanceNeverShort
<1>1. HInit => \A u \in Users : Covered(u)
  BY InitCovered
<1>2. ASSUME Core, Core', Paying, Paying', [HNext]_hvars, \A u \in Users : Covered(u)
      PROVE  (\A u \in Users : Covered(u))'
  <2>1. ASSUME NEW u \in Users, UNCHANGED hvars PROVE Covered(u)'
    <3>1. UNCHANGED <<ledger, tx, now, charged>>
      BY <2>1 DEF hvars, vars
    <3> QED
      BY <1>2, <3>1, SameCovered
  <2>2. ASSUME NEW u \in Users, HNext PROVE Covered(u)'
    BY <1>2, <2>2, NextCovered
  <2> QED
    BY <1>2, <2>1, <2>2
<1>3. ASSUME Core, Paying, \A u \in Users : Covered(u)
      PROVE  BalanceNeverShort
  <2> SUFFICES ASSUME NEW u \in Users PROVE GetBalance(u) >= TrueBalance(u)
    BY DEF BalanceNeverShort
  <2>1. Typed /\ Charged(ledger, charged) /\ Covered(u)
    BY <1>3 DEF Core, Paying
  <2>2. PICK rows \in Seq(Rows), day \in Int : rows = ledger /\ day = now
    BY <2>1, CoveredFacts
  <2>3. PICK d \in Nat, k \in Nat, e \in Nat : /\ d = RealDebits(rows, u) /\ k = InHand(u)
                                             /\ e = LapsedSum(rows, u, day) + TakenSum(rows, charged, u, day)
    BY <2>1, <2>2, CoveredFacts
  <2>4. d + k <= e
    BY <2>1, <2>2, <2>3 DEF Covered
  <2>5. d <= e
    BY <2>4
  <2>6. Balance(rows, u, day) >= LeftSum(rows, charged, u, day)
    BY <2>1, <2>2, <2>3, <2>5, CoveredNeverShort
  <2>7. TrueBalance(u) = LeftSum(rows, charged, u, day)
    BY <2>2 DEF TrueBalance, LeftSum, Live, LiveIn, Left, Taken, TakenBy, Slots
  <2> QED
    BY <2>2, <2>6, <2>7 DEF GetBalance
<1> QED
  BY <1>1, <1>2, <1>3, CoreHolds, ChargesHold, PTL DEF HSpec

=============================================================================
