------------------------------- MODULE SumTheory -------------------------------
(***************************************************************************)
(* Sums and products over finite sets. MapThenSumSet and FoldSet fold with  *)
(* a function that they take from a recursive definition; here that         *)
(* function is shown to exist and to be unique, and from there on the       *)
(* lemmas are about sums and products of the values of a function. Each is  *)
(* proved by taking a smallest counterexample. With them, the facts about   *)
(* quotients and remainders, and about smallest numbers, that more than one *)
(* component needs.                                                         *)
(***************************************************************************)
EXTENDS Integers, FiniteSetsExt, FiniteSetTheorems, TLAPS

\* Of the subsets of a finite set that have some property, one has no proper
\* subset with it.
LEMMA MinimalSubset ==
    ASSUME NEW S, IsFiniteSet(S), NEW Q, Q \subseteq SUBSET S, Q # {}
    PROVE  \E T \in Q : \A U \in Q : U \subseteq T => U = T
<1>1. Q \subseteq FiniteSubsetsOf(S)
  BY FS_Subset DEF FiniteSubsetsOf
<1>2. IsWellFoundedOn(StrictSubsetOrdering(S), FiniteSubsetsOf(S))
  BY FS_StrictSubsetOrderingWellFounded
<1>3. PICK T \in Q : \A U \in Q : ~ (<<U, T>> \in StrictSubsetOrdering(S))
  BY <1>1, <1>2, WFMin
<1>4. \A U \in Q : U \subseteq T => U = T
  BY <1>3 DEF StrictSubsetOrdering
<1> QED BY <1>4

\* Of the natural numbers that have some property, one is the smallest.
LEMMA MinimalNat ==
    ASSUME NEW Q, Q \subseteq Nat, Q # {}
    PROVE  \E n \in Q : \A m \in Q : n <= m
<1>1. IsWellFoundedOn(OpToRel(<, Nat), Nat)
  BY NatLessThanWellFounded
<1>2. PICK n \in Q : \A m \in Q : ~ (<<m, n>> \in OpToRel(<, Nat))
  BY <1>1, WFMin
<1>3. \A m \in Q : ~(m < n)
  BY <1>2 DEF OpToRel
<1> QED BY <1>3

\* What holds at the start and stays for a step holds to the end.
LEMMA StepByStep ==
    ASSUME NEW a \in Nat, NEW b \in Nat, NEW Q, a \in Q,
           \A n \in a .. b - 1 : n \in Q => n + 1 \in Q
    PROVE  \A n \in a .. b : n \in Q
<1> DEFINE R == {n \in a .. b : n \notin Q}
<1>1. SUFFICES ASSUME R # {} PROVE FALSE
  OBVIOUS
<1>2. PICK n \in R : \A m \in R : n <= m
  <2>1. R \subseteq Nat
    OBVIOUS
  <2> HIDE DEF R
  <2> QED BY <1>1, <2>1, MinimalNat
<1>3. n \in a .. b /\ n \notin Q /\ n # a
  BY <1>2
<1>4. n - 1 \in a .. b - 1 /\ n - 1 \in a .. b /\ (n - 1) + 1 = n /\ ~(n <= n - 1)
  BY <1>3
<1>5. n - 1 \in Q
  BY <1>2, <1>4
<1> QED BY <1>3, <1>4, <1>5

\* A quotient and a remainder are the only ones.
LEMMA DivUnique ==
    ASSUME NEW n \in Nat \ {0}, NEW q \in Int, NEW r \in 0 .. n - 1,
           NEW x \in Int, x = n * q + r
    PROVE  x \div n = q /\ x % n = r
<1>1. x = n * (x \div n) + (x % n) /\ x \div n \in Int /\ x % n \in 0 .. n - 1
  OBVIOUS
<1> DEFINE p == x \div n
<1> DEFINE s == x % n
<1> HIDE DEF p, s
<1>2. x = n * p + s /\ p \in Int /\ s \in 0 .. n - 1
  BY <1>1 DEF p, s
<1>3. n * (q - p) = s - r
  <2>1. n * (q - p) = n * q - n * p
    BY <1>2
  <2>2. n * q \in Int /\ n * p \in Int
    BY <1>2
  <2> QED BY <1>2, <2>1, <2>2
<1>4. q = p
  <2>1. CASE q - p >= 1
    <3>1. n * (q - p) >= n
      BY <1>2, <2>1
    <3> QED BY <1>2, <1>3, <3>1
  <2>2. CASE q - p <= -1
    <3>1. n * (q - p) <= -n
      BY <1>2, <2>2
    <3> QED BY <1>2, <1>3, <3>1
  <2> QED BY <1>2, <2>1, <2>2
<1>5. s = r
  <2>1. n * p \in Int
    BY <1>2
  <2> QED BY <1>2, <1>4, <2>1
<1> QED BY <1>4, <1>5 DEF p, s

\* A multiple of the divisor does not change the remainder.
LEMMA ModShift ==
    ASSUME NEW n \in Nat \ {0}, NEW x \in Int, NEW k \in Int
    PROVE  (x + n * k) % n = x % n
<1>1. x = n * (x \div n) + (x % n) /\ x \div n \in Int /\ x % n \in 0 .. n - 1
  OBVIOUS
<1> DEFINE p == x \div n
<1> DEFINE s == x % n
<1> HIDE DEF p, s
<1>2. x = n * p + s /\ p \in Int /\ s \in 0 .. n - 1
  BY <1>1 DEF p, s
<1>3. x + n * k = n * (p + k) + s
  <2>1. n * (p + k) = n * p + n * k
    BY <1>2
  <2>2. n * p \in Int /\ n * k \in Int
    BY <1>2
  <2> QED BY <1>2, <2>1, <2>2
<1>4. n * k \in Int
  OBVIOUS
<1>5. (x + n * k) % n = s
  BY <1>2, <1>3, <1>4, DivUnique
<1> QED BY <1>5 DEF s

-----------------------------------------------------------------------------
(* Sums *)

\* What is folded with: sums and products.
Combine(op, a, b) == IF op = "sum" THEN a + b ELSE a * b

Neutral(op) == IF op = "sum" THEN 0 ELSE 1

\* The function that MapThenFoldSet recurs with, for the operands f over the
\* subsets of S.
IsIter(it, op, f, S) ==
    it = [s \in SUBSET S |-> IF s = {} THEN Neutral(op)
                             ELSE LET x == CHOOSE x \in s : TRUE
                                  IN  Combine(op, f[x], it[s \ {x}])]

Iter(op, f, S) == CHOOSE it : IsIter(it, op, f, S)

FoldOver(op, f, S) == Iter(op, f, S)[S]

LEMMA IterUnique ==
    ASSUME NEW S, IsFiniteSet(S), NEW op, NEW f,
           NEW a, IsIter(a, op, f, S), NEW b, IsIter(b, op, f, S)
    PROVE  a = b
<1> DEFINE Q == {s \in SUBSET S : a[s] # b[s]}
<1>1. SUFFICES ASSUME Q # {} PROVE FALSE
  BY DEF IsIter
<1>2. PICK T \in Q : \A U \in Q : U \subseteq T => U = T
  <2>1. Q \subseteq SUBSET S
    OBVIOUS
  <2> HIDE DEF Q
  <2> QED BY <1>1, <2>1, MinimalSubset
<1>3. T # {}
  BY DEF IsIter
<1> DEFINE x == CHOOSE x \in T : TRUE
<1>4. x \in T
  BY <1>3
<1>5. T \ {x} \in SUBSET S /\ T \ {x} # T /\ T \ {x} \subseteq T
  BY <1>4
<1>6. a[T \ {x}] = b[T \ {x}]
  BY <1>2, <1>5
<1>7. a[T] = Combine(op, f[x], a[T \ {x}])
  BY <1>3 DEF IsIter
<1>8. b[T] = Combine(op, f[x], b[T \ {x}])
  BY <1>3 DEF IsIter
<1> QED BY <1>6, <1>7, <1>8

LEMMA IterRestricts ==
    ASSUME NEW S, NEW op, NEW f, NEW a, IsIter(a, op, f, S), NEW U \in SUBSET S
    PROVE  IsIter([s \in SUBSET U |-> a[s]], op, f, U)
<1> DEFINE c == [s \in SUBSET U |-> a[s]]
<1>1. ASSUME NEW s \in SUBSET U, s # {}
      PROVE  LET x == CHOOSE x \in s : TRUE IN c[s] = Combine(op, f[x], c[s \ {x}])
  <2> DEFINE x == CHOOSE x \in s : TRUE
  <2>1. a[s] = Combine(op, f[x], a[s \ {x}])
    BY <1>1 DEF IsIter
  <2>2. s \ {x} \in SUBSET U
    OBVIOUS
  <2> QED BY <2>1, <2>2
<1>2. c[{}] = Neutral(op)
  BY DEF IsIter
<1> QED BY <1>1, <1>2 DEF IsIter

LEMMA IterExists ==
    ASSUME NEW S, IsFiniteSet(S), NEW op, NEW f
    PROVE  IsIter(Iter(op, f, S), op, f, S)
<1> DEFINE Q == {s \in SUBSET S : ~ \E it : IsIter(it, op, f, s)}
<1>1. SUFFICES Q = {}
  <2>1. \E it : IsIter(it, op, f, S)
    BY <1>1
  <2> QED BY <2>1 DEF Iter
<1>2. SUFFICES ASSUME Q # {} PROVE FALSE
  OBVIOUS
<1>3. PICK T \in Q : \A U \in Q : U \subseteq T => U = T
  <2>1. Q \subseteq SUBSET S
    OBVIOUS
  <2> HIDE DEF Q
  <2> QED BY <1>2, <2>1, MinimalSubset
<1>4. ASSUME NEW U \in SUBSET T, U # T PROVE IsIter(Iter(op, f, U), op, f, U)
  <2>1. \E it : IsIter(it, op, f, U)
    BY <1>3, <1>4
  <2> QED BY <2>1 DEF Iter
<1>5. ASSUME NEW U \in SUBSET T, U # T, NEW V \in SUBSET U
      PROVE  Iter(op, f, U)[V] = FoldOver(op, f, V)
  <2>1. IsIter([s \in SUBSET V |-> Iter(op, f, U)[s]], op, f, V)
    BY <1>4, <1>5, IterRestricts
  <2>2. V \in SUBSET T /\ V # T
    BY <1>5
  <2>3. IsIter(Iter(op, f, V), op, f, V)
    BY <1>4, <2>2
  <2>4. IsFiniteSet(V)
    BY FS_Subset
  <2>5. [s \in SUBSET V |-> Iter(op, f, U)[s]] = Iter(op, f, V)
    BY <2>1, <2>3, <2>4, IterUnique
  <2>6. V \in SUBSET V
    OBVIOUS
  <2> HIDE DEF Q
  <2> QED BY <2>5, <2>6 DEF FoldOver
<1> DEFINE it == [s \in SUBSET T |->
                     IF s = T
                     THEN IF T = {} THEN Neutral(op)
                          ELSE LET x == CHOOSE x \in T : TRUE IN Combine(op, f[x], FoldOver(op, f, T \ {x}))
                     ELSE FoldOver(op, f, s)]
<1>6. ASSUME NEW s \in SUBSET T, s # {}
      PROVE  LET x == CHOOSE x \in s : TRUE IN it[s] = Combine(op, f[x], it[s \ {x}])
  <2> DEFINE x == CHOOSE x \in s : TRUE
  <2>1. x \in s
    BY <1>6
  <2>2. s \ {x} \in SUBSET T /\ s \ {x} # T /\ s \ {x} \in SUBSET s
    BY <2>1
  <2>3. it[s \ {x}] = FoldOver(op, f, s \ {x})
    BY <2>2
  <2>4. CASE s = T
    BY <1>6, <2>3, <2>4
  <2>5. CASE s # T
    <3>1. Iter(op, f, s)[s] = Combine(op, f[x], Iter(op, f, s)[s \ {x}])
      <4>1. IsIter(Iter(op, f, s), op, f, s)
        BY <1>4, <2>5
      <4>2. s \in SUBSET s
        OBVIOUS
      <4> QED BY <4>1, <4>2, <1>6 DEF IsIter
    <3>2. Iter(op, f, s)[s \ {x}] = FoldOver(op, f, s \ {x})
      BY <1>5, <2>2, <2>5
    <3>3. it[s] = Iter(op, f, s)[s]
      BY <2>5 DEF FoldOver
    <3> QED BY <2>3, <3>1, <3>2, <3>3
  <2> QED BY <2>4, <2>5
<1>7. it[{}] = Neutral(op)
  <2>1. CASE T = {}
    BY <2>1
  <2>2. CASE T # {}
    <3>1. IsIter(Iter(op, f, {}), op, f, {})
      BY <1>4, <2>2
    <3>2. Iter(op, f, {})[{}] = Neutral(op)
      BY <3>1 DEF IsIter
    <3> QED BY <2>2, <3>2 DEF FoldOver
  <2> QED BY <2>1, <2>2
<1>8. IsIter(it, op, f, T)
  <2> HIDE DEF Q
  <2> QED BY <1>6, <1>7 DEF IsIter
<1> QED BY <1>3, <1>8

LEMMA FoldEmpty == ASSUME NEW op, NEW f PROVE FoldOver(op, f, {}) = Neutral(op)
<1>1. IsIter(Iter(op, f, {}), op, f, {})
  BY IterExists, FS_EmptySet
<1> QED BY <1>1 DEF FoldOver, IsIter

\* The fold as it is computed: one element is chosen, the others are folded.
LEMMA FoldStep ==
    ASSUME NEW S, IsFiniteSet(S), S # {}, NEW op, NEW f
    PROVE  \E x \in S : FoldOver(op, f, S) = Combine(op, f[x], FoldOver(op, f, S \ {x}))
<1> DEFINE x == CHOOSE x \in S : TRUE
<1>1. x \in S
  OBVIOUS
<1>2. IsIter(Iter(op, f, S), op, f, S)
  BY IterExists
<1>3. Iter(op, f, S)[S] = Combine(op, f[x], Iter(op, f, S)[S \ {x}])
  BY <1>2 DEF IsIter
<1> DEFINE V == S \ {x}
<1>4. V \in SUBSET S /\ V \in SUBSET V
  OBVIOUS
<1>5. IsIter([s \in SUBSET V |-> Iter(op, f, S)[s]], op, f, V)
  <2> DEFINE it == Iter(op, f, S)
  <2> HIDE DEF V, it
  <2>1. IsIter([s \in SUBSET V |-> it[s]], op, f, V)
    BY <1>2, <1>4, IterRestricts DEF it
  <2> QED BY <2>1 DEF it
<1>6. IsFiniteSet(V)
  BY FS_Subset, <1>4
<1>7. IsIter(Iter(op, f, V), op, f, V)
  BY IterExists, <1>6
<1>8. [s \in SUBSET V |-> Iter(op, f, S)[s]] = Iter(op, f, V)
  <2> HIDE DEF V
  <2> QED BY <1>5, <1>6, <1>7, IterUnique
<1>9. Iter(op, f, S)[V] = FoldOver(op, f, V)
  <2> HIDE DEF V
  <2> QED BY <1>4, <1>8 DEF FoldOver
<1> QED BY <1>1, <1>3, <1>9 DEF FoldOver

SumOver(f, S) == FoldOver("sum", f, S)

ProductOver(f, S) == FoldOver("product", f, S)

LEMMA SumEmpty == ASSUME NEW f PROVE SumOver(f, {}) = 0
  BY FoldEmpty DEF SumOver, Neutral

LEMMA SumStep ==
    ASSUME NEW S, IsFiniteSet(S), S # {}, NEW f
    PROVE  \E x \in S : SumOver(f, S) = f[x] + SumOver(f, S \ {x})
<1>1. PICK x \in S :
         FoldOver("sum", f, S) = Combine("sum", f[x], FoldOver("sum", f, S \ {x}))
  BY FoldStep
<1> QED BY <1>1 DEF SumOver, Combine

LEMMA SumNat ==
    ASSUME NEW S, IsFiniteSet(S), NEW f, \A x \in S : f[x] \in Nat
    PROVE  SumOver(f, S) \in Nat
<1> DEFINE Q == {s \in SUBSET S : SumOver(f, s) \notin Nat}
<1>1. SUFFICES ASSUME Q # {} PROVE FALSE
  OBVIOUS
<1>2. PICK T \in Q : \A U \in Q : U \subseteq T => U = T
  <2>1. Q \subseteq SUBSET S
    OBVIOUS
  <2> HIDE DEF Q
  <2> QED BY <1>1, <2>1, MinimalSubset
<1>3. T # {}
  BY SumEmpty
<1>4. IsFiniteSet(T)
  BY FS_Subset
<1>5. PICK x \in T : SumOver(f, T) = f[x] + SumOver(f, T \ {x})
  BY <1>3, <1>4, SumStep
<1>6. T \ {x} \in SUBSET S /\ T \ {x} # T /\ T \ {x} \subseteq T
  OBVIOUS
<1>7. SumOver(f, T \ {x}) \in Nat
  BY <1>2, <1>6
<1>8. f[x] \in Nat
  OBVIOUS
<1> QED BY <1>5, <1>7, <1>8

\* Any element may be taken out of a sum.
LEMMA SumRemove ==
    ASSUME NEW S, IsFiniteSet(S), NEW f, \A x \in S : f[x] \in Nat, NEW z \in S
    PROVE  SumOver(f, S) = f[z] + SumOver(f, S \ {z})
<1> DEFINE Q == {s \in SUBSET S : \E x \in s : SumOver(f, s) # f[x] + SumOver(f, s \ {x})}
<1>1. SUFFICES ASSUME Q # {} PROVE FALSE
  OBVIOUS
<1>2. PICK T \in Q : \A U \in Q : U \subseteq T => U = T
  <2>1. Q \subseteq SUBSET S
    OBVIOUS
  <2> HIDE DEF Q
  <2> QED BY <1>1, <2>1, MinimalSubset
<1>3. PICK x \in T : SumOver(f, T) # f[x] + SumOver(f, T \ {x})
  OBVIOUS
<1>4. IsFiniteSet(T) /\ T \in SUBSET S
  BY FS_Subset
<1>5. PICK y \in T : SumOver(f, T) = f[y] + SumOver(f, T \ {y})
  BY <1>4, SumStep
<1>6. x # y
  BY <1>3, <1>5
<1>7. ASSUME NEW u \in T, NEW v \in T \ {u}
      PROVE  SumOver(f, T \ {u}) = f[v] + SumOver(f, (T \ {u}) \ {v})
  <2>2. T \ {u} \in SUBSET S /\ T \ {u} # T /\ T \ {u} \subseteq T
    OBVIOUS
  <2>3. T \ {u} \notin Q
    BY <1>2, <2>2
  <2> QED BY <2>2, <2>3
<1>8. SumOver(f, T \ {y}) = f[x] + SumOver(f, (T \ {y}) \ {x})
  BY <1>6, <1>7
<1>9. SumOver(f, T \ {x}) = f[y] + SumOver(f, (T \ {x}) \ {y})
  BY <1>6, <1>7
<1>10. (T \ {y}) \ {x} = (T \ {x}) \ {y}
  OBVIOUS
<1>11. f[x] \in Nat /\ f[y] \in Nat
  BY <1>4
<1>12. SumOver(f, (T \ {x}) \ {y}) \in Nat
  <2>1. (T \ {x}) \ {y} \in SUBSET S
    BY <1>4
  <2>2. IsFiniteSet((T \ {x}) \ {y})
    BY <2>1, FS_Subset
  <2> QED BY <2>1, <2>2, SumNat
<1> HIDE DEF Q
<1> QED BY <1>3, <1>5, <1>8, <1>9, <1>10, <1>11, <1>12

\* A sum is at most one over more elements, or of greater summands.
LEMMA SumWithin ==
    ASSUME NEW S, IsFiniteSet(S), NEW f, \A x \in S : f[x] \in Nat,
           NEW U, IsFiniteSet(U), NEW g, \A x \in U : g[x] \in Nat,
           \A x \in S : f[x] > 0 => (x \in U /\ f[x] <= g[x])
    PROVE  SumOver(f, S) <= SumOver(g, U)
<1> DEFINE Q == {s \in SUBSET S : \E w \in SUBSET U :
                    (\A x \in s : f[x] > 0 => x \in w) /\ ~(SumOver(f, s) <= SumOver(g, w))}
<1>1. SUFFICES ASSUME Q # {} PROVE FALSE
  <2>1. S \in SUBSET S /\ U \in SUBSET U
    OBVIOUS
  <2>2. S \notin Q
    BY <1>1
  <2> QED BY <2>1, <2>2
<1>2. PICK T \in Q : \A V \in Q : V \subseteq T => V = T
  <2>1. Q \subseteq SUBSET S
    OBVIOUS
  <2> HIDE DEF Q
  <2> QED BY <1>1, <2>1, MinimalSubset
<1>3. PICK w \in SUBSET U :
          (\A x \in T : f[x] > 0 => x \in w) /\ ~(SumOver(f, T) <= SumOver(g, w))
  OBVIOUS
<1>4. IsFiniteSet(T) /\ T \in SUBSET S
  BY FS_Subset
<1>5. IsFiniteSet(w) /\ \A x \in w : g[x] \in Nat
  BY FS_Subset
<1>6. SumOver(g, w) \in Nat
  BY <1>5, SumNat
<1>7. T # {}
  BY <1>3, <1>6, SumEmpty
<1>8. PICK x \in T : SumOver(f, T) = f[x] + SumOver(f, T \ {x})
  BY <1>4, <1>7, SumStep
<1>9. T \ {x} \in SUBSET S /\ T \ {x} # T /\ T \ {x} \subseteq T
  BY <1>4
<1>10. \A v \in SUBSET U : (\A y \in T \ {x} : f[y] > 0 => y \in v)
            => SumOver(f, T \ {x}) <= SumOver(g, v)
  BY <1>2, <1>9
<1>11. SumOver(f, T \ {x}) \in Nat
  <2>1. IsFiniteSet(T \ {x})
    BY <1>9, FS_Subset
  <2> QED BY <1>9, <2>1, SumNat
<1>12. f[x] \in Nat
  BY <1>4
<1>13. CASE f[x] = 0
  <2>1. SumOver(f, T \ {x}) <= SumOver(g, w)
    BY <1>3, <1>10
  <2> HIDE DEF Q
  <2> QED BY <1>3, <1>8, <1>11, <1>13, <2>1
<1>14. CASE f[x] > 0
  <2>1. x \in w
    BY <1>3, <1>14
  <2>2. SumOver(g, w) = g[x] + SumOver(g, w \ {x})
    BY <1>5, <2>1, SumRemove
  <2>3. \A y \in T \ {x} : f[y] > 0 => y \in w \ {x}
    BY <1>3
  <2>4. w \ {x} \in SUBSET U
    OBVIOUS
  <2>5. SumOver(f, T \ {x}) <= SumOver(g, w \ {x})
    BY <1>10, <2>3, <2>4
  <2>6. f[x] <= g[x] /\ g[x] \in Nat
    BY <1>4, <1>14, <2>1
  <2>7. SumOver(g, w \ {x}) \in Nat
    <3>1. IsFiniteSet(w \ {x}) /\ \A y \in w \ {x} : g[y] \in Nat
      BY <1>5, FS_Subset
    <3> QED BY <3>1, SumNat
  <2> HIDE DEF Q
  <2> QED BY <1>3, <1>8, <1>11, <1>12, <2>2, <2>5, <2>6, <2>7
<1> HIDE DEF Q
<1> QED BY <1>12, <1>13, <1>14

\* A sum of sums.
LEMMA SumPlus ==
    ASSUME NEW S, IsFiniteSet(S), NEW f, NEW g, NEW e,
           \A x \in S : f[x] \in Nat /\ g[x] \in Nat /\ e[x] = f[x] + g[x]
    PROVE  SumOver(e, S) = SumOver(f, S) + SumOver(g, S)
<1> DEFINE Q == {s \in SUBSET S : SumOver(e, s) # SumOver(f, s) + SumOver(g, s)}
<1>1. SUFFICES ASSUME Q # {} PROVE FALSE
  <2>1. S \notin Q
    BY <1>1
  <2> QED BY <2>1
<1>2. PICK T \in Q : \A V \in Q : V \subseteq T => V = T
  <2>1. Q \subseteq SUBSET S
    OBVIOUS
  <2> HIDE DEF Q
  <2> QED BY <1>1, <2>1, MinimalSubset
<1>3. SumOver(e, T) # SumOver(f, T) + SumOver(g, T) /\ T \in SUBSET S
  OBVIOUS
<1>4. IsFiniteSet(T)
  BY FS_Subset
<1>5. T # {}
  BY <1>3, SumEmpty
<1>6. PICK x \in T : TRUE
  BY <1>5
<1> DEFINE V == T \ {x}
<1>7. V \in SUBSET S /\ V # T /\ V \subseteq T
  BY <1>3
<1>8. SumOver(e, V) = SumOver(f, V) + SumOver(g, V)
  BY <1>2, <1>7
<1>e. \A y \in S : e[y] \in Nat
  OBVIOUS
<1>9. /\ SumOver(e, T) = e[x] + SumOver(e, V)
      /\ SumOver(f, T) = f[x] + SumOver(f, V)
      /\ SumOver(g, T) = g[x] + SumOver(g, V)
  BY <1>3, <1>4, <1>e, SumRemove
<1>10. SumOver(f, V) \in Nat /\ SumOver(g, V) \in Nat
  <2>1. IsFiniteSet(V) /\ (\A y \in V : f[y] \in Nat /\ g[y] \in Nat)
    BY <1>3, <1>4, FS_Subset
  <2> HIDE DEF V
  <2> QED BY <2>1, SumNat
<1>11. f[x] \in Nat /\ g[x] \in Nat /\ e[x] = f[x] + g[x]
  BY <1>3
<1> HIDE DEF V, Q
<1> QED BY <1>3, <1>8, <1>9, <1>10, <1>11

LEMMA SumAdd ==
    ASSUME NEW S, IsFiniteSet(S), NEW f, NEW g, NEW e,
           \A x \in S : f[x] \in Nat /\ g[x] \in Nat /\ e[x] \in Nat,
           \A x \in S : e[x] <= f[x] + g[x]
    PROVE  SumOver(e, S) <= SumOver(f, S) + SumOver(g, S)
<1> DEFINE p == [x \in S |-> f[x] + g[x]]
<1>1. \A x \in S : p[x] \in Nat /\ p[x] = f[x] + g[x] /\ e[x] <= p[x]
  OBVIOUS
<1> HIDE DEF p
<1>2. SumOver(p, S) = SumOver(f, S) + SumOver(g, S)
  BY <1>1, SumPlus
<1>3. SumOver(e, S) <= SumOver(p, S)
  BY <1>1, SumWithin
<1> QED BY <1>2, <1>3

LEMMA SumZero ==
    ASSUME NEW S, IsFiniteSet(S), NEW f, \A x \in S : f[x] = 0
    PROVE  SumOver(f, S) = 0
<1>1. SumOver(f, S) \in Nat
  BY SumNat
<1>2. SumOver(f, S) <= SumOver(f, {})
  BY FS_EmptySet, SumWithin
<1> QED BY <1>1, <1>2, SumEmpty

LEMMA SumConstant ==
    ASSUME NEW n \in Nat, NEW c \in Nat, NEW f, \A x \in 0 .. n - 1 : f[x] = c
    PROVE  SumOver(f, 0 .. n - 1) = n * c
<1> DEFINE Q == {k \in 0 .. n : SumOver(f, 0 .. k - 1) # k * c}
<1>1. SUFFICES ASSUME Q # {} PROVE FALSE
  <2>1. n \notin Q
    BY <1>1
  <2> QED BY <2>1
<1>2. PICK k \in Q : \A m \in Q : k <= m
  <2>1. Q \subseteq Nat
    OBVIOUS
  <2> HIDE DEF Q
  <2> QED BY <1>1, <2>1, MinimalNat
<1>3. k \in 0 .. n /\ SumOver(f, 0 .. k - 1) # k * c
  OBVIOUS
<1>4. CASE k = 0
  <2>1. 0 .. k - 1 = {} /\ k * c = 0
    BY <1>4
  <2> QED BY <1>3, <2>1, SumEmpty
<1>5. CASE k > 0
  <2>1. k - 1 \in 0 .. n /\ k - 1 < k /\ k - 1 \in 0 .. k - 1
    BY <1>3, <1>5
  <2>2. SumOver(f, 0 .. (k - 1) - 1) = (k - 1) * c
    <3>1. k - 1 \notin Q
      <4> HIDE DEF Q
      <4> QED BY <1>2, <1>3, <2>1
    <3> QED BY <2>1, <3>1
  <2>3. (0 .. k - 1) \ {k - 1} = 0 .. (k - 1) - 1
    BY <1>3, <1>5
  <2>4. IsFiniteSet(0 .. k - 1) /\ \A x \in 0 .. k - 1 : f[x] = c
    <3>1. \A x \in 0 .. k - 1 : x \in 0 .. n - 1
      BY <1>3
    <3>2. 0 \in Int /\ k - 1 \in Int
      BY <1>3
    <3> QED BY <3>1, <3>2, FS_Interval
  <2>5. SumOver(f, 0 .. k - 1) = f[k - 1] + SumOver(f, (0 .. k - 1) \ {k - 1})
    <3>1. \A x \in 0 .. k - 1 : f[x] \in Nat
      BY <2>4
    <3> HIDE DEF Q
    <3> QED BY <2>1, <2>4, <3>1, SumRemove
  <2>6. SumOver(f, 0 .. k - 1) = c + (k - 1) * c
    BY <2>1, <2>2, <2>3, <2>4, <2>5
  <2>7. c + (k - 1) * c = k * c
    BY <1>3
  <2> QED BY <1>3, <2>6, <2>7
<1> QED BY <1>3, <1>4, <1>5

\* The sum of a function's values, as MapThenSumSet folds them.
LEMMA MapIsSum ==
    ASSUME NEW S, IsFiniteSet(S), NEW f
    PROVE  MapThenSumSet(LAMBDA x : f[x], S) = SumOver(f, S)
<1>1. \A it : it = [s \in SUBSET S |->
                      IF s = {} THEN 0
                      ELSE LET x == CHOOSE x \in s : TRUE IN f[x] + it[s \ {x}]]
              <=> IsIter(it, "sum", f, S)
  BY DEF IsIter, Combine, Neutral
<1> QED BY <1>1, IterExists, IterUnique
     DEF MapThenSumSet, MapThenFoldSet, SumOver, FoldOver

LEMMA SumSame ==
    ASSUME NEW S, IsFiniteSet(S), NEW f, NEW g, \A x \in S : f[x] \in Nat /\ g[x] = f[x]
    PROVE  SumOver(g, S) = SumOver(f, S)
<1>1. \A x \in S : g[x] \in Nat /\ f[x] <= g[x] /\ g[x] <= f[x]
  OBVIOUS
<1>2. SumOver(f, S) <= SumOver(g, S) /\ SumOver(g, S) <= SumOver(f, S)
  BY <1>1, SumWithin
<1>3. SumOver(f, S) \in Nat /\ SumOver(g, S) \in Nat
  BY <1>1, SumNat
<1> QED BY <1>2, <1>3

\* One summand is one more.
LEMMA SumBump ==
    ASSUME NEW S, IsFiniteSet(S), NEW f, NEW g, \A x \in S : f[x] \in Nat, NEW z \in S,
           g[z] = f[z] + 1, \A x \in S : x # z => g[x] = f[x]
    PROVE  SumOver(g, S) = SumOver(f, S) + 1
<1>1. IsFiniteSet(S \ {z}) /\ \A x \in S : g[x] \in Nat
  BY FS_Subset
<1>2. SumOver(g, S \ {z}) = SumOver(f, S \ {z})
  BY <1>1, SumSame
<1>3. SumOver(f, S \ {z}) \in Nat
  BY <1>1, SumNat
<1>4. SumOver(f, S) = f[z] + SumOver(f, S \ {z}) /\ SumOver(g, S) = g[z] + SumOver(g, S \ {z})
  BY <1>1, SumRemove
<1> QED BY <1>2, <1>3, <1>4

LEMMA SumStrict ==
    ASSUME NEW S, IsFiniteSet(S), NEW f, NEW g, \A x \in S : f[x] \in Nat /\ g[x] \in Nat,
           \A x \in S : f[x] <= g[x], NEW z \in S, f[z] < g[z]
    PROVE  SumOver(f, S) < SumOver(g, S)
<1>1. IsFiniteSet(S \ {z})
  BY FS_Subset
<1>2. SumOver(f, S \ {z}) <= SumOver(g, S \ {z})
  BY <1>1, SumWithin
<1>3. SumOver(f, S \ {z}) \in Nat /\ SumOver(g, S \ {z}) \in Nat
  BY <1>1, SumNat
<1>4. SumOver(f, S) = f[z] + SumOver(f, S \ {z}) /\ SumOver(g, S) = g[z] + SumOver(g, S \ {z})
  BY SumRemove
<1>5. f[z] \in Nat /\ g[z] \in Nat
  OBVIOUS
<1> QED BY <1>2, <1>3, <1>4, <1>5

\* A common factor may be taken out of a sum.
LEMMA SumTimes ==
    ASSUME NEW S, IsFiniteSet(S), NEW c \in Nat, NEW f, NEW g,
           \A x \in S : f[x] \in Nat /\ g[x] = c * f[x]
    PROVE  SumOver(g, S) = c * SumOver(f, S)
<1> DEFINE Q == {s \in SUBSET S : SumOver(g, s) # c * SumOver(f, s)}
<1>1. SUFFICES ASSUME Q # {} PROVE FALSE
  <2>1. S \notin Q
    BY <1>1
  <2> QED BY <2>1
<1>2. PICK T \in Q : \A U \in Q : U \subseteq T => U = T
  <2>1. Q \subseteq SUBSET S
    OBVIOUS
  <2> HIDE DEF Q
  <2> QED BY <1>1, <2>1, MinimalSubset
<1>3. T \in SUBSET S /\ SumOver(g, T) # c * SumOver(f, T)
  OBVIOUS
<1>4. IsFiniteSet(T)
  BY FS_Subset
<1>5. T # {}
  <2>1. SumOver(f, {}) = 0 /\ SumOver(g, {}) = 0 /\ c * 0 = 0
    BY SumEmpty
  <2> QED BY <1>3, <2>1
<1>6. PICK x \in T : SumOver(f, T) = f[x] + SumOver(f, T \ {x})
  BY <1>4, <1>5, SumStep
<1> DEFINE V == T \ {x}
<1>7. V \in SUBSET S /\ V # T /\ V \subseteq T
  BY <1>3
<1>8. SumOver(g, V) = c * SumOver(f, V)
  BY <1>2, <1>7
<1>9. \A y \in T : f[y] \in Nat /\ g[y] = c * f[y] /\ g[y] \in Nat
  BY <1>3
<1>10. SumOver(g, T) = g[x] + SumOver(g, V)
  BY <1>4, <1>9, SumRemove
<1>11. SumOver(f, V) \in Nat
  <2>1. IsFiniteSet(V) /\ \A y \in V : f[y] \in Nat
    BY <1>4, <1>9, FS_Subset
  <2> HIDE DEF V
  <2> QED BY <2>1, SumNat
<1>12. f[x] \in Nat /\ g[x] = c * f[x] /\ SumOver(f, T) = f[x] + SumOver(f, V)
  BY <1>6, <1>9
<1> HIDE DEF V, Q
<1>13. c * (f[x] + SumOver(f, V)) = c * f[x] + c * SumOver(f, V)
  BY <1>11, <1>12
<1> QED BY <1>3, <1>8, <1>10, <1>12, <1>13

-----------------------------------------------------------------------------
(* Products *)

LEMMA ProductStep ==
    ASSUME NEW S, IsFiniteSet(S), S # {}, NEW f
    PROVE  \E x \in S : ProductOver(f, S) = f[x] * ProductOver(f, S \ {x})
<1>1. PICK x \in S :
         FoldOver("product", f, S) = Combine("product", f[x], FoldOver("product", f, S \ {x}))
  BY FoldStep
<1> QED BY <1>1 DEF ProductOver, Combine

\* A product is a multiple of each of its factors.
LEMMA ProductFacts ==
    ASSUME NEW S, IsFiniteSet(S), NEW f, \A x \in S : f[x] \in Nat \ {0}
    PROVE  /\ ProductOver(f, S) \in Nat \ {0}
           /\ \A x \in S : \E k \in Nat : ProductOver(f, S) = f[x] * k
<1> DEFINE Q == {s \in SUBSET S : ~ /\ ProductOver(f, s) \in Nat \ {0}
                                    /\ \A x \in s : \E k \in Nat : ProductOver(f, s) = f[x] * k}
<1>1. SUFFICES ASSUME Q # {} PROVE FALSE
  <2>1. S \notin Q
    BY <1>1
  <2> QED BY <2>1
<1>2. PICK T \in Q : \A U \in Q : U \subseteq T => U = T
  <2>1. Q \subseteq SUBSET S
    OBVIOUS
  <2> HIDE DEF Q
  <2> QED BY <1>1, <2>1, MinimalSubset
<1>3. T \in SUBSET S /\ IsFiniteSet(T)
  BY FS_Subset
<1>4. T # {}
  <2>1. ProductOver(f, {}) = 1
    BY FoldEmpty DEF ProductOver, Neutral
  <2>2. ProductOver(f, {}) \in Nat \ {0}
    BY <2>1
  <2>3. {} \notin Q
    BY <2>2
  <2> HIDE DEF Q
  <2> QED BY <1>2, <2>3
<1>5. PICK y \in T : ProductOver(f, T) = f[y] * ProductOver(f, T \ {y})
  BY <1>3, <1>4, ProductStep
<1> DEFINE p == ProductOver(f, T \ {y})
<1>6. p \in Nat \ {0} /\ \A x \in T \ {y} : \E k \in Nat : p = f[x] * k
  <2>1. T \ {y} \in SUBSET S /\ T \ {y} # T /\ T \ {y} \subseteq T
    BY <1>3
  <2>2. T \ {y} \notin Q
    BY <1>2, <2>1
  <2> QED BY <2>1, <2>2
<1>7. \A x \in T : f[x] \in Nat \ {0}
  BY <1>3
<1> HIDE DEF p
<1>8. f[y] * p \in Nat \ {0}
  BY <1>6, <1>7
<1>9. ASSUME NEW x \in T PROVE \E k \in Nat : f[y] * p = f[x] * k
  <2>1. CASE x = y
    BY <1>6, <2>1
  <2>2. CASE x # y
    <3>1. PICK k \in Nat : p = f[x] * k
      BY <1>6, <2>2
    <3> DEFINE u == f[x]
    <3> DEFINE v == f[y]
    <3>2. u \in Nat /\ v \in Nat
      BY <1>7
    <3> HIDE DEF u, v
    <3>3. v * (u * k) = u * (v * k) /\ v * k \in Nat
      BY <3>2
    <3> QED BY <3>1, <3>3 DEF u, v
  <2> QED BY <2>1, <2>2
<1> QED BY <1>2, <1>5, <1>8, <1>9 DEF p

\* Of the natural numbers that have some property, Min is the smallest.
LEMMA MinNat ==
    ASSUME NEW S, S \subseteq Nat, S # {}
    PROVE  Min(S) \in S /\ \A x \in S : Min(S) <= x
<1>1. \E x \in S : \A y \in S : x <= y
  BY MinimalNat
<1> QED BY <1>1 DEF Min

=============================================================================
