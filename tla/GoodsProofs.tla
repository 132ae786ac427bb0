---------------------------- MODULE GoodsProofs ----------------------------
(***************************************************************************)
(* Theorems about Weights as MCTrade runs it, for any piles, bags and      *)
(* weights; and about the server that restarts beside it.  The state       *)
(* between two steps of an operation is described by the things that are   *)
(* out of their places (Fits), and an operation puts them all back.        *)
(***************************************************************************)
EXTENDS MCTrade, FiniteSetTheorems, SequenceTheorems, WellFoundedInduction, TLAPS

-----------------------------------------------------------------------------
(* Counting.                                                               *)

(* Every set of numbers that is not empty has a least one.                 *)
LEMMA LeastNumber ==
  ASSUME NEW T \in SUBSET Nat, T # {}
  PROVE  \E m \in T : \A k \in T : m <= k
<1> DEFINE Less == OpToRel(<, Nat)
<1>1. IsWellFoundedOn(Less, Nat)
  BY NatLessThanWellFounded
<1>2. PICK m \in T : \A k \in T : ~(<<k, m>> \in Less)
  <2> HIDE DEF Less
  <2> QED BY <1>1, WFMin
<1>3. \A k \in T : k < m => <<k, m>> \in Less
  BY DEF OpToRel
<1> HIDE DEF Less
<1>4. \A k \in T : k \in Nat /\ m \in Nat /\ ~(k < m)
  BY <1>2, <1>3
<1> QED BY <1>4

(* A smallest one of a family of finite sets.                              *)
LEMMA SmallestSet ==
  ASSUME NEW F, F # {}, \A S \in F : IsFiniteSet(S)
  PROVE  \E S \in F : \A U \in F : Cardinality(S) <= Cardinality(U)
<1> DEFINE T == {Cardinality(S) : S \in F}
<1>1. T \in SUBSET Nat /\ T # {}
  BY FS_CardinalityType
<1>2. PICK m \in T : \A k \in T : m <= k
  <2> HIDE DEF T
  <2> QED BY <1>1, LeastNumber
<1>3. PICK S \in F : m = Cardinality(S)
  BY <1>2
<1>4. \A U \in F : Cardinality(U) \in T
  OBVIOUS
<1> HIDE DEF T
<1> QED BY <1>2, <1>3, <1>4

(* What is computed in n steps exists, and stays within Z if each step     *)
(* does.                                                                   *)
Iterates(r, a, f, n) == r = [k \in 0..n |-> IF k = 0 THEN a ELSE f[k][r[k - 1]]]

LEMMA IterationExists ==
  ASSUME NEW n \in Nat, NEW a, NEW f
  PROVE  \E r : Iterates(r, a, f, n)
<1> DEFINE T == {m \in Nat : ~\E r : Iterates(r, a, f, m)}
<1>1. SUFFICES ASSUME T # {} PROVE FALSE
  OBVIOUS
<1>2. PICK m \in T : \A k \in T : m <= k
  BY <1>1, LeastNumber
<1>3. CASE m = 0
  <2> DEFINE g == [k \in 0..0 |-> a]
  <2>1. Iterates(g, a, f, 0)
    BY DEF Iterates
  <2> QED BY <1>2, <1>3, <2>1
<1>4. CASE m # 0
  <2>1. m - 1 \in Nat /\ m - 1 \notin T /\ m \in Nat
    BY <1>2, <1>4
  <2>2. PICK r : Iterates(r, a, f, m - 1)
    BY <2>1
  <2> DEFINE g == [k \in 0..m |-> IF k < m THEN r[k] ELSE f[m][r[m - 1]]]
  <2>3. ASSUME NEW k \in 0..m
        PROVE  g[k] = IF k = 0 THEN a ELSE f[k][g[k - 1]]
    <3>1. CASE k < m
      <4>1. k \in 0..(m - 1) /\ g[k] = r[k] /\ (k # 0 => k - 1 \in 0..m /\ k - 1 < m /\ g[k - 1] = r[k - 1])
        BY <2>1, <3>1
      <4> HIDE DEF g
      <4> QED BY <4>1, <2>2 DEF Iterates
    <3>2. CASE k = m
      <4>1. k # 0 /\ m \in 0..m /\ ~(m < m) /\ m - 1 \in 0..m /\ m - 1 < m
        BY <1>4, <2>1, <3>2
      <4>2. g[k] = f[m][r[m - 1]] /\ g[m - 1] = r[m - 1]
        BY <3>2, <4>1
      <4> HIDE DEF g
      <4> QED BY <3>2, <4>1, <4>2
    <3> QED BY <2>1, <3>1, <3>2
  <2>4. g = [k \in 0..m |-> g[k]]
    OBVIOUS
  <2> HIDE DEF g
  <2>5. Iterates(g, a, f, m)
    BY <2>3, <2>4 DEF Iterates
  <2> QED BY <1>2, <2>5
<1> QED BY <1>3, <1>4

LEMMA Stepwise ==
  ASSUME NEW n \in Nat, NEW r, NEW Z, r[0] \in Z[0],
         \A k \in 1..n : r[k - 1] \in Z[k - 1] => r[k] \in Z[k]
  PROVE  \A k \in 0..n : r[k] \in Z[k]
<1> DEFINE T == {k \in 0..n : r[k] \notin Z[k]}
<1>1. SUFFICES ASSUME T # {} PROVE FALSE
  OBVIOUS
<1>2. PICK m \in T : \A k \in T : m <= k
  <2>1. T \in SUBSET Nat
    OBVIOUS
  <2> HIDE DEF T
  <2> QED BY <1>1, <2>1, LeastNumber
<1>3. m # 0
  BY <1>2
<1>4. m \in 1..n /\ m - 1 \in 0..n /\ m - 1 \notin T
  BY <1>2, <1>3
<1> QED BY <1>2, <1>4

LEMMA Repeated ==
  ASSUME NEW n \in Nat, NEW a, NEW f, NEW Z, a \in Z[0],
         \A k \in 1..n : \A z \in Z[k - 1] : f[k][z] \in Z[k]
  PROVE  \E r : Iterates(r, a, f, n) /\ \A k \in 1..n : r[k - 1] \in Z[k - 1]
<1>1. PICK r : Iterates(r, a, f, n)
  BY IterationExists
<1>2. r[0] = a /\ \A k \in 1..n : r[k] = f[k][r[k - 1]]
  BY <1>1 DEF Iterates
<1>3. \A k \in 0..n : r[k] \in Z[k]
  BY <1>2, Stepwise
<1>4. n \in 0..n /\ \A k \in 1..n : k - 1 \in 0..n
  OBVIOUS
<1> QED BY <1>1, <1>3, <1>4

-----------------------------------------------------------------------------
(* Sums of coins.                                                          *)

Coins(amount, S) == G!SumFunctionOnSet(amount, S)

Summed(h, amount, S) ==
  h = [T \in SUBSET S |->
         IF T = {} THEN 0
         ELSE LET x == CHOOSE x \in T : TRUE IN amount[x] + h[T \ {x}]]

LEMMA CoinsSummed ==
  ASSUME NEW amount, NEW S
  PROVE  Coins(amount, S) = (CHOOSE h : Summed(h, amount, S))[S]
BY DEF Coins, Summed, G!SumFunctionOnSet, G!FoldFunctionOnSet, G!MapThenFoldSet

LEMMA SummedAlike ==
  ASSUME NEW amount, NEW S, NEW U, IsFiniteSet(S), NEW h, NEW g,
         Summed(h, amount, S), Summed(g, amount, U)
  PROVE  \A T \in SUBSET (S \cap U) : h[T] = g[T]
<1> DEFINE F == {T \in SUBSET (S \cap U) : h[T] # g[T]}
<1>1. SUFFICES ASSUME F # {} PROVE FALSE
  OBVIOUS
<1>2. \A T \in F : IsFiniteSet(T)
  BY FS_Subset
<1>3. PICK T \in F : \A V \in F : Cardinality(T) <= Cardinality(V)
  <2> HIDE DEF F
  <2> QED BY <1>1, <1>2, SmallestSet
<1>4. T # {}
  BY <1>3 DEF Summed
<1> DEFINE x == CHOOSE x \in T : TRUE
<1>5. x \in T
  BY <1>4
<1>6. h[T] = amount[x] + h[T \ {x}] /\ g[T] = amount[x] + g[T \ {x}]
  BY <1>3, <1>4 DEF Summed
<1> HIDE DEF x
<1>7. h[T \ {x}] = g[T \ {x}]
  <2>1. IsFiniteSet(T) /\ T \ {x} \in SUBSET (S \cap U)
    BY <1>2, <1>3
  <2>2. Cardinality(T \ {x}) = Cardinality(T) - 1 /\ Cardinality(T) \in Nat
    BY <2>1, <1>5, FS_RemoveElement, FS_CardinalityType
  <2>3. ~(Cardinality(T) <= Cardinality(T \ {x}))
    BY <2>2
  <2> QED BY <1>3, <2>1, <2>3
<1> QED BY <1>3, <1>6, <1>7

LEMMA SummedExists ==
  ASSUME NEW amount, NEW S, IsFiniteSet(S)
  PROVE  \E h : Summed(h, amount, S)
<1> DEFINE F == {T \in SUBSET S : ~\E h : Summed(h, amount, T)}
<1>1. SUFFICES ASSUME F # {} PROVE FALSE
  OBVIOUS
<1>2. \A T \in SUBSET S : IsFiniteSet(T)
  BY FS_Subset
<1>3. PICK B \in F : \A V \in F : Cardinality(B) <= Cardinality(V)
  <2> HIDE DEF F
  <2> QED BY <1>1, <1>2, SmallestSet DEF F
<1> DEFINE c(T) == CHOOSE x \in T : TRUE
<1>4. ASSUME NEW T \in SUBSET B, T # B
      PROVE  Coins(amount, T) = IF T = {} THEN 0 ELSE amount[c(T)] + Coins(amount, T \ {c(T)})
  <2>1. ASSUME NEW V \in SUBSET B, V # B
        PROVE  Summed(CHOOSE h : Summed(h, amount, V), amount, V)
    <3>1. IsFiniteSet(B) /\ Cardinality(B) # Cardinality(V)
          /\ Cardinality(V) <= Cardinality(B) /\ Cardinality(V) \in Nat /\ Cardinality(B) \in Nat
      BY <1>2, <2>1, FS_Subset, FS_CardinalityType
    <3>2. V \notin F
      BY <1>3, <3>1
    <3> QED BY <3>2
  <2> DEFINE h == CHOOSE h : Summed(h, amount, T)
             g == CHOOSE k : Summed(k, amount, T \ {c(T)})
  <2>2. Summed(h, amount, T)
    BY <1>4, <2>1
  <2>3. CASE T = {}
    BY <2>2, <2>3, CoinsSummed DEF Summed
  <2>4. CASE T # {}
    <3>1. c(T) \in T
      BY <2>4
    <3> HIDE DEF c
    <3>2. Summed(g, amount, T \ {c(T)})
      <4>1. T \ {c(T)} \in SUBSET B /\ T \ {c(T)} # B
        BY <3>1
      <4> QED BY <2>1, <4>1
    <3>3. h[T \ {c(T)}] = g[T \ {c(T)}]
      <4>1. IsFiniteSet(T)
        BY <1>2
      <4> HIDE DEF h, g
      <4> QED BY <2>2, <3>2, <4>1, SummedAlike
    <3>4. h[T] = amount[c(T)] + h[T \ {c(T)}]
      BY <2>2, <2>4 DEF Summed, c
    <3>5. Coins(amount, T) = h[T]
      BY CoinsSummed
    <3>6. Coins(amount, T \ {c(T)}) = g[T \ {c(T)}]
      BY CoinsSummed
    <3> HIDE DEF h, g, c
    <3> QED BY <2>4, <3>3, <3>4, <3>5, <3>6
  <2> QED BY <2>3, <2>4
<1> DEFINE g == [T \in SUBSET B |-> IF T = {} THEN 0 ELSE amount[c(T)] + Coins(amount, T \ {c(T)})]
<1>5. ASSUME NEW T \in SUBSET B, T # {}
      PROVE  g[T] = amount[c(T)] + g[T \ {c(T)}]
  <2>1. c(T) \in T
    BY <1>5
  <2> HIDE DEF c
  <2>2. T \ {c(T)} \in SUBSET B /\ T \ {c(T)} # B
    BY <2>1
  <2>3. g[T \ {c(T)}] = Coins(amount, T \ {c(T)})
    BY <1>4, <2>2
  <2> QED BY <1>5, <2>3
<1>6. Summed(g, amount, B)
  <2>1. g = [T \in SUBSET B |-> IF T = {} THEN 0 ELSE amount[c(T)] + g[T \ {c(T)}]]
    <3>1. g[{}] = 0
      OBVIOUS
    <3>2. \A T \in SUBSET B : g[T] = IF T = {} THEN 0 ELSE amount[c(T)] + g[T \ {c(T)}]
      <4> HIDE DEF g, c
      <4> QED BY <1>5, <3>1
    <3>3. g = [T \in SUBSET B |-> g[T]]
      OBVIOUS
    <3> HIDE DEF g, c
    <3> QED BY <3>2, <3>3
  <2> HIDE DEF g
  <2> QED BY <2>1 DEF Summed
<1> HIDE DEF g
<1> QED BY <1>3, <1>6

(* The sum counts each of the piles once.                                  *)
LEMMA CoinsAre ==
  ASSUME NEW amount, NEW S, IsFiniteSet(S)
  PROVE  /\ Coins(amount, {}) = 0
         /\ S # {} => LET x == CHOOSE x \in S : TRUE
                      IN  Coins(amount, S) = amount[x] + Coins(amount, S \ {x})
<1>0. ASSUME NEW T, IsFiniteSet(T)
      PROVE  Summed(CHOOSE h : Summed(h, amount, T), amount, T)
  BY <1>0, SummedExists
<1>1. Coins(amount, {}) = 0
  <2>1. Summed(CHOOSE h : Summed(h, amount, {}), amount, {})
    BY <1>0, FS_EmptySet
  <2> QED BY <2>1, CoinsSummed DEF Summed
<1>2. ASSUME S # {}
      PROVE  LET x == CHOOSE x \in S : TRUE IN Coins(amount, S) = amount[x] + Coins(amount, S \ {x})
  <2> DEFINE x == CHOOSE x \in S : TRUE
             h == CHOOSE h : Summed(h, amount, S)
             g == CHOOSE k : Summed(k, amount, S \ {x})
  <2>1. Summed(h, amount, S)
    BY <1>0
  <2>2. h[S] = amount[x] + h[S \ {x}]
    <3> HIDE DEF h
    <3> QED BY <1>2, <2>1 DEF Summed
  <2> HIDE DEF x
  <2>3. Summed(g, amount, S \ {x})
    BY <1>0, FS_RemoveElement
  <2>4. h[S \ {x}] = g[S \ {x}]
    <3> HIDE DEF h, g
    <3>1. S \ {x} \in SUBSET (S \cap (S \ {x}))
      OBVIOUS
    <3> QED BY <2>1, <2>3, <3>1, SummedAlike
  <2>5. Coins(amount, S) = amount[x] + Coins(amount, S \ {x})
    BY <2>2, <2>4, CoinsSummed
  <2> QED BY <2>5 DEF x
<1> QED BY <1>1, <1>2

LEMMA NoCoins == \A amount : Coins(amount, {}) = 0
BY CoinsAre, FS_EmptySet

(* Anything may be counted first.                                          *)
LEMMA SumWithout ==
  ASSUME NEW S, IsFiniteSet(S), NEW amount, \A y \in S : amount[y] \in Nat, NEW x \in S
  PROVE  /\ Coins(amount, S) \in Nat
         /\ Coins(amount, S) = amount[x] + Coins(amount, S \ {x})
<1>0. \A T \in SUBSET S : IsFiniteSet(T)
  BY FS_Subset
<1> DEFINE Right(T) == /\ Coins(amount, T) \in Nat
                       /\ \A y \in T : Coins(amount, T) = amount[y] + Coins(amount, T \ {y})
           F == {T \in SUBSET S : ~Right(T)}
<1>1. SUFFICES ASSUME F # {} PROVE FALSE
  OBVIOUS
<1>2. PICK T \in F : \A V \in F : Cardinality(T) <= Cardinality(V)
  <2>1. \A V \in F : IsFiniteSet(V)
    BY <1>0
  <2> HIDE DEF F
  <2> QED BY <1>1, <2>1, SmallestSet
<1>3. ASSUME NEW y \in T
      PROVE  Right(T \ {y})
  <2>1. Cardinality(T \ {y}) = Cardinality(T) - 1 /\ Cardinality(T) \in Nat
    BY <1>0, FS_RemoveElement, FS_CardinalityType
  <2>2. ~(Cardinality(T) <= Cardinality(T \ {y}))
    BY <2>1
  <2>3. T \ {y} \in SUBSET S
    OBVIOUS
  <2> HIDE DEF Right
  <2> QED BY <1>2, <2>2, <2>3
<1>4. T # {}
  BY <1>2, NoCoins
<1> DEFINE c == CHOOSE y \in T : TRUE
<1>5. c \in T /\ Coins(amount, T) = amount[c] + Coins(amount, T \ {c})
  BY <1>0, <1>4, CoinsAre
<1> HIDE DEF c
<1>6. Coins(amount, T) \in Nat /\ Coins(amount, T \ {c}) \in Nat /\ amount[c] \in Nat
  BY <1>3, <1>5
<1>7. ASSUME NEW y \in T, y # c
      PROVE  Coins(amount, T) = amount[y] + Coins(amount, T \ {y})
  <2>1. /\ y \in T \ {c} /\ c \in T \ {y}
        /\ (T \ {c}) \ {y} = (T \ {y}) \ {c}
    BY <1>5, <1>7
  <2>2. /\ Coins(amount, T \ {c}) = amount[y] + Coins(amount, (T \ {c}) \ {y})
        /\ Coins(amount, T \ {y}) = amount[c] + Coins(amount, (T \ {y}) \ {c})
        /\ Coins(amount, T \ {y}) \in Nat /\ Coins(amount, T \ {c}) \in Nat
    BY <1>3, <1>5, <2>1
  <2>4. amount[y] \in Nat /\ amount[c] \in Nat
    BY <1>5
  <2>5. Coins(amount, (T \ {c}) \ {y}) \in Nat
    <3>1. CASE (T \ {c}) \ {y} = {}
      <4>1. Coins(amount, {}) = 0 /\ 0 \in Nat
        BY NoCoins
      <4> QED BY <3>1, <4>1, Zenon
    <3>2. CASE (T \ {c}) \ {y} # {}
      <4> DEFINE V == (T \ {c}) \ {y}
      <4>1. V \in SUBSET S /\ Cardinality(V) < Cardinality(T)
        <5>1. Cardinality(T \ {c}) = Cardinality(T) - 1 /\ Cardinality(T) \in Nat
              /\ IsFiniteSet(T \ {c})
          BY <1>0, <1>5, FS_RemoveElement, FS_CardinalityType
        <5>2. Cardinality(V) = Cardinality(T \ {c}) - 1
          BY <2>1, <5>1, FS_RemoveElement
        <5> QED BY <5>1, <5>2
      <4>2. Right(V)
        <5>1. Cardinality(V) \in Nat /\ Cardinality(T) \in Nat
          BY <1>0, <4>1, FS_CardinalityType
        <5> HIDE DEF Right, V
        <5> QED BY <1>2, <4>1, <5>1
      <4> QED BY <4>2
    <3> QED BY <3>1, <3>2
  <2> QED BY <1>5, <2>1, <2>2, <2>4, <2>5
<1> QED BY <1>2, <1>5, <1>6, <1>7

LEMMA SumAlike ==
  ASSUME NEW S, IsFiniteSet(S), NEW amount, NEW other, \A x \in S : amount[x] \in Nat /\ amount[x] = other[x]
  PROVE  Coins(amount, S) = Coins(other, S)
<1>0. \A T \in SUBSET S : IsFiniteSet(T)
  BY FS_Subset
<1> DEFINE F == {T \in SUBSET S : Coins(amount, T) # Coins(other, T)}
<1>1. SUFFICES ASSUME F # {} PROVE FALSE
  OBVIOUS
<1>2. PICK T \in F : \A V \in F : Cardinality(T) <= Cardinality(V)
  <2>1. \A V \in F : IsFiniteSet(V)
    BY <1>0
  <2> HIDE DEF F
  <2> QED BY <1>1, <2>1, SmallestSet
<1>3. T # {}
  BY <1>2, NoCoins
<1>4. PICK y \in T : TRUE
  BY <1>3
<1>5. /\ Coins(amount, T) = amount[y] + Coins(amount, T \ {y})
      /\ Coins(other, T) = other[y] + Coins(other, T \ {y})
      /\ amount[y] = other[y]
  BY <1>0, SumWithout
<1>6. Cardinality(T \ {y}) = Cardinality(T) - 1 /\ Cardinality(T) \in Nat
  BY <1>0, FS_RemoveElement, FS_CardinalityType
<1>7. ~(Cardinality(T) <= Cardinality(T \ {y})) /\ T \ {y} \in SUBSET S
  BY <1>6
<1> QED BY <1>2, <1>5, <1>7

LEMMA SumJoined ==
  ASSUME NEW S, IsFiniteSet(S), NEW amount, \A x \in S : amount[x] \in Nat,
         NEW A \in SUBSET S, NEW B \in SUBSET S, A \cap B = {}
  PROVE  /\ Coins(amount, A) \in Nat /\ Coins(amount, B) \in Nat
         /\ Coins(amount, A \cup B) = Coins(amount, A) + Coins(amount, B)
<1>0. \A T \in SUBSET S : IsFiniteSet(T) /\ Coins(amount, T) \in Nat
  <2> SUFFICES ASSUME NEW T \in SUBSET S PROVE IsFiniteSet(T) /\ Coins(amount, T) \in Nat
    OBVIOUS
  <2>1. IsFiniteSet(T)
    BY FS_Subset
  <2>2. CASE T = {}
    BY <2>1, <2>2, NoCoins
  <2>3. CASE T # {}
    BY <2>1, <2>3, SumWithout
  <2> QED BY <2>1, <2>2, <2>3
<1> DEFINE F == {T \in SUBSET A : Coins(amount, T \cup B) # Coins(amount, T) + Coins(amount, B)}
<1>1. SUFFICES ASSUME F # {} PROVE FALSE
  BY <1>0
<1>2. PICK T \in F : \A V \in F : Cardinality(T) <= Cardinality(V)
  <2>1. \A V \in F : IsFiniteSet(V)
    BY <1>0
  <2> HIDE DEF F
  <2> QED BY <1>1, <2>1, SmallestSet
<1>3. CASE T = {}
  <2>1. T \cup B = B /\ Coins(amount, T) = 0
    BY <1>3, NoCoins
  <2>2. Coins(amount, T \cup B) # Coins(amount, T) + Coins(amount, B)
    BY <1>2
  <2>3. Coins(amount, B) \in Nat
    BY <1>0
  <2> HIDE DEF F
  <2> QED BY <2>1, <2>2, <2>3
<1>4. CASE T # {}
  <2>1. PICK y \in T : TRUE
    BY <1>4
  <2>2. y \notin B /\ (T \cup B) \ {y} = (T \ {y}) \cup B /\ T \in SUBSET S /\ T \cup B \in SUBSET S
        /\ T \ {y} \in SUBSET S /\ (T \ {y}) \cup B \in SUBSET S
    BY <1>2
  <2>3. Coins(amount, T) = amount[y] + Coins(amount, T \ {y})
    BY <1>0, <2>2, SumWithout
  <2>4. Coins(amount, T \cup B) = amount[y] + Coins(amount, (T \ {y}) \cup B)
    <3> DEFINE U == T \cup B
    <3>1. IsFiniteSet(U) /\ y \in U /\ \A z \in U : amount[z] \in Nat
      BY <1>0, <2>2
    <3>2. Coins(amount, U) = amount[y] + Coins(amount, U \ {y})
      <4> HIDE DEF U
      <4> QED BY <3>1, SumWithout
    <3> QED BY <2>2, <3>2
  <2>5. Cardinality(T \ {y}) = Cardinality(T) - 1 /\ Cardinality(T) \in Nat
    BY <1>0, <2>2, FS_RemoveElement, FS_CardinalityType
  <2>6. T \ {y} \notin F
    BY <1>2, <2>5
  <2>7. Coins(amount, (T \ {y}) \cup B) = Coins(amount, T \ {y}) + Coins(amount, B)
    BY <2>6
  <2>8. /\ Coins(amount, T \ {y}) \in Nat /\ Coins(amount, B) \in Nat /\ amount[y] \in Nat
        /\ Coins(amount, T \cup B) # Coins(amount, T) + Coins(amount, B)
    BY <1>0, <1>2, <2>2
  <2> HIDE DEF F
  <2> QED BY <2>3, <2>4, <2>7, <2>8
<1> QED BY <1>3, <1>4

LEMMA CoinsWithout ==
  ASSUME NEW amount \in [Stack -> Nat], NEW S \in SUBSET Stack, NEW x \in S
  PROVE  /\ Coins(amount, S) \in Nat
         /\ Coins(amount, S) = amount[x] + Coins(amount, S \ {x})
<1>1. IsFiniteSet(S) /\ \A y \in S : amount[y] \in Nat
  BY Goods, FS_Subset
<1> QED BY <1>1, SumWithout

LEMMA CoinsAlike ==
  ASSUME NEW amount \in [Stack -> Nat], NEW other \in [Stack -> Nat], NEW S \in SUBSET Stack,
         \A x \in S : amount[x] = other[x]
  PROVE  Coins(amount, S) = Coins(other, S)
<1>1. IsFiniteSet(S) /\ \A y \in S : amount[y] \in Nat /\ amount[y] = other[y]
  BY Goods, FS_Subset
<1> QED BY <1>1, SumAlike

-----------------------------------------------------------------------------
(* What is told apart.                                                     *)

LEMMA AtMostTwo ==
  ASSUME NEW y, NEW z PROVE Cardinality({y, z}) < 3
<1>1. IsFiniteSet({y}) /\ Cardinality({y}) = 1
  BY FS_Singleton
<1>2. Cardinality({y} \cup {z}) = IF z \in {y} THEN 1 ELSE 2
  BY <1>1, FS_AddElement
<1>3. {y} \cup {z} = {y, z}
  OBVIOUS
<1> QED BY <1>2, <1>3

LEMMA Apartness ==
  /\ Body \notin G!Thing \cup G!Box /\ Ground \notin G!Thing \cup G!Box
  /\ Null \notin G!Thing \cup G!Box /\ Body # Ground /\ Body # Null /\ Ground # Null
  /\ G!Worn \cap G!Thing = {} /\ Stack \cap Bag = {} /\ Stack \cap G!Box = {} /\ Pack # Bank
  /\ G!Thing = Stack \cup Bag /\ G!Box = G!Worn \cup Bag /\ Pack \in G!Worn /\ Bank \in G!Worn
<1>1. Body # Ground /\ Body # Null /\ Ground # Null
  <2>1. \A y, z : Cardinality({y, z}) < 3
    BY AtMostTwo
  <2>2. Body = Ground => Cardinality({Body, Ground, Null}) < 3
    <3>1. Body = Ground => {Body, Ground, Null} = {Body, Null}
      OBVIOUS
    <3> QED BY <2>1, <3>1
  <2>3. Body = Null \/ Ground = Null => Cardinality({Body, Ground, Null}) < 3
    <3>1. Body = Null \/ Ground = Null => {Body, Ground, Null} = {Body, Ground}
      OBVIOUS
    <3> QED BY <2>1, <3>1
  <2> QED BY <2>2, <2>3, Goods
<1> QED BY <1>1, Goods DEF G!Thing, G!Box, G!Worn

-----------------------------------------------------------------------------
(* The caches, of which it matters only that they are numbers.             *)

SamePlaces(w, v) ==
  /\ v \in G!World
  /\ v.live = w.live /\ v.worn = w.worn /\ v.cont = w.cont /\ v.hand = w.hand
  /\ v.ground = w.ground /\ v.amount = w.amount /\ v.last = w.last

LEMMA CeilIsNumber ==
  ASSUME NEW k \in Nat PROVE G!Ceil(k) \in Nat
BY Goods DEF G!Ceil

LEMMA WeightIsNumber ==
  ASSUME NEW w \in G!World, NEW x \in Stack \cup G!Box
  PROVE  G!GetWeight(w, x) \in Nat
<1>1. CASE x \in Stack
  <2>1. w.amount[x] \in Nat
    BY <1>1 DEF G!World
  <2>2. (IF w.amount[x] <= 0 THEN 1 ELSE w.amount[x]) \in Nat
    BY <2>1
  <2> QED BY <1>1, <2>2, CeilIsNumber DEF G!GetWeight
<1>2. CASE x \notin Stack
  BY <1>2, Goods DEF G!GetWeight, G!World
<1> QED BY <1>1, <1>2

LEMMA StoredIsLocal ==
  ASSUME NEW w \in G!World, NEW f \in [G!Box \cup {Body} -> Nat]
  PROVE  SamePlaces(w, [w EXCEPT !.stored = f])
BY DEF SamePlaces, G!World

LEMMA AddingIsLocal ==
  ASSUME NEW w \in G!World, NEW b, NEW n \in Nat
  PROVE  SamePlaces(w, G!AddStoredWeight(w, b, n)) /\ SamePlaces(w, G!SubtractStoredWeight(w, b, n))
<1> DEFINE More(over) == [c \in G!Box \cup {Body} |->
                            IF c \in over THEN w.stored[c] + n ELSE w.stored[c]]
           Less(over) == [c \in G!Box \cup {Body} |->
                            IF c \in over THEN IF w.stored[c] < n THEN 0 ELSE w.stored[c] - n
                            ELSE w.stored[c]]
<1>1. \A c \in G!Box \cup {Body} : w.stored[c] \in Nat
  BY DEF G!World
<1>2. \A over : More(over) \in [G!Box \cup {Body} -> Nat] /\ Less(over) \in [G!Box \cup {Body} -> Nat]
  BY <1>1
<1>3. /\ G!AddStoredWeight(w, b, n) = [w EXCEPT !.stored = More(G!Carriers(w, b))]
      /\ G!SubtractStoredWeight(w, b, n) = [w EXCEPT !.stored = Less(G!Carriers(w, b))]
  BY DEF G!AddStoredWeight, G!SubtractStoredWeight, G!Heavier, G!Lighter
<1> HIDE DEF More, Less
<1> QED BY <1>2, <1>3, StoredIsLocal

LEMMA RecalcIsLocal ==
  ASSUME NEW w \in G!World, NEW b \in G!Box
  PROVE  SamePlaces(w, G!Recalc(w, b))
<1> DEFINE q == w.cont[b]
           Sum(h) == h = [k \in 0..Len(q) |-> IF k = 0 THEN 0 ELSE h[k - 1] + G!Counted(w, q[k])]
           Z == [k \in 0..Len(q) |-> Nat]
<1>1. q \in Seq(G!Thing) /\ Len(q) \in Nat /\ \A k \in 1..Len(q) : q[k] \in G!Thing
  BY DEF G!World
<1> HIDE DEF q
<1>2. ASSUME NEW k \in 1..Len(q)
      PROVE  G!Counted(w, q[k]) \in Nat
  BY <1>1, WeightIsNumber, Apartness DEF G!Counted, G!World
<1>3. \E h : Sum(h)
  <2> DEFINE f == [k \in 1..Len(q) |-> [z \in Nat |-> z + G!Counted(w, q[k])]]
  <2>1. PICK r : Iterates(r, 0, f, Len(q))
    BY <1>1, IterationExists
  <2>2. r[0] = 0 /\ \A k \in 1..Len(q) : r[k] = f[k][r[k - 1]]
    <3> HIDE DEF f
    <3> QED BY <1>1, <2>1 DEF Iterates
  <2>3. \A k \in 0..Len(q) : r[k] \in Z[k]
    <3>1. r[0] \in Z[0]
      BY <1>1, <2>2
    <3>2. ASSUME NEW k \in 1..Len(q), r[k - 1] \in Z[k - 1]
          PROVE  r[k] \in Z[k]
      <4>1. k \in 0..Len(q) /\ k - 1 \in 0..Len(q)
        BY <1>1
      <4>2. f[k][r[k - 1]] = r[k - 1] + G!Counted(w, q[k])
        BY <3>2, <4>1
      <4> HIDE DEF f
      <4> QED BY <1>2, <2>2, <3>2, <4>1, <4>2
    <3> HIDE DEF Z, f
    <3> QED BY <1>1, <3>1, <3>2, Stepwise
  <2>4. ASSUME NEW k \in 0..Len(q)
        PROVE  r[k] = IF k = 0 THEN 0 ELSE r[k - 1] + G!Counted(w, q[k])
    <3>1. CASE k = 0
      BY <2>2, <3>1
    <3>2. CASE k # 0
      <4>1. k \in 1..Len(q) /\ k - 1 \in 0..Len(q)
        BY <1>1, <3>2
      <4>2. r[k - 1] \in Nat
        BY <2>3, <4>1
      <4>3. f[k][r[k - 1]] = r[k - 1] + G!Counted(w, q[k])
        BY <4>1, <4>2
      <4> HIDE DEF f
      <4> QED BY <2>2, <3>2, <4>1, <4>3
    <3> QED BY <3>1, <3>2
  <2>5. r = [k \in 0..Len(q) |-> r[k]]
    BY <2>1 DEF Iterates
  <2> QED BY <2>4, <2>5
<1> DEFINE h == CHOOSE h : Sum(h)
<1>4. Sum(h)
  <2> HIDE DEF Sum
  <2> QED BY <1>3
<1>5. h[0] = 0 /\ \A k \in 1..Len(q) : h[k] = h[k - 1] + G!Counted(w, q[k])
  <2> HIDE DEF h
  <2> QED BY <1>1, <1>4
<1>6. \A k \in 0..Len(q) : h[k] \in Z[k]
  <2> HIDE DEF h, Sum
  <2>1. h[0] \in Z[0]
    BY <1>1, <1>5
  <2>2. \A k \in 1..Len(q) : h[k - 1] \in Z[k - 1] => h[k] \in Z[k]
    BY <1>1, <1>2, <1>5
  <2> HIDE DEF Z
  <2> QED BY <1>1, <2>1, <2>2, Stepwise
<1>7. G!Recalc(w, b) = [w EXCEPT !.stored[b] = h[Len(q)]]
  BY DEF G!Recalc, q
<1>8. h[Len(q)] \in Nat
  BY <1>1, <1>6
<1> HIDE DEF h
<1> DEFINE anew == [w.stored EXCEPT ![b] = h[Len(q)]]
<1>9. anew \in [G!Box \cup {Body} -> Nat]
  BY <1>8 DEF G!World
<1>10. G!Recalc(w, b) = [w EXCEPT !.stored = anew]
  BY <1>7
<1> HIDE DEF anew
<1>11. SamePlaces(w, [w EXCEPT !.stored = anew])
  BY <1>9, StoredIsLocal
<1> QED BY <1>10, <1>11

-----------------------------------------------------------------------------
(* Where things lie.                                                       *)

Elems(q) == {q[i] : i \in DOMAIN q}
OneOf(q) == \A i, j \in DOMAIN q : q[i] = q[j] => i = j

LEMMA PrependedTo ==
  ASSUME NEW T, NEW q \in Seq(T), NEW x \in T
  PROVE  /\ <<x>> \o q \in Seq(T)
         /\ Elems(<<x>> \o q) = {x} \cup Elems(q)
         /\ OneOf(q) /\ x \notin Elems(q) => OneOf(<<x>> \o q)
<1> DEFINE r == <<x>> \o q
<1>1. /\ r \in Seq(T) /\ Len(r) = Len(q) + 1 /\ Len(q) \in Nat
      /\ r[1] = x /\ \A i \in 1..Len(q) : r[i + 1] = q[i]
  OBVIOUS
<1>2. DOMAIN r = 1..Len(r) /\ DOMAIN q = 1..Len(q)
  BY <1>1
<1> HIDE DEF r
<1>3. \A i \in 1..Len(r) : i # 1 => i - 1 \in 1..Len(q) /\ r[i] = q[i - 1]
  <2> SUFFICES ASSUME NEW i \in 1..Len(r), i # 1
               PROVE  i - 1 \in 1..Len(q) /\ r[i] = q[i - 1]
    OBVIOUS
  <2>1. i - 1 \in 1..Len(q) /\ (i - 1) + 1 = i
    BY <1>1
  <2> QED BY <1>1, <2>1
<1>4. Elems(r) = {x} \cup Elems(q)
  <2>1. ASSUME NEW y \in Elems(q) PROVE y \in Elems(r)
    <3>1. PICK i \in 1..Len(q) : y = q[i]
      BY <1>2 DEF Elems
    <3>2. i + 1 \in 1..Len(r) /\ r[i + 1] = y
      BY <1>1, <3>1
    <3> QED BY <1>2, <3>2 DEF Elems
  <2>2. x \in Elems(r)
    <3>1. 1 \in 1..Len(r)
      BY <1>1
    <3> QED BY <1>1, <1>2, <3>1 DEF Elems
  <2>3. ASSUME NEW y \in Elems(r), y # x PROVE y \in Elems(q)
    <3>1. PICK i \in 1..Len(r) : y = r[i]
      BY <1>2 DEF Elems
    <3>2. i - 1 \in 1..Len(q) /\ y = q[i - 1]
      BY <1>1, <1>3, <2>3, <3>1
    <3> QED BY <1>2, <3>2 DEF Elems
  <2> QED BY <2>1, <2>2, <2>3
<1>5. ASSUME OneOf(q), x \notin Elems(q), NEW i \in DOMAIN r, NEW j \in DOMAIN r, r[i] = r[j]
      PROVE  i = j
  <2>1. i \in 1..Len(r) /\ j \in 1..Len(r)
    BY <1>2
  <2>2. \A k \in 1..Len(q) : q[k] # x
    BY <1>2, <1>5 DEF Elems
  <2>3. i = 1 <=> j = 1
    BY <1>1, <1>3, <1>5, <2>1, <2>2
  <2>4. CASE i # 1 /\ j # 1
    <3>1. i - 1 \in 1..Len(q) /\ j - 1 \in 1..Len(q) /\ q[i - 1] = q[j - 1]
      BY <1>3, <1>5, <2>1, <2>4
    <3>2. i - 1 = j - 1
      BY <1>2, <1>5, <3>1 DEF OneOf
    <3> QED BY <2>1, <3>2
  <2> QED BY <2>3, <2>4
<1> QED BY <1>1, <1>4, <1>5 DEF r, OneOf

LEMMA LeastIsIn ==
  ASSUME NEW T \in SUBSET Nat, T # {}
  PROVE  G!Min(T) \in T
BY LeastNumber DEF G!Min

LEMMA RemovedFrom ==
  ASSUME NEW T, NEW q \in Seq(T), NEW x
  PROVE  /\ G!RemoveFirst(q, x) \in Seq(T) /\ Elems(G!RemoveFirst(q, x)) \subseteq Elems(q)
         /\ OneOf(q) => Elems(G!RemoveFirst(q, x)) = Elems(q) \ {x} /\ OneOf(G!RemoveFirst(q, x))
<1>0. Len(q) \in Nat /\ DOMAIN q = 1..Len(q)
  OBVIOUS
<1>1. CASE ~\E i \in 1..Len(q) : q[i] = x
  BY <1>0, <1>1 DEF G!RemoveFirst, Elems
<1>2. CASE \E i \in 1..Len(q) : q[i] = x
  <2> DEFINE I == {i \in 1..Len(q) : q[i] = x}
             k == G!Min(I)
  <2>1. k \in 1..Len(q) /\ q[k] = x
    <3>1. I \in SUBSET Nat /\ I # {}
      BY <1>2
    <3>2. k \in I
      <4> HIDE DEF I
      <4> QED BY <3>1, LeastIsIn
    <3> HIDE DEF k
    <3> QED BY <3>2
  <2>2. G!RemoveFirst(q, x) = SubSeq(q, 1, k - 1) \o SubSeq(q, k + 1, Len(q))
    BY <1>2 DEF G!RemoveFirst, G!RemoveAt, G!SelectInSeq
  <2> HIDE DEF k
  <2> DEFINE a == SubSeq(q, 1, k - 1)
             c == SubSeq(q, k + 1, Len(q))
             r == a \o c
  <2>3. /\ a \in Seq(T) /\ Len(a) = k - 1 /\ \A i \in 1..(k - 1) : a[i] = q[i]
        /\ c \in Seq(T) /\ Len(c) = Len(q) - k /\ \A i \in 1..(Len(q) - k) : c[i] = q[i + k]
    <3>1. /\ \A i \in 1..(k - 1) : q[i] \in T
          /\ \A i \in (k + 1)..Len(q) : q[i] \in T
          /\ k - 1 \in Int /\ k + 1 \in Int /\ Len(q) \in Int /\ 1 \in Int
      BY <1>0, <2>1
    <3>2. /\ a \in Seq(T) /\ Len(a) = (IF 1 <= k - 1 THEN (k - 1) - 1 + 1 ELSE 0)
          /\ \A i \in 1..((k - 1) - 1 + 1) : a[i] = q[1 + i - 1]
      BY <3>1, SubSeqProperties
    <3>3. /\ c \in Seq(T) /\ Len(c) = (IF k + 1 <= Len(q) THEN Len(q) - (k + 1) + 1 ELSE 0)
          /\ \A i \in 1..(Len(q) - (k + 1) + 1) : c[i] = q[(k + 1) + i - 1]
      BY <3>1, SubSeqProperties
    <3> HIDE DEF a, c
    <3>4. ASSUME NEW i \in 1..(k - 1) PROVE a[i] = q[i]
      <4>1. i \in 1..((k - 1) - 1 + 1) /\ 1 + i - 1 = i
        BY <2>1
      <4> QED BY <3>2, <4>1
    <3>5. ASSUME NEW i \in 1..(Len(q) - k) PROVE c[i] = q[i + k]
      <4>1. i \in 1..(Len(q) - (k + 1) + 1) /\ (k + 1) + i - 1 = i + k
        BY <1>0, <2>1
      <4> QED BY <3>3, <4>1
    <3>6. Len(a) = k - 1
      BY <2>1, <3>2
    <3>7. Len(c) = Len(q) - k
      <4>1. Len(c) = IF k + 1 <= Len(q) THEN Len(q) - (k + 1) + 1 ELSE 0
        BY <3>3
      <4>2. k \in Int /\ Len(q) \in Int /\ k <= Len(q)
        BY <1>0, <2>1
      <4>3. k + 1 <= Len(q) \/ k = Len(q)
        BY <4>2
      <4> QED BY <4>1, <4>2, <4>3
    <3> QED BY <3>2, <3>3, <3>4, <3>5, <3>6, <3>7
  <2> HIDE DEF a, c
  <2>4. r \in Seq(T) /\ Len(r) = Len(q) - 1 /\ DOMAIN r = 1..(Len(q) - 1) /\ r = a \o c
    <3>1. a \o c \in Seq(T) /\ Len(a \o c) = Len(a) + Len(c)
      BY <2>3
    <3>2. Len(a \o c) = Len(q) - 1
      BY <1>0, <2>1, <2>3, <3>1
    <3> QED BY <3>1, <3>2
  <2>5. ASSUME NEW i \in 1..(Len(q) - 1)
        PROVE  r[i] = IF i < k THEN q[i] ELSE q[i + 1]
    <3>1. CASE i < k
      <4>1. i \in 1..(k - 1) /\ (a \o c)[i] = a[i]
        BY <1>0, <2>1, <2>3, <3>1
      <4> QED BY <2>3, <2>4, <3>1, <4>1
    <3>2. CASE ~(i < k)
      <4>1. i - (k - 1) \in 1..(Len(q) - k) /\ (i - (k - 1)) + k = i + 1
        BY <1>0, <2>1, <3>2
      <4>2. (a \o c)[i] = c[i - (k - 1)]
        BY <1>0, <2>1, <2>3, <3>2
      <4> QED BY <2>3, <2>4, <3>2, <4>1, <4>2
    <3> QED BY <3>1, <3>2
  <2> HIDE DEF r
  <2>6. ASSUME OneOf(q)
        PROVE  Elems(r) = Elems(q) \ {x} /\ OneOf(r)
    <3>1. ASSUME NEW y \in Elems(r) PROVE y \in Elems(q) \ {x}
      <4>1. PICK i \in 1..(Len(q) - 1) : y = r[i]
        BY <2>4 DEF Elems
      <4>2. PICK j \in 1..Len(q) : y = q[j] /\ j # k
        BY <1>0, <2>1, <2>5, <4>1
      <4> QED BY <1>0, <2>1, <2>6, <4>2 DEF Elems, OneOf
    <3>2. ASSUME NEW y \in Elems(q) \ {x} PROVE y \in Elems(r)
      <4>1. PICK j \in 1..Len(q) : y = q[j]
        BY <1>0 DEF Elems
      <4>2. j # k
        BY <2>1, <3>2, <4>1
      <4>3. CASE j < k
        <5>1. j \in 1..(Len(q) - 1) /\ r[j] = y
          BY <1>0, <2>1, <2>5, <4>1, <4>3
        <5> QED BY <2>4, <5>1 DEF Elems
      <4>4. CASE ~(j < k)
        <5>1. j - 1 \in 1..(Len(q) - 1) /\ ~(j - 1 < k) /\ (j - 1) + 1 = j
          BY <1>0, <2>1, <4>1, <4>2, <4>4
        <5>2. r[j - 1] = y
          BY <2>5, <4>1, <5>1
        <5> QED BY <2>4, <5>1, <5>2 DEF Elems
      <4> QED BY <4>3, <4>4
    <3>3. ASSUME NEW i \in 1..(Len(q) - 1), NEW j \in 1..(Len(q) - 1), r[i] = r[j]
          PROVE  i = j
      <4> DEFINE m(n) == IF n < k THEN n ELSE n + 1
      <4>1. m(i) \in 1..Len(q) /\ m(j) \in 1..Len(q) /\ q[m(i)] = q[m(j)]
        BY <1>0, <2>1, <2>5, <3>3
      <4>2. m(i) = m(j)
        <5> HIDE DEF m
        <5> QED BY <1>0, <2>6, <4>1 DEF OneOf
      <4> QED BY <2>1, <4>2
    <3> QED BY <2>4, <3>1, <3>2, <3>3 DEF OneOf
  <2>7. G!RemoveFirst(q, x) = r
    BY <2>2 DEF r, a, c
  <2>8. ASSUME NEW y \in Elems(r) PROVE y \in Elems(q)
    <3>1. PICK i \in 1..(Len(q) - 1) : y = r[i]
      BY <2>4, <2>8 DEF Elems
    <3>2. i \in 1..Len(q) /\ i + 1 \in 1..Len(q)
      BY <1>0
    <3> QED BY <1>0, <2>5, <3>1, <3>2 DEF Elems
  <2> QED BY <2>4, <2>6, <2>7, <2>8
<1> QED BY <1>1, <1>2

Kept(w, b) == Elems(w.cont[b])

(* Nothing lies in two places, or twice in one.                            *)
Apart(w) ==
  /\ \A b \in G!Box : /\ OneOf(w.cont[b])
                       /\ w.hand \notin Kept(w, b) /\ Kept(w, b) \cap w.ground = {}
  /\ \A b, c \in G!Box : b # c => Kept(w, b) \cap Kept(w, c) = {}
  /\ w.hand \notin w.ground

Lying(w) == {x \in G!Thing : x = w.hand \/ x \in w.ground \/ \E b \in G!Box : x \in Kept(w, b)}

LEMMA KeptAreThings ==
  ASSUME NEW w \in G!World, NEW b \in G!Box
  PROVE  w.cont[b] \in Seq(G!Thing) /\ Kept(w, b) \subseteq G!Thing
<1>1. w.cont[b] \in Seq(G!Thing)
  BY DEF G!World
<1> QED BY <1>1 DEF Kept, Elems

LEMMA ContainsIs ==
  ASSUME NEW w \in G!World, NEW b \in G!Box, NEW x
  PROVE  G!Contains(w.cont[b], x) <=> x \in Kept(w, b)
<1>1. DOMAIN w.cont[b] = 1..Len(w.cont[b])
  BY KeptAreThings
<1> QED BY <1>1 DEF G!Contains, Kept, Elems

LEMMA ParentIs ==
  ASSUME NEW w \in G!World, NEW x
  PROVE  /\ G!Parent(w, x) \in G!Box \cup {Body, Null}
         /\ G!Parent(w, x) \in G!Box => x \in Kept(w, G!Parent(w, x))
         /\ x \in G!Thing /\ x = w.hand => G!Parent(w, x) = Body
         /\ x \in G!Thing /\ x # w.hand => G!Parent(w, x) # Body
         /\ x \notin w.worn /\ x # w.hand /\ G!Parent(w, x) = Null =>
               \A b \in G!Box : x \notin Kept(w, b)
         /\ \A b \in G!Box : Apart(w) /\ x \in Kept(w, b) => G!Parent(w, x) = b
<1> DEFINE boxes == {b \in G!Box : G!Contains(w.cont[b], x)}
<1>1. boxes = {b \in G!Box : x \in Kept(w, b)}
  BY ContainsIs
<1>2. G!Parent(w, x) = IF x \in w.worn \/ x = w.hand THEN Body
                       ELSE IF boxes = {} THEN Null ELSE CHOOSE b \in boxes : TRUE
  BY DEF G!Parent
<1> HIDE DEF boxes
<1>3. x \in G!Thing => x \notin w.worn
  BY Apartness DEF G!World
<1>4. \A b \in G!Box : x \in Kept(w, b) => x \in G!Thing
  BY KeptAreThings
<1>5. ASSUME NEW b \in G!Box, Apart(w), x \in Kept(w, b)
      PROVE  G!Parent(w, x) = b
  <2>1. x # w.hand /\ x \notin w.worn
    BY <1>3, <1>4, <1>5 DEF Apart
  <2>2. boxes = {b}
    BY <1>1, <1>5 DEF Apart
  <2> QED BY <1>2, <2>1, <2>2
<1>6. boxes # {} => (CHOOSE b \in boxes : TRUE) \in boxes
  OBVIOUS
<1>7. /\ G!Parent(w, x) \in G!Box \cup {Body, Null}
      /\ G!Parent(w, x) \in G!Box => x \in Kept(w, G!Parent(w, x))
  BY <1>1, <1>2, <1>6, Apartness
<1>8. x \in G!Thing /\ x = w.hand => G!Parent(w, x) = Body
  BY <1>2
<1>9. x \in G!Thing /\ x # w.hand => G!Parent(w, x) # Body
  BY <1>1, <1>2, <1>3, <1>6, Apartness
<1>10. x \notin w.worn /\ x # w.hand /\ G!Parent(w, x) = Null => \A b \in G!Box : x \notin Kept(w, b)
  BY <1>1, <1>2, <1>6, Apartness
<1> QED BY <1>5, <1>7, <1>8, <1>9, <1>10

(* A thing taken out of its place remembers the box it lay in or that it    *)
(* lay on the ground; what was in the hand keeps what it remembered.       *)
LEMMA HideLeaves ==
  ASSUME NEW w \in G!World, NEW x \in G!Thing, NEW v, v = G!Hide(w, x)
  PROVE  /\ v \in G!World /\ v.live = w.live /\ v.amount = w.amount /\ v.worn = w.worn
         /\ v.hand = (IF w.hand = x THEN Null ELSE w.hand) /\ v.ground = w.ground \ {x}
         /\ \A z \in G!Thing : z # x => v.last[z] = w.last[z]
         /\ IF x = w.hand THEN v.last = w.last ELSE v.last[x] \in G!Box \cup {Ground}
         /\ Apart(w) => \A b \in G!Box : /\ Kept(v, b) = Kept(w, b) \ {x} /\ OneOf(v.cont[b])
                                         /\ x \in Kept(w, b) => v.last[x] = b
         /\ \A b \in G!Box : /\ Kept(v, b) \subseteq Kept(w, b)
                             /\ x # w.hand /\ v.last[x] = b => x \in Kept(w, b)
<1> DEFINE p == G!Parent(w, x)
           light == IF p # Null /\ ~G!IsNonCountable(w, x)
                    THEN G!SubtractStoredWeight(w, p, G!GetWeight(w, x)) ELSE w
           last == IF x \in G!Worn \/ x = w.hand THEN w.last
                   ELSE [w.last EXCEPT ![x] = IF p = Null THEN Ground ELSE p]
           hand == IF w.hand = x THEN Null ELSE w.hand
           cont == IF p \in G!Box THEN [w.cont EXCEPT ![p] = G!RemoveFirst(w.cont[p], x)] ELSE w.cont
           out == [light EXCEPT !.last = last, !.hand = hand, !.worn = w.worn \ {x},
                                !.ground = w.ground \ {x}, !.cont = cont]
<1>1. SamePlaces(w, light)
  <2>1. G!GetWeight(w, x) \in Nat
    BY WeightIsNumber, Apartness
  <2>2. SamePlaces(w, w)
    BY DEF SamePlaces
  <2> QED BY <2>1, <2>2, AddingIsLocal
<1>2. v = IF x \in Bag /\ G!InBank(w, x) THEN G!Recalc(out, x) ELSE out
  <2> HIDE DEF p
  <2>1. light = G!Lightened(w, x, p)
    BY DEF G!Lightened
  <2> HIDE DEF light
  <2>2. G!Unlinked(light, x, p) = out
    BY <1>1 DEF G!Unlinked, SamePlaces, G!World
  <2> HIDE DEF out
  <2> QED BY <2>1, <2>2 DEF G!Hide, G!HideFrom, G!RecalcIf, p
<1>3. x \notin G!Worn /\ w.hand \in G!Thing \cup {Null} /\ w.worn \subseteq G!Worn
      /\ w.ground \subseteq G!Thing /\ w.last \in [G!Thing -> G!Box \cup Stack \cup {Ground, Null}]
      /\ w.cont \in [G!Box -> Seq(G!Thing)]
  BY Apartness DEF G!World
<1>4. p \in G!Box \cup {Body, Null} /\ (p = Body <=> x = w.hand)
  BY ParentIs
<1>5. last \in [G!Thing -> G!Box \cup Stack \cup {Ground, Null}]
  <2> HIDE DEF p
  <2> QED BY <1>3, <1>4
<1>6. cont \in [G!Box -> Seq(G!Thing)]
  <2> HIDE DEF p
  <2>1. \A b \in G!Box : G!RemoveFirst(w.cont[b], x) \in Seq(G!Thing)
    BY <1>3, RemovedFrom
  <2> QED BY <1>3, <2>1
<1>7. /\ out \in G!World /\ out.live = w.live /\ out.amount = w.amount
      /\ out.last = last /\ out.hand = hand /\ out.worn = w.worn \ {x}
      /\ out.ground = w.ground \ {x} /\ out.cont = cont
  <2>1. hand \in G!Thing \cup {Null} /\ w.worn \ {x} \in SUBSET G!Worn /\ w.ground \ {x} \in SUBSET G!Thing
    BY <1>3
  <2>2. light \in G!World /\ light.live = w.live /\ light.amount = w.amount
    BY <1>1 DEF SamePlaces
  <2> HIDE DEF light, last, hand, cont
  <2>3. /\ out \in G!World /\ out.live = light.live /\ out.amount = light.amount
        /\ out.last = last /\ out.hand = hand /\ out.worn = w.worn \ {x}
        /\ out.ground = w.ground \ {x} /\ out.cont = cont
    BY <1>5, <1>6, <2>1, <2>2 DEF G!World
  <2> QED BY <2>2, <2>3
<1>8. SamePlaces(out, v)
  <2> HIDE DEF out
  <2>1. SamePlaces(out, out)
    BY <1>7 DEF SamePlaces
  <2>2. x \in Bag => SamePlaces(out, G!Recalc(out, x))
    BY <1>7, RecalcIsLocal, Apartness
  <2> QED BY <1>2, <2>1, <2>2
<1>9. /\ v \in G!World /\ v.live = w.live /\ v.amount = w.amount /\ v.last = last /\ v.hand = hand
      /\ v.worn = w.worn \ {x} /\ v.ground = w.ground \ {x} /\ v.cont = cont
  <2> HIDE DEF out, last, hand, cont
  <2> QED BY <1>7, <1>8 DEF SamePlaces
<1>10. v.worn = w.worn
  BY <1>3, <1>9
<1>11. (\A z \in G!Thing : z # x => v.last[z] = w.last[z])
       /\ IF x = w.hand THEN v.last = w.last
          ELSE v.last[x] = (IF p = Null THEN Ground ELSE p) /\ v.last[x] \in G!Box \cup {Ground}
  <2> HIDE DEF p
  <2> QED BY <1>3, <1>4, <1>9
<1>12. ASSUME Apart(w), NEW b \in G!Box
       PROVE  /\ Kept(v, b) = Kept(w, b) \ {x} /\ OneOf(v.cont[b])
              /\ x \in Kept(w, b) => v.last[x] = b
  <2>1. x \in Kept(w, b) => p = b /\ x # w.hand
    BY <1>12, ParentIs DEF Apart
  <2>2. p \in G!Box => x \in Kept(w, p)
    BY ParentIs
  <2> HIDE DEF p
  <2>3. OneOf(w.cont[b]) /\ w.cont[b] \in Seq(G!Thing)
    BY <1>3, <1>12 DEF Apart
  <2>4. CASE p = b
    <3>1. v.cont[b] = G!RemoveFirst(w.cont[b], x)
      BY <1>3, <1>9, <2>4
    <3>2. Elems(G!RemoveFirst(w.cont[b], x)) = Elems(w.cont[b]) \ {x} /\ OneOf(G!RemoveFirst(w.cont[b], x))
      BY <2>3, RemovedFrom
    <3> QED BY <1>11, <2>1, <2>4, <3>1, <3>2, Apartness DEF Kept
  <2>5. CASE p # b
    <3>1. v.cont[b] = w.cont[b]
      BY <1>3, <1>9, <2>5
    <3> QED BY <2>1, <2>3, <2>5, <3>1 DEF Kept
  <2> QED BY <2>4, <2>5
<1>13. ASSUME NEW b \in G!Box
       PROVE  /\ Kept(v, b) \subseteq Kept(w, b)
              /\ x # w.hand /\ v.last[x] = b => x \in Kept(w, b)
  <2>1. p \in G!Box => x \in Kept(w, p)
    BY ParentIs
  <2> HIDE DEF p
  <2>2. x # w.hand /\ v.last[x] = b => x \in Kept(w, b)
    BY <1>4, <1>11, <2>1, Apartness
  <2>3. v.cont[b] = w.cont[b] \/ v.cont[b] = G!RemoveFirst(w.cont[b], x)
    BY <1>3, <1>9
  <2>4. Elems(G!RemoveFirst(w.cont[b], x)) \subseteq Elems(w.cont[b])
    BY <1>3, RemovedFrom
  <2> QED BY <2>2, <2>3, <2>4 DEF Kept
<1> HIDE DEF p, light, last, cont, out
<1> QED BY <1>9, <1>10, <1>11, <1>12, <1>13

LEMMA HideIs ==
  ASSUME NEW w \in G!World, NEW x \in G!Thing, NEW v, v = G!Hide(w, x)
  PROVE  /\ v \in G!World /\ v.live = w.live /\ v.amount = w.amount /\ v.worn = w.worn
         /\ v.hand = (IF w.hand = x THEN Null ELSE w.hand) /\ v.ground = w.ground \ {x}
         /\ \A z \in G!Thing : z # x => v.last[z] = w.last[z]
         /\ IF x = w.hand THEN v.last = w.last ELSE v.last[x] \in G!Box \cup {Ground}
         /\ Apart(w) => \A b \in G!Box : /\ Kept(v, b) = Kept(w, b) \ {x} /\ OneOf(v.cont[b])
                                         /\ x \in Kept(w, b) => v.last[x] = b
BY HideLeaves

LEMMA HideWornIs ==
  ASSUME NEW w \in G!World, NEW x \in G!Worn, NEW v, v = G!Hide(w, x)
  PROVE  /\ v \in G!World /\ v.live = w.live /\ v.amount = w.amount /\ v.hand = w.hand
         /\ v.ground = w.ground /\ v.cont = w.cont /\ v.last = w.last /\ v.worn = w.worn \ {x}
<1> DEFINE p == G!Parent(w, x)
           light == IF p # Null /\ ~G!IsNonCountable(w, x)
                    THEN G!SubtractStoredWeight(w, p, G!GetWeight(w, x)) ELSE w
           out == [light EXCEPT !.last = w.last, !.hand = w.hand, !.worn = w.worn \ {x},
                                !.ground = w.ground, !.cont = w.cont]
<1>1. SamePlaces(w, light)
  <2>1. G!GetWeight(w, x) \in Nat
    BY WeightIsNumber, Apartness
  <2>2. SamePlaces(w, w)
    BY DEF SamePlaces
  <2> QED BY <2>1, <2>2, AddingIsLocal
<1>2. x \notin G!Thing /\ x # w.hand /\ w.hand # x /\ w.ground \ {x} = w.ground
  BY Apartness DEF G!World
<1>3. p \notin G!Box
  BY <1>2, ParentIs, KeptAreThings
<1>4. x \notin Bag
  BY <1>2, Apartness
<1>5. v = out
  <2> HIDE DEF p
  <2>1. light = G!Lightened(w, x, p)
    BY DEF G!Lightened
  <2> HIDE DEF light
  <2>2. G!Unlinked(light, x, p) = out
    BY <1>1, <1>2, <1>3 DEF G!Unlinked, SamePlaces, G!World
  <2> HIDE DEF out
  <2> QED BY <1>4, <2>1, <2>2 DEF G!Hide, G!HideFrom, G!RecalcIf, p
<1> HIDE DEF light
<1> QED BY <1>1, <1>5 DEF SamePlaces, G!World

(* A thing is put somewhere, and no longer remembers where it was.        *)
PutAway(w, x, v) ==
  /\ v \in G!World /\ v.live = w.live /\ v.amount = w.amount /\ v.hand = w.hand /\ v.worn = w.worn
  /\ v.last[x] = Null /\ \A z \in G!Thing : z # x => v.last[z] = w.last[z]

LEMMA DropAtFeetIs ==
  ASSUME NEW w \in G!World, NEW x \in G!Thing, NEW v, v = G!DropAtFeet(w, x)
  PROVE  PutAway(w, x, v) /\ v.ground = w.ground \cup {x} /\ v.cont = w.cont
BY DEF G!DropAtFeet, G!World, PutAway

LEMMA EquipIs ==
  ASSUME NEW w \in G!World, NEW x \in G!Thing \cup G!Worn, NEW v, v = G!EquipOnMobile(w, x)
  PROVE  /\ v \in G!World /\ v.live = w.live /\ v.amount = w.amount
         /\ v.ground = w.ground /\ v.cont = w.cont /\ v.last = w.last
         /\ x \in G!Worn => v.worn = w.worn \cup {x} /\ v.hand = w.hand
         /\ x \notin G!Worn => v.worn = w.worn /\ v.hand = x
<1> DEFINE u == IF x \in G!Worn THEN [w EXCEPT !.worn = @ \cup {x}] ELSE [w EXCEPT !.hand = x]
<1>1. /\ u \in G!World /\ u.live = w.live /\ u.amount = w.amount
      /\ u.ground = w.ground /\ u.cont = w.cont /\ u.last = w.last
      /\ x \in G!Worn => u.worn = w.worn \cup {x} /\ u.hand = w.hand
      /\ x \notin G!Worn => u.worn = w.worn /\ u.hand = x
  <2>1. CASE x \in G!Worn
    BY <2>1 DEF G!World
  <2>2. CASE x \notin G!Worn
    BY <2>2 DEF G!World
  <2> QED BY <2>1, <2>2
<1>2. v = IF G!IsNonCountable(u, x) THEN u ELSE G!AddStoredWeight(u, Body, G!GetWeight(u, x))
  BY DEF G!EquipOnMobile, G!Weighing
<1> HIDE DEF u
<1>3. G!GetWeight(u, x) \in Nat
  BY <1>1, WeightIsNumber, Apartness
<1>4. v = u \/ SamePlaces(u, v)
  BY <1>1, <1>2, <1>3, AddingIsLocal
<1> QED BY <1>1, <1>4 DEF SamePlaces

LEMMA LinkIs ==
  ASSUME NEW w \in G!World, NEW x \in G!Thing, NEW b \in G!Box, NEW v, v = G!Link(w, x, b)
  PROVE  /\ PutAway(w, x, v) /\ v.ground = w.ground
         /\ v.cont[b] = <<x>> \o w.cont[b] /\ \A d \in G!Box : d # b => v.cont[d] = w.cont[d]
<1> DEFINE u == [w EXCEPT !.cont[b] = <<x>> \o @]
           a == IF x \in Bag /\ G!InBank(u, x) THEN G!Recalc(u, x) ELSE u
           c == IF G!IsNonCountable(a, x) THEN a ELSE G!AddStoredWeight(a, b, G!GetWeight(a, x))
<1>1. /\ u \in G!World /\ u.live = w.live /\ u.amount = w.amount /\ u.hand = w.hand
      /\ u.ground = w.ground /\ u.worn = w.worn /\ u.last = w.last
      /\ u.cont = [w.cont EXCEPT ![b] = <<x>> \o w.cont[b]]
  <2>1. w.cont \in [G!Box -> Seq(G!Thing)]
    BY DEF G!World
  <2>2. <<x>> \o w.cont[b] \in Seq(G!Thing)
    BY <2>1, PrependedTo
  <2>3. [w.cont EXCEPT ![b] = <<x>> \o w.cont[b]] \in [G!Box -> Seq(G!Thing)]
    BY <2>1, <2>2
  <2>4. u = [w EXCEPT !.cont = [w.cont EXCEPT ![b] = <<x>> \o w.cont[b]]]
    BY DEF G!World
  <2> HIDE DEF u
  <2> QED BY <2>3, <2>4 DEF G!World
<1> HIDE DEF u
<1>2. SamePlaces(u, a)
  <2>1. SamePlaces(u, u)
    BY <1>1 DEF SamePlaces
  <2> QED BY <1>1, <2>1, RecalcIsLocal, Apartness
<1>3. a \in G!World /\ G!GetWeight(a, x) \in Nat
  <2>1. a \in G!World
    BY <1>2 DEF SamePlaces
  <2> HIDE DEF a
  <2> QED BY <2>1, WeightIsNumber, Apartness
<1>4. v = [c EXCEPT !.last[x] = Null]
  BY DEF G!Link, G!Banked, G!RecalcIf, G!Weighing, u
<1> HIDE DEF a
<1>5. SamePlaces(a, c)
  <2>1. SamePlaces(a, a)
    BY <1>3 DEF SamePlaces
  <2> QED BY <1>3, <2>1, AddingIsLocal
<1> HIDE DEF c
<1>6. /\ c \in G!World /\ c.live = w.live /\ c.amount = w.amount /\ c.hand = w.hand
      /\ c.ground = w.ground /\ c.worn = w.worn /\ c.last = w.last
      /\ c.cont = [w.cont EXCEPT ![b] = <<x>> \o w.cont[b]]
  BY <1>1, <1>2, <1>5 DEF SamePlaces
<1>7. v \in G!World /\ v.live = c.live /\ v.amount = c.amount /\ v.hand = c.hand /\ v.ground = c.ground
      /\ v.worn = c.worn /\ v.cont = c.cont /\ v.last = [c.last EXCEPT ![x] = Null]
  <2> DEFINE last == [c.last EXCEPT ![x] = Null]
  <2>1. last \in [G!Thing -> G!Box \cup Stack \cup {Ground, Null}]
    BY <1>6 DEF G!World
  <2>2. v = [c EXCEPT !.last = last]
    BY <1>4, <1>6 DEF G!World
  <2> HIDE DEF last
  <2>3. v \in G!World /\ v.live = c.live /\ v.amount = c.amount /\ v.hand = c.hand /\ v.ground = c.ground
        /\ v.worn = c.worn /\ v.cont = c.cont /\ v.last = last
    BY <1>6, <2>1, <2>2 DEF G!World
  <2> QED BY <2>3 DEF last
<1>8. v.last[x] = Null /\ \A z \in G!Thing : z # x => v.last[z] = w.last[z]
  BY <1>6, <1>7 DEF G!World
<1>9. v.cont[b] = <<x>> \o w.cont[b] /\ \A d \in G!Box : d # b => v.cont[d] = w.cont[d]
  BY <1>6, <1>7 DEF G!World
<1>10. PutAway(w, x, v)
  BY <1>6, <1>7, <1>8 DEF PutAway
<1> QED BY <1>6, <1>7, <1>9, <1>10

(* The things of O are out of their places, everything else that lives is  *)
(* in just one.                                                            *)
Sound(w, O) ==
  /\ w \in G!World /\ Apart(w)
  /\ O \subseteq w.live /\ Lying(w) = w.live \ O

LEMMA PlacedIs ==
  ASSUME NEW w \in G!World, NEW x \in G!Thing
  PROVE  G!Placed(w, x) <=> x \in Lying(w)
<1>1. x \notin w.worn
  BY Apartness DEF G!World
<1>2. ASSUME G!Parent(w, x) = Body
      PROVE  x = w.hand
  BY <1>2, ParentIs
<1>3. ASSUME G!Parent(w, x) \in G!Box
      PROVE  x \in Kept(w, G!Parent(w, x))
  BY <1>3, ParentIs
<1>4. G!Parent(w, x) = Null => x # w.hand /\ \A b \in G!Box : x \notin Kept(w, b)
  BY <1>1, ParentIs, Apartness
<1>5. G!Parent(w, x) \in G!Box \cup {Body, Null}
  BY ParentIs
<1> QED BY <1>2, <1>3, <1>4, <1>5, Apartness DEF G!Placed, Lying

LEMMA HidePlaces ==
  ASSUME NEW w, NEW O, Sound(w, O), NEW x \in w.live
  PROVE  Sound(G!Hide(w, x), O \cup {x})
<1>1. w \in G!World /\ x \in G!Thing
  BY DEF Sound, G!World
<1> DEFINE v == G!Hide(w, x)
<1>0. v = G!Hide(w, x)
  OBVIOUS
<1> HIDE DEF v
<1>2. /\ v \in G!World /\ v.live = w.live
      /\ v.hand = (IF w.hand = x THEN Null ELSE w.hand) /\ v.ground = w.ground \ {x}
      /\ \A b \in G!Box : Kept(v, b) = Kept(w, b) \ {x} /\ OneOf(v.cont[b])
  BY <1>0, <1>1, HideIs DEF Sound
<1>3. Null \notin w.ground /\ \A b \in G!Box : Null \notin Kept(w, b)
  BY <1>1, KeptAreThings, Apartness DEF G!World
<1>4. Apart(v)
  <2>1. Apart(w)
    BY DEF Sound
  <2>2. \A b \in G!Box : OneOf(v.cont[b]) /\ v.hand \notin Kept(v, b) /\ Kept(v, b) \cap v.ground = {}
    BY <1>2, <1>3, <2>1 DEF Apart
  <2>3. \A b, c \in G!Box : b # c => Kept(v, b) \cap Kept(v, c) = {}
    BY <1>2, <2>1 DEF Apart
  <2> QED BY <1>2, <1>3, <2>1, <2>2, <2>3 DEF Apart
<1>5. Lying(v) = Lying(w) \ {x}
  BY <1>2, <1>3, Apartness DEF Lying
<1> QED BY <1>2, <1>4, <1>5 DEF Sound, v

LEMMA DropAtFeetPlaces ==
  ASSUME NEW w, NEW O, Sound(w, O), NEW x \in O
  PROVE  Sound(G!DropAtFeet(w, x), O \ {x})
<1>1. w \in G!World /\ x \in G!Thing /\ x \notin Lying(w) /\ x \in w.live
  BY DEF Sound, G!World
<1> DEFINE v == G!DropAtFeet(w, x)
<1>0. v = G!DropAtFeet(w, x)
  OBVIOUS
<1> HIDE DEF v
<1>2. /\ v \in G!World /\ v.live = w.live /\ v.hand = w.hand
      /\ v.ground = w.ground \cup {x} /\ v.cont = w.cont
  BY <1>0, <1>1, DropAtFeetIs DEF PutAway
<1>3. x # w.hand /\ \A b \in G!Box : x \notin Kept(w, b) /\ Kept(v, b) = Kept(w, b)
  BY <1>1, <1>2 DEF Lying, Kept
<1>4. Apart(v)
  BY <1>2, <1>3 DEF Apart, Sound
<1>5. Lying(v) = Lying(w) \cup {x}
  BY <1>1, <1>2, <1>3 DEF Lying
<1> QED BY <1>1, <1>2, <1>4, <1>5 DEF Sound, v

LEMMA LinkPlaces ==
  ASSUME NEW w, NEW O, Sound(w, O), NEW x \in O, NEW b \in G!Box
  PROVE  Sound(G!Link(w, x, b), O \ {x})
<1>1. w \in G!World /\ x \in G!Thing /\ x \notin Lying(w) /\ x \in w.live
  BY DEF Sound, G!World
<1> DEFINE v == G!Link(w, x, b)
<1>0. v = G!Link(w, x, b)
  OBVIOUS
<1> HIDE DEF v
<1>2. /\ v \in G!World /\ v.live = w.live /\ v.hand = w.hand /\ v.ground = w.ground
      /\ v.cont[b] = <<x>> \o w.cont[b] /\ \A d \in G!Box : d # b => v.cont[d] = w.cont[d]
  <2>1. PutAway(w, x, v)
    BY <1>0, <1>1, LinkIs
  <2>2. /\ v.ground = w.ground
        /\ v.cont[b] = <<x>> \o w.cont[b] /\ \A d \in G!Box : d # b => v.cont[d] = w.cont[d]
    BY <1>0, <1>1, LinkIs
  <2> QED BY <2>1, <2>2 DEF PutAway
<1>3. x # w.hand /\ x \notin w.ground /\ \A c \in G!Box : x \notin Kept(w, c)
  BY <1>1 DEF Lying
<1>4. w.cont \in [G!Box -> Seq(G!Thing)]
  BY <1>1 DEF G!World
<1>5. Kept(v, b) = {x} \cup Kept(w, b) /\ OneOf(v.cont[b])
  <2>1. v.cont[b] = <<x>> \o w.cont[b] /\ w.cont[b] \in Seq(G!Thing)
    BY <1>2, <1>4
  <2>2. OneOf(w.cont[b]) /\ x \notin Elems(w.cont[b])
    BY <1>3 DEF Sound, Apart, Kept
  <2> QED BY <1>1, <2>1, <2>2, PrependedTo DEF Kept
<1>6. \A c \in G!Box : c # b => v.cont[c] = w.cont[c] /\ Kept(v, c) = Kept(w, c)
  BY <1>2, <1>4 DEF Kept
<1>7. Apart(v)
  <2>1. Apart(w)
    BY DEF Sound
  <2>2. \A c \in G!Box : OneOf(v.cont[c]) /\ v.hand \notin Kept(v, c) /\ Kept(v, c) \cap v.ground = {}
    BY <1>2, <1>3, <1>5, <1>6, <2>1 DEF Apart
  <2>3. \A c, d \in G!Box : c # d => Kept(v, c) \cap Kept(v, d) = {}
    BY <1>3, <1>5, <1>6, <2>1 DEF Apart
  <2> QED BY <1>2, <2>1, <2>2, <2>3 DEF Apart
<1>8. Lying(v) = Lying(w) \cup {x}
  BY <1>1, <1>2, <1>5, <1>6 DEF Lying
<1> QED BY <1>1, <1>2, <1>7, <1>8 DEF Sound, v

LEMMA EquipPlaces ==
  ASSUME NEW w, NEW O, Sound(w, O), NEW x \in O, w.hand = Null
  PROVE  Sound(G!EquipOnMobile(w, x), O \ {x})
<1>1. w \in G!World /\ x \in G!Thing /\ x \notin Lying(w) /\ x \in w.live /\ x \notin G!Worn
  BY Apartness DEF Sound, G!World
<1> DEFINE v == G!EquipOnMobile(w, x)
<1>0. v = G!EquipOnMobile(w, x)
  OBVIOUS
<1> HIDE DEF v
<1>2. /\ v \in G!World /\ v.live = w.live /\ v.hand = x /\ v.ground = w.ground /\ v.cont = w.cont
  BY <1>0, <1>1, EquipIs
<1>3. x \notin w.ground /\ \A b \in G!Box : x \notin Kept(w, b) /\ Kept(v, b) = Kept(w, b)
  BY <1>1, <1>2 DEF Lying, Kept
<1>4. Apart(v)
  BY <1>2, <1>3 DEF Apart, Sound
<1>5. Lying(v) = Lying(w) \cup {x}
  BY <1>1, <1>2, <1>3, Apartness DEF Lying
<1> QED BY <1>1, <1>2, <1>4, <1>5 DEF Sound, v

-----------------------------------------------------------------------------
(* Merging piles and putting things back.                                  *)

Piles(w) == Stack \cap w.live
Total(w) == Coins(w.amount, Piles(w))

LEMMA WorldFields ==
  ASSUME NEW w \in G!World
  PROVE  /\ w.live \subseteq G!Thing /\ w.worn \subseteq G!Worn /\ w.hand \in G!Thing \cup {Null}
         /\ w.ground \subseteq G!Thing /\ Piles(w) \in SUBSET Stack
         /\ w.amount \in [Stack -> Nat]
         /\ \A x \in G!Thing : w.last[x] \in G!Box \cup Stack \cup {Ground, Null}
         /\ \A x \in Stack : w.amount[x] \in Nat
BY DEF G!World, Piles

(* Nothing but x remembers another place.                                  *)
OthersRemember(w, x, v) == \A z \in G!Thing : z # x => v.last[z] = w.last[z]

LEMMA HideIfPlacedIs ==
  ASSUME NEW w \in G!World, NEW x \in G!Thing, NEW v, v = G!HideIfPlaced(w, x)
  PROVE  /\ v \in G!World /\ v.live = w.live /\ v.amount = w.amount /\ v.worn = w.worn
         /\ v.hand \in {w.hand, Null}
         /\ OthersRemember(w, x, v)
<1>1. CASE G!Placed(w, x)
  <2>1. v = G!Hide(w, x)
    BY <1>1 DEF G!HideIfPlaced
  <2> QED BY <2>1, HideIs DEF OthersRemember
<1>2. CASE ~G!Placed(w, x)
  <2>1. v = w
    BY <1>2 DEF G!HideIfPlaced
  <2> QED BY <2>1 DEF OthersRemember
<1> QED BY <1>1, <1>2

LEMMA HideIfPlacedPlaces ==
  ASSUME NEW w, NEW O, Sound(w, O), NEW x \in w.live, NEW v, v = G!HideIfPlaced(w, x)
  PROVE  /\ Sound(v, O \cup {x})
         /\ x \notin O /\ x # w.hand => v.last[x] \in G!Box \cup {Ground}
<1>0. w \in G!World /\ x \in G!Thing
  BY DEF Sound, G!World
<1>1. CASE G!Placed(w, x)
  <2>1. v = G!Hide(w, x)
    BY <1>1 DEF G!HideIfPlaced
  <2>2. Sound(v, O \cup {x})
    BY <2>1, HidePlaces
  <2>3. x # w.hand => v.last[x] \in G!Box \cup {Ground}
    BY <1>0, <2>1, HideIs
  <2> QED BY <2>2, <2>3
<1>2. CASE ~G!Placed(w, x)
  <2>1. v = w
    BY <1>2 DEF G!HideIfPlaced
  <2>2. x \in O /\ O \cup {x} = O
    BY <1>0, <1>2, PlacedIs DEF Sound
  <2> QED BY <2>1, <2>2
<1> QED BY <1>1, <1>2

LEMMA TakenTogether ==
  ASSUME NEW w \in G!World, NEW x \in Stack, NEW y \in Stack, x # y,
         NEW a, a = G!HideIfPlaced(w, y), NEW out, out = G!HideIfPlaced(a, x)
  PROVE  /\ a \in G!World /\ a.live = w.live /\ a.amount = w.amount /\ a.worn = w.worn
         /\ a.hand \in {w.hand, Null}
         /\ \A z \in G!Thing : z # y => a.last[z] = w.last[z]
         /\ out \in G!World /\ out.live = w.live /\ out.amount = w.amount /\ out.worn = w.worn
         /\ out.hand \in {w.hand, Null}
         /\ \A z \in G!Thing : z # x => out.last[z] = a.last[z]
<1>0. x \in G!Thing /\ y \in G!Thing
  BY Apartness
<1>1. /\ a \in G!World /\ a.live = w.live /\ a.amount = w.amount /\ a.worn = w.worn
      /\ a.hand \in {w.hand, Null} /\ OthersRemember(w, y, a)
  BY <1>0, HideIfPlacedIs
<1>2. a \in G!World
  BY <1>1
<1>3. /\ out \in G!World /\ out.live = a.live /\ out.amount = a.amount /\ out.worn = a.worn
      /\ out.hand \in {a.hand, Null} /\ OthersRemember(a, x, out)
  BY <1>0, <1>2, HideIfPlacedIs
<1> QED BY <1>1, <1>3 DEF OthersRemember

(* The coins of the two.                                                   *)
MergedAmount(w, x, y) == [w.amount EXCEPT ![y] = w.amount[y] + w.amount[x], ![x] = 0]

LEMMA MergedIs ==
  ASSUME NEW w \in G!World, NEW x \in Stack, NEW y \in Stack, x # y,
         NEW a, a = G!HideIfPlaced(w, y), NEW out, out = G!HideIfPlaced(a, x),
         NEW v, v = G!Merged(w, x, y)
  PROVE  /\ v \in G!World /\ v.live = w.live \ {x} /\ v.worn = w.worn /\ v.hand \in {w.hand, Null}
         /\ v.amount = MergedAmount(w, x, y)
         /\ \A z \in G!Thing : z # x /\ z # y => v.last[z] = w.last[z]
         /\ v.last[y] = a.last[y]
         /\ v.hand = out.hand /\ v.ground = out.ground /\ v.cont = out.cont
<1>0. x \in G!Thing /\ y \in G!Thing
  BY Apartness
<1> DEFINE last == [out.last EXCEPT ![x] = Null]
<1>1. /\ a \in G!World /\ a.live = w.live /\ a.amount = w.amount /\ a.worn = w.worn
      /\ a.hand \in {w.hand, Null}
      /\ \A z \in G!Thing : z # y => a.last[z] = w.last[z]
  BY TakenTogether
<1>2. v = [out EXCEPT !.amount = [@ EXCEPT ![y] = w.amount[y] + w.amount[x], ![x] = 0],
                      !.live = @ \ {x}, !.last[x] = Null]
  BY DEF G!Merged
<1>3. /\ out \in G!World /\ out.live = w.live /\ out.amount = w.amount /\ out.worn = w.worn
      /\ out.hand \in {w.hand, Null}
      /\ \A z \in G!Thing : z # x => out.last[z] = a.last[z]
  BY TakenTogether
<1>4. /\ MergedAmount(w, x, y) \in [Stack -> Nat]
      /\ last \in [G!Thing -> G!Box \cup Stack \cup {Ground, Null}]
      /\ out.live \ {x} \subseteq G!Thing
  <2>1. w.amount \in [Stack -> Nat] /\ w.amount[y] + w.amount[x] \in Nat
    BY DEF G!World
  <2>2. out.last \in [G!Thing -> G!Box \cup Stack \cup {Ground, Null}] /\ out.live \subseteq G!Thing
    BY <1>3 DEF G!World
  <2> QED BY <1>0, <2>1, <2>2 DEF MergedAmount
<1>5. v = [out EXCEPT !.amount = MergedAmount(w, x, y), !.live = out.live \ {x}, !.last = last]
  <2>1. [out.amount EXCEPT ![y] = w.amount[y] + w.amount[x], ![x] = 0] = MergedAmount(w, x, y)
    BY <1>3 DEF MergedAmount
  <2> QED BY <1>2, <1>3, <2>1 DEF G!World
<1> HIDE DEF last
<1>6. /\ v \in G!World /\ v.live = w.live \ {x} /\ v.worn = w.worn /\ v.hand = out.hand
      /\ v.amount = MergedAmount(w, x, y) /\ v.last = last
      /\ v.ground = out.ground /\ v.cont = out.cont
  <2> DEFINE amount == MergedAmount(w, x, y)
             live == out.live \ {x}
  <2>1. /\ out \in G!World /\ amount \in [Stack -> Nat] /\ live \in SUBSET G!Thing
        /\ last \in [G!Thing -> G!Box \cup Stack \cup {Ground, Null}]
    BY <1>3, <1>4
  <2>2. v = [out EXCEPT !.amount = amount, !.live = live, !.last = last]
    BY <1>5
  <2>3. live = w.live \ {x} /\ out.worn = w.worn
    BY <1>3
  <2> HIDE DEF amount, live
  <2>4. /\ v \in G!World /\ v.live = live /\ v.worn = out.worn /\ v.hand = out.hand
        /\ v.amount = amount /\ v.last = last /\ v.ground = out.ground /\ v.cont = out.cont
    BY <2>1, <2>2 DEF G!World
  <2> QED BY <2>3, <2>4 DEF amount
<1>7. \A z \in G!Thing : z # x => v.last[z] = out.last[z]
  BY <1>3, <1>6 DEF last, G!World
<1>8. (\A z \in G!Thing : z # x /\ z # y => v.last[z] = w.last[z]) /\ v.last[y] = a.last[y]
  BY <1>0, <1>1, <1>3, <1>7
<1> QED BY <1>3, <1>6, <1>8

LEMMA MergedPlaces ==
  ASSUME NEW w, NEW O, Sound(w, O), NEW x \in Piles(w), NEW y \in Piles(w), x # y,
         NEW v, v = G!Merged(w, x, y)
  PROVE  /\ Sound(v, (O \cup {y}) \ {x})
         /\ y \notin O /\ y # w.hand => v.last[y] \in G!Box \cup {Ground}
<1>0. /\ x \in Stack /\ y \in Stack /\ x \in w.live /\ y \in w.live /\ w \in G!World
      /\ x \in G!Thing /\ y \in G!Thing
  BY Apartness DEF Piles, Sound
<1> DEFINE a == G!HideIfPlaced(w, y)
<1>a. a = G!HideIfPlaced(w, y)
  OBVIOUS
<1> HIDE DEF a
<1> DEFINE out == G!HideIfPlaced(a, x)
<1>b. out = G!HideIfPlaced(a, x)
  OBVIOUS
<1> HIDE DEF out
<1>1. Sound(a, O \cup {y}) /\ (y \notin O /\ y # w.hand => a.last[y] \in G!Box \cup {Ground})
  BY <1>0, <1>a, HideIfPlacedPlaces
<1>2. a.live = w.live
  BY <1>0, <1>a, HideIfPlacedIs
<1>3. Sound(out, (O \cup {y}) \cup {x})
  BY <1>0, <1>1, <1>2, <1>b, HideIfPlacedPlaces
<1>4. out.live = w.live
  BY <1>0, <1>1, <1>2, <1>b, HideIfPlacedIs DEF Sound
<1>5. /\ v \in G!World /\ v.live = w.live \ {x} /\ v.last[y] = a.last[y]
      /\ v.hand = out.hand /\ v.ground = out.ground /\ v.cont = out.cont
  BY <1>0, <1>a, <1>b, MergedIs
<1>6. Lying(v) = Lying(out) /\ (Apart(out) => Apart(v))
  <2>1. \A b \in G!Box : Kept(v, b) = Kept(out, b) /\ v.cont[b] = out.cont[b]
    BY <1>5 DEF Kept
  <2> QED BY <1>5, <2>1 DEF Lying, Apart
<1>7. Sound(v, (O \cup {y}) \ {x})
  BY <1>3, <1>4, <1>5, <1>6 DEF Sound
<1> QED BY <1>1, <1>5, <1>7

LEMMA MergedTotal ==
  ASSUME NEW w \in G!World, NEW x \in Piles(w), NEW y \in Piles(w), x # y, NEW v, v = G!Merged(w, x, y)
  PROVE  Total(v) = Total(w)
<1>1. x \in Stack /\ y \in Stack /\ Piles(w) \in SUBSET Stack /\ w.amount \in [Stack -> Nat]
  BY WorldFields DEF Piles
<1>2. /\ v \in G!World /\ v.live = w.live \ {x} /\ v.amount[y] = w.amount[y] + w.amount[x]
      /\ \A z \in Stack : z # x /\ z # y => v.amount[z] = w.amount[z]
  <2>1. PICK a, out : a = G!HideIfPlaced(w, y) /\ out = G!HideIfPlaced(a, x)
    OBVIOUS
  <2>2. v \in G!World /\ v.live = w.live \ {x} /\ v.amount = MergedAmount(w, x, y)
    BY <1>1, <2>1, MergedIs
  <2> QED BY <1>1, <2>2 DEF MergedAmount
<1>3. v.amount \in [Stack -> Nat]
  BY <1>2, WorldFields
<1> DEFINE P == Piles(w) \ {x}
           Q == P \ {y}
<1>4. Piles(v) = P /\ P \in SUBSET Stack /\ y \in P /\ Q \in SUBSET Stack
  BY <1>1, <1>2 DEF Piles
<1> HIDE DEF P
<1>5. Coins(w.amount, Piles(w)) = w.amount[x] + Coins(w.amount, P)
  BY <1>1, CoinsWithout DEF P
<1>6. Coins(w.amount, P) = w.amount[y] + Coins(w.amount, Q) /\ Coins(w.amount, P) \in Nat
  BY <1>1, <1>4, CoinsWithout
<1>7. Coins(v.amount, P) = v.amount[y] + Coins(v.amount, Q)
  BY <1>3, <1>4, CoinsWithout
<1>8. \A z \in Q : v.amount[z] = w.amount[z]
  BY <1>2, <1>4 DEF P
<1> HIDE DEF Q
<1>9. Coins(v.amount, Q) = Coins(w.amount, Q)
  BY <1>1, <1>3, <1>4, <1>8, CoinsAlike
<1>10. w.amount[x] \in Nat /\ w.amount[y] \in Nat
  BY <1>1
<1>11. Coins(w.amount, Q) \in Int
  <2>1. CASE Q = {}
    BY <2>1, NoCoins
  <2>2. CASE Q # {}
    <3>1. PICK z \in Q : TRUE
      BY <2>2
    <3>2. Coins(w.amount, Q) \in Nat
      BY <1>1, <1>4, <3>1, CoinsWithout
    <3> QED BY <3>2
  <2> QED BY <2>1, <2>2
<1> QED BY <1>2, <1>4, <1>5, <1>6, <1>7, <1>9, <1>10, <1>11 DEF Total

LEMMA PutBackIs ==
  ASSUME NEW w \in G!World, NEW x \in G!Thing, NEW v, v = G!PutBack(w, x)
  PROVE  PutAway(w, x, v)
<1>1. CASE w.last[x] \in G!Worn \cup (Bag \cap w.live)
  <2>1. w.last[x] \in G!Box /\ v = G!Link(w, x, w.last[x])
    BY <1>1, Apartness DEF G!PutBack
  <2> QED BY <2>1, LinkIs
<1>2. CASE ~(w.last[x] \in G!Worn \cup (Bag \cap w.live))
  <2>1. v = G!DropAtFeet(w, x)
    BY <1>2 DEF G!PutBack
  <2> QED BY <2>1, DropAtFeetIs
<1> QED BY <1>1, <1>2

LEMMA PutBackPlaces ==
  ASSUME NEW w, NEW O, Sound(w, O), NEW x \in O
  PROVE  Sound(G!PutBack(w, x), O \ {x})
<1>1. CASE w.last[x] \in G!Worn \cup (Bag \cap w.live)
  <2>1. w.last[x] \in G!Box /\ G!PutBack(w, x) = G!Link(w, x, w.last[x])
    BY <1>1, Apartness DEF G!PutBack
  <2> QED BY <2>1, LinkPlaces
<1>2. CASE ~(w.last[x] \in G!Worn \cup (Bag \cap w.live))
  <2>1. G!PutBack(w, x) = G!DropAtFeet(w, x)
    BY <1>2 DEF G!PutBack
  <2> QED BY <2>1, DropAtFeetPlaces
<1> QED BY <1>1, <1>2

(* Weights counts as this module does.                                     *)
LEMMA SameCount ==
  ASSUME NEW S
  PROVE  G!Cardinality(S) = Cardinality(S)
BY DEF G!Cardinality, Cardinality, G!IsFiniteSet, IsFiniteSet

LEMMA RejoiningEnds ==
  ASSUME NEW start, NEW Z, start \in Z, \A r \in Z : G!Rejoined(r) \in Z
  PROVE  G!AllRejoined(start) \in Z
<1> DEFINE n == G!Cardinality(Stack)
           f == [k \in 1..n |-> [r \in Z |-> G!Rejoined(r)]]
           F == [k \in 0..n |-> Z]
           Run(r) == r = [k \in 0..n |-> IF k = 0 THEN start ELSE G!Rejoined(r[k - 1])]
           r == CHOOSE r : Run(r)
<1>0. G!AllRejoined(start) = r[n]
  BY DEF G!AllRejoined
<1> HIDE DEF r
<1>1. n \in Nat
  <2>1. IsFiniteSet(Stack)
    BY Goods
  <2>2. Cardinality(Stack) \in Nat
    BY <2>1, FS_CardinalityType
  <2> QED BY <2>2, SameCount
<1> HIDE DEF n
<1>2. \E h : Run(h)
  <2>0. \A k \in 1..n : k - 1 \in 0..n /\ k \in 0..n
    BY <1>1
  <2>1. \A k \in 1..n : \A z \in F[k - 1] : f[k][z] \in F[k]
    BY <2>0
  <2>2. start \in F[0]
    BY <1>1
  <2>3. PICK h : Iterates(h, start, f, n) /\ \A k \in 1..n : h[k - 1] \in F[k - 1]
    <3> HIDE DEF F, f
    <3> QED BY <1>1, <2>1, <2>2, Repeated
  <2>4. h = [k \in 0..n |-> h[k]] /\ h[0] = start /\ \A k \in 1..n : h[k] = f[k][h[k - 1]]
    <3> HIDE DEF F, f
    <3> QED BY <1>1, <2>3 DEF Iterates
  <2>5. ASSUME NEW k \in 1..n
        PROVE  h[k] = G!Rejoined(h[k - 1])
    <3>1. f[k][h[k - 1]] = G!Rejoined(h[k - 1])
      BY <2>0, <2>3
    <3> HIDE DEF f
    <3> QED BY <2>4, <3>1
  <2>6. ASSUME NEW k \in 0..n
        PROVE  h[k] = IF k = 0 THEN start ELSE G!Rejoined(h[k - 1])
    <3>1. k = 0 \/ k \in 1..n
      BY <1>1
    <3> HIDE DEF f, F
    <3> QED BY <2>4, <2>5, <3>1
  <2> HIDE DEF f, F
  <2> QED BY <2>4, <2>6
<1>3. Run(r)
  <2> HIDE DEF Run
  <2> QED BY <1>2 DEF r
<1>4. r[0] = start /\ \A k \in 1..n : r[k] = G!Rejoined(r[k - 1])
  BY <1>1, <1>3
<1>5. r[n] \in F[n]
  <2>1. r[0] \in F[0] /\ \A k \in 1..n : r[k - 1] \in F[k - 1] => r[k] \in F[k]
    BY <1>1, <1>4
  <2> HIDE DEF F, Run
  <2>2. \A k \in 0..n : r[k] \in F[k]
    BY <1>1, <2>1, Stepwise
  <2> QED BY <1>1, <2>2
<1> QED BY <1>0, <1>1, <1>5

-----------------------------------------------------------------------------
(* What every operation keeps: the things of O are out of their places and *)
(* the rest in one each, the living piles hold c coins together, and none  *)
(* that is gone is said to hold more than there were.                      *)
Fits(w, O, c) ==
  /\ Sound(w, O) /\ Total(w) = c
  /\ \A z \in Stack : z \in w.live \/ w.amount[z] <= Gold

LEMMA FitsAlike ==
  ASSUME NEW w, NEW O, NEW c, Fits(w, O, c), NEW v, NEW P, Sound(v, P),
         v.live = w.live, v.amount = w.amount
  PROVE  Fits(v, P, c)
BY DEF Fits, Total, Piles

LEMMA OutFits ==
  ASSUME NEW w, NEW O, NEW c, Fits(w, O, c), NEW x \in w.live, NEW v, v = G!Hide(w, x)
  PROVE  Fits(v, O \cup {x}, c)
<1>1. w \in G!World /\ x \in G!Thing
  BY DEF Fits, Sound, G!World
<1>2. v.live = w.live /\ v.amount = w.amount
  BY <1>1, HideIs
<1> QED BY <1>2, HidePlaces, FitsAlike DEF Fits

LEMMA PutBackFits ==
  ASSUME NEW w, NEW O, NEW c, Fits(w, O, c), NEW x \in O, NEW v, v = G!PutBack(w, x)
  PROVE  Fits(v, O \ {x}, c) /\ PutAway(w, x, v)
<1>1. w \in G!World /\ x \in G!Thing
  BY DEF Fits, Sound, G!World
<1>2. PutAway(w, x, v)
  BY <1>1, PutBackIs
<1>3. v.live = w.live /\ v.amount = w.amount
  BY <1>2 DEF PutAway
<1> QED BY <1>2, <1>3, PutBackPlaces, FitsAlike DEF Fits

LEMMA MergedFits ==
  ASSUME NEW w, NEW O, NEW c, Fits(w, O, c), NEW x \in Piles(w), NEW y \in Piles(w), x # y,
         NEW v, v = G!Merged(w, x, y)
  PROVE  /\ Fits(v, (O \cup {y}) \ {x}, c)
         /\ v.live = w.live \ {x} /\ v.hand \in {w.hand, Null}
         /\ \A z \in G!Thing : z # x /\ z # y => v.last[z] = w.last[z]
         /\ y \notin O /\ y # w.hand => v.last[y] \in G!Box \cup {Ground}
<1>1. /\ Sound(w, O) /\ w \in G!World /\ x \in Stack /\ y \in Stack
      /\ \A z \in Stack : w.amount[z] \in Nat
  BY WorldFields DEF Fits, Sound, Piles
<1>2. PICK a, out : a = G!HideIfPlaced(w, y) /\ out = G!HideIfPlaced(a, x)
  OBVIOUS
<1>3. v.live = w.live \ {x} /\ v.hand \in {w.hand, Null} /\ v.amount = MergedAmount(w, x, y)
  BY <1>1, <1>2, MergedIs
<1>4. \A z \in G!Thing : z # x /\ z # y => v.last[z] = w.last[z]
  BY <1>1, <1>2, MergedIs
<1>5. Sound(v, (O \cup {y}) \ {x}) /\ (y \notin O /\ y # w.hand => v.last[y] \in G!Box \cup {Ground})
  BY <1>1, MergedPlaces
<1>6. Total(v) = c
  BY <1>1, MergedTotal DEF Fits
<1>7. \A z \in Stack : z \in v.live \/ v.amount[z] <= Gold
  <2>1. SUFFICES ASSUME NEW z \in Stack, z \notin v.live
                 PROVE  v.amount[z] <= Gold
    OBVIOUS
  <2>2. w.amount \in [Stack -> Nat]
    BY <1>1, WorldFields
  <2>3. CASE z = x
    <3>1. v.amount[z] = 0
      BY <1>1, <1>3, <2>2, <2>3 DEF MergedAmount
    <3> QED BY <3>1, Goods
  <2>4. CASE z # x
    <3>1. z \notin w.live /\ z # y
      BY <1>3, <2>1, <2>4 DEF Piles
    <3>2. v.amount[z] = w.amount[z]
      BY <1>1, <1>3, <2>2, <2>4, <3>1 DEF MergedAmount
    <3> QED BY <3>1, <3>2 DEF Fits
  <2> QED BY <2>3, <2>4
<1> QED BY <1>3, <1>4, <1>5, <1>6, <1>7 DEF Fits

(* What is put back goes to where it was, or joins the pile it came from,  *)
(* which then goes to where that was.                                      *)
LEMMA ReturnFits ==
  ASSUME NEW w, NEW O, NEW c, Fits(w, O, c), NEW x \in O,
         w.last[x] \in Stack => w.hand = Null /\ w.last[x] \notin O \ {x},
         NEW v, v = G!ReturnToTracked(w, x)
  PROVE  /\ Fits(v, O \ {x}, c) /\ v.hand = w.hand
         /\ v.live \subseteq w.live /\ w.live \ {x} \subseteq v.live
         /\ w.last[x] \notin Stack => v.live = w.live
         /\ \A z \in O \ {x} : v.last[z] = w.last[z]
<1>0. w \in G!World /\ x \in G!Thing /\ x \in w.live /\ O \subseteq G!Thing /\ Sound(w, O)
  BY DEF Fits, Sound, G!World
<1> DEFINE start == [w |-> w, x |-> x]
           y == w.last[x]
           m == G!Merged(w, x, y)
           then == [w |-> m, x |-> y]
           joins == y \in Stack \cap w.live /\ G!Stacks(w, x, y)
<1>1. G!ReturnToTracked(w, x) = G!PutBack(G!AllRejoined(start).w, G!AllRejoined(start).x)
  BY DEF G!ReturnToTracked
<1>2. G!Rejoined(start) = IF joins THEN then ELSE start
  BY DEF G!Rejoined
<1>3. CASE joins
  <2>1. /\ x \in Piles(w) /\ y \in Piles(w) /\ x # y /\ y \notin O /\ w.hand = Null /\ y # w.hand
    <3>1. x \in Stack /\ x # y /\ y \in Stack /\ y \in w.live
      BY <1>3 DEF G!Stacks
    <3> QED BY <1>0, <3>1, Apartness DEF Piles
  <2>m. m = G!Merged(w, x, y)
    OBVIOUS
  <2> HIDE DEF y, m
  <2>2. /\ Fits(m, (O \cup {y}) \ {x}, c) /\ m.live = w.live \ {x} /\ m.hand = Null
        /\ m.last[y] \in G!Box \cup {Ground}
    BY <2>1, <2>m, MergedFits
  <2>3. \A z \in O \ {x} : m.last[z] = w.last[z]
    <3>1. w \in G!World /\ x \in Stack /\ y \in Stack
      BY <1>0, <2>1 DEF Piles
    <3>2. PICK a, out : a = G!HideIfPlaced(w, y) /\ out = G!HideIfPlaced(a, x)
      OBVIOUS
    <3>3. \A z \in G!Thing : z # x /\ z # y => m.last[z] = w.last[z]
      BY <2>1, <2>m, <3>1, <3>2, MergedIs
    <3> QED BY <1>0, <2>1, <3>3
  <2>4. G!Rejoined(then) = then
    <3>1. m.last[y] \notin Stack
      BY <2>2, Apartness
    <3> QED BY <3>1 DEF G!Rejoined
  <2>5. G!AllRejoined(start) \in {start, then}
    <3>1. G!Rejoined(start) = then
      BY <1>2, <1>3
    <3> HIDE DEF start, then
    <3> QED BY <2>4, <3>1, RejoiningEnds
  <2>6. CASE G!AllRejoined(start) = start
    <3>1. v = G!PutBack(w, x)
      BY <1>1, <2>6
    <3>2. Fits(v, O \ {x}, c) /\ PutAway(w, x, v)
      BY <3>1, PutBackFits
    <3> QED BY <1>0, <3>2 DEF PutAway
  <2>7. CASE G!AllRejoined(start) = then
    <3>1. v = G!PutBack(m, y) /\ y \in (O \cup {y}) \ {x}
      BY <1>1, <2>1, <2>7
    <3>2. Fits(v, ((O \cup {y}) \ {x}) \ {y}, c) /\ PutAway(m, y, v)
      BY <2>2, <3>1, PutBackFits
    <3>3. ((O \cup {y}) \ {x}) \ {y} = O \ {x}
      BY <2>1
    <3>4. v.live = w.live \ {x} /\ v.hand = Null
      BY <2>2, <3>2 DEF PutAway
    <3>5. \A z \in O \ {x} : v.last[z] = w.last[z]
      BY <1>0, <2>1, <2>3, <3>2 DEF PutAway
    <3>6. w.last[x] \in Stack
      BY <2>1 DEF y, Piles
    <3> QED BY <2>1, <3>2, <3>3, <3>4, <3>5, <3>6
  <2> QED BY <2>5, <2>6, <2>7
<1>4. CASE ~joins
  <2>1. G!AllRejoined(start) \in {start}
    <3>1. G!Rejoined(start) = start
      BY <1>2, <1>4
    <3> HIDE DEF start
    <3> QED BY <3>1, RejoiningEnds
  <2>2. v = G!PutBack(w, x)
    BY <1>1, <2>1
  <2>3. Fits(v, O \ {x}, c) /\ PutAway(w, x, v)
    BY <2>2, PutBackFits
  <2> QED BY <1>0, <2>3 DEF PutAway
<1> QED BY <1>3, <1>4

LEMMA MergeIntoFits ==
  ASSUME NEW w, NEW O, NEW c, Fits(w, O, c), NEW x \in Piles(w), NEW y \in Piles(w), x # y,
         y \notin O, y # w.hand, NEW v, v = G!MergeInto(w, x, y)
  PROVE  Fits(v, O \ {x}, c) /\ v.hand \in {w.hand, Null}
<1> DEFINE m == G!Merged(w, x, y)
<1>0. m = G!Merged(w, x, y)
  OBVIOUS
<1>1. v = G!ReturnToTracked(m, y)
  BY DEF G!MergeInto
<1> HIDE DEF m
<1>2. /\ Fits(m, (O \cup {y}) \ {x}, c) /\ m.hand \in {w.hand, Null}
      /\ m.last[y] \in G!Box \cup {Ground}
  BY <1>0, MergedFits
<1>3. m.last[y] \notin Stack /\ y \in (O \cup {y}) \ {x}
  BY <1>2, Apartness
<1>4. Fits(v, ((O \cup {y}) \ {x}) \ {y}, c) /\ v.hand = m.hand
  BY <1>1, <1>2, <1>3, ReturnFits
<1>5. ((O \cup {y}) \ {x}) \ {y} = O \ {x}
  OBVIOUS
<1> QED BY <1>2, <1>4, <1>5

LEMMA AddFits ==
  ASSUME NEW w, NEW O, NEW c, Fits(w, O, c), NEW x \in O, NEW b \in G!Box,
         NEW v, v = G!AddToContainer(w, x, b)
  PROVE  Fits(v, O \ {x}, c)
<1>0. Sound(w, O) /\ w \in G!World /\ x \in G!Thing /\ x \in w.live
  BY DEF Fits, Sound, G!World
<1> DEFINE q == w.cont[b]
           I == {i \in 1..Len(q) : G!Stacks(w, x, q[i])}
           k == IF I # {} THEN G!Min(I) ELSE 0
<1>1. v = IF k = 0 THEN G!Link(w, x, b) ELSE G!MergeInto(w, x, q[k])
  BY DEF G!AddToContainer, G!SelectInSeq
<1>2. k = 0 \/ (k \in 1..Len(q) /\ G!Stacks(w, x, q[k]))
  <2>1. I \in SUBSET Nat
    OBVIOUS
  <2>2. I # {} => G!Min(I) \in I
    <3> HIDE DEF I
    <3> QED BY <2>1, LeastIsIn
  <2> QED BY <2>2
<1> HIDE DEF k
<1>3. CASE k = 0
  <2>1. v = G!Link(w, x, b)
    BY <1>1, <1>3
  <2>2. PutAway(w, x, v)
    BY <1>0, <2>1, LinkIs
  <2>3. v.live = w.live /\ v.amount = w.amount
    BY <2>2 DEF PutAway
  <2>4. Sound(v, O \ {x})
    BY <1>0, <2>1, LinkPlaces
  <2> QED BY <2>3, <2>4, FitsAlike
<1>4. CASE k # 0
  <2>1. k \in 1..Len(q) /\ G!Stacks(w, x, q[k]) /\ v = G!MergeInto(w, x, q[k])
    BY <1>1, <1>2, <1>4
  <2>2. q \in Seq(G!Thing) /\ Kept(w, b) \subseteq G!Thing
    BY <1>0, KeptAreThings
  <2>3. q[k] \in Kept(w, b)
    BY <2>1, <2>2 DEF Kept, Elems
  <2>4. q[k] \in w.live \ O /\ q[k] # w.hand
    BY <1>0, <2>2, <2>3 DEF Sound, Lying, Apart
  <2>5. x \in Piles(w) /\ q[k] \in Piles(w) /\ x # q[k]
    BY <1>0, <2>1, <2>4 DEF G!Stacks, Piles
  <2> HIDE DEF q
  <2> QED BY <2>1, <2>4, <2>5, MergeIntoFits
<1> QED BY <1>3, <1>4

LEMMA CoinsAreNumbers ==
  ASSUME NEW amount \in [Stack -> Nat], NEW S \in SUBSET Stack
  PROVE  Coins(amount, S) \in Nat
<1>1. CASE S = {}
  BY <1>1, NoCoins
<1>2. CASE S # {}
  <2>1. PICK x \in S : TRUE
    BY <1>2
  <2> QED BY <2>1, CoinsWithout
<1> QED BY <1>1, <1>2

(* A pile split in two.                                                    *)
LEMMA SplitFits ==
  ASSUME NEW w, NEW c \in Int, Fits(w, {}, c), NEW x \in Piles(w), NEW y \in G!Fresh(w),
         NEW n \in 1..(w.amount[x] - 1), NEW v, v = G!SplitByAmount(w, x, n, y)
  PROVE  Fits(v, {y}, c) /\ (w.hand = Null => v.hand = Null)
<1>0. /\ Sound(w, {}) /\ w \in G!World /\ x \in Stack /\ x \in w.live /\ x \in G!Thing
      /\ y \in Stack /\ y \notin w.live /\ y \in G!Thing /\ y # x
      /\ \A z \in G!Thing : w.last[z] # y
  BY Apartness DEF Fits, Sound, Piles, G!Fresh
<1> DEFINE out == G!HideIfPlaced(w, x)
           amount == [w.amount EXCEPT ![y] = n, ![x] = w.amount[x] - n]
           last == [out.last EXCEPT ![y] = x]
           m == [out EXCEPT !.live = @ \cup {y}, !.last[y] = x,
                            !.amount = [@ EXCEPT ![y] = n, ![x] = w.amount[x] - n]]
<1>a. v = G!ReturnToTracked(m, x)
  BY DEF G!SplitByAmount
<1>b. out = G!HideIfPlaced(w, x)
  OBVIOUS
<1> HIDE DEF out
<1>1. /\ out \in G!World /\ out.live = w.live /\ out.amount = w.amount
      /\ out.hand \in {w.hand, Null}
  BY <1>0, <1>b, HideIfPlacedIs
<1>2. Sound(out, {x}) /\ (x # w.hand => out.last[x] \in G!Box \cup {Ground})
  <2>1. Sound(out, {} \cup {x}) /\ (x \notin {} /\ x # w.hand => out.last[x] \in G!Box \cup {Ground})
    BY <1>0, <1>b, HideIfPlacedPlaces
  <2>2. {} \cup {x} = {x} /\ x \notin {}
    OBVIOUS
  <2> QED BY <2>1, <2>2
<1>3. x = w.hand => out.hand = Null /\ out.last[x] = w.last[x]
  <2>1. ASSUME x = w.hand
        PROVE  out = G!Hide(w, x)
    <3>1. x \in Lying(w)
      BY <1>0, <2>1 DEF Lying
    <3> QED BY <1>0, <1>b, <3>1, PlacedIs DEF G!HideIfPlaced
  <2> QED BY <1>0, <2>1, HideIs
<1>4. amount \in [Stack -> Nat] /\ last \in [G!Thing -> G!Box \cup Stack \cup {Ground, Null}]
  <2>1. w.amount \in [Stack -> Nat] /\ w.amount[x] - n \in Nat /\ n \in Nat
    BY <1>0 DEF G!World
  <2>2. out.last \in [G!Thing -> G!Box \cup Stack \cup {Ground, Null}]
    BY <1>1 DEF G!World
  <2> QED BY <1>0, <2>1, <2>2
<1>5. m = [out EXCEPT !.live = out.live \cup {y}, !.last = last, !.amount = amount]
  BY <1>1 DEF G!World
<1>6. /\ amount[y] = n /\ amount[x] = w.amount[x] - n
      /\ \A z \in Stack : z # x /\ z # y => amount[z] = w.amount[z]
      /\ last[x] = out.last[x]
  BY <1>0, <1>1 DEF G!World
<1> HIDE DEF m, amount, last
<1>7. /\ m \in G!World /\ m.live = w.live \cup {y} /\ m.amount = amount /\ m.last = last
      /\ m.hand = out.hand /\ m.ground = out.ground /\ m.cont = out.cont
  BY <1>0, <1>1, <1>4, <1>5 DEF G!World
<1>8. Sound(m, {x, y})
  <2>1. \A b \in G!Box : Kept(m, b) = Kept(out, b) /\ m.cont[b] = out.cont[b]
    BY <1>7 DEF Kept
  <2>2. Lying(m) = Lying(out) /\ (Apart(out) => Apart(m))
    BY <1>7, <2>1 DEF Lying, Apart
  <2> QED BY <1>0, <1>1, <1>2, <1>7, <2>2 DEF Sound
<1>9. Total(m) = c
  <2> DEFINE P == Piles(w)
             Q == P \ {x}
             V == P \cup {y}
  <2>1. P \in SUBSET Stack /\ w.amount \in [Stack -> Nat] /\ amount \in [Stack -> Nat]
    BY <1>0, <1>4, WorldFields
  <2>2. Piles(m) = V /\ V \in SUBSET Stack /\ y \in V /\ V \ {y} = P /\ Q \in SUBSET Stack
    BY <1>0, <1>7, <2>1 DEF Piles
  <2>3. Coins(amount, V) = amount[y] + Coins(amount, P)
    <3> HIDE DEF P, V
    <3> QED BY <2>1, <2>2, CoinsWithout
  <2>4. Coins(amount, P) = amount[x] + Coins(amount, Q)
    BY <2>1, CoinsWithout
  <2>5. Coins(w.amount, P) = w.amount[x] + Coins(w.amount, Q)
    BY <2>1, CoinsWithout
  <2>6. \A z \in Q : amount[z] = w.amount[z]
    BY <1>0, <1>6 DEF Piles
  <2>7. Coins(amount, Q) = Coins(w.amount, Q)
    <3> HIDE DEF P, Q
    <3> QED BY <2>1, <2>2, <2>6, CoinsAlike
  <2>8. Coins(w.amount, P) = c /\ Total(m) = Coins(amount, V)
    BY <1>7, <2>2 DEF Total, Fits
  <2> HIDE DEF P, Q, V
  <2>9. w.amount[x] \in Nat /\ n \in Nat /\ Coins(w.amount, Q) \in Int
    <3>1. Coins(w.amount, Q) \in Nat
      BY <2>1, <2>2, CoinsAreNumbers
    <3> QED BY <1>0, <2>1, <3>1
  <2> QED BY <1>6, <2>3, <2>4, <2>5, <2>7, <2>8, <2>9
<1>10. Fits(m, {x, y}, c)
  <2>1. \A z \in Stack : z \in m.live \/ m.amount[z] <= Gold
    BY <1>0, <1>6, <1>7 DEF Fits
  <2> QED BY <1>8, <1>9, <2>1 DEF Fits
<1>11. m.last[x] \in Stack => m.hand = Null /\ m.last[x] \notin {x, y} \ {x}
  BY <1>0, <1>2, <1>3, <1>6, <1>7, Apartness
<1>12. Fits(v, {x, y} \ {x}, c) /\ v.hand = m.hand
  BY <1>a, <1>10, <1>11, ReturnFits
<1>13. {x, y} \ {x} = {y}
  BY <1>0
<1> QED BY <1>1, <1>7, <1>12, <1>13

-----------------------------------------------------------------------------
(* Charging and deleting.                                                  *)

LEMMA ThingsCount == G!Cardinality(G!Thing) \in Nat
<1>1. IsFiniteSet(G!Thing)
  BY Goods, FS_Union DEF G!Thing
<1> QED BY <1>1, FS_CardinalityType, SameCount

LEMMA ConsumingEnds ==
  ASSUME NEW shut \in SUBSET Bag,
         NEW want, NEW start, NEW Z, start \in Z, \A r \in Z : G!Consumed(r, want, shut) \in Z
  PROVE  G!AllConsumed(start, want, shut) \in Z
<1> DEFINE n == G!Cardinality(G!Thing)
           f == [k \in 1..n |-> [r \in Z |-> G!Consumed(r, want, shut)]]
           F == [k \in 0..n |-> Z]
           Run(r) == r = [k \in 0..n |-> IF k = 0 THEN start ELSE G!Consumed(r[k - 1], want, shut)]
           r == CHOOSE r : Run(r)
<1>0. G!AllConsumed(start, want, shut) = r[n]
  BY DEF G!AllConsumed
<1> HIDE DEF r
<1>1. n \in Nat
  BY ThingsCount
<1> HIDE DEF n
<1>2. \E h : Run(h)
  <2>0. \A k \in 1..n : k - 1 \in 0..n /\ k \in 0..n
    BY <1>1
  <2>1. \A k \in 1..n : \A z \in F[k - 1] : f[k][z] \in F[k]
    BY <2>0
  <2>2. start \in F[0]
    BY <1>1
  <2>3. PICK h : Iterates(h, start, f, n) /\ \A k \in 1..n : h[k - 1] \in F[k - 1]
    <3> HIDE DEF F, f
    <3> QED BY <1>1, <2>1, <2>2, Repeated
  <2>4. h = [k \in 0..n |-> h[k]] /\ h[0] = start /\ \A k \in 1..n : h[k] = f[k][h[k - 1]]
    <3> HIDE DEF F, f
    <3> QED BY <1>1, <2>3 DEF Iterates
  <2>5. ASSUME NEW k \in 1..n
        PROVE  h[k] = G!Consumed(h[k - 1], want, shut)
    <3>1. f[k][h[k - 1]] = G!Consumed(h[k - 1], want, shut)
      BY <2>0, <2>3
    <3> HIDE DEF f
    <3> QED BY <2>4, <3>1
  <2>6. ASSUME NEW k \in 0..n
        PROVE  h[k] = IF k = 0 THEN start ELSE G!Consumed(h[k - 1], want, shut)
    <3>1. k = 0 \/ k \in 1..n
      BY <1>1
    <3> HIDE DEF f, F
    <3> QED BY <2>4, <2>5, <3>1
  <2> HIDE DEF f, F
  <2> QED BY <2>4, <2>6
<1>3. Run(r)
  <2> HIDE DEF Run
  <2> QED BY <1>2 DEF r
<1>4. r[0] = start /\ \A k \in 1..n : r[k] = G!Consumed(r[k - 1], want, shut)
  BY <1>1, <1>3
<1>5. r[n] \in F[n]
  <2>1. r[0] \in F[0] /\ \A k \in 1..n : r[k - 1] \in F[k - 1] => r[k] \in F[k]
    BY <1>1, <1>4
  <2> HIDE DEF F, Run
  <2>2. \A k \in 0..n : r[k] \in F[k]
    BY <1>1, <2>1, Stepwise
  <2> QED BY <1>1, <2>2
<1> QED BY <1>0, <1>1, <1>5

LEMMA DeletingEnds ==
  ASSUME NEW start, NEW Z, start \in Z, \A r \in Z : G!DeletedOne(r) \in Z
  PROVE  G!AllDeleted(start) \in Z
<1> DEFINE n == 2 * G!Cardinality(G!Thing)
           f == [k \in 1..n |-> [r \in Z |-> G!DeletedOne(r)]]
           F == [k \in 0..n |-> Z]
           Run(r) == r = [k \in 0..n |-> IF k = 0 THEN start ELSE G!DeletedOne(r[k - 1])]
           r == CHOOSE r : Run(r)
<1>0. G!AllDeleted(start) = r[n]
  BY DEF G!AllDeleted
<1> HIDE DEF r
<1>1. n \in Nat
  BY ThingsCount
<1> HIDE DEF n
<1>2. \E h : Run(h)
  <2>0. \A k \in 1..n : k - 1 \in 0..n /\ k \in 0..n
    BY <1>1
  <2>1. \A k \in 1..n : \A z \in F[k - 1] : f[k][z] \in F[k]
    BY <2>0
  <2>2. start \in F[0]
    BY <1>1
  <2>3. PICK h : Iterates(h, start, f, n) /\ \A k \in 1..n : h[k - 1] \in F[k - 1]
    <3> HIDE DEF F, f
    <3> QED BY <1>1, <2>1, <2>2, Repeated
  <2>4. h = [k \in 0..n |-> h[k]] /\ h[0] = start /\ \A k \in 1..n : h[k] = f[k][h[k - 1]]
    <3> HIDE DEF F, f
    <3> QED BY <1>1, <2>3 DEF Iterates
  <2>5. ASSUME NEW k \in 1..n
        PROVE  h[k] = G!DeletedOne(h[k - 1])
    <3>1. f[k][h[k - 1]] = G!DeletedOne(h[k - 1])
      BY <2>0, <2>3
    <3> HIDE DEF f
    <3> QED BY <2>4, <3>1
  <2>6. ASSUME NEW k \in 0..n
        PROVE  h[k] = IF k = 0 THEN start ELSE G!DeletedOne(h[k - 1])
    <3>1. k = 0 \/ k \in 1..n
      BY <1>1
    <3> HIDE DEF f, F
    <3> QED BY <2>4, <2>5, <3>1
  <2> HIDE DEF f, F
  <2> QED BY <2>4, <2>6
<1>3. Run(r)
  <2> HIDE DEF Run
  <2> QED BY <1>2 DEF r
<1>4. r[0] = start /\ \A k \in 1..n : r[k] = G!DeletedOne(r[k - 1])
  BY <1>1, <1>3
<1>5. r[n] \in F[n]
  <2>1. r[0] \in F[0] /\ \A k \in 1..n : r[k - 1] \in F[k - 1] => r[k] \in F[k]
    BY <1>1, <1>4
  <2> HIDE DEF F, Run
  <2>2. \A k \in 0..n : r[k] \in F[k]
    BY <1>1, <2>1, Stepwise
  <2> QED BY <1>1, <2>2
<1> QED BY <1>0, <1>1, <1>5

LEMMA Joined ==
  ASSUME NEW T, NEW p \in Seq(T), NEW q \in Seq(T)
  PROVE  p \o q \in Seq(T) /\ Elems(p \o q) = Elems(p) \cup Elems(q)
<1> DEFINE r == p \o q
<1>1. /\ r \in Seq(T) /\ Len(p) \in Nat /\ Len(q) \in Nat /\ Len(r) = Len(p) + Len(q)
      /\ DOMAIN p = 1..Len(p) /\ DOMAIN q = 1..Len(q) /\ DOMAIN r = 1..Len(r)
  OBVIOUS
<1>2. \A i \in 1..Len(r) : r[i] = IF i <= Len(p) THEN p[i] ELSE q[i - Len(p)]
  OBVIOUS
<1> HIDE DEF r
<1>3. ASSUME NEW e \in Elems(r)
      PROVE  e \in Elems(p) \cup Elems(q)
  <2>1. PICK i \in 1..Len(r) : e = r[i]
    BY <1>1 DEF Elems
  <2>2. CASE i <= Len(p)
    <3>1. i \in 1..Len(p) /\ e = p[i]
      BY <1>1, <1>2, <2>1, <2>2
    <3> QED BY <1>1, <3>1 DEF Elems
  <2>3. CASE ~(i <= Len(p))
    <3>1. i - Len(p) \in 1..Len(q) /\ e = q[i - Len(p)]
      BY <1>1, <1>2, <2>1, <2>3
    <3> QED BY <1>1, <3>1 DEF Elems
  <2> QED BY <2>2, <2>3
<1>4. ASSUME NEW e \in Elems(p)
      PROVE  e \in Elems(r)
  <2>1. PICK i \in 1..Len(p) : e = p[i]
    BY <1>1 DEF Elems
  <2>2. i \in 1..Len(r) /\ e = r[i]
    BY <1>1, <1>2, <2>1
  <2> QED BY <1>1, <2>2 DEF Elems
<1>5. ASSUME NEW e \in Elems(q)
      PROVE  e \in Elems(r)
  <2>1. PICK i \in 1..Len(q) : e = q[i]
    BY <1>1 DEF Elems
  <2>2. i + Len(p) \in 1..Len(r) /\ ~(i + Len(p) <= Len(p)) /\ (i + Len(p)) - Len(p) = i
    BY <1>1
  <2>3. e = r[i + Len(p)]
    BY <1>2, <2>1, <2>2
  <2> QED BY <1>1, <2>2, <2>3 DEF Elems
<1>6. Elems(r) = Elems(p) \cup Elems(q)
  BY <1>3, <1>4, <1>5
<1> QED BY <1>1, <1>6 DEF r

LEMMA HeadAndTail ==
  ASSUME NEW T, NEW q \in Seq(T), q # <<>>
  PROVE  /\ Head(q) \in T /\ Head(q) \in Elems(q)
         /\ Tail(q) \in Seq(T) /\ Elems(Tail(q)) \subseteq Elems(q)
<1>1. Len(q) \in Nat /\ Len(q) >= 1 /\ DOMAIN q = 1..Len(q) /\ Head(q) = q[1]
  OBVIOUS
<1>2. /\ Tail(q) \in Seq(T) /\ DOMAIN Tail(q) = 1..(Len(q) - 1)
      /\ \A i \in 1..(Len(q) - 1) : Tail(q)[i] = q[i + 1]
  OBVIOUS
<1>3. Head(q) \in T /\ Head(q) \in Elems(q)
  BY <1>1 DEF Elems
<1>4. ASSUME NEW e \in Elems(Tail(q))
      PROVE  e \in Elems(q)
  <2>1. PICK i \in 1..(Len(q) - 1) : e = q[i + 1]
    BY <1>2 DEF Elems
  <2>2. i + 1 \in 1..Len(q)
    BY <1>1
  <2> QED BY <1>1, <2>1, <2>2 DEF Elems
<1> QED BY <1>2, <1>3, <1>4

(* The coins that go with x.                                               *)
Lost(w, x) == IF x \in Piles(w) THEN w.amount[x] ELSE 0

LEMMA GoneFits ==
  ASSUME NEW w, NEW O, NEW c \in 0..Gold, Fits(w, O, c), NEW x \in G!Thing, NEW v, v = G!Gone(w, x)
  PROVE  /\ Fits(v, O \ {x}, c - Lost(w, x)) /\ Lost(w, x) \in 0..c
         /\ v.live = w.live \ {x} /\ v.amount = w.amount
<1>c. c \in Nat /\ c <= Gold /\ Gold \in Nat
  BY Goods
<1>0. Sound(w, O) /\ w \in G!World /\ O \subseteq w.live
  BY DEF Fits, Sound
<1> DEFINE out == G!HideIfPlaced(w, x)
           last == [out.last EXCEPT ![x] = Null]
<1>a. out = G!HideIfPlaced(w, x) /\ v = [out EXCEPT !.live = @ \ {x}, !.last[x] = Null]
  BY DEF G!Gone
<1> HIDE DEF out
<1>1. out \in G!World /\ out.live = w.live /\ out.amount = w.amount
  BY <1>0, <1>a, HideIfPlacedIs
<1>2. last \in [G!Thing -> G!Box \cup Stack \cup {Ground, Null}] /\ out.live \ {x} \subseteq G!Thing
  BY <1>1 DEF G!World
<1>3. v = [out EXCEPT !.live = out.live \ {x}, !.last = last]
  BY <1>a, <1>1 DEF G!World
<1> HIDE DEF last
<1>4. /\ v \in G!World /\ v.live = w.live \ {x} /\ v.amount = w.amount
      /\ v.hand = out.hand /\ v.ground = out.ground /\ v.cont = out.cont
  BY <1>1, <1>2, <1>3 DEF G!World
<1>5. Lying(v) = Lying(out) /\ (Apart(out) => Apart(v))
  <2>1. \A b \in G!Box : Kept(v, b) = Kept(out, b) /\ v.cont[b] = out.cont[b]
    BY <1>4 DEF Kept
  <2> QED BY <1>4, <2>1 DEF Lying, Apart
<1>6. Sound(v, O \ {x})
  <2>1. CASE x \in w.live
    <3>1. Sound(out, O \cup {x})
      BY <1>0, <1>a, <2>1, HideIfPlacedPlaces
    <3> QED BY <1>1, <1>4, <1>5, <3>1 DEF Sound
  <2>2. CASE x \notin w.live
    <3>1. x \notin Lying(w)
      BY <1>0, <2>2 DEF Sound
    <3>2. out = w
      BY <1>0, <1>a, <3>1, PlacedIs DEF G!HideIfPlaced
    <3>3. w.live \ {x} = w.live /\ O \ {x} = O
      BY <1>0, <2>2
    <3> QED BY <1>0, <1>4, <1>5, <3>2, <3>3 DEF Sound
  <2> QED BY <2>1, <2>2
<1>7. Total(v) = c - Lost(w, x) /\ Lost(w, x) \in 0..c
  <2> DEFINE P == Piles(w)
             Q == P \ {x}
  <2>1. P \in SUBSET Stack /\ w.amount \in [Stack -> Nat] /\ Piles(v) = Q /\ Q \in SUBSET Stack
    BY <1>0, <1>4, WorldFields DEF Piles
  <2>2. Coins(w.amount, P) = c /\ Total(v) = Coins(w.amount, Q)
    <3> HIDE DEF Q
    <3> QED BY <1>4, <2>1 DEF Total, Fits
  <2>3. CASE x \in P
    <3>1. Coins(w.amount, P) = w.amount[x] + Coins(w.amount, Q)
      BY <2>1, <2>3, CoinsWithout
    <3>2. Coins(w.amount, Q) \in Nat /\ w.amount[x] \in Nat
      BY <2>1, <2>3, CoinsAreNumbers
    <3>3. Lost(w, x) = w.amount[x]
      BY <2>3 DEF Lost
    <3> HIDE DEF P, Q
    <3> QED BY <1>c, <2>2, <3>1, <3>2, <3>3
  <2>4. CASE x \notin P
    <3>1. Lost(w, x) = 0
      BY <2>4 DEF Lost
    <3>2. P = Q
      BY <2>4
    <3> HIDE DEF P, Q
    <3> QED BY <1>c, <2>2, <3>1, <3>2
  <2> QED BY <2>3, <2>4
<1>8. ASSUME NEW z \in Stack, z \notin v.live
      PROVE  v.amount[z] <= Gold
  <2>1. CASE z \in w.live
    <3>1. z = x /\ x \in Piles(w)
      BY <1>4, <1>8, <2>1 DEF Piles
    <3>2. w.amount[z] \in 0..c
      BY <1>7, <3>1 DEF Lost
    <3> QED BY <1>4, <3>2, Goods
  <2>2. CASE z \notin w.live
    BY <1>4, <2>2 DEF Fits
  <2> QED BY <2>1, <2>2
<1> QED BY <1>4, <1>6, <1>7, <1>8 DEF Fits

(* Coins taken from a pile.                                                *)
LEMMA TakenFromFits ==
  ASSUME NEW w, NEW O, NEW c \in 0..Gold, Fits(w, O, c), NEW x \in Stack, NEW n \in Nat,
         n <= w.amount[x], x \in w.live \/ n = 0,
         NEW v, v = [w EXCEPT !.amount[x] = @ - n]
  PROVE  /\ Fits(v, O, c - n) /\ c - n \in 0..Gold
         /\ v.live = w.live /\ v.hand = w.hand /\ v.last = w.last
         /\ v.amount[x] = w.amount[x] - n
         /\ \A z \in Stack : z # x => v.amount[z] = w.amount[z]
<1>c. c \in Nat /\ c <= Gold /\ Gold \in Nat
  BY Goods
<1>0. Sound(w, O) /\ w \in G!World /\ w.amount \in [Stack -> Nat] /\ w.amount[x] \in Nat
  BY DEF Fits, Sound, G!World
<1> DEFINE amount == [w.amount EXCEPT ![x] = w.amount[x] - n]
<1>1. amount \in [Stack -> Nat] /\ v = [w EXCEPT !.amount = amount]
  BY <1>0 DEF G!World
<1>2. amount[x] = w.amount[x] - n /\ \A z \in Stack : z # x => amount[z] = w.amount[z]
  BY <1>0
<1> HIDE DEF amount
<1>3. /\ v \in G!World /\ v.live = w.live /\ v.amount = amount /\ v.hand = w.hand /\ v.last = w.last
      /\ v.ground = w.ground /\ v.cont = w.cont
  BY <1>0, <1>1 DEF G!World
<1>4. Sound(v, O)
  <2>1. \A b \in G!Box : Kept(v, b) = Kept(w, b) /\ v.cont[b] = w.cont[b]
    BY <1>3 DEF Kept
  <2>2. Lying(v) = Lying(w) /\ (Apart(w) => Apart(v))
    BY <1>3, <2>1 DEF Lying, Apart
  <2> QED BY <1>0, <1>3, <2>2 DEF Sound
<1>5. Total(v) = c - n /\ c - n \in 0..c
  <2> DEFINE P == Piles(w)
             Q == P \ {x}
  <2>1. P \in SUBSET Stack /\ Q \in SUBSET Stack /\ Piles(v) = P
    BY <1>0, <1>3, WorldFields DEF Piles
  <2>2. Coins(w.amount, P) = c /\ Total(v) = Coins(amount, P)
    BY <1>3, <2>1 DEF Total, Fits
  <2>3. \A z \in Q : amount[z] = w.amount[z]
    BY <1>2, <2>1
  <2>4. Coins(amount, Q) = Coins(w.amount, Q)
    <3> HIDE DEF P, Q
    <3> QED BY <1>0, <1>1, <2>1, <2>3, CoinsAlike
  <2>5. CASE x \in P
    <3>1. Coins(w.amount, P) = w.amount[x] + Coins(w.amount, Q)
      BY <1>0, <2>1, <2>5, CoinsWithout
    <3>2. Coins(amount, P) = amount[x] + Coins(amount, Q)
      BY <1>1, <2>1, <2>5, CoinsWithout
    <3>3. Coins(w.amount, Q) \in Nat
      BY <1>0, <2>1, CoinsAreNumbers
    <3> HIDE DEF P, Q
    <3> QED BY <1>0, <1>2, <2>2, <2>4, <3>1, <3>2, <3>3
  <2>6. CASE x \notin P
    <3>1. n = 0 /\ P = Q
      BY <2>6 DEF Piles
    <3> HIDE DEF P, Q
    <3> QED BY <2>2, <2>4, <3>1
  <2> QED BY <2>5, <2>6
<1>6. ASSUME NEW z \in Stack, z \notin v.live
      PROVE  v.amount[z] <= Gold
  <2>1. w.amount[z] <= Gold /\ w.amount[z] \in Nat
    BY <1>0, <1>3, <1>6 DEF Fits
  <2>2. v.amount[z] = w.amount[z] \/ (z = x /\ v.amount[z] = w.amount[z] - n)
    BY <1>2, <1>3
  <2> QED BY <2>1, <2>2, Goods
<1>7. c - n \in 0..Gold
  BY <1>c, <1>5
<1> QED BY <1>2, <1>3, <1>4, <1>5, <1>6, <1>7 DEF Fits

LEMMA EmptiedFits ==
  ASSUME NEW w, NEW O, NEW c \in 0..Gold, Fits(w, O, c), NEW x \in Stack,
         x \in w.live \/ w.amount[x] = 0, NEW v, v = G!Emptied(w, x)
  PROVE  /\ Fits(v, O, c - w.amount[x]) /\ c - w.amount[x] \in 0..Gold /\ w.amount[x] \in Nat
         /\ v.live = w.live /\ v.amount[x] = 0
         /\ \A z \in Stack : z # x => v.amount[z] = w.amount[z]
<1>1. w \in G!World /\ w.amount \in [Stack -> Nat] /\ w.amount[x] \in Nat
  BY DEF Fits, Sound, G!World
<1>3. w.amount[x] <= w.amount[x] /\ w.amount[x] - w.amount[x] = 0
  BY <1>1
<1>2. v = [w EXCEPT !.amount[x] = @ - w.amount[x]]
  <2>1. [w EXCEPT !.amount[x] = 0] = [w EXCEPT !.amount = [w.amount EXCEPT ![x] = 0]]
    BY <1>1 DEF G!World
  <2>2. [w EXCEPT !.amount[x] = @ - w.amount[x]]
          = [w EXCEPT !.amount = [w.amount EXCEPT ![x] = w.amount[x] - w.amount[x]]]
    BY <1>1 DEF G!World
  <2> QED BY <1>3, <2>1, <2>2 DEF G!Emptied
<1> QED BY <1>1, <1>2, <1>3, TakenFromFits

(* Of the things still to be looked at, a pile that is gone is empty.      *)
Payable(w, L) == L \subseteq G!Thing /\ \A z \in L \cap Stack : z \in w.live \/ w.amount[z] = 0

LEMMA ContentsPayable ==
  ASSUME NEW w, NEW c, Fits(w, {}, c), NEW b \in G!Box
  PROVE  w.cont[b] \in Seq(G!Thing) /\ Payable(w, Elems(w.cont[b]))
<1>1. w \in G!World /\ Lying(w) = w.live
  BY DEF Fits, Sound
<1>2. w.cont[b] \in Seq(G!Thing) /\ Kept(w, b) \subseteq G!Thing
  BY <1>1, KeptAreThings
<1>3. Kept(w, b) \subseteq w.live
  BY <1>1, <1>2 DEF Lying
<1> QED BY <1>2, <1>3 DEF Kept, Payable

(* A charge under way: what is paid so far has left the world.             *)
Paying(want, c) ==
  {r \in [w : G!World, list : Seq(G!Thing), got : 0..want] :
      /\ c - r.got \in 0..Gold /\ Fits(r.w, {}, c - r.got)
      /\ Payable(r.w, Elems(r.list))}

LEMMA PayingIs ==
  ASSUME NEW want \in Nat, NEW c \in 0..Gold, NEW w, NEW list \in Seq(G!Thing), NEW got \in 0..want,
         c - got \in 0..Gold, Fits(w, {}, c - got), Payable(w, Elems(list))
  PROVE  [w |-> w, list |-> list, got |-> got] \in Paying(want, c)
<1>1. w \in G!World
  BY DEF Fits, Sound
<1> QED BY <1>1 DEF Paying

LEMMA InsidePayable ==
  ASSUME NEW shut \in SUBSET Bag, NEW w, NEW c, Fits(w, {}, c), NEW b \in G!Box
  PROVE  G!Inside(w, b, shut) \in Seq(G!Thing) /\ Payable(w, Elems(G!Inside(w, b, shut)))
<1>1. CASE b \in shut
  BY <1>1 DEF G!Inside, Payable, Elems
<1>2. CASE b \notin shut
  BY <1>2, ContentsPayable DEF G!Inside
<1> QED BY <1>1, <1>2

LEMMA ConsumedStays ==
  ASSUME NEW shut \in SUBSET Bag, NEW want \in Nat, NEW c \in 0..Gold, NEW r \in Paying(want, c)
  PROVE  G!Consumed(r, want, shut) \in Paying(want, c)
<1> DEFINE w == r.w
           list == r.list
           got == r.got
           x == Head(list)
           rest == want - got
           total == c - got
<1>1. /\ w \in G!World /\ list \in Seq(G!Thing) /\ got \in 0..want
      /\ r = [w |-> w, list |-> list, got |-> got]
  BY DEF Paying
<1>2. total \in 0..Gold /\ Fits(w, {}, total) /\ Payable(w, Elems(list))
  BY DEF Paying
<1>c. c \in Nat /\ Gold \in Nat /\ total = c - got
  BY Goods
<1>3. CASE list = <<>> \/ got = want
  BY <1>3 DEF G!Consumed
<1>4. CASE list # <<>> /\ got # want /\ x \in Bag
  <2>1. G!Consumed(r, want, shut) = [r EXCEPT !.list = G!Inside(w, x, shut) \o Tail(list)]
    BY <1>1, <1>4 DEF G!Consumed
  <2> DEFINE q == G!Inside(w, x, shut) \o Tail(list)
  <2>2. G!Consumed(r, want, shut) = [w |-> w, list |-> q, got |-> got]
    <3>1. G!Consumed(r, want, shut) = [r EXCEPT !.list = q]
      BY <2>1
    <3> HIDE DEF q, w, list, got
    <3>2. [[w |-> w, list |-> list, got |-> got] EXCEPT !.list = q]
              = [w |-> w, list |-> q, got |-> got]
      OBVIOUS
    <3>3. G!Consumed(r, want, shut) = [[w |-> w, list |-> list, got |-> got] EXCEPT !.list = q]
      BY <1>1, <3>1, Zenon
    <3> QED BY <3>2, <3>3
  <2>3. /\ G!Inside(w, x, shut) \in Seq(G!Thing) /\ Payable(w, Elems(G!Inside(w, x, shut)))
        /\ Tail(list) \in Seq(G!Thing) /\ Elems(Tail(list)) \subseteq Elems(list)
    <3>1. x \in G!Box
      BY <1>4, Apartness
    <3>2. G!Inside(w, x, shut) \in Seq(G!Thing) /\ Payable(w, Elems(G!Inside(w, x, shut)))
      <4> HIDE DEF w, x, total
      <4> QED BY <1>2, <3>1, InsidePayable
    <3>3. Tail(list) \in Seq(G!Thing) /\ Elems(Tail(list)) \subseteq Elems(list)
      <4> HIDE DEF list
      <4> QED BY <1>1, <1>4, HeadAndTail
    <3> QED BY <3>2, <3>3
  <2>4. q \in Seq(G!Thing) /\ Elems(q) = Elems(G!Inside(w, x, shut)) \cup Elems(Tail(list))
    BY <2>3, Joined
  <2>5. Payable(w, Elems(q))
    BY <1>2, <2>3, <2>4 DEF Payable
  <2> HIDE DEF q, w, list, got, x
  <2> QED BY <1>1, <1>2, <1>c, <2>2, <2>4, <2>5, PayingIs DEF q
<1>5. CASE list # <<>> /\ got # want /\ x \notin Bag
  <2>1. /\ x \in Stack /\ x \in Elems(list) /\ x \in G!Thing
        /\ Tail(list) \in Seq(G!Thing) /\ Elems(Tail(list)) \subseteq Elems(list)
    <3>1. /\ x \in G!Thing /\ x \in Elems(list)
          /\ Tail(list) \in Seq(G!Thing) /\ Elems(Tail(list)) \subseteq Elems(list)
      <4> HIDE DEF list
      <4> QED BY <1>1, <1>5, HeadAndTail
    <3> QED BY <1>5, <3>1, Apartness
  <2>2. rest \in Nat /\ rest > 0 /\ w.amount[x] \in Nat /\ (x \in w.live \/ w.amount[x] = 0)
    <3>1. rest \in Nat /\ rest > 0
      BY <1>1, <1>5
    <3>2. w.amount[x] \in Nat
      BY <1>1, <2>1 DEF G!World
    <3> QED BY <1>2, <2>1, <3>1, <3>2 DEF Payable
  <2>3. CASE w.amount[x] >= rest
    <3> DEFINE a == G!Hide(w, x)
               out == [a EXCEPT !.amount[x] = @ - rest]
               u == IF out.amount[x] = 0 THEN G!Gone(out, x) ELSE G!ReturnToTracked(out, x)
    <3>1. G!Consumed(r, want, shut) = [w |-> u, list |-> <<>>, got |-> want]
      BY <1>1, <1>5, <2>3 DEF G!Consumed
    <3>a. a = G!Hide(w, x)
      OBVIOUS
    <3>b. out = [a EXCEPT !.amount[x] = @ - rest]
      OBVIOUS
    <3>u. u = IF out.amount[x] = 0 THEN G!Gone(out, x) ELSE G!ReturnToTracked(out, x)
      OBVIOUS
    <3> HIDE DEF w, x, total, rest, a, out, u
    <3>2. x \in w.live
      BY <2>2, <2>3
    <3>3. Fits(a, {x}, total)
      <4>1. Fits(a, {} \cup {x}, total)
        BY <1>2, <3>a, <3>2, OutFits
      <4>2. {} \cup {x} = {x}
        OBVIOUS
      <4> QED BY <4>1, <4>2
    <3>4. a.live = w.live /\ a.amount = w.amount
      BY <1>1, <2>1, <3>a, HideIs
    <3>5. a.last[x] \in Stack => a.hand = Null
      <4>1. a.hand = (IF w.hand = x THEN Null ELSE w.hand)
        BY <1>1, <2>1, <3>a, HideIs
      <4>2. x # w.hand => a.last[x] \in G!Box \cup {Ground}
        BY <1>1, <2>1, <3>a, HideIs
      <4> QED BY <4>1, <4>2, Apartness
    <3>6. /\ Fits(out, {x}, total - rest) /\ total - rest \in 0..Gold
          /\ out.live = a.live /\ out.hand = a.hand /\ out.last = a.last
      BY <1>2, <2>1, <2>2, <2>3, <3>b, <3>2, <3>3, <3>4, TakenFromFits
    <3>7. total - rest = c - want
      BY <1>1, <1>c DEF total, rest
    <3>8. {x} \ {x} = {}
      OBVIOUS
    <3>9. Fits(u, {}, c - want)
      <4>1. CASE out.amount[x] = 0
        <5>1. Lost(out, x) = 0 /\ (c - want) - 0 = c - want
          BY <1>c, <4>1 DEF Lost
        <5>2. Fits(u, {x} \ {x}, (c - want) - Lost(out, x))
          BY <2>1, <3>u, <3>6, <3>7, <4>1, GoneFits
        <5> QED BY <3>8, <5>1, <5>2
      <4>2. CASE out.amount[x] # 0
        <5>1. out.last[x] \in Stack => out.hand = Null /\ out.last[x] \notin {x} \ {x}
          BY <3>5, <3>6
        <5>2. Fits(u, {x} \ {x}, total - rest)
          BY <3>u, <3>6, <4>2, <5>1, ReturnFits
        <5> QED BY <3>7, <3>8, <5>2
      <4> QED BY <4>1, <4>2
    <3>10. <<>> \in Seq(G!Thing) /\ Payable(u, Elems(<<>>)) /\ want \in 0..want
      BY DEF Payable, Elems
    <3>11. c - want \in 0..Gold
      BY <3>6, <3>7
    <3> QED BY <3>1, <3>9, <3>10, <3>11, PayingIs
  <2>4. CASE ~(w.amount[x] >= rest)
    <3> DEFINE a == G!Emptied(w, x)
               u == G!Gone(a, x)
               g == got + w.amount[x]
    <3>1. G!Consumed(r, want, shut) = [w |-> u, list |-> Tail(list), got |-> g]
      BY <1>1, <1>5, <2>4 DEF G!Consumed
    <3>a. a = G!Emptied(w, x)
      OBVIOUS
    <3>u. u = G!Gone(a, x)
      OBVIOUS
    <3> HIDE DEF w, x, total, rest, a, u
    <3>2. /\ Fits(a, {}, total - w.amount[x]) /\ total - w.amount[x] \in 0..Gold
          /\ a.live = w.live /\ a.amount[x] = 0
          /\ \A z \in Stack : z # x => a.amount[z] = w.amount[z]
      BY <1>2, <2>1, <2>2, <3>a, EmptiedFits
    <3>3. total - w.amount[x] = c - g /\ g \in 0..want
      BY <1>1, <1>c, <2>2, <2>4 DEF total, rest
    <3>4. Fits(u, {}, c - g) /\ u.live = w.live \ {x} /\ u.amount = a.amount
      <4>1. Lost(a, x) = 0 /\ (total - w.amount[x]) - 0 = total - w.amount[x] /\ {} \ {x} = {}
        BY <1>2, <2>2, <3>2 DEF Lost
      <4>2. /\ Fits(u, {} \ {x}, (total - w.amount[x]) - Lost(a, x))
            /\ u.live = a.live \ {x} /\ u.amount = a.amount
        BY <2>1, <3>u, <3>2, GoneFits
      <4> QED BY <3>2, <3>3, <4>1, <4>2
    <3>5. Payable(u, Elems(Tail(list)))
      BY <1>2, <2>1, <3>2, <3>4 DEF Payable
    <3>6. c - g \in 0..Gold
      BY <3>2, <3>3
    <3>l. Tail(list) \in Seq(G!Thing)
      BY <2>1
    <3> DEFINE t == Tail(list)
    <3>7. G!Consumed(r, want, shut) = [w |-> u, list |-> t, got |-> g]
      BY <3>1
    <3>8. t \in Seq(G!Thing) /\ Payable(u, Elems(t))
      BY <3>l, <3>5
    <3> HIDE DEF g, list, t
    <3>9. [w |-> u, list |-> t, got |-> g] \in Paying(want, c)
      BY <3>3, <3>4, <3>6, <3>8, PayingIs
    <3> QED BY <3>7, <3>9
  <2> QED BY <2>3, <2>4
<1> QED BY <1>3, <1>4, <1>5

LEMMA ConsumeFits ==
  ASSUME NEW shut \in SUBSET Bag, NEW w, NEW c \in 0..Gold, Fits(w, {}, c), NEW b \in G!Box, NEW want \in Nat,
         NEW r, r = G!ConsumeResources(w, b, want, shut)
  PROVE  Fits(r.w, {}, c - r.got) /\ r.got \in Nat /\ c - r.got \in 0..Gold
<1> DEFINE start == [w |-> w, list |-> w.cont[b], got |-> 0]
<1>1. c \in Nat /\ 0 \in 0..want /\ c - 0 = c
  BY Goods
<1>2. w.cont[b] \in Seq(G!Thing) /\ Payable(w, Elems(w.cont[b]))
  BY ContentsPayable
<1>3. start \in Paying(want, c)
  <2> DEFINE list == w.cont[b]
  <2>1. list \in Seq(G!Thing) /\ Payable(w, Elems(list))
    BY <1>2
  <2> HIDE DEF list
  <2>2. [w |-> w, list |-> list, got |-> 0] \in Paying(want, c)
    BY <1>1, <2>1, PayingIs
  <2> QED BY <2>2 DEF list
<1>4. r = G!AllConsumed(start, want, shut)
  BY DEF G!ConsumeResources, G!Consume
<1> HIDE DEF start
<1>5. r \in Paying(want, c)
  BY <1>3, <1>4, ConsumedStays, ConsumingEnds
<1> QED BY <1>5 DEF Paying

(* A deletion under way.                                                   *)
Deleting(c) ==
  {r \in [w : G!World, list : Seq(G!Thing), gold : Nat] :
      c - r.gold \in 0..Gold /\ Fits(r.w, {}, c - r.gold)}

LEMMA DeletedOneStays ==
  ASSUME NEW c \in 0..Gold, NEW r \in Deleting(c)
  PROVE  G!DeletedOne(r) \in Deleting(c)
<1> DEFINE w == r.w
           list == r.list
           gold == r.gold
           x == Head(list)
<1>1. /\ w \in G!World /\ list \in Seq(G!Thing) /\ gold \in Nat
      /\ c - gold \in 0..Gold /\ Fits(w, {}, c - gold)
  BY DEF Deleting
<1>2. CASE list = <<>>
  BY <1>2 DEF G!DeletedOne
<1>3. CASE list # <<>> /\ x \in Bag /\ w.cont[x] # <<>>
  <2> DEFINE q == w.cont[x] \o list
  <2>1. G!DeletedOne(r) = [r EXCEPT !.list = q]
    BY <1>3 DEF G!DeletedOne
  <2>2. w.cont[x] \in Seq(G!Thing)
    <3>1. x \in G!Box
      BY <1>3, Apartness
    <3> QED BY <1>1, <3>1 DEF G!World
  <2>3. q \in Seq(G!Thing)
    BY <1>1, <2>2, Joined
  <2> HIDE DEF q
  <2> QED BY <2>1, <2>3 DEF Deleting
<1>4. CASE list # <<>> /\ ~(x \in Bag /\ w.cont[x] # <<>>)
  <2> DEFINE u == G!Gone(w, x)
             g == gold + Lost(w, x)
             t == Tail(list)
  <2>1. G!DeletedOne(r) = [w |-> u, list |-> t, gold |-> g]
    BY <1>4 DEF G!DeletedOne, Lost, Piles
  <2>2. x \in G!Thing /\ t \in Seq(G!Thing)
    <3> HIDE DEF list
    <3> QED BY <1>1, <1>4, HeadAndTail
  <2>u. u = G!Gone(w, x)
    OBVIOUS
  <2> HIDE DEF u, w, x
  <2>3. Fits(u, {} \ {x}, (c - gold) - Lost(w, x)) /\ Lost(w, x) \in 0..(c - gold)
    BY <1>1, <2>2, <2>u, GoneFits
  <2>4. /\ {} \ {x} = {} /\ (c - gold) - Lost(w, x) = c - g /\ g \in Nat /\ c - g \in 0..Gold
    <3>1. c \in Nat /\ Gold \in Nat
      BY Goods
    <3>2. Lost(w, x) \in Nat /\ Lost(w, x) <= c - gold
      BY <1>1, <2>3
    <3> HIDE DEF gold
    <3> QED BY <1>1, <3>1, <3>2
  <2>5. Fits(u, {}, c - g) /\ u \in G!World
    <3>1. Fits(u, {}, c - g)
      BY <2>3, <2>4
    <3> QED BY <3>1 DEF Fits, Sound
  <2> HIDE DEF g, t
  <2>6. [w |-> u, list |-> t, gold |-> g] \in Deleting(c)
    BY <2>2, <2>4, <2>5 DEF Deleting
  <2> QED BY <2>1, <2>6
<1> QED BY <1>2, <1>3, <1>4

LEMMA DeleteFits ==
  ASSUME NEW w, NEW c \in 0..Gold, Fits(w, {}, c), NEW x \in G!Thing, NEW r, r = G!Deleted(w, x)
  PROVE  Fits(r.w, {}, c - r.gold) /\ r.gold \in Nat /\ c - r.gold \in 0..Gold
<1> DEFINE start == [w |-> w, list |-> <<x>>, gold |-> 0]
<1>1. c \in Nat /\ c - 0 = c /\ w \in G!World /\ <<x>> \in Seq(G!Thing)
  BY Goods DEF Fits, Sound
<1>2. start \in Deleting(c)
  BY <1>1 DEF Deleting
<1>3. r = G!AllDeleted(start)
  BY DEF G!Deleted
<1> HIDE DEF start
<1>4. r \in Deleting(c)
  BY <1>2, <1>3, DeletedOneStays, DeletingEnds
<1> QED BY <1>4 DEF Deleting

-----------------------------------------------------------------------------
(* Rebuilding the caches.                                                  *)

LEMMA AllOutEnds ==
  ASSUME NEW w, NEW list, NEW refresh, Len(list) \in Nat, NEW Z, w \in Z[0],
         \A k \in 1..Len(list) : \A z \in Z[k - 1] : G!TakenOut(z, list[k], refresh) \in Z[k]
  PROVE  G!AllOut(w, list, refresh) \in Z[Len(list)]
<1> DEFINE n == Len(list)
           f == [k \in 1..n |-> [z \in Z[k - 1] |-> G!TakenOut(z, list[k], refresh)]]
           Run(r) == r = [k \in 0..n |-> IF k = 0 THEN w ELSE G!TakenOut(r[k - 1], list[k], refresh)]
           r == CHOOSE r : Run(r)
<1>0. G!AllOut(w, list, refresh) = r[n]
  BY DEF G!AllOut
<1> HIDE DEF r
<1>1. n \in Nat
  OBVIOUS
<1>s. \A k \in 1..n : \A z \in Z[k - 1] : G!TakenOut(z, list[k], refresh) \in Z[k]
  OBVIOUS
<1> HIDE DEF n
<1>2. \E h : Run(h)
  <2>0. \A k \in 1..n : k - 1 \in 0..n /\ k \in 0..n
    BY <1>1
  <2>1. \A k \in 1..n : \A z \in Z[k - 1] : f[k][z] \in Z[k]
    BY <1>s, <2>0
  <2>2. w \in Z[0]
    BY <1>1
  <2>3. PICK h : Iterates(h, w, f, n) /\ \A k \in 1..n : h[k - 1] \in Z[k - 1]
    <3> HIDE DEF f
    <3> QED BY <1>1, <2>1, <2>2, Repeated
  <2>4. h = [k \in 0..n |-> h[k]] /\ h[0] = w /\ \A k \in 1..n : h[k] = f[k][h[k - 1]]
    <3> HIDE DEF f
    <3> QED BY ONLY <1>1, <2>3 DEF Iterates
  <2>5. ASSUME NEW k \in 1..n
        PROVE  h[k] = G!TakenOut(h[k - 1], list[k], refresh)
    <3>1. f[k][h[k - 1]] = G!TakenOut(h[k - 1], list[k], refresh)
      BY <2>0, <2>3
    <3> HIDE DEF f
    <3> QED BY <2>4, <3>1
  <2>6. ASSUME NEW k \in 0..n
        PROVE  h[k] = IF k = 0 THEN w ELSE G!TakenOut(h[k - 1], list[k], refresh)
    <3>1. k = 0 \/ k \in 1..n
      BY <1>1
    <3> HIDE DEF f
    <3> QED BY <2>4, <2>5, <3>1
  <2> HIDE DEF f
  <2> QED BY <2>4, <2>6
<1>3. Run(r)
  <2> HIDE DEF Run
  <2> QED BY <1>2 DEF r
<1>4. r[0] = w /\ \A k \in 1..n : r[k] = G!TakenOut(r[k - 1], list[k], refresh)
  BY <1>1, <1>3
<1>5. r[n] \in Z[n]
  <2>1. r[0] \in Z[0] /\ \A k \in 1..n : r[k - 1] \in Z[k - 1] => r[k] \in Z[k]
    BY <1>s, <1>4
  <2> HIDE DEF Run
  <2>2. \A k \in 0..n : r[k] \in Z[k]
    BY <1>1, <2>1, Stepwise
  <2> QED BY <1>1, <2>2
<1> QED BY <1>0, <1>5 DEF n

LEMMA AllBackEnds ==
  ASSUME NEW w, NEW list, Len(list) \in Nat, NEW Z, w \in Z[0],
         \A k \in 1..Len(list) : \A z \in Z[k - 1] : G!ReturnToTracked(z, list[k]) \in Z[k]
  PROVE  G!AllBack(w, list) \in Z[Len(list)]
<1> DEFINE n == Len(list)
           f == [k \in 1..n |-> [z \in Z[k - 1] |-> G!ReturnToTracked(z, list[k])]]
           Run(r) == r = [k \in 0..n |-> IF k = 0 THEN w ELSE G!ReturnToTracked(r[k - 1], list[k])]
           r == CHOOSE r : Run(r)
<1>0. G!AllBack(w, list) = r[n]
  BY DEF G!AllBack
<1> HIDE DEF r
<1>1. n \in Nat
  OBVIOUS
<1>s. \A k \in 1..n : \A z \in Z[k - 1] : G!ReturnToTracked(z, list[k]) \in Z[k]
  OBVIOUS
<1> HIDE DEF n
<1>2. \E h : Run(h)
  <2>0. \A k \in 1..n : k - 1 \in 0..n /\ k \in 0..n
    BY <1>1
  <2>1. \A k \in 1..n : \A z \in Z[k - 1] : f[k][z] \in Z[k]
    BY <1>s, <2>0
  <2>2. w \in Z[0]
    BY <1>1
  <2>3. PICK h : Iterates(h, w, f, n) /\ \A k \in 1..n : h[k - 1] \in Z[k - 1]
    <3> HIDE DEF f
    <3> QED BY <1>1, <2>1, <2>2, Repeated
  <2>4. h = [k \in 0..n |-> h[k]] /\ h[0] = w /\ \A k \in 1..n : h[k] = f[k][h[k - 1]]
    <3> HIDE DEF f
    <3> QED BY ONLY <1>1, <2>3 DEF Iterates
  <2>5. ASSUME NEW k \in 1..n
        PROVE  h[k] = G!ReturnToTracked(h[k - 1], list[k])
    <3>1. f[k][h[k - 1]] = G!ReturnToTracked(h[k - 1], list[k])
      BY <2>0, <2>3
    <3> HIDE DEF f
    <3> QED BY <2>4, <3>1
  <2>6. ASSUME NEW k \in 0..n
        PROVE  h[k] = IF k = 0 THEN w ELSE G!ReturnToTracked(h[k - 1], list[k])
    <3>1. k = 0 \/ k \in 1..n
      BY <1>1
    <3> HIDE DEF f
    <3> QED BY <2>4, <2>5, <3>1
  <2> HIDE DEF f
  <2> QED BY <2>4, <2>6
<1>3. Run(r)
  <2> HIDE DEF Run
  <2> QED BY <1>2 DEF r
<1>4. r[0] = w /\ \A k \in 1..n : r[k] = G!ReturnToTracked(r[k - 1], list[k])
  BY <1>1, <1>3
<1>5. r[n] \in Z[n]
  <2>1. r[0] \in Z[0] /\ \A k \in 1..n : r[k - 1] \in Z[k - 1] => r[k] \in Z[k]
    BY <1>s, <1>4
  <2> HIDE DEF Run
  <2>2. \A k \in 0..n : r[k] \in Z[k]
    BY <1>1, <2>1, Stepwise
  <2> QED BY <1>1, <2>2
<1> QED BY <1>0, <1>5 DEF n

LEMMA RefreshCounts ==
  ASSUME NEW max \in Nat, NEW Z, G!NotRefreshed \in Z[0],
         \A k \in 1..max : \A r \in Z[k - 1] : G!Refreshed(r) \in Z[k]
  PROVE  G!Refresh(max) \in Z[max]
<1> DEFINE n == max
           f == [k \in 1..n |-> [r \in Z[k - 1] |-> G!Refreshed(r)]]
           Run(r) == r = [k \in 0..n |-> IF k = 0 THEN G!NotRefreshed ELSE G!Refreshed(r[k - 1])]
           r == CHOOSE r : Run(r)
<1>0. G!Refresh(max) = r[n]
  BY DEF G!Refresh
<1> HIDE DEF r
<1>1. /\ n \in Nat /\ G!NotRefreshed \in Z[0]
      /\ \A k \in 1..n : \A z \in Z[k - 1] : G!Refreshed(z) \in Z[k]
  OBVIOUS
<1> HIDE DEF n
<1>2. \E h : Run(h)
  <2>0. \A k \in 1..n : k - 1 \in 0..n /\ k \in 0..n
    BY <1>1
  <2>1. \A k \in 1..n : \A z \in Z[k - 1] : f[k][z] \in Z[k]
    BY <1>1
  <2>3. PICK h : Iterates(h, G!NotRefreshed, f, n) /\ \A k \in 1..n : h[k - 1] \in Z[k - 1]
    <3> HIDE DEF f
    <3> QED BY <1>1, <2>1, Repeated
  <2>4. h = [k \in 0..n |-> h[k]] /\ h[0] = G!NotRefreshed /\ \A k \in 1..n : h[k] = f[k][h[k - 1]]
    <3> HIDE DEF f
    <3> QED BY <1>1, <2>3 DEF Iterates
  <2>5. ASSUME NEW k \in 1..n
        PROVE  h[k] = G!Refreshed(h[k - 1])
    <3>1. f[k][h[k - 1]] = G!Refreshed(h[k - 1])
      BY <2>0, <2>3
    <3> HIDE DEF f
    <3> QED BY <2>4, <3>1
  <2>6. ASSUME NEW k \in 0..n
        PROVE  h[k] = IF k = 0 THEN G!NotRefreshed ELSE G!Refreshed(h[k - 1])
    <3>1. k = 0 \/ k \in 1..n
      BY <1>1
    <3> HIDE DEF f
    <3> QED BY <2>4, <2>5, <3>1
  <2> HIDE DEF f
  <2> QED BY <2>4, <2>6
<1>3. Run(r)
  <2> HIDE DEF Run
  <2> QED BY <1>2 DEF r
<1>4. r[0] = G!NotRefreshed /\ \A k \in 1..n : r[k] = G!Refreshed(r[k - 1])
  BY <1>1, <1>3
<1>5. r[n] \in Z[n]
  <2>1. r[0] \in Z[0] /\ \A k \in 1..n : r[k - 1] \in Z[k - 1] => r[k] \in Z[k]
    BY <1>1, <1>4
  <2> HIDE DEF Run
  <2>2. \A k \in 0..n : r[k] \in Z[k]
    BY <1>1, <2>1, Stepwise
  <2> QED BY <1>1, <2>2
<1> QED BY <1>0, <1>1, <1>5 DEF n

LEMMA RefreshEnds ==
  ASSUME NEW max \in Nat, NEW Z, G!NotRefreshed \in Z, \A r \in Z : G!Refreshed(r) \in Z
  PROVE  G!Refresh(max) \in Z
<1> DEFINE Y == [k \in 0..max |-> Z]
<1>1. G!NotRefreshed \in Y[0] /\ Y[max] = Z /\ \A k \in 1..max : \A r \in Y[k - 1] : G!Refreshed(r) \in Y[k]
  OBVIOUS
<1> HIDE DEF Y
<1>2. G!Refresh(max) \in Y[max]
  BY <1>1, RefreshCounts
<1> QED BY <1>1, <1>2

LEMMA ReturnStays ==
  ASSUME NEW w \in G!World, NEW x \in G!Thing
  PROVE  G!ReturnToTracked(w, x) \in G!World
<1> DEFINE Z == [w : G!World, x : G!Thing]
           start == [w |-> w, x |-> x]
<1>1. start \in Z
  OBVIOUS
<1>2. ASSUME NEW r \in Z
      PROVE  G!Rejoined(r) \in Z
  <2> DEFINE y == r.w.last[r.x]
             m == G!Merged(r.w, r.x, y)
  <2>1. r.w \in G!World /\ r.x \in G!Thing
    OBVIOUS
  <2>2. CASE y \in Stack \cap r.w.live /\ G!Stacks(r.w, r.x, y)
    <3>1. r.x \in Stack /\ y \in Stack /\ r.x # y /\ y \in G!Thing
      BY <2>2, Apartness DEF G!Stacks
    <3>2. PICK a, out : a = G!HideIfPlaced(r.w, y) /\ out = G!HideIfPlaced(a, r.x)
      OBVIOUS
    <3>3. m \in G!World
      <4> HIDE DEF y
      <4> QED BY <2>1, <3>1, <3>2, MergedIs
    <3>4. G!Rejoined(r) = [w |-> m, x |-> y]
      BY <2>2 DEF G!Rejoined
    <3> HIDE DEF m, y
    <3> QED BY <3>1, <3>3, <3>4
  <2>3. CASE ~(y \in Stack \cap r.w.live /\ G!Stacks(r.w, r.x, y))
    BY <2>3 DEF G!Rejoined
  <2> QED BY <2>2, <2>3
<1> DEFINE end == G!AllRejoined(start)
<1>3. end \in Z
  <2> HIDE DEF Z, start
  <2> QED BY <1>1, <1>2, RejoiningEnds
<1>4. G!ReturnToTracked(w, x) = G!PutBack(end.w, end.x)
  BY DEF G!ReturnToTracked
<1> HIDE DEF end
<1>5. end.w \in G!World /\ end.x \in G!Thing
  BY <1>3
<1> QED BY <1>4, <1>5, PutBackIs DEF PutAway

(* The things of X are out of their places besides those of O, and each    *)
(* remembers a place; nothing else that matters has changed since w.       *)
Out(w, O, c, X) ==
  {u \in G!World :
     /\ Fits(u, O \cup X, c) /\ u.live = w.live /\ u.hand = w.hand
     /\ \A z \in O : u.last[z] = w.last[z]
     /\ \A z \in X : u.last[z] \notin Stack}

(* What rebuilds the caches of a box, and changes nothing else.            *)
Tidy(g) ==
  /\ g \in [G!World -> [G!Box -> G!World]]
  /\ \A w \in G!World : \A b \in G!Box : \A O, c :
        Fits(w, O, c) => g[w][b] \in Out(w, O, c, {})

LEMMA TakenOutStays ==
  ASSUME NEW w \in G!World, NEW O, NEW c, NEW X, NEW u \in Out(w, O, c, X), NEW g, Tidy(g),
         NEW x \in w.live, x \notin O \cup X, x # w.hand
  PROVE  G!TakenOut(u, x, g) \in Out(w, O, c, X \cup {x})
<1> DEFINE v == G!Hide(u, x)
           r == g[v][x]
           P == O \cup (X \cup {x})
<1>1. /\ u \in G!World /\ x \in G!Thing /\ x \in u.live /\ O \cup X \subseteq G!Thing /\ x # u.hand
      /\ Fits(u, O \cup X, c) /\ u.live = w.live /\ u.hand = w.hand
      /\ \A z \in O : u.last[z] = w.last[z]
      /\ \A z \in X : u.last[z] \notin Stack
  BY DEF Out, Fits, Sound, G!World
<1>2. Fits(v, P, c)
  <2>1. Fits(v, (O \cup X) \cup {x}, c)
    BY <1>1, OutFits
  <2>2. (O \cup X) \cup {x} = P
    OBVIOUS
  <2> HIDE DEF P, v
  <2> QED BY <2>1, <2>2
<1>v. v = G!Hide(u, x)
  OBVIOUS
<1> HIDE DEF v
<1>3. v \in G!World /\ v.live = w.live /\ v.hand = w.hand /\ v.last[x] \in G!Box \cup {Ground}
  BY <1>1, <1>v, HideIs
<1>4. \A z \in G!Thing : z # x => v.last[z] = u.last[z]
  BY <1>1, <1>v, HideIs
<1>5. v.last[x] \notin Stack /\ (\A z \in O : v.last[z] = w.last[z]) /\ (\A z \in X : v.last[z] \notin Stack)
  BY <1>1, <1>3, <1>4, Apartness
<1>6. CASE x \in G!Box
  <2>1. r \in Out(v, P, c, {})
    BY <1>2, <1>3, <1>6 DEF Tidy
  <2> HIDE DEF r
  <2>2. /\ r \in G!World /\ Fits(r, P \cup {}, c) /\ r.live = v.live /\ r.hand = v.hand
        /\ \A z \in P : r.last[z] = v.last[z]
    BY <2>1 DEF Out
  <2>3. P \cup {} = P
    OBVIOUS
  <2>4. Fits(r, P, c)
    <3> HIDE DEF P
    <3> QED BY <2>2, <2>3
  <2>5. r \in Out(w, O, c, X \cup {x})
    BY <1>3, <1>5, <2>2, <2>4 DEF Out
  <2> QED BY <1>6, <1>v, <2>5 DEF G!TakenOut, r
<1>7. CASE x \notin G!Box
  <2>1. v \in Out(w, O, c, X \cup {x})
    BY <1>2, <1>3, <1>5 DEF Out
  <2> QED BY <1>7, <1>v, <2>1 DEF G!TakenOut
<1> QED BY <1>6, <1>7

LEMMA ReturnedStays ==
  ASSUME NEW w \in G!World, NEW O, NEW c, NEW X, NEW u \in Out(w, O, c, X), NEW x \in X, x \notin O
  PROVE  G!ReturnToTracked(u, x) \in Out(w, O, c, X \ {x})
<1> DEFINE v == G!ReturnToTracked(u, x)
<1>v. v = G!ReturnToTracked(u, x)
  OBVIOUS
<1> HIDE DEF v
<1>1. /\ Fits(u, O \cup X, c) /\ u.live = w.live /\ u.hand = w.hand /\ x \in O \cup X
      /\ \A z \in O : u.last[z] = w.last[z]
      /\ \A z \in X : u.last[z] \notin Stack
  BY DEF Out
<1>2. /\ Fits(v, (O \cup X) \ {x}, c) /\ v.hand = u.hand /\ v.live = u.live
      /\ \A z \in (O \cup X) \ {x} : v.last[z] = u.last[z]
  <2> DEFINE P == O \cup X
  <2>1. /\ Fits(u, P, c) /\ x \in P /\ u.last[x] \notin Stack
        /\ u.last[x] \in Stack => u.hand = Null /\ u.last[x] \notin P \ {x}
    BY <1>1
  <2> HIDE DEF P
  <2>2. /\ Fits(v, P \ {x}, c) /\ v.hand = u.hand /\ v.live = u.live
        /\ \A z \in P \ {x} : v.last[z] = u.last[z]
    BY <1>v, <2>1, ReturnFits
  <2> QED BY <2>2 DEF P
<1>3. (O \cup X) \ {x} = O \cup (X \ {x})
  OBVIOUS
<1>4. Fits(v, O \cup (X \ {x}), c) /\ v \in G!World
  BY <1>2, <1>3 DEF Fits, Sound
<1>5. (\A z \in O : v.last[z] = w.last[z]) /\ (\A z \in X \ {x} : v.last[z] \notin Stack)
  BY <1>1, <1>2
<1>6. v \in Out(w, O, c, X \ {x})
  BY <1>1, <1>2, <1>4, <1>5 DEF Out
<1> QED BY <1>6, <1>v

LEMMA ClearedStays ==
  ASSUME NEW w \in G!World, NEW b \in G!Box \cup {Body}
  PROVE  SamePlaces(w, [w EXCEPT !.stored[b] = 0])
<1> DEFINE f == [w.stored EXCEPT ![b] = 0]
<1>1. f \in [G!Box \cup {Body} -> Nat] /\ [w EXCEPT !.stored[b] = 0] = [w EXCEPT !.stored = f]
  BY DEF G!World
<1> HIDE DEF f
<1> QED BY <1>1, StoredIsLocal

LEMMA SameFits ==
  ASSUME NEW w, NEW O, NEW c, Fits(w, O, c), NEW v, SamePlaces(w, v)
  PROVE  Fits(v, O, c)
<1>1. Sound(v, O)
  <2>1. \A b \in G!Box : Kept(v, b) = Kept(w, b) /\ v.cont[b] = w.cont[b]
    BY DEF Kept, SamePlaces
  <2>2. Lying(v) = Lying(w) /\ (Apart(w) => Apart(v))
    BY <2>1 DEF Lying, Apart, SamePlaces
  <2> QED BY <2>2 DEF Sound, Fits, SamePlaces
<1> QED BY <1>1, FitsAlike DEF SamePlaces

First(q, k) == {q[i] : i \in 1..k}
Rest(q, k) == {q[i] : i \in (k + 1)..Len(q)}

LEMMA FirstAndRest ==
  ASSUME NEW T, NEW q \in Seq(T), OneOf(q)
  PROVE  /\ First(q, 0) = {} /\ First(q, Len(q)) = Elems(q)
         /\ Rest(q, 0) = Elems(q) /\ Rest(q, Len(q)) = {}
         /\ \A k \in 1..Len(q) : /\ q[k] \notin First(q, k - 1) /\ First(q, k) = First(q, k - 1) \cup {q[k]}
                                 /\ q[k] \in Rest(q, k - 1) /\ Rest(q, k) = Rest(q, k - 1) \ {q[k]}
<1>1. Len(q) \in Nat /\ DOMAIN q = 1..Len(q)
  OBVIOUS
<1>2. First(q, 0) = {} /\ Rest(q, Len(q)) = {}
  BY <1>1 DEF First, Rest
<1>3. First(q, Len(q)) = Elems(q) /\ Rest(q, 0) = Elems(q)
  BY <1>1 DEF First, Rest, Elems
<1>4. ASSUME NEW k \in 1..Len(q)
      PROVE  /\ q[k] \notin First(q, k - 1) /\ First(q, k) = First(q, k - 1) \cup {q[k]}
             /\ q[k] \in Rest(q, k - 1) /\ Rest(q, k) = Rest(q, k - 1) \ {q[k]}
  <2>1. \A i \in 1..Len(q) : q[i] = q[k] => i = k
    BY <1>1 DEF OneOf
  <2>2. 1..k = 1..(k - 1) \cup {k} /\ k \notin 1..(k - 1) /\ 1..(k - 1) \subseteq 1..Len(q)
    BY <1>1
  <2>3. /\ ((k - 1) + 1)..Len(q) = (k + 1)..Len(q) \cup {k} /\ k \notin (k + 1)..Len(q)
        /\ (k + 1)..Len(q) \subseteq 1..Len(q) /\ k \in ((k - 1) + 1)..Len(q)
    BY <1>1
  <2>4. q[k] \notin First(q, k - 1) /\ First(q, k) = First(q, k - 1) \cup {q[k]}
    BY <2>1, <2>2 DEF First
  <2>5. q[k] \in Rest(q, k - 1) /\ Rest(q, k) = Rest(q, k - 1) \ {q[k]}
    BY <2>1, <2>3 DEF Rest
  <2> QED BY <2>4, <2>5
<1> QED BY <1>2, <1>3, <1>4

LEMMA AllOutStays ==
  ASSUME NEW w \in G!World, NEW q \in Seq(G!Thing), NEW g, Tidy(g)
  PROVE  G!AllOut(w, q, g) \in G!World
<1> DEFINE Z == [k \in 0..Len(q) |-> G!World]
<1>1. Len(q) \in Nat /\ \A k \in 1..Len(q) : k \in 0..Len(q) /\ k - 1 \in 0..Len(q) /\ q[k] \in G!Thing
  OBVIOUS
<1>2. ASSUME NEW u \in G!World, NEW x \in G!Thing
      PROVE  G!TakenOut(u, x, g) \in G!World
  <2> DEFINE v == G!Hide(u, x)
  <2>1. v = G!Hide(u, x)
    OBVIOUS
  <2> HIDE DEF v
  <2>2. v \in G!World
    BY <2>1, HideIs
  <2>3. x \in G!Box => g[v][x] \in G!World
    BY <2>2 DEF Tidy
  <2> QED BY <2>1, <2>2, <2>3 DEF G!TakenOut
<1>3. w \in Z[0] /\ \A k \in 1..Len(q) : \A z \in Z[k - 1] : G!TakenOut(z, q[k], g) \in Z[k]
  BY <1>1, <1>2
<1>4. Z[Len(q)] = G!World
  BY <1>1
<1> HIDE DEF Z
<1>5. G!AllOut(w, q, g) \in Z[Len(q)]
  BY <1>1, <1>3, AllOutEnds
<1> QED BY <1>4, <1>5

LEMMA AllBackStays ==
  ASSUME NEW w \in G!World, NEW q \in Seq(G!Thing)
  PROVE  G!AllBack(w, q) \in G!World
<1> DEFINE Z == [k \in 0..Len(q) |-> G!World]
<1>1. Len(q) \in Nat /\ \A k \in 1..Len(q) : k \in 0..Len(q) /\ k - 1 \in 0..Len(q) /\ q[k] \in G!Thing
  OBVIOUS
<1>2. w \in Z[0] /\ \A k \in 1..Len(q) : \A z \in Z[k - 1] : G!ReturnToTracked(z, q[k]) \in Z[k]
  BY <1>1, ReturnStays
<1>3. Z[Len(q)] = G!World
  BY <1>1
<1> HIDE DEF Z
<1>4. G!AllBack(w, q) \in Z[Len(q)]
  BY <1>1, <1>2, AllBackEnds
<1> QED BY <1>3, <1>4

(* All things of a list out, and all back.                                 *)
LEMMA AllOutFits ==
  ASSUME NEW w \in G!World, NEW O, NEW c, Fits(w, O, c), NEW q \in Seq(G!Thing), OneOf(q),
         Elems(q) \subseteq w.live \ O, w.hand \notin Elems(q), NEW g, Tidy(g)
  PROVE  G!AllOut(w, q, g) \in Out(w, O, c, Elems(q))
<1> DEFINE Z == [k \in 0..Len(q) |-> Out(w, O, c, First(q, k))]
<1>1. /\ Len(q) \in Nat
      /\ \A k \in 1..Len(q) : k \in 0..Len(q) /\ k - 1 \in 0..Len(q) /\ q[k] \in Elems(q)
  BY DEF Elems
<1>2. w \in Z[0]
  <2>1. O \cup {} = O
    OBVIOUS
  <2>2. w \in Out(w, O, c, {})
    BY <2>1 DEF Out
  <2>3. First(q, 0) = {}
    BY FirstAndRest
  <2>4. w \in Out(w, O, c, First(q, 0))
    BY <2>2, <2>3, Zenon
  <2>5. Z[0] = Out(w, O, c, First(q, 0))
    BY <1>1
  <2> QED BY <2>4, <2>5
<1>3. ASSUME NEW k \in 1..Len(q), NEW u \in Z[k - 1]
      PROVE  G!TakenOut(u, q[k], g) \in Z[k]
  <2> DEFINE x == q[k]
             X == First(q, k - 1)
  <2>1. u \in Out(w, O, c, X) /\ Z[k] = Out(w, O, c, First(q, k))
    BY <1>1
  <2>2. x \in w.live /\ x \notin O /\ x # w.hand
    BY <1>1
  <2>3. x \notin X /\ First(q, k) = X \cup {x}
    BY FirstAndRest
  <2> HIDE DEF Z, x, X
  <2>4. G!TakenOut(u, x, g) \in Out(w, O, c, X \cup {x})
    BY <2>1, <2>2, <2>3, TakenOutStays
  <2> QED BY <2>1, <2>3, <2>4 DEF x
<1>4. Z[Len(q)] = Out(w, O, c, Elems(q))
  BY <1>1, FirstAndRest
<1> HIDE DEF Z
<1>5. G!AllOut(w, q, g) \in Z[Len(q)]
  BY <1>1, <1>2, <1>3, AllOutEnds
<1> QED BY <1>4, <1>5

LEMMA AllBackFits ==
  ASSUME NEW w \in G!World, NEW O, NEW c, NEW q \in Seq(G!Thing), OneOf(q), Elems(q) \cap O = {},
         NEW m \in Out(w, O, c, Elems(q))
  PROVE  G!AllBack(m, q) \in Out(w, O, c, {})
<1> DEFINE Z == [k \in 0..Len(q) |-> Out(w, O, c, Rest(q, k))]
<1>1. /\ Len(q) \in Nat
      /\ \A k \in 1..Len(q) : k \in 0..Len(q) /\ k - 1 \in 0..Len(q) /\ q[k] \in Elems(q)
  BY DEF Elems
<1>2. m \in Z[0]
  BY <1>1, FirstAndRest
<1>3. ASSUME NEW k \in 1..Len(q), NEW u \in Z[k - 1]
      PROVE  G!ReturnToTracked(u, q[k]) \in Z[k]
  <2> DEFINE x == q[k]
             X == Rest(q, k - 1)
  <2>1. u \in Out(w, O, c, X) /\ Z[k] = Out(w, O, c, Rest(q, k))
    BY <1>1
  <2>2. x \notin O
    BY <1>1
  <2>3. x \in X /\ Rest(q, k) = X \ {x}
    BY FirstAndRest
  <2> HIDE DEF Z, x, X
  <2>4. G!ReturnToTracked(u, x) \in Out(w, O, c, X \ {x})
    BY <2>1, <2>2, <2>3, ReturnedStays
  <2> QED BY <2>1, <2>3, <2>4 DEF x
<1>4. Z[Len(q)] = Out(w, O, c, {})
  <2>1. Rest(q, Len(q)) = {}
    BY FirstAndRest
  <2>2. Z[Len(q)] = Out(w, O, c, Rest(q, Len(q)))
    BY <1>1
  <2> QED BY <2>1, <2>2, Zenon
<1> HIDE DEF Z
<1>5. G!AllBack(m, q) \in Z[Len(q)]
  BY <1>1, <1>2, <1>3, AllBackEnds
<1> QED BY <1>4, <1>5

LEMMA RefreshedIsTidy ==
  ASSUME NEW g, Tidy(g)
  PROVE  Tidy(G!Refreshed(g))
<1> DEFINE Opened(w, b) == G!AllOut(w, w.cont[b], g)
           Unweighed(w, b) == [Opened(w, b) EXCEPT !.stored[b] = 0]
           r == G!Refreshed(g)
<1>1. r = [w \in G!World |-> [b \in G!Box |-> G!AllBack(Unweighed(w, b), w.cont[b])]]
  BY DEF G!Refreshed
<1> HIDE DEF r, Unweighed
<1>2. ASSUME NEW w \in G!World, NEW b \in G!Box
      PROVE  /\ w.cont[b] \in Seq(G!Thing) /\ Opened(w, b) \in G!World
             /\ SamePlaces(Opened(w, b), Unweighed(w, b))
             /\ G!AllBack(Unweighed(w, b), w.cont[b]) \in G!World
  <2>1. w.cont[b] \in Seq(G!Thing)
    BY DEF G!World
  <2>2. Opened(w, b) \in G!World
    <3> DEFINE q == w.cont[b]
    <3> HIDE DEF q
    <3> QED BY <2>1, AllOutStays DEF q
  <2> HIDE DEF Opened
  <2>3. SamePlaces(Opened(w, b), Unweighed(w, b))
    BY <2>2, ClearedStays DEF Unweighed
  <2>4. Unweighed(w, b) \in G!World
    BY <2>3 DEF SamePlaces
  <2> QED BY <2>1, <2>2, <2>3, <2>4, AllBackStays
<1>3. r \in [G!World -> [G!Box -> G!World]]
  BY <1>1, <1>2
<1>4. ASSUME NEW w \in G!World, NEW b \in G!Box, NEW O, NEW c, Fits(w, O, c)
      PROVE  r[w][b] \in Out(w, O, c, {})
  <2> DEFINE q == w.cont[b]
             m == Unweighed(w, b)
             o == Opened(w, b)
  <2>1. q \in Seq(G!Thing) /\ o \in G!World /\ SamePlaces(o, m)
    BY <1>2
  <2>2. OneOf(q) /\ Elems(q) \subseteq w.live \ O /\ w.hand \notin Elems(q)
    <3>1. Apart(w) /\ Lying(w) = w.live \ O
      BY <1>4 DEF Fits, Sound
    <3>2. Elems(q) = Kept(w, b) /\ Elems(q) \subseteq G!Thing
      BY KeptAreThings DEF Kept
    <3> QED BY <3>1, <3>2 DEF Apart, Lying
  <2>3. o = G!AllOut(w, q, g)
    OBVIOUS
  <2>4. r[w][b] = G!AllBack(m, q)
    BY <1>1
  <2> HIDE DEF q, m, o
  <2>5. o \in Out(w, O, c, Elems(q))
    BY <1>4, <2>1, <2>2, <2>3, AllOutFits
  <2>6. m \in Out(w, O, c, Elems(q))
    <3>1. Fits(m, O \cup Elems(q), c)
      BY <2>1, <2>5, SameFits DEF Out
    <3> QED BY <2>1, <2>5, <3>1 DEF Out, SamePlaces
  <2>7. G!AllBack(m, q) \in Out(w, O, c, {})
    BY <2>1, <2>2, <2>6, AllBackFits
  <2> QED BY <2>4, <2>7
<1> QED BY <1>3, <1>4 DEF Tidy, r

LEMMA NotRefreshedIsTidy == Tidy(G!NotRefreshed)
<1> DEFINE r == G!NotRefreshed
<1>1. r = [w \in G!World |-> [b \in G!Box |-> w]]
  BY DEF G!NotRefreshed
<1> HIDE DEF r
<1>2. r \in [G!World -> [G!Box -> G!World]] /\ \A w \in G!World : \A b \in G!Box : r[w][b] = w
  BY <1>1
<1>3. \A w \in G!World : \A O, c : Fits(w, O, c) => w \in Out(w, O, c, {})
  <2>1. \A O : O \cup {} = O
    OBVIOUS
  <2> QED BY <2>1 DEF Out
<1> QED BY <1>2, <1>3 DEF Tidy, r

LEMMA RefreshIsTidy ==
  ASSUME NEW max \in Nat
  PROVE  Tidy(G!Refresh(max))
<1> DEFINE Z == {g \in [G!World -> [G!Box -> G!World]] : Tidy(g)}
<1>1. Tidy(G!NotRefreshed)
  BY NotRefreshedIsTidy
<1>2. G!NotRefreshed \in Z /\ \A g \in Z : G!Refreshed(g) \in Z
  BY <1>1, RefreshedIsTidy DEF Tidy
<1>3. G!Refresh(max) \in Z
  <2> HIDE DEF Z
  <2> QED BY <1>2, RefreshEnds
<1> QED BY <1>3

-----------------------------------------------------------------------------
(* The operations, from when nothing is out of its place to when nothing   *)
(* is again.                                                               *)

LEMMA TakeOut ==
  ASSUME NEW w, NEW c, Fits(w, {}, c), NEW x \in w.live, NEW v, v = G!Hide(w, x)
  PROVE  /\ Fits(v, {x}, c) /\ v.live = w.live /\ v.hand = (IF w.hand = x THEN Null ELSE w.hand)
         /\ v.last[x] \in Stack => v.hand = Null
<1>1. w \in G!World /\ x \in G!Thing
  BY DEF Fits, Sound, G!World
<1>2. Fits(v, {} \cup {x}, c) /\ {} \cup {x} = {x}
  BY OutFits
<1>3. Fits(v, {x}, c)
  BY <1>2
<1>4. v.live = w.live /\ v.hand = (IF w.hand = x THEN Null ELSE w.hand)
  BY <1>1, HideIs
<1>5. x # w.hand => v.last[x] \in G!Box \cup {Ground}
  BY <1>1, HideIs
<1> QED BY <1>3, <1>4, <1>5, Apartness

LEMMA PutIn ==
  ASSUME NEW w, NEW x, NEW c, Fits(w, {x}, c), NEW b \in G!Box
  PROVE  /\ Fits(G!DropAtFeet(w, x), {}, c)
         /\ Fits(G!Link(w, x, b), {}, c)
         /\ Fits(G!AddToContainer(w, x, b), {}, c)
         /\ w.hand = Null => Fits(G!EquipOnMobile(w, x), {}, c)
         /\ (w.last[x] \in Stack => w.hand = Null) => Fits(G!ReturnToTracked(w, x), {}, c)
<1>1. /\ Sound(w, {x}) /\ w \in G!World /\ x \in G!Thing /\ x \in {x} /\ {x} \ {x} = {}
      /\ x \in G!Thing \cup G!Worn
  BY DEF Fits, Sound, G!World
<1>2. Fits(G!DropAtFeet(w, x), {}, c)
  <2> DEFINE v == G!DropAtFeet(w, x)
  <2>1. v = G!DropAtFeet(w, x)
    OBVIOUS
  <2> HIDE DEF v
  <2>2. v.live = w.live /\ v.amount = w.amount
    BY <1>1, <2>1, DropAtFeetIs DEF PutAway
  <2>3. Sound(v, {x} \ {x})
    BY <1>1, <2>1, DropAtFeetPlaces
  <2>4. Sound(v, {})
    BY <1>1, <2>3
  <2>5. Fits(v, {}, c)
    BY <2>2, <2>4, FitsAlike
  <2> QED BY <2>1, <2>5
<1>3. Fits(G!Link(w, x, b), {}, c)
  <2> DEFINE v == G!Link(w, x, b)
  <2>1. v = G!Link(w, x, b)
    OBVIOUS
  <2> HIDE DEF v
  <2>2. PutAway(w, x, v)
    BY <1>1, <2>1, LinkIs
  <2>3. v.live = w.live /\ v.amount = w.amount
    BY <2>2 DEF PutAway
  <2>4. Sound(v, {x} \ {x})
    BY <1>1, <2>1, LinkPlaces
  <2>5. Sound(v, {})
    BY <1>1, <2>4
  <2>6. Fits(v, {}, c)
    BY <2>3, <2>5, FitsAlike
  <2> QED BY <2>1, <2>6
<1>4. Fits(G!AddToContainer(w, x, b), {}, c)
  <2>1. Fits(G!AddToContainer(w, x, b), {x} \ {x}, c)
    BY <1>1, AddFits
  <2> QED BY <1>1, <2>1
<1>5. ASSUME w.hand = Null
      PROVE  Fits(G!EquipOnMobile(w, x), {}, c)
  <2> DEFINE v == G!EquipOnMobile(w, x)
  <2>1. v = G!EquipOnMobile(w, x)
    OBVIOUS
  <2> HIDE DEF v
  <2>2. v.live = w.live /\ v.amount = w.amount
    BY <1>1, <2>1, EquipIs
  <2>3. Sound(v, {x} \ {x})
    BY <1>1, <1>5, <2>1, EquipPlaces
  <2>4. Sound(v, {})
    BY <1>1, <2>3
  <2>5. Fits(v, {}, c)
    BY <2>2, <2>4, FitsAlike
  <2> QED BY <2>1, <2>5
<1>6. ASSUME w.last[x] \in Stack => w.hand = Null
      PROVE  Fits(G!ReturnToTracked(w, x), {}, c)
  <2>1. w.last[x] \notin {x} \ {x}
    OBVIOUS
  <2>2. Fits(G!ReturnToTracked(w, x), {x} \ {x}, c)
    BY <1>1, <1>6, <2>1, ReturnFits
  <2> QED BY <1>1, <2>2
<1> QED BY <1>2, <1>3, <1>4, <1>5, <1>6

LEMMA HeldLives ==
  ASSUME NEW w, NEW c, Fits(w, {}, c), w.hand # Null
  PROVE  w.hand \in w.live /\ w.hand \in G!Thing
BY DEF Fits, Sound, Lying, G!World

LEMMA BouncedFits ==
  ASSUME NEW w, NEW c, Fits(w, {}, c), NEW v, v = G!Bounced(w)
  PROVE  Fits(v, {}, c) /\ v.hand = Null /\ w.live \ {w.hand} \subseteq v.live
<1>1. CASE w.hand = Null
  BY <1>1 DEF G!Bounced
<1>2. CASE w.hand # Null
  <2> DEFINE h == w.hand
             a == G!Hide(w, h)
  <2>1. h \in w.live /\ h = w.hand
    BY <1>2, HeldLives
  <2>a. a = G!Hide(w, h)
    OBVIOUS
  <2>v. v = G!ReturnToTracked(a, h)
    BY <1>2 DEF G!Bounced
  <2> HIDE DEF a, h
  <2>2. Fits(a, {h}, c) /\ a.live = w.live /\ a.hand = Null
    BY <2>1, <2>a, TakeOut
  <2>3. Fits(v, {h} \ {h}, c) /\ v.hand = a.hand /\ a.live \ {h} \subseteq v.live
    BY <2>2, <2>v, ReturnFits
  <2>4. {h} \ {h} = {}
    OBVIOUS
  <2>5. Fits(v, {}, c)
    BY <2>3, <2>4
  <2> QED BY <2>1, <2>2, <2>3, <2>5
<1> QED BY <1>1, <1>2

LEMMA RefreshFits ==
  ASSUME NEW w, NEW O, NEW c, Fits(w, O, c), NEW b \in G!Box,
         NEW v, v = G!RefreshContents(w, b)
  PROVE  Fits(v, O, c) /\ v.live = w.live /\ v.hand = w.hand
<1>1. w \in G!World
  BY DEF Fits, Sound
<1>2. Tidy(G!Refresh(G!Cardinality(Bag) + 1))
  <2>1. G!Cardinality(Bag) = Cardinality(Bag) /\ Cardinality(Bag) \in Nat
    BY Goods, SameCount, FS_CardinalityType
  <2>2. G!Cardinality(Bag) + 1 \in Nat
    BY <2>1
  <2> QED BY <2>2, RefreshIsTidy
<1>3. v \in Out(w, O, c, {})
  BY <1>1, <1>2 DEF Tidy, G!RefreshContents
<1>4. Fits(v, O \cup {}, c) /\ O \cup {} = O /\ v.live = w.live /\ v.hand = w.hand
  BY <1>3 DEF Out
<1> QED BY <1>4

(* The pack and the bank box come off and go on again.                     *)
LEMMA WornFits ==
  ASSUME NEW w, NEW O, NEW c, Fits(w, O, c), NEW v \in G!World,
         v.live = w.live, v.amount = w.amount, v.hand = w.hand, v.ground = w.ground, v.cont = w.cont
  PROVE  Fits(v, O, c)
<1>1. \A b \in G!Box : Kept(v, b) = Kept(w, b) /\ v.cont[b] = w.cont[b]
  BY DEF Kept
<1>2. Lying(v) = Lying(w) /\ (Apart(w) => Apart(v))
  BY <1>1 DEF Lying, Apart
<1>3. Sound(v, O)
  BY <1>2 DEF Sound, Fits
<1> QED BY <1>3, FitsAlike

LEMMA GearOutFits ==
  ASSUME NEW w \in G!World, NEW O, NEW c, Fits(w, O, c), w.hand = Null, NEW x \in G!Worn,
         NEW g, Tidy(g), NEW r, r = G!TakenOut(w, x, g)
  PROVE  r \in G!World /\ Fits(r, O, c) /\ r.hand = Null
<1> DEFINE v == G!Hide(w, x)
<1>1. v = G!Hide(w, x) /\ x \in G!Box
  BY Apartness
<1> HIDE DEF v
<1>2. /\ v \in G!World /\ v.live = w.live /\ v.amount = w.amount /\ v.hand = w.hand
      /\ v.ground = w.ground /\ v.cont = w.cont
  BY <1>1, HideWornIs
<1>3. Fits(v, O, c)
  BY <1>2, WornFits
<1>4. r = g[v][x]
  BY <1>1 DEF G!TakenOut
<1>5. r \in Out(v, O, c, {})
  BY <1>1, <1>2, <1>3, <1>4 DEF Tidy
<1>6. r \in G!World /\ Fits(r, O \cup {}, c) /\ O \cup {} = O /\ r.hand = v.hand
  BY <1>5 DEF Out
<1>7. Fits(r, O, c)
  BY <1>6
<1> QED BY <1>2, <1>6, <1>7

LEMMA HeldOutFits ==
  ASSUME NEW w \in G!World, NEW c, Fits(w, {}, c), NEW x \in w.live, w.hand = x,
         NEW g, Tidy(g), NEW r, r = G!TakenOut(w, x, g)
  PROVE  r \in G!World /\ Fits(r, {x}, c) /\ r.hand = Null
<1> DEFINE v == G!Hide(w, x)
<1>1. v = G!Hide(w, x) /\ x \in G!Thing
  BY DEF G!World
<1> HIDE DEF v
<1>2. Fits(v, {x}, c) /\ v.hand = Null /\ v \in G!World
  <2>1. Fits(v, {x}, c) /\ v.hand = Null
    BY <1>1, TakeOut
  <2> QED BY <2>1 DEF Fits, Sound
<1>3. CASE x \in G!Box
  <2>1. r = g[v][x]
    BY <1>1, <1>3 DEF G!TakenOut
  <2>2. r \in Out(v, {x}, c, {})
    BY <1>2, <1>3, <2>1 DEF Tidy
  <2>3. r \in G!World /\ Fits(r, {x} \cup {}, c) /\ {x} \cup {} = {x} /\ r.hand = v.hand
    BY <2>2 DEF Out
  <2>4. Fits(r, {x}, c)
    BY <2>3
  <2> QED BY <1>2, <2>3, <2>4
<1>4. CASE x \notin G!Box
  BY <1>1, <1>2, <1>4 DEF G!TakenOut
<1> QED BY <1>3, <1>4

LEMMA GearOnFits ==
  ASSUME NEW w, NEW O, NEW c, Fits(w, O, c), NEW x \in G!Worn
  PROVE  Fits(G!EquipOnMobile(w, x), O, c)
<1> DEFINE v == G!EquipOnMobile(w, x)
<1>1. v = G!EquipOnMobile(w, x) /\ w \in G!World /\ x \in G!Thing \cup G!Worn
  BY DEF Fits, Sound
<1> HIDE DEF v
<1>2. /\ v \in G!World /\ v.live = w.live /\ v.amount = w.amount /\ v.hand = w.hand
      /\ v.ground = w.ground /\ v.cont = w.cont
  BY <1>1, EquipIs
<1>3. Fits(v, O, c)
  BY <1>2, WornFits
<1> QED BY <1>1, <1>3

LEMMA WeightRelatedFits ==
  ASSUME NEW w, NEW c, Fits(w, {}, c)
  PROVE  Fits(G!WeightRelated(w), {}, c)
<1> DEFINE g == G!Refresh(G!Cardinality(Bag) + 1)
           gear == (IF w.hand = Null THEN <<>> ELSE <<w.hand>>) \o <<Pack, Bank>>
           out == G!AllOut(w, gear, g)
           bare == [out EXCEPT !.stored[Body] = 0]
           held == IF w.hand = Null THEN bare ELSE G!EquipOnMobile(bare, w.hand)
<1>1. G!WeightRelated(w) = G!EquipOnMobile(G!EquipOnMobile(held, Pack), Bank)
  BY DEF G!WeightRelated
<1>2. Tidy(g)
  <2>1. G!Cardinality(Bag) = Cardinality(Bag) /\ Cardinality(Bag) \in Nat
    BY Goods, SameCount, FS_CardinalityType
  <2>2. G!Cardinality(Bag) + 1 \in Nat
    BY <2>1
  <2> QED BY <2>2, RefreshIsTidy
<1>o. out = G!AllOut(w, gear, g)
  OBVIOUS
<1>b. bare = [out EXCEPT !.stored[Body] = 0]
  OBVIOUS
<1> HIDE DEF g, out, bare
<1>3. w \in G!World /\ Pack \in G!Worn /\ Bank \in G!Worn
  BY Apartness DEF Fits, Sound
<1>4. ASSUME NEW O, Fits(out, O, c), out.hand = Null
      PROVE  Fits(bare, O, c) /\ bare.hand = Null
  <2>1. SamePlaces(out, bare)
    BY <1>4, <1>b, ClearedStays DEF Fits, Sound
  <2> QED BY <1>4, <2>1, SameFits DEF SamePlaces
<1>5. Fits(held, {}, c)
  <2>1. CASE w.hand = Null
    <3> DEFINE Stage == {u \in G!World : Fits(u, {}, c) /\ u.hand = Null}
               Z == [k \in 0..2 |-> Stage]
    <3>1. gear = <<Pack, Bank>>
      BY <2>1
    <3>2. Len(gear) = 2 /\ \A k \in 1..2 : gear[k] \in G!Worn
      BY <1>3, <3>1
    <3>3. w \in Z[0]
      BY <1>3, <2>1
    <3>4. \A k \in 1..2 : \A z \in Z[k - 1] : G!TakenOut(z, gear[k], g) \in Z[k]
      <4> SUFFICES ASSUME NEW k \in 1..2, NEW z \in Z[k - 1] PROVE G!TakenOut(z, gear[k], g) \in Z[k]
        OBVIOUS
      <4>1. Z[k - 1] = Stage /\ Z[k] = Stage
        OBVIOUS
      <4>2. z \in G!World /\ Fits(z, {}, c) /\ z.hand = Null
        BY <4>1
      <4> HIDE DEF gear
      <4> QED BY <1>2, <3>2, <4>1, <4>2, GearOutFits
    <3>5. Z[2] = Stage
      OBVIOUS
    <3> HIDE DEF Z, gear
    <3>6. out \in Z[Len(gear)]
      <4>1. Len(gear) \in Nat /\ \A k \in 1..Len(gear) : \A z \in Z[k - 1] : G!TakenOut(z, gear[k], g) \in Z[k]
        BY <3>2, <3>4
      <4> QED BY ONLY <1>o, <3>3, <4>1, AllOutEnds
    <3>7. Fits(out, {}, c) /\ out.hand = Null
      BY <3>2, <3>5, <3>6
    <3> QED BY <1>4, <2>1, <3>7
  <2>2. CASE w.hand # Null
    <3> DEFINE h == w.hand
    <3>1. h \in w.live /\ h = w.hand
      BY <2>2, HeldLives
    <3>2. gear = <<h>> \o <<Pack, Bank>>
      BY <2>2
    <3> HIDE DEF h, gear
    <3> DEFINE Stage == {u \in G!World : Fits(u, {h}, c) /\ u.hand = Null}
               Z == [k \in 0..3 |-> IF k = 0 THEN {w} ELSE Stage]
    <3>3. Len(gear) = 3 /\ gear[1] = h /\ \A k \in 2..3 : gear[k] \in G!Worn
      <4>1. Len(gear) = 3 /\ gear[1] = h /\ gear[2] = Pack /\ gear[3] = Bank
        BY <3>2
      <4> QED BY <1>3, <4>1
    <3>4. w \in Z[0]
      OBVIOUS
    <3>5. \A k \in 1..3 : \A z \in Z[k - 1] : G!TakenOut(z, gear[k], g) \in Z[k]
      <4> SUFFICES ASSUME NEW k \in 1..3, NEW z \in Z[k - 1] PROVE G!TakenOut(z, gear[k], g) \in Z[k]
        OBVIOUS
      <4>1. CASE k = 1
        <5>1. z = w /\ Z[k] = Stage /\ gear[k] = h
          BY <3>3, <4>1
        <5> HIDE DEF gear, Z
        <5> QED BY <1>2, <1>3, <3>1, <5>1, HeldOutFits
      <4>2. CASE k # 1
        <5>1. Z[k - 1] = Stage /\ Z[k] = Stage /\ k \in 2..3
          BY <4>2
        <5>2. z \in G!World /\ Fits(z, {h}, c) /\ z.hand = Null
          BY <5>1
        <5> HIDE DEF gear, Z
        <5> QED BY <1>2, <3>3, <5>1, <5>2, GearOutFits
      <4> QED BY <4>1, <4>2
    <3>6. Z[3] = Stage
      OBVIOUS
    <3> HIDE DEF Z, gear
    <3>7. out \in Z[Len(gear)]
      <4>1. Len(gear) \in Nat /\ \A k \in 1..Len(gear) : \A z \in Z[k - 1] : G!TakenOut(z, gear[k], g) \in Z[k]
        BY <3>3, <3>5
      <4> QED BY ONLY <1>o, <3>4, <4>1, AllOutEnds
    <3>8. Fits(out, {h}, c) /\ out.hand = Null
      BY <3>3, <3>6, <3>7
    <3>9. Fits(bare, {h}, c) /\ bare.hand = Null
      BY <1>4, <3>8
    <3>10. Fits(G!EquipOnMobile(bare, h), {}, c)
      BY <3>9, PutIn, <1>3, Apartness
    <3> QED BY <2>2, <3>1, <3>10
  <2> QED BY <2>1, <2>2
<1> HIDE DEF held
<1>6. Fits(G!EquipOnMobile(held, Pack), {}, c)
  BY <1>3, <1>5, GearOnFits
<1>7. Fits(G!EquipOnMobile(G!EquipOnMobile(held, Pack), Bank), {}, c)
  BY <1>3, <1>6, GearOnFits
<1> QED BY <1>1, <1>7

-----------------------------------------------------------------------------
(* The invariant, and that each packet and script command keeps it.        *)

(* Every coin that is not in the world was handed to a script.             *)
Balanced(w, given) == given \in 0..Gold /\ Fits(w, {}, Gold - given)

LEMMA RemainderIsNumber ==
  ASSUME NEW given \in 0..Gold
  PROVE  Gold - given \in 0..Gold /\ Gold - given \in Int /\ Gold - (Gold - given) = given
BY Goods

LEMMA LiftKeeps ==
  ASSUME Balanced(s, taken), NEW x \in G!Thing, G!Lift(x)
  PROVE  Balanced(s, taken)'
<1> DEFINE c == Gold - taken
           w == G!Bounced(s)
<1>1. taken' = taken /\ taken \in 0..Gold /\ Fits(s, {}, c) /\ c \in Int
  BY RemainderIsNumber DEF G!Lift, Balanced
<1>w. w = G!Bounced(s)
  OBVIOUS
<1>2. /\ x \in s.live /\ x # s.hand
      /\ \/ s' = w
         \/ s' = G!EquipOnMobile(G!Hide(w, x), x)
         \/ /\ x \in Stack
            /\ \E y \in G!Fresh(w), n \in 1..(w.amount[x] - 1) :
                 s' = G!EquipOnMobile(G!SplitByAmount(w, x, n, y), y)
  BY DEF G!Lift
<1> HIDE DEF c, w
<1>3. Fits(w, {}, c) /\ w.hand = Null /\ x \in w.live
  BY <1>1, <1>2, <1>w, BouncedFits
<1>4. ASSUME s' = w PROVE Fits(s', {}, c)
  BY <1>3, <1>4
<1>5. ASSUME s' = G!EquipOnMobile(G!Hide(w, x), x) PROVE Fits(s', {}, c)
  <2> DEFINE v == G!Hide(w, x)
  <2>1. v = G!Hide(w, x)
    OBVIOUS
  <2> HIDE DEF v
  <2>2. Fits(v, {x}, c) /\ v.hand = Null
    BY <1>3, <2>1, TakeOut
  <2>3. Fits(G!EquipOnMobile(v, x), {}, c)
    BY <2>2, PutIn, Apartness
  <2> QED BY <1>5, <2>1, <2>3
<1>6. ASSUME NEW y \in G!Fresh(w), NEW n \in 1..(w.amount[x] - 1), x \in Stack,
             s' = G!EquipOnMobile(G!SplitByAmount(w, x, n, y), y)
      PROVE  Fits(s', {}, c)
  <2> DEFINE v == G!SplitByAmount(w, x, n, y)
  <2>1. v = G!SplitByAmount(w, x, n, y)
    OBVIOUS
  <2> HIDE DEF v
  <2>2. x \in Piles(w)
    BY <1>3, <1>6 DEF Piles
  <2>3. Fits(v, {y}, c) /\ v.hand = Null
    BY <1>1, <1>3, <2>1, <2>2, SplitFits
  <2>4. Fits(G!EquipOnMobile(v, y), {}, c)
    BY <2>3, PutIn, Apartness
  <2> QED BY <1>6, <2>1, <2>4
<1>7. Fits(s', {}, c)
  BY <1>2, <1>4, <1>5, <1>6
<1> QED BY <1>1, <1>7 DEF Balanced, c

LEMMA DropRefusedKeeps ==
  ASSUME Balanced(s, taken), G!DropRefused
  PROVE  Balanced(s, taken)'
<1>1. s' = G!Bounced(s) /\ taken' = taken
  BY DEF G!DropRefused
<1> QED BY <1>1, BouncedFits DEF Balanced

LEMMA DropOnGroundKeeps ==
  ASSUME Balanced(s, taken), G!DropOnGround
  PROVE  Balanced(s, taken)'
<1> DEFINE x == s.hand
           v == G!Hide(s, x)
<1>1. s' = G!DropAtFeet(v, x) /\ taken' = taken /\ s.hand # Null
  BY DEF G!DropOnGround
<1>2. x \in s.live /\ Fits(s, {}, Gold - taken)
  BY <1>1, HeldLives DEF Balanced
<1>3. v = G!Hide(s, x)
  OBVIOUS
<1> HIDE DEF v, x
<1>4. Fits(v, {x}, Gold - taken)
  BY <1>2, <1>3, TakeOut
<1>5. Fits(G!DropAtFeet(v, x), {}, Gold - taken)
  BY <1>4, PutIn, Apartness
<1> QED BY <1>1, <1>5 DEF Balanced

LEMMA DropIntoKeeps ==
  ASSUME Balanced(s, taken), NEW b \in G!Box, G!DropInto(b)
  PROVE  Balanced(s, taken)'
<1> DEFINE x == s.hand
           v == G!Hide(s, x)
<1>1. taken' = taken /\ s.hand # Null /\ s' \in {G!Bounced(s), G!Link(v, x, b), G!AddToContainer(v, x, b)}
  BY DEF G!DropInto
<1>2. x \in s.live /\ Fits(s, {}, Gold - taken)
  BY <1>1, HeldLives DEF Balanced
<1>3. v = G!Hide(s, x)
  OBVIOUS
<1> HIDE DEF v, x
<1>4. Fits(v, {x}, Gold - taken)
  BY <1>2, <1>3, TakeOut
<1>5. Fits(G!Link(v, x, b), {}, Gold - taken) /\ Fits(G!AddToContainer(v, x, b), {}, Gold - taken)
  BY <1>4, PutIn
<1>6. Fits(G!Bounced(s), {}, Gold - taken)
  BY <1>2, BouncedFits
<1>7. Fits(s', {}, Gold - taken)
  BY <1>1, <1>5, <1>6
<1> QED BY <1>1, <1>7 DEF Balanced

LEMMA DropOnKeeps ==
  ASSUME Balanced(s, taken), NEW y \in Stack, G!DropOn(y)
  PROVE  Balanced(s, taken)'
<1> DEFINE x == s.hand
           v == G!Hide(s, x)
           u == G!MergeInto(s, x, y)
<1>1. /\ taken' = taken /\ s.hand # Null /\ y \in Stack \cap s.live /\ y # x
      /\ s' \in {G!Bounced(s), G!DropAtFeet(v, x)} \/ (G!Stacks(s, x, y) /\ s' = u)
  BY DEF G!DropOn
<1>2. x \in s.live /\ Fits(s, {}, Gold - taken) /\ x = s.hand
  BY <1>1, HeldLives DEF Balanced
<1>3. v = G!Hide(s, x) /\ u = G!MergeInto(s, x, y)
  OBVIOUS
<1> HIDE DEF v, x, u
<1>4. Fits(v, {x}, Gold - taken)
  BY <1>2, <1>3, TakeOut
<1>5. Fits(G!DropAtFeet(v, x), {}, Gold - taken)
  BY <1>4, PutIn, Apartness
<1>6. Fits(G!Bounced(s), {}, Gold - taken)
  BY <1>2, BouncedFits
<1>7. ASSUME G!Stacks(s, x, y) PROVE Fits(u, {}, Gold - taken)
  <2>1. x \in Piles(s) /\ y \in Piles(s) /\ y # s.hand /\ x # y /\ y \notin {}
    BY <1>1, <1>2, <1>7 DEF G!Stacks, Piles
  <2>2. Fits(u, {} \ {x}, Gold - taken) /\ {} \ {x} = {}
    BY <1>2, <1>3, <2>1, MergeIntoFits
  <2> QED BY <2>2
<1>8. Fits(s', {}, Gold - taken)
  BY <1>1, <1>5, <1>6, <1>7
<1> QED BY <1>1, <1>8 DEF Balanced

LEMMA DepositKeeps ==
  ASSUME Balanced(s, taken), NEW x \in Stack, G!Deposit(x)
  PROVE  Balanced(s, taken)'
<1> DEFINE c == Gold - taken
           v == G!Hide(s, x)
<1>1. taken' = taken /\ taken \in 0..Gold /\ Fits(s, {}, c) /\ c \in Int
  BY RemainderIsNumber DEF G!Deposit, Balanced
<1>2. /\ x \in s.live /\ Bank \in G!Box
      /\ \/ s' = G!AddToContainer(v, x, Bank)
         \/ \E y \in G!Fresh(s), n \in 1..(s.amount[x] - 1) :
              s' = G!AddToContainer(G!SplitByAmount(s, x, n, y), y, Bank)
  BY Apartness DEF G!Deposit
<1>3. v = G!Hide(s, x)
  OBVIOUS
<1> HIDE DEF c, v
<1>4. Fits(v, {x}, c)
  BY <1>1, <1>2, <1>3, TakeOut
<1>5. Fits(G!AddToContainer(v, x, Bank), {}, c)
  BY <1>2, <1>4, PutIn
<1>6. ASSUME NEW y \in G!Fresh(s), NEW n \in 1..(s.amount[x] - 1),
             s' = G!AddToContainer(G!SplitByAmount(s, x, n, y), y, Bank)
      PROVE  Fits(s', {}, c)
  <2> DEFINE u == G!SplitByAmount(s, x, n, y)
  <2>1. u = G!SplitByAmount(s, x, n, y)
    OBVIOUS
  <2> HIDE DEF u
  <2>2. x \in Piles(s)
    BY <1>2 DEF Piles
  <2>3. Fits(u, {y}, c)
    BY <1>1, <2>1, <2>2, SplitFits
  <2>4. Fits(G!AddToContainer(u, y, Bank), {}, c)
    BY <1>2, <2>3, PutIn
  <2> QED BY <1>6, <2>1, <2>4
<1>7. Fits(s', {}, c)
  BY <1>2, <1>5, <1>6
<1> QED BY <1>1, <1>7 DEF Balanced, c

(* What a charge or a deletion takes out of the world is counted.          *)
LEMMA TakenCounts ==
  ASSUME NEW given \in 0..Gold, NEW got \in Nat, Gold - given - got \in 0..Gold
  PROVE  given + got \in 0..Gold /\ Gold - (given + got) = Gold - given - got
BY Goods

LEMMA ChargeKeeps ==
  ASSUME NEW shut \in SUBSET Bag, Balanced(s, taken), NEW b \in G!Worn, NEW n \in 1..Gold, G!Charge(b, n, shut)
  PROVE  Balanced(s, taken)'
<1> DEFINE r == G!ConsumeResources(s, b, n, shut)
           c == Gold - taken
<1>1. s' = r.w /\ taken' = taken + r.got /\ taken \in 0..Gold /\ Fits(s, {}, c) /\ c \in 0..Gold
  BY RemainderIsNumber DEF G!Charge, Balanced
<1>2. r = G!ConsumeResources(s, b, n, shut) /\ b \in G!Box /\ n \in Nat
  BY Goods DEF G!Box
<1> HIDE DEF r
<1>3. Fits(r.w, {}, c - r.got) /\ r.got \in Nat /\ c - r.got \in 0..Gold
  <2> HIDE DEF c
  <2> QED BY <1>1, <1>2, ConsumeFits
<1>4. taken + r.got \in 0..Gold /\ Gold - (taken + r.got) = c - r.got
  BY <1>1, <1>3, TakenCounts
<1> HIDE DEF c
<1> QED BY <1>1, <1>3, <1>4 DEF Balanced

LEMMA DeleteKeeps ==
  ASSUME Balanced(s, taken), NEW x \in G!Thing, G!Delete(x)
  PROVE  Balanced(s, taken)'
<1> DEFINE r == G!Deleted(s, x)
           c == Gold - taken
<1>1. s' = r.w /\ taken' = taken + r.gold /\ taken \in 0..Gold /\ Fits(s, {}, c) /\ c \in 0..Gold
  BY RemainderIsNumber DEF G!Delete, Balanced
<1>2. r = G!Deleted(s, x)
  OBVIOUS
<1> HIDE DEF r
<1>3. Fits(r.w, {}, c - r.gold) /\ r.gold \in Nat /\ c - r.gold \in 0..Gold
  <2> HIDE DEF c
  <2> QED BY <1>1, <1>2, DeleteFits
<1>4. taken + r.gold \in 0..Gold /\ Gold - (taken + r.gold) = c - r.gold
  BY <1>1, <1>3, TakenCounts
<1> HIDE DEF c
<1> QED BY <1>1, <1>3, <1>4 DEF Balanced

LEMMA RecalcWeightKeeps ==
  ASSUME Balanced(s, taken), NEW b \in {Body} \cup G!Box, G!RecalcWeight(b)
  PROVE  Balanced(s, taken)'
<1>1. taken' = taken /\ s' = IF b = Body THEN G!WeightRelated(s) ELSE G!RefreshContents(s, b)
  BY DEF G!RecalcWeight
<1>2. Fits(s, {}, Gold - taken)
  BY DEF Balanced
<1>3. b = Body => Fits(s', {}, Gold - taken)
  BY <1>1, <1>2, WeightRelatedFits
<1>4. b # Body => Fits(s', {}, Gold - taken)
  BY <1>1, <1>2, RefreshFits
<1> QED BY <1>1, <1>3, <1>4 DEF Balanced

LEMMA StepKeeps ==
  ASSUME Balanced(s, taken), G!Next
  PROVE  Balanced(s, taken)'
<1>1. ASSUME NEW x \in G!Thing, G!Lift(x) \/ G!Delete(x) PROVE Balanced(s, taken)'
  BY <1>1, LiftKeeps, DeleteKeeps
<1>2. ASSUME G!DropRefused \/ G!DropOnGround PROVE Balanced(s, taken)'
  BY <1>2, DropRefusedKeeps, DropOnGroundKeeps
<1>3. ASSUME NEW b \in G!Box, G!DropInto(b) PROVE Balanced(s, taken)'
  BY <1>3, DropIntoKeeps
<1>4. ASSUME NEW y \in Stack, G!DropOn(y) \/ G!Deposit(y) PROVE Balanced(s, taken)'
  BY <1>4, DropOnKeeps, DepositKeeps
<1>5. ASSUME NEW b \in G!Worn, NEW n \in 1..Gold, NEW shut \in SUBSET Bag, G!Charge(b, n, shut)
      PROVE  Balanced(s, taken)'
  BY <1>5, ChargeKeeps
<1>6. ASSUME NEW b \in {Body} \cup G!Worn \cup (Bag \cap s.live), G!RecalcWeight(b) PROVE Balanced(s, taken)'
  <2>1. b \in {Body} \cup G!Box
    BY DEF G!Box
  <2> QED BY <1>6, <2>1, RecalcWeightKeeps
<1> QED BY <1>1, <1>2, <1>3, <1>4, <1>5, <1>6 DEF G!Next

(* At the start the gold lies in the pack and in the bank box.             *)
LEMMA StartSums ==
  ASSUME NEW amount \in [Stack -> Nat], NEW x \in Stack, NEW y \in Stack, x # y
  PROVE  Coins(amount, {x, y}) = amount[x] + amount[y]
<1>1. {x, y} \in SUBSET Stack /\ {x, y} \ {x} = {y} /\ {y} \in SUBSET Stack /\ {y} \ {y} = {}
  OBVIOUS
<1>2. Coins(amount, {x, y}) = amount[x] + Coins(amount, {x, y} \ {x})
  BY <1>1, CoinsWithout
<1>3. Coins(amount, {y}) = amount[y] + Coins(amount, {y} \ {y})
  BY <1>1, CoinsWithout
<1>4. Coins(amount, {}) = 0 /\ amount[x] \in Nat /\ amount[y] \in Nat
  BY NoCoins
<1>5. Coins(amount, {y}) = amount[y]
  BY <1>1, <1>3, <1>4
<1> QED BY <1>1, <1>2, <1>4, <1>5

LEMMA StartBalanced == G!Init => Balanced(s, taken)
<1> SUFFICES ASSUME G!Init PROVE Balanced(s, taken)
  OBVIOUS
<1>1. PICK x \in Stack, y \in Stack :
        /\ x # y
        /\ s = [live |-> {x, y} \cup Bag, worn |-> G!Worn,
                cont |-> [b \in G!Box |-> IF b = Pack THEN <<x>> ELSE IF b = Bank THEN <<y>> ELSE <<>>],
                hand |-> Null, ground |-> Bag,
                amount |-> [z \in Stack |-> CASE z = x -> Gold - Gold \div 2
                                             [] z = y -> Gold \div 2 [] OTHER -> 0],
                stored |-> [b \in G!Box \cup {Body} |-> CASE b = Pack -> G!Ceil(Gold - Gold \div 2)
                             [] b = Body -> Own + G!Ceil(Gold - Gold \div 2) [] OTHER -> 0],
                last |-> [z \in G!Thing |-> Null]]
  BY DEF G!Init
<1>2. taken = 0 /\ taken \in 0..Gold /\ Gold - taken = Gold
  BY Goods DEF G!Init
<1>3. Gold \in Nat /\ Gold \div 2 \in Nat /\ Gold - Gold \div 2 \in Nat /\ Own \in Nat
      /\ Gold - Gold \div 2 + Gold \div 2 = Gold
  <2>1. Gold \in Nat /\ Own \in Nat
    BY Goods
  <2>2. Gold \div 2 \in Nat /\ Gold \div 2 <= Gold
    BY <2>1
  <2> QED BY <2>1, <2>2
<1> DEFINE stored == [b \in G!Box \cup {Body} |-> CASE b = Pack -> G!Ceil(Gold - Gold \div 2)
                        [] b = Body -> Own + G!Ceil(Gold - Gold \div 2) [] OTHER -> 0]
           amount == [z \in Stack |-> CASE z = x -> Gold - Gold \div 2
                                        [] z = y -> Gold \div 2 [] OTHER -> 0]
           cont == [b \in G!Box |-> IF b = Pack THEN <<x>> ELSE IF b = Bank THEN <<y>> ELSE <<>>]
<1>4. stored \in [G!Box \cup {Body} -> Nat]
  <2>1. /\ G!Ceil(Gold - Gold \div 2) \in Nat
        /\ Own + G!Ceil(Gold - Gold \div 2) \in Nat
    BY <1>3, CeilIsNumber
  <2>2. Body # Pack
    BY Apartness
  <2>3. ASSUME NEW b \in G!Box \cup {Body} PROVE stored[b] \in Nat
    <3>1. CASE b = Pack
      BY <2>1, <3>1
    <3>2. CASE b = Body
      BY <2>1, <2>2, <3>2
    <3>3. CASE b # Pack /\ b # Body
      BY <3>3
    <3> QED BY <3>1, <3>2, <3>3
  <2> QED BY <2>3
<1>5. /\ amount \in [Stack -> Nat] /\ amount[x] = Gold - Gold \div 2 /\ amount[y] = Gold \div 2
      /\ \A z \in Stack : z \in {x, y} \/ amount[z] = 0
  <2>1. \A z \in Stack : amount[z] \in Nat
    BY <1>3
  <2>2. amount[x] = Gold - Gold \div 2 /\ amount[y] = Gold \div 2
    BY <1>1
  <2> QED BY <2>1, <2>2
<1>6. cont \in [G!Box -> Seq(G!Thing)] /\ cont[Pack] = <<x>> /\ cont[Bank] = <<y>>
      /\ \A b \in G!Box : b \in {Pack, Bank} \/ cont[b] = <<>>
  <2>1. Pack \in G!Box /\ Bank \in G!Box /\ Pack # Bank
    BY Apartness
  <2>2. x \in G!Thing /\ y \in G!Thing
    BY DEF G!Thing
  <2>3. <<x>> \in Seq(G!Thing) /\ <<y>> \in Seq(G!Thing) /\ <<>> \in Seq(G!Thing)
    BY <2>2
  <2>4. \A b \in G!Box : cont[b] \in Seq(G!Thing)
    BY <2>3
  <2> QED BY <2>1, <2>4
<1>7. /\ s.live = {x, y} \cup Bag /\ s.worn = G!Worn /\ s.cont = cont /\ s.hand = Null /\ s.ground = Bag
      /\ s.amount = amount
  BY <1>1
<1>8. s \in G!World
  <2> DEFINE last == [z \in G!Thing |-> Null]
  <2>1. last \in [G!Thing -> G!Box \cup Stack \cup {Ground, Null}]
    OBVIOUS
  <2>2. s = [live |-> {x, y} \cup Bag, worn |-> G!Worn, cont |-> cont, hand |-> Null,
             ground |-> Bag, amount |-> amount, stored |-> stored, last |-> last]
    BY <1>1
  <2> HIDE DEF cont, amount, stored, last
  <2>3. {x, y} \cup Bag \subseteq G!Thing /\ Bag \subseteq G!Thing
    BY DEF G!Thing
  <2> QED BY <1>4, <1>5, <1>6, <2>1, <2>2, <2>3 DEF G!World
<1> HIDE DEF cont, amount, stored
<1>9. Kept(s, Pack) = {x} /\ Kept(s, Bank) = {y} /\ \A b \in G!Box : b \in {Pack, Bank} \/ Kept(s, b) = {}
  BY <1>6, <1>7 DEF Kept, Elems
<1>10. Apart(s)
  <2>1. \A b \in G!Box : OneOf(s.cont[b])
    BY <1>6, <1>7 DEF OneOf
  <2>2. x \notin Bag /\ y \notin Bag /\ Null \notin Bag /\ x # Null /\ y # Null /\ x # y
    BY <1>1, Apartness
  <2>3. \A b \in G!Box : s.hand \notin Kept(s, b) /\ Kept(s, b) \cap s.ground = {}
    BY <1>7, <1>9, <2>2
  <2>4. \A b, d \in G!Box : b # d => Kept(s, b) \cap Kept(s, d) = {}
    BY <1>9, <2>2
  <2> QED BY <1>7, <2>1, <2>2, <2>3, <2>4 DEF Apart
<1>11. Lying(s) = s.live
  <2>1. Pack \in G!Box /\ Bank \in G!Box /\ Null \notin G!Thing /\ {x, y} \cup Bag \subseteq G!Thing
    BY Apartness
  <2> QED BY <1>7, <1>9, <2>1 DEF Lying
<1>12. Sound(s, {})
  BY <1>8, <1>10, <1>11 DEF Sound
<1>13. Total(s) = Gold
  <2>1. Piles(s) = {x, y}
    BY <1>7, Apartness DEF Piles
  <2>2. Coins(amount, {x, y}) = amount[x] + amount[y]
    BY <1>1, <1>5, StartSums
  <2> QED BY <1>3, <1>5, <1>7, <2>1, <2>2 DEF Total
<1>14. \A z \in Stack : z \in s.live \/ s.amount[z] <= Gold
  BY <1>3, <1>5, <1>7
<1> QED BY <1>2, <1>12, <1>13, <1>14 DEF Balanced, Fits

-----------------------------------------------------------------------------
(* What the invariant says of places, of types and of the gold.            *)

LEMMA SpotsAre ==
  ASSUME NEW w \in G!World, NEW x \in G!Thing, NEW p
  PROVE  p \in G!Spots(w, x) <=>
           \/ x = w.hand /\ p = <<Body, 0>>
           \/ x \in w.ground /\ p = <<Ground, 0>>
           \/ \E b \in G!Box : \E i \in DOMAIN w.cont[b] : w.cont[b][i] = x /\ p = <<b, i>>
BY DEF G!Spots

LEMMA OneSpot ==
  ASSUME NEW w, Sound(w, {}), NEW x \in G!Thing
  PROVE  G!Cardinality(G!Spots(w, x)) = IF x \in w.live THEN 1 ELSE 0
<1> DEFINE S == G!Spots(w, x)
<1>1. w \in G!World /\ Apart(w) /\ (x \in w.live <=> x \in Lying(w))
  BY DEF Sound
<1>2. (\E p : p \in S) <=> x \in w.live
  <2>1. \A b \in G!Box : x \in Kept(w, b) <=> \E i \in DOMAIN w.cont[b] : w.cont[b][i] = x
    BY DEF Kept, Elems
  <2>s. \A p : p \in S <=>
           \/ x = w.hand /\ p = <<Body, 0>>
           \/ x \in w.ground /\ p = <<Ground, 0>>
           \/ \E b \in G!Box : \E i \in DOMAIN w.cont[b] : w.cont[b][i] = x /\ p = <<b, i>>
    BY <1>1, SpotsAre
  <2> HIDE DEF S
  <2>2. x \in Lying(w) <=> x = w.hand \/ x \in w.ground \/ \E b \in G!Box : \E i \in DOMAIN w.cont[b] : w.cont[b][i] = x
    BY <2>1 DEF Lying
  <2> QED BY <1>1, <2>2, <2>s
<1>3. ASSUME NEW p \in S, NEW q \in S PROVE p = q
  <2>1. /\ \/ x = w.hand /\ p = <<Body, 0>>
           \/ x \in w.ground /\ p = <<Ground, 0>>
           \/ \E b \in G!Box : \E i \in DOMAIN w.cont[b] : w.cont[b][i] = x /\ p = <<b, i>>
        /\ \/ x = w.hand /\ q = <<Body, 0>>
           \/ x \in w.ground /\ q = <<Ground, 0>>
           \/ \E b \in G!Box : \E i \in DOMAIN w.cont[b] : w.cont[b][i] = x /\ q = <<b, i>>
    BY <1>1, <1>3, SpotsAre
  <2>2. \A b \in G!Box : \A i \in DOMAIN w.cont[b] : w.cont[b][i] = x =>
          x \in Kept(w, b) /\ x # w.hand /\ x \notin w.ground
    BY <1>1 DEF Apart, Kept, Elems
  <2>3. \A b, d \in G!Box : x \in Kept(w, b) /\ x \in Kept(w, d) => b = d
    BY <1>1 DEF Apart
  <2>4. \A b \in G!Box : \A i, j \in DOMAIN w.cont[b] : w.cont[b][i] = x /\ w.cont[b][j] = x => i = j
    BY <1>1 DEF Apart, OneOf
  <2>5. ~(x = w.hand /\ x \in w.ground)
    BY <1>1 DEF Apart
  <2> QED BY <2>1, <2>2, <2>3, <2>4, <2>5
<1> HIDE DEF S
<1>4. CASE x \in w.live
  <2>1. PICK p : p \in S
    BY <1>2, <1>4
  <2>2. S = {p}
    BY <1>3, <2>1
  <2>3. G!Cardinality(S) = 1
    BY <2>2, SameCount, FS_Singleton
  <2> QED BY <1>4, <2>3 DEF S
<1>5. CASE x \notin w.live
  <2>1. S = {}
    BY <1>2, <1>5
  <2>2. G!Cardinality(S) = 0
    BY <2>1, SameCount, FS_EmptySet
  <2> QED BY <1>5, <2>2 DEF S
<1> QED BY <1>4, <1>5

LEMMA NoPileAboveAll ==
  ASSUME Balanced(s, taken), NEW z \in Stack
  PROVE  s.amount[z] \in 0..Gold
<1>1. /\ Fits(s, {}, Gold - taken) /\ taken \in 0..Gold /\ s \in G!World /\ Gold \in Nat
      /\ s.amount \in [Stack -> Nat] /\ s.amount[z] \in Nat
  BY Goods, WorldFields DEF Balanced, Fits, Sound
<1>2. CASE z \notin s.live
  BY <1>1, <1>2 DEF Fits
<1>3. CASE z \in s.live
  <2>1. z \in Piles(s) /\ Piles(s) \in SUBSET Stack /\ Piles(s) \ {z} \in SUBSET Stack
    BY <1>3 DEF Piles
  <2>2. Total(s) = s.amount[z] + Coins(s.amount, Piles(s) \ {z})
    BY <1>1, <2>1, CoinsWithout DEF Total
  <2>3. Coins(s.amount, Piles(s) \ {z}) \in Nat
    BY <1>1, <2>1, CoinsAreNumbers
  <2>4. Total(s) = Gold - taken
    BY <1>1 DEF Fits
  <2> QED BY <1>1, <2>2, <2>3, <2>4
<1> QED BY <1>2, <1>3

LEMMA BalancedIsConserved ==
  ASSUME Balanced(s, taken)
  PROVE  G!TypeOK /\ G!OnePlace /\ G!GoldConserved
<1>1. Fits(s, {}, Gold - taken) /\ taken \in 0..Gold /\ Sound(s, {}) /\ s \in G!World
  BY DEF Balanced, Fits, Sound
<1>2. G!TypeOK
  <2>1. s.amount \in [Stack -> Nat] /\ \A z \in Stack : s.amount[z] \in 0..Gold
    BY <1>1, WorldFields, NoPileAboveAll
  <2>2. s.amount \in [Stack -> 0..Gold]
    BY <2>1
  <2> QED BY <1>1, <2>2 DEF G!TypeOK
<1>3. G!OnePlace
  BY <1>1, OneSpot DEF G!OnePlace
<1>4. G!GoldConserved
  <2>1. Coins(s.amount, Stack \cap s.live) = Gold - taken
    BY <1>1 DEF Fits, Total, Piles
  <2>2. G!SumFunctionOnSet(s.amount, Stack \cap s.live) = Gold - taken
    BY <2>1 DEF Coins
  <2>3. Gold \in Nat
    BY Goods
  <2> QED BY <1>1, <2>2, <2>3 DEF G!GoldConserved
<1> QED BY <1>2, <1>3, <1>4

(* No packet and no script command puts an item in two places or in none,  *)
(* and none makes or loses a coin: splitting, merging, bouncing, banking,  *)
(* charging, deleting, rebuilding the caches (item.c, container.c,         *)
(* mobile.c), however many piles and bags there are and however deep they  *)
(* lie.                                                                    *)
THEOREM ItemsAreConserved == MCSpec => []ItemsConserved
<1> DEFINE Inv == part = "goods" => Balanced(s, taken)
<1>1. MCInit => Inv
  BY StartBalanced DEF MCInit
<1>2. Inv /\ [MCNext]_all => Inv'
  <2> SUFFICES ASSUME part = "goods" => Balanced(s, taken), [MCNext]_all, part' = "goods"
               PROVE  Balanced(s, taken)'
    OBVIOUS
  <2>1. CASE s' = s /\ taken' = taken
    <3>1. Balanced(s, taken)
      BY DEF MCNext, all
    <3> QED BY <2>1, <3>1 DEF Balanced
  <2>2. CASE G!Next /\ part = "goods"
    BY <2>2, StepKeeps
  <2>3. (s' = s /\ taken' = taken) \/ (G!Next /\ part = "goods")
    BY DEF MCNext, all, goods
  <2> QED BY <2>1, <2>2, <2>3
<1>3. Inv => ItemsConserved
  BY BalancedIsConserved DEF ItemsConserved, When
<1> HIDE DEF Inv
<1> QED BY <1>1, <1>2, <1>3, PTL DEF MCSpec

-----------------------------------------------------------------------------
(* No bag ends up inside itself.  A bag is held by the bag it lies in, and  *)
(* while it is out of its place (in O, or on the cursor) by the one it     *)
(* remembers, where it may be put back.                                    *)
Holds(w, O, y, b) == y \in Kept(w, b) \/ (y \in O \cup {w.hand} /\ w.last[y] = b)

(* Of any bags, some bag is held by none of them.                          *)
Rooted(w, O) ==
  \A S \in SUBSET Bag : S # {} => \E y \in S : \A b \in S : ~Holds(w, O, y, b)

(* Bags are held by the same bags as before, or no longer.                 *)
Looser(w, O, v, P) ==
  v \in G!World /\ \A y, b \in Bag : Holds(v, P, y, b) => Holds(w, O, y, b)

LEMMA LooserIsRooted ==
  ASSUME NEW w, NEW O, NEW v, NEW P, Looser(w, O, v, P), Rooted(w, O)
  PROVE  Rooted(v, P)
BY DEF Looser, Rooted

LEMMA LooserStill ==
  ASSUME NEW w, NEW O, NEW v, NEW P, NEW u, NEW Q, Looser(w, O, v, P), Looser(v, P, u, Q)
  PROVE  Looser(w, O, u, Q)
BY DEF Looser

LEMMA LooserForFewer ==
  ASSUME NEW w, NEW O, NEW v, NEW P, NEW Q, Looser(w, O, v, P), Q \subseteq P
  PROVE  Looser(w, O, v, Q)
BY DEF Looser, Holds

LEMMA LooserItself ==
  ASSUME NEW w \in G!World, NEW O
  PROVE  Looser(w, O, w, O)
BY DEF Looser

(* What leaves the bags alone.                                             *)
LEMMA BagsAlone ==
  ASSUME NEW w \in G!World, NEW O, NEW v \in G!World,
         \A b \in Bag : Kept(v, b) \cap Bag \subseteq Kept(w, b),
         v.hand \in {w.hand, Null} \/ v.hand \in Stack,
         \A z \in Bag : v.last[z] = w.last[z]
  PROVE  Looser(w, O, v, O)
BY Apartness DEF Looser, Holds

LEMMA HideLoosens ==
  ASSUME NEW w \in G!World, NEW O, NEW x \in G!Thing, NEW v, v = G!Hide(w, x)
  PROVE  Looser(w, O, v, O \cup {x}) /\ (x \in Stack => Looser(w, O, v, O))
<1>1. /\ v \in G!World /\ v.hand = (IF w.hand = x THEN Null ELSE w.hand)
      /\ \A z \in G!Thing : z # x => v.last[z] = w.last[z]
      /\ IF x = w.hand THEN v.last = w.last ELSE v.last[x] \in G!Box \cup {Ground}
      /\ \A b \in G!Box : /\ Kept(v, b) \subseteq Kept(w, b)
                          /\ x # w.hand /\ v.last[x] = b => x \in Kept(w, b)
  BY HideLeaves
<1>2. \A y, b \in Bag : Holds(v, O \cup {x}, y, b) => Holds(w, O, y, b)
  <2> SUFFICES ASSUME NEW y \in Bag, NEW b \in Bag, Holds(v, O \cup {x}, y, b)
               PROVE  Holds(w, O, y, b)
    OBVIOUS
  <2>1. y \in G!Thing /\ b \in G!Box /\ y # Null
    BY Apartness
  <2>2. CASE y \in Kept(v, b)
    BY <1>1, <2>1, <2>2 DEF Holds
  <2>3. CASE y = x /\ v.last[y] = b
    BY <1>1, <2>1, <2>3 DEF Holds
  <2>4. CASE y # x /\ y \in O \cup {v.hand} /\ v.last[y] = b
    BY <1>1, <2>1, <2>4 DEF Holds
  <2> QED BY <2>2, <2>3, <2>4 DEF Holds
<1>3. Looser(w, O, v, O \cup {x})
  BY <1>1, <1>2 DEF Looser
<1> QED BY <1>3, LooserForFewer

LEMMA HideIfPlacedLoosens ==
  ASSUME NEW w \in G!World, NEW O, NEW x \in Stack, NEW v, v = G!HideIfPlaced(w, x)
  PROVE  Looser(w, O, v, O)
<1>1. x \in G!Thing
  BY Apartness
<1> QED BY <1>1, HideLoosens, LooserItself DEF G!HideIfPlaced

(* A pile or nothing comes to lie in the chain b.                          *)
LEMMA LinkedPile ==
  ASSUME NEW w \in G!World, NEW O, NEW x \in Stack, NEW b \in G!Box, NEW v, v = G!Link(w, x, b)
  PROVE  Looser(w, O, v, O)
<1>1. x \in G!Thing /\ x \notin Bag
  BY Apartness
<1>2. /\ PutAway(w, x, v) /\ v.ground = w.ground
      /\ v.cont[b] = <<x>> \o w.cont[b] /\ \A d \in G!Box : d # b => v.cont[d] = w.cont[d]
  BY <1>1, LinkIs
<1>3. Elems(<<x>> \o w.cont[b]) = {x} \cup Elems(w.cont[b])
  BY <1>1, KeptAreThings, PrependedTo
<1>4. \A d \in G!Box : Kept(v, d) \subseteq {x} \cup Kept(w, d)
  BY <1>2, <1>3 DEF Kept
<1>5. \A d \in Bag : Kept(v, d) \cap Bag \subseteq Kept(w, d)
  BY <1>1, <1>4, Apartness
<1>6. \A z \in Bag : v.last[z] = w.last[z]
  BY <1>1, <1>2, Apartness DEF PutAway
<1> QED BY <1>2, <1>5, <1>6, BagsAlone DEF PutAway

LEMMA DroppedThing ==
  ASSUME NEW w \in G!World, NEW O, NEW x \in G!Thing, NEW v, v = G!DropAtFeet(w, x)
  PROVE  Looser(w, O, v, O)
<1>1. PutAway(w, x, v) /\ v.cont = w.cont
  BY DropAtFeetIs
<1>2. \A y, b \in Bag : Holds(v, O, y, b) => Holds(w, O, y, b)
  <2>1. \A b \in Bag : Null # b
    BY Apartness
  <2>2. \A y \in Bag : y \in G!Thing
    BY Apartness
  <2> QED BY <1>1, <2>1, <2>2 DEF PutAway, Holds, Kept
<1> QED BY <1>1, <1>2 DEF Looser, PutAway

(* What is put back lies where it was remembered, and remembers no longer. *)
LEMMA PutBackLoosens ==
  ASSUME NEW w \in G!World, NEW O, NEW x \in G!Thing, x \in Stack \/ x \in O, NEW v, v = G!PutBack(w, x)
  PROVE  Looser(w, O, v, O)
<1>1. CASE ~(w.last[x] \in G!Worn \cup (Bag \cap w.live))
  BY <1>1, DroppedThing DEF G!PutBack
<1>2. CASE w.last[x] \in G!Worn \cup (Bag \cap w.live)
  <2> DEFINE b == w.last[x]
  <2>1. b \in G!Box /\ v = G!Link(w, x, b)
    BY <1>2, Apartness DEF G!PutBack
  <2>2. CASE x \in Stack
    <3> HIDE DEF b
    <3> QED BY <2>1, <2>2, LinkedPile
  <2>3. CASE x \in O
    <3>1. /\ PutAway(w, x, v) /\ v.ground = w.ground
          /\ v.cont[b] = <<x>> \o w.cont[b] /\ \A d \in G!Box : d # b => v.cont[d] = w.cont[d]
      <4> HIDE DEF b
      <4> QED BY <2>1, LinkIs
    <3>2. Elems(<<x>> \o w.cont[b]) = {x} \cup Elems(w.cont[b])
      <4> HIDE DEF b
      <4> QED BY <2>1, KeptAreThings, PrependedTo
    <3>3. \A d \in G!Box : \A y \in Kept(v, d) : y \in Kept(w, d) \/ (y = x /\ d = b)
      <4> HIDE DEF b
      <4> QED BY <3>1, <3>2 DEF Kept
    <3>4. \A y, d \in Bag : Holds(v, O, y, d) => Holds(w, O, y, d)
      <4>1. \A d \in Bag : Null # d /\ d \in G!Box /\ d \in G!Thing
        BY Apartness
      <4> QED BY <2>3, <3>1, <3>3, <4>1 DEF PutAway, Holds
    <3> QED BY <3>1, <3>4 DEF Looser, PutAway
  <2> QED BY <2>2, <2>3
<1> QED BY <1>1, <1>2

LEMMA MergedLoosens ==
  ASSUME NEW w \in G!World, NEW O, NEW x \in Stack, NEW y \in Stack, x # y, NEW v, v = G!Merged(w, x, y)
  PROVE  Looser(w, O, v, O)
<1>1. PICK a, out : a = G!HideIfPlaced(w, y) /\ out = G!HideIfPlaced(a, x)
  OBVIOUS
<1>2. a \in G!World /\ out \in G!World
  BY <1>1, TakenTogether
<1>3. Looser(w, O, a, O) /\ Looser(a, O, out, O)
  BY <1>1, <1>2, HideIfPlacedLoosens
<1>4. /\ v \in G!World /\ v.hand = out.hand /\ v.cont = out.cont
      /\ \A z \in G!Thing : z # x /\ z # y => v.last[z] = w.last[z]
  BY <1>1, MergedIs
<1>5. \A z \in G!Thing : z # x /\ z # y => out.last[z] = w.last[z]
  BY <1>1, TakenTogether
<1>6. \A z \in Bag : v.last[z] = out.last[z]
  BY <1>4, <1>5, Apartness
<1>7. Looser(out, O, v, O)
  BY <1>2, <1>4, <1>6, BagsAlone DEF Kept
<1> QED BY <1>3, <1>7, LooserStill

(* A bag remembers no pile, and a pile that rejoins another is a pile.     *)
LEMMA ReturnLoosens ==
  ASSUME NEW w \in G!World, NEW O, NEW x \in G!Thing, x \in Stack \/ x \in O,
         NEW v, v = G!ReturnToTracked(w, x)
  PROVE  Looser(w, O, v, O)
<1> DEFINE Z == {r \in [w : G!World, x : G!Thing] : (r.x \in Stack \/ r.x \in O) /\ Looser(w, O, r.w, O)}
           start == [w |-> w, x |-> x]
<1>1. start \in Z
  BY LooserItself
<1>2. ASSUME NEW r \in Z
      PROVE  G!Rejoined(r) \in Z
  <2> DEFINE y == r.w.last[r.x]
             m == G!Merged(r.w, r.x, y)
  <2>1. r.w \in G!World /\ r.x \in G!Thing /\ Looser(w, O, r.w, O)
    OBVIOUS
  <2>2. CASE y \in Stack \cap r.w.live /\ G!Stacks(r.w, r.x, y)
    <3>1. r.x \in Stack /\ y \in Stack /\ r.x # y /\ y \in G!Thing
      BY <2>2, Apartness DEF G!Stacks
    <3>2. Looser(r.w, O, m, O)
      <4> HIDE DEF y
      <4> QED BY <2>1, <3>1, MergedLoosens
    <3>3. Looser(w, O, m, O) /\ m \in G!World
      <4> HIDE DEF m
      <4> QED BY <2>1, <3>2, LooserStill DEF Looser
    <3>4. G!Rejoined(r) = [w |-> m, x |-> y]
      BY <2>2 DEF G!Rejoined
    <3> HIDE DEF m, y
    <3> QED BY <3>1, <3>3, <3>4
  <2>3. CASE ~(y \in Stack \cap r.w.live /\ G!Stacks(r.w, r.x, y))
    BY <2>3 DEF G!Rejoined
  <2> QED BY <2>2, <2>3
<1> DEFINE end == G!AllRejoined(start)
<1>3. end \in Z
  <2> HIDE DEF Z, start
  <2> QED BY <1>1, <1>2, RejoiningEnds
<1>4. v = G!PutBack(end.w, end.x)
  BY DEF G!ReturnToTracked
<1> HIDE DEF end
<1>5. end.w \in G!World /\ end.x \in G!Thing /\ (end.x \in Stack \/ end.x \in O) /\ Looser(w, O, end.w, O)
  BY <1>3
<1>6. Looser(end.w, O, v, O)
  BY <1>4, <1>5, PutBackLoosens
<1> QED BY <1>5, <1>6, LooserStill

LEMMA MergeIntoLoosens ==
  ASSUME NEW w \in G!World, NEW O, NEW x \in Stack, NEW y \in Stack, x # y, NEW v, v = G!MergeInto(w, x, y)
  PROVE  Looser(w, O, v, O)
<1> DEFINE m == G!Merged(w, x, y)
<1>1. Looser(w, O, m, O)
  BY MergedLoosens
<1>2. v = G!ReturnToTracked(m, y)
  BY DEF G!MergeInto
<1> HIDE DEF m
<1>3. y \in G!Thing /\ m \in G!World
  BY <1>1, Apartness DEF Looser
<1> QED BY <1>1, <1>2, <1>3, ReturnLoosens, LooserStill

LEMMA GoneLoosens ==
  ASSUME NEW w \in G!World, NEW O, NEW x \in G!Thing, NEW v, v = G!Gone(w, x)
  PROVE  Looser(w, O, v, O)
<1> DEFINE out == G!HideIfPlaced(w, x)
           end == [out EXCEPT !.live = @ \ {x}, !.last[x] = Null]
<1>1. v = end
  BY DEF G!Gone
<1>2. Looser(w, O \cup {x}, out, O \cup {x})
  <2>1. Looser(w, O \cup {x}, G!Hide(w, x), (O \cup {x}) \cup {x})
    BY HideLoosens
  <2>2. Looser(w, O \cup {x}, w, O \cup {x})
    BY LooserItself
  <2>3. (O \cup {x}) \cup {x} = O \cup {x}
    OBVIOUS
  <2> QED BY <2>1, <2>2, <2>3 DEF G!HideIfPlaced
<1>3. out \in G!World /\ out.hand \in {w.hand, Null} /\ OthersRemember(w, x, out)
  BY HideIfPlacedIs
<1>4. \A b \in G!Box : Kept(out, b) \subseteq Kept(w, b)
  <2>1. \A b \in G!Box : Kept(G!Hide(w, x), b) \subseteq Kept(w, b)
    BY HideLeaves
  <2> QED BY <2>1 DEF G!HideIfPlaced
<1> HIDE DEF out
<1>5. end \in G!World
  <2>1. out.live \ {x} \in SUBSET G!Thing
    BY <1>3, WorldFields
  <2>2. [out.last EXCEPT ![x] = Null] \in [G!Thing -> G!Box \cup Stack \cup {Ground, Null}]
    BY <1>3 DEF G!World
  <2> QED BY <1>3, <2>1, <2>2 DEF G!World
<1>6. end.hand = out.hand /\ end.cont = out.cont /\ end.last = [out.last EXCEPT ![x] = Null]
  BY <1>3 DEF G!World
<1>7. out.last \in [G!Thing -> G!Box \cup Stack \cup {Ground, Null}]
  BY <1>3 DEF G!World
<1> HIDE DEF end
<1>8. \A y, b \in Bag : Holds(end, O, y, b) => Holds(w, O, y, b)
  <2> SUFFICES ASSUME NEW y \in Bag, NEW b \in Bag, Holds(end, O, y, b)
               PROVE  Holds(w, O, y, b)
    OBVIOUS
  <2>1. y \in G!Thing /\ b \in G!Box /\ y # Null /\ b # Null
    BY Apartness
  <2>2. CASE y \in Kept(end, b)
    BY <1>4, <1>6, <2>1, <2>2 DEF Holds, Kept
  <2>3. CASE y \in O \cup {end.hand} /\ end.last[y] = b
    <3>1. y # x
      BY <1>6, <1>7, <2>1, <2>3
    <3>2. w.last[y] = b
      BY <1>3, <1>6, <1>7, <2>1, <2>3, <3>1 DEF OthersRemember
    <3> QED BY <1>3, <1>6, <2>1, <2>3, <3>2 DEF Holds
  <2> QED BY <2>2, <2>3 DEF Holds
<1> QED BY <1>1, <1>5, <1>8 DEF Looser

LEMMA SplitLoosens ==
  ASSUME NEW w \in G!World, NEW O, NEW x \in Stack, NEW y \in Stack, NEW n \in Nat,
         n <= w.amount[x], NEW v, v = G!SplitByAmount(w, x, n, y)
  PROVE  Looser(w, O, v, O)
<1> DEFINE out == G!HideIfPlaced(w, x)
           amount == [w.amount EXCEPT ![y] = n, ![x] = w.amount[x] - n]
           last == [out.last EXCEPT ![y] = x]
           m == [out EXCEPT !.live = @ \cup {y}, !.last[y] = x,
                            !.amount = [@ EXCEPT ![y] = n, ![x] = w.amount[x] - n]]
<1>a. v = G!ReturnToTracked(m, x)
  BY DEF G!SplitByAmount
<1>b. out = G!HideIfPlaced(w, x)
  OBVIOUS
<1> HIDE DEF out
<1>1. x \in G!Thing /\ y \in G!Thing
  BY Apartness
<1>2. out \in G!World /\ out.amount = w.amount /\ Looser(w, O, out, O)
  BY <1>b, <1>1, HideIfPlacedIs, HideIfPlacedLoosens
<1>3. amount \in [Stack -> Nat] /\ last \in [G!Thing -> G!Box \cup Stack \cup {Ground, Null}]
  <2>1. w.amount \in [Stack -> Nat] /\ w.amount[x] - n \in Nat /\ n \in Nat
    BY DEF G!World
  <2>2. out.last \in [G!Thing -> G!Box \cup Stack \cup {Ground, Null}]
    BY <1>2 DEF G!World
  <2> QED BY <1>1, <2>1, <2>2
<1>4. m = [out EXCEPT !.live = out.live \cup {y}, !.last = last, !.amount = amount]
  BY <1>2 DEF G!World
<1>5. \A z \in Bag : last[z] = out.last[z]
  <2>1. out.last \in [G!Thing -> G!Box \cup Stack \cup {Ground, Null}]
    BY <1>2 DEF G!World
  <2> QED BY <2>1, Apartness
<1> HIDE DEF m, amount, last
<1>6. /\ m \in G!World /\ m.last = last /\ m.hand = out.hand /\ m.cont = out.cont
  BY <1>1, <1>2, <1>3, <1>4 DEF G!World
<1>7. Looser(out, O, m, O)
  BY <1>2, <1>5, <1>6, BagsAlone DEF Kept
<1>8. Looser(m, O, v, O)
  BY <1>a, <1>1, <1>6, ReturnLoosens
<1> QED BY <1>2, <1>7, <1>8, LooserStill

LEMMA AddLoosens ==
  ASSUME NEW w \in G!World, NEW O, NEW x \in Stack, NEW b \in G!Box, NEW v, v = G!AddToContainer(w, x, b)
  PROVE  Looser(w, O, v, O)
<1> DEFINE k == G!SelectInSeq(w.cont[b], LAMBDA y : G!Stacks(w, x, y))
           y == w.cont[b][k]
<1>1. CASE k = 0
  <2>1. v = G!Link(w, x, b)
    BY <1>1 DEF G!AddToContainer
  <2> QED BY <2>1, LinkedPile
<1>2. CASE k # 0
  <2>1. v = G!MergeInto(w, x, y)
    BY <1>2 DEF G!AddToContainer
  <2>2. k \in DOMAIN w.cont[b] /\ G!Stacks(w, x, y)
    <3> DEFINE I == {i \in 1..Len(w.cont[b]) : G!Stacks(w, x, w.cont[b][i])}
    <3>1. k = IF I # {} THEN G!Min(I) ELSE 0
      BY DEF G!SelectInSeq
    <3>2. w.cont[b] \in Seq(G!Thing)
      BY KeptAreThings
    <3>3. I \in SUBSET Nat /\ I # {}
      BY <1>2, <3>1
    <3>4. k \in I
      <4> HIDE DEF I
      <4> QED BY <3>1, <3>3, LeastIsIn
    <3> QED BY <3>2, <3>4
  <2>3. y \in Stack /\ x # y
    BY <2>2 DEF G!Stacks
  <2> HIDE DEF y, k
  <2> QED BY <2>1, <2>3, MergeIntoLoosens
<1> QED BY <1>1, <1>2

(* One step of a charge, case by case: a bag is opened, a pile that covers  *)
(* the rest is taken out, reduced and put back, another one is used up.    *)
Opened(r, x, shut, v) == v = [r EXCEPT !.list = G!Inside(r.w, x, shut) \o Tail(r.list)]
Reduced(r, want, x, out) == out = [G!Hide(r.w, x) EXCEPT !.amount[x] = @ - (want - r.got)]
Covered(want, x, out, v) ==
  v = [w |-> IF out.amount[x] = 0 THEN G!Gone(out, x) ELSE G!ReturnToTracked(out, x),
       list |-> <<>>, got |-> want]
UsedUp(r, x, v) ==
  v = [w |-> G!Gone(G!Emptied(r.w, x), x), list |-> Tail(r.list), got |-> r.got + r.w.amount[x]]

LEMMA ConsumedIs ==
  ASSUME NEW shut \in SUBSET Bag, NEW want, NEW r, NEW x, x = Head(r.list), NEW v, v = G!Consumed(r, want, shut)
  PROVE  \/ (r.list = <<>> \/ r.got = want) /\ v = r
         \/ r.list # <<>> /\ r.got # want /\ x \in Bag /\ Opened(r, x, shut, v)
         \/ /\ r.list # <<>> /\ r.got # want /\ x \notin Bag /\ r.w.amount[x] >= want - r.got
            /\ \E out : Reduced(r, want, x, out) /\ Covered(want, x, out, v)
         \/ /\ r.list # <<>> /\ r.got # want /\ x \notin Bag /\ ~(r.w.amount[x] >= want - r.got)
            /\ UsedUp(r, x, v)
<1>1. CASE r.list = <<>> \/ r.got = want
  BY <1>1 DEF G!Consumed
<1>2. CASE r.list # <<>> /\ r.got # want /\ x \in Bag
  BY <1>2 DEF G!Consumed, Opened
<1>3. CASE r.list # <<>> /\ r.got # want /\ x \notin Bag /\ r.w.amount[x] >= want - r.got
  <2> DEFINE out == [G!Hide(r.w, x) EXCEPT !.amount[x] = @ - (want - r.got)]
  <2>1. Covered(want, x, out, v)
    BY <1>3 DEF G!Consumed, Covered
  <2>2. Reduced(r, want, x, out)
    BY DEF Reduced
  <2> HIDE DEF out
  <2> QED BY <1>3, <2>1, <2>2
<1>4. CASE r.list # <<>> /\ r.got # want /\ x \notin Bag /\ ~(r.w.amount[x] >= want - r.got)
  <2>1. UsedUp(r, x, v)
    BY <1>4 DEF G!Consumed, UsedUp
  <2> QED BY <1>4, <2>1
<1> QED BY <1>1, <1>2, <1>3, <1>4

LEMMA AmountOnly ==
  ASSUME NEW w \in G!World, NEW x \in Stack, NEW n \in Nat, NEW v, v = [w EXCEPT !.amount[x] = n]
  PROVE  /\ v \in G!World /\ v.live = w.live /\ v.worn = w.worn /\ v.cont = w.cont /\ v.hand = w.hand
         /\ v.ground = w.ground /\ v.last = w.last
         /\ v.amount[x] = n /\ \A z \in Stack : z # x => v.amount[z] = w.amount[z]
<1> DEFINE amount == [w.amount EXCEPT ![x] = n]
<1>1. amount \in [Stack -> Nat] /\ amount[x] = n /\ \A z \in Stack : z # x => amount[z] = w.amount[z]
  BY DEF G!World
<1>2. v = [w EXCEPT !.amount = amount]
  BY DEF G!World
<1> HIDE DEF amount
<1> QED BY <1>1, <1>2 DEF G!World

LEMMA AmountLoosens ==
  ASSUME NEW w \in G!World, NEW O, NEW x \in Stack, NEW n \in Nat, NEW v, v = [w EXCEPT !.amount[x] = n]
  PROVE  Looser(w, O, v, O)
<1>1. v \in G!World /\ v.cont = w.cont /\ v.hand = w.hand /\ v.last = w.last
  BY AmountOnly
<1> QED BY <1>1, BagsAlone DEF Kept

LEMMA ConsumedLoosens ==
  ASSUME NEW shut \in SUBSET Bag, NEW want \in Nat, NEW c \in 0..Gold, NEW r \in Paying(want, c), NEW O,
         NEW v, v = G!Consumed(r, want, shut)
  PROVE  Looser(r.w, O, v.w, O)
<1>1. r.w \in G!World /\ r.list \in Seq(G!Thing) /\ r.got \in 0..want
  BY DEF Paying
<1>x. PICK x : x = Head(r.list)
  OBVIOUS
<1>2. r.list # <<>> => x \in G!Thing
  BY <1>1, <1>x, HeadAndTail
<1>3. CASE v = r
  BY <1>1, <1>3, LooserItself
<1>4. CASE Opened(r, x, shut, v)
  <2>1. v.w = r.w
    BY <1>4 DEF Paying, Opened
  <2> QED BY <1>1, <2>1, LooserItself
<1>5. CASE /\ r.list # <<>> /\ r.got # want /\ x \notin Bag /\ r.w.amount[x] >= want - r.got
           /\ \E out : Reduced(r, want, x, out) /\ Covered(want, x, out, v)
  <2>1. PICK out : Reduced(r, want, x, out) /\ Covered(want, x, out, v)
    BY <1>5
  <2>2. x \in Stack /\ x \in G!Thing
    BY <1>2, <1>5, Apartness
  <2>a. PICK a : a = G!Hide(r.w, x)
    OBVIOUS
  <2>3. a \in G!World /\ a.amount = r.w.amount /\ Looser(r.w, O, a, O)
    <3>1. a \in G!World /\ a.amount = r.w.amount
      BY <1>1, <2>2, <2>a, HideIs
    <3>2. Looser(r.w, O, a, O)
      BY <1>1, <2>2, <2>a, HideLoosens
    <3> QED BY <3>1, <3>2
  <2> DEFINE n == a.amount[x] - (want - r.got)
  <2>4. out = [a EXCEPT !.amount[x] = n]
    BY <2>1, <2>a DEF Reduced
  <2>5. n \in Nat
    <3>1. r.w.amount[x] \in Nat
      BY <1>1, <2>2 DEF G!World
    <3> QED BY <1>1, <1>5, <2>3, <3>1
  <2> HIDE DEF n
  <2>6. out \in G!World /\ Looser(a, O, out, O)
    BY <2>2, <2>3, <2>4, <2>5, AmountOnly, AmountLoosens
  <2> DEFINE u == IF out.amount[x] = 0 THEN G!Gone(out, x) ELSE G!ReturnToTracked(out, x)
  <2>7. Looser(out, O, u, O)
    BY <2>2, <2>6, GoneLoosens, ReturnLoosens
  <2>8. v.w = u
    BY <2>1 DEF Covered
  <2> HIDE DEF u
  <2>9. Looser(r.w, O, out, O)
    BY <2>3, <2>6, LooserStill
  <2> QED BY <2>7, <2>8, <2>9, LooserStill
<1>6. CASE r.list # <<>> /\ x \notin Bag /\ UsedUp(r, x, v)
  <2>2. x \in Stack /\ x \in G!Thing
    BY <1>2, <1>6, Apartness
  <2> DEFINE a == G!Emptied(r.w, x)
             u == G!Gone(a, x)
  <2>3. a \in G!World /\ Looser(r.w, O, a, O)
    BY <1>1, <2>2, AmountOnly, AmountLoosens DEF G!Emptied
  <2>4. Looser(a, O, u, O)
    <3> HIDE DEF a
    <3> QED BY <2>2, <2>3, GoneLoosens
  <2>5. v.w = u
    BY <1>6 DEF UsedUp
  <2> HIDE DEF a, u
  <2> QED BY <2>3, <2>4, <2>5, LooserStill
<1> QED BY <1>x, <1>3, <1>4, <1>5, <1>6, ConsumedIs

LEMMA ConsumeLoosens ==
  ASSUME NEW shut \in SUBSET Bag,
         NEW w, NEW O, NEW c \in 0..Gold, Fits(w, {}, c), NEW b \in G!Box, NEW want \in Nat,
         NEW r, r = G!ConsumeResources(w, b, want, shut)
  PROVE  Looser(w, O, r.w, O)
<1> DEFINE start == [w |-> w, list |-> w.cont[b], got |-> 0]
           Z == {z \in Paying(want, c) : Looser(w, O, z.w, O)}
<1>1. c \in Nat /\ 0 \in 0..want /\ c - 0 = c /\ w \in G!World
  BY Goods DEF Fits, Sound
<1>2. w.cont[b] \in Seq(G!Thing) /\ Payable(w, Elems(w.cont[b]))
  BY ContentsPayable
<1>3. start \in Paying(want, c)
  <2> DEFINE list == w.cont[b]
  <2>1. list \in Seq(G!Thing) /\ Payable(w, Elems(list))
    BY <1>2
  <2> HIDE DEF list
  <2>2. [w |-> w, list |-> list, got |-> 0] \in Paying(want, c)
    BY <1>1, <2>1, PayingIs
  <2> QED BY <2>2 DEF list
<1>4. start \in Z
  BY <1>1, <1>3, LooserItself
<1>5. r = G!AllConsumed(start, want, shut)
  BY DEF G!ConsumeResources, G!Consume
<1> HIDE DEF start
<1>6. ASSUME NEW z \in Z PROVE G!Consumed(z, want, shut) \in Z
  <2>1. z \in Paying(want, c) /\ Looser(w, O, z.w, O)
    OBVIOUS
  <2>2. G!Consumed(z, want, shut) \in Paying(want, c) /\ Looser(z.w, O, G!Consumed(z, want, shut).w, O)
    BY <2>1, ConsumedStays, ConsumedLoosens
  <2> QED BY <2>1, <2>2, LooserStill
<1>7. r \in Z
  <2> HIDE DEF Z
  <2> QED BY <1>4, <1>5, <1>6, ConsumingEnds
<1> QED BY <1>7

LEMMA DeleteLoosens ==
  ASSUME NEW w, NEW O, NEW c \in 0..Gold, Fits(w, {}, c), NEW x \in G!Thing, NEW r, r = G!Deleted(w, x)
  PROVE  Looser(w, O, r.w, O)
<1> DEFINE start == [w |-> w, list |-> <<x>>, gold |-> 0]
           Z == {z \in Deleting(c) : Looser(w, O, z.w, O)}
<1>1. c \in Nat /\ c - 0 = c /\ w \in G!World /\ <<x>> \in Seq(G!Thing)
  BY Goods DEF Fits, Sound
<1>2. start \in Z
  BY <1>1, LooserItself DEF Deleting
<1>3. r = G!AllDeleted(start)
  BY DEF G!Deleted
<1> HIDE DEF start
<1>4. ASSUME NEW z \in Z PROVE G!DeletedOne(z) \in Z
  <2>1. z \in Deleting(c) /\ Looser(w, O, z.w, O) /\ z.w \in G!World /\ z.list \in Seq(G!Thing)
    BY DEF Deleting
  <2>2. G!DeletedOne(z) \in Deleting(c)
    BY <2>1, DeletedOneStays
  <2>3. G!DeletedOne(z).w = z.w \/ (z.list # <<>> /\ G!DeletedOne(z).w = G!Gone(z.w, Head(z.list)))
    BY <2>1 DEF G!DeletedOne, Deleting
  <2>4. z.list # <<>> => Head(z.list) \in G!Thing
    BY <2>1, HeadAndTail
  <2>5. Looser(z.w, O, G!DeletedOne(z).w, O)
    BY <2>1, <2>3, <2>4, LooserItself, GoneLoosens
  <2> QED BY <2>1, <2>2, <2>5, LooserStill
<1>5. r \in Z
  <2> HIDE DEF Z
  <2> QED BY <1>2, <1>3, <1>4, DeletingEnds
<1> QED BY <1>5

(* A rebuilding function that lets no bag into another.                    *)
Loosens(g) ==
  /\ g \in [G!World -> [G!Box -> G!World]]
  /\ \A w \in G!World : \A b \in G!Box : \A O : Looser(w, O, g[w][b], O)

LEMMA TakenOutLoosens ==
  ASSUME NEW w \in G!World, NEW O, NEW x \in G!Thing, NEW g, Loosens(g)
  PROVE  Looser(w, O, G!TakenOut(w, x, g), O \cup {x})
<1> DEFINE v == G!Hide(w, x)
<1>1. Looser(w, O, v, O \cup {x}) /\ v \in G!World
  BY HideLoosens DEF Looser
<1>2. G!TakenOut(w, x, g) = IF x \in G!Box THEN g[v][x] ELSE v
  BY DEF G!TakenOut
<1> HIDE DEF v
<1>3. x \in G!Box => Looser(v, O \cup {x}, g[v][x], O \cup {x})
  BY <1>1 DEF Loosens
<1> QED BY <1>1, <1>2, <1>3, LooserStill

LEMMA GearOutLoosens ==
  ASSUME NEW w \in G!World, NEW O, NEW x \in G!Worn, NEW g, Loosens(g)
  PROVE  Looser(w, O, G!TakenOut(w, x, g), O)
<1> DEFINE v == G!Hide(w, x)
<1>1. v \in G!World /\ v.hand = w.hand /\ v.cont = w.cont /\ v.last = w.last
  BY HideWornIs
<1>2. G!TakenOut(w, x, g) = g[v][x] /\ x \in G!Box
  BY Apartness DEF G!TakenOut
<1> HIDE DEF v
<1>3. Looser(w, O, v, O)
  BY <1>1, BagsAlone DEF Kept
<1>4. Looser(v, O, g[v][x], O)
  BY <1>1, <1>2 DEF Loosens
<1> QED BY <1>2, <1>3, <1>4, LooserStill

LEMMA GearOnLoosens ==
  ASSUME NEW w \in G!World, NEW O, NEW x, x \in G!Worn \/ x \in G!Thing \cap (Stack \cup O),
         NEW v, v = G!EquipOnMobile(w, x)
  PROVE  Looser(w, O, v, O)
<1>1. /\ v \in G!World /\ v.cont = w.cont /\ v.last = w.last
      /\ x \in G!Worn => v.hand = w.hand
      /\ x \notin G!Worn => v.hand = x
  BY EquipIs
<1>2. \A y, b \in Bag : Holds(v, O, y, b) => Holds(w, O, y, b)
  BY <1>1, Apartness DEF Holds, Kept
<1> QED BY <1>1, <1>2 DEF Looser

LEMMA AllOutLoosens ==
  ASSUME NEW w \in G!World, NEW O, NEW q \in Seq(G!Thing), NEW g, Loosens(g)
  PROVE  Looser(w, O, G!AllOut(w, q, g), O \cup Elems(q))
<1> DEFINE Z == [k \in 0..Len(q) |-> {u \in G!World : Looser(w, O, u, O \cup First(q, k))}]
<1>1. /\ Len(q) \in Nat
      /\ \A k \in 1..Len(q) : k \in 0..Len(q) /\ k - 1 \in 0..Len(q) /\ q[k] \in G!Thing
  OBVIOUS
<1>2. w \in Z[0]
  <2>1. O \cup First(q, 0) = O
    BY DEF First
  <2>2. Looser(w, O, w, O \cup First(q, 0))
    <3>1. Looser(w, O, w, O)
      BY LooserItself
    <3> QED BY <2>1, <3>1, Zenon
  <2> QED BY <1>1, <2>2
<1>3. ASSUME NEW k \in 1..Len(q), NEW u \in Z[k - 1]
      PROVE  G!TakenOut(u, q[k], g) \in Z[k]
  <2> DEFINE x == q[k]
             P == O \cup First(q, k - 1)
             Q == O \cup First(q, k)
  <2>1. u \in G!World /\ Looser(w, O, u, P) /\ Z[k] = {t \in G!World : Looser(w, O, t, Q)}
    BY <1>1
  <2>2. x \in G!Thing /\ Q \subseteq P \cup {x}
    <3>1. \A i \in 1..k : i \in 1..(k - 1) \/ i = k
      BY <1>1
    <3>2. First(q, k) \subseteq First(q, k - 1) \cup {q[k]}
      BY <3>1 DEF First
    <3> QED BY <1>1, <3>2
  <2> HIDE DEF Z, x, P, Q
  <2>3. Looser(u, P, G!TakenOut(u, x, g), P \cup {x})
    BY <2>1, <2>2, TakenOutLoosens
  <2>4. Looser(w, O, G!TakenOut(u, x, g), P \cup {x})
    BY <2>1, <2>3, LooserStill
  <2>5. Looser(w, O, G!TakenOut(u, x, g), Q)
    BY <2>2, <2>4, LooserForFewer
  <2> QED BY <2>1, <2>5 DEF x, Looser
<1>4. Z[Len(q)] = {u \in G!World : Looser(w, O, u, O \cup First(q, Len(q)))}
  BY <1>1
<1>5. First(q, Len(q)) = Elems(q)
  BY <1>1 DEF First, Elems
<1> HIDE DEF Z
<1>6. G!AllOut(w, q, g) \in Z[Len(q)]
  BY <1>1, <1>2, <1>3, AllOutEnds
<1> QED BY <1>4, <1>5, <1>6

LEMMA AllBackLoosens ==
  ASSUME NEW w \in G!World, NEW O, NEW q \in Seq(G!Thing), Elems(q) \subseteq O
  PROVE  Looser(w, O, G!AllBack(w, q), O)
<1> DEFINE Stage == {u \in G!World : Looser(w, O, u, O)}
           Z == [k \in 0..Len(q) |-> Stage]
<1>1. Len(q) \in Nat /\ \A k \in 1..Len(q) : k \in 0..Len(q) /\ k - 1 \in 0..Len(q)
  OBVIOUS
<1>2. \A k \in 1..Len(q) : q[k] \in G!Thing /\ q[k] \in O
  BY DEF Elems
<1>3. \A k \in 0..Len(q) : Z[k] = Stage
  OBVIOUS
<1>4. w \in Z[0]
  BY <1>1, LooserItself
<1> HIDE DEF Z
<1>5. ASSUME NEW k \in 1..Len(q), NEW u \in Z[k - 1]
      PROVE  G!ReturnToTracked(u, q[k]) \in Z[k]
  <2>1. u \in G!World /\ Looser(w, O, u, O)
    BY <1>1, <1>3
  <2> DEFINE x == q[k]
  <2>2. x \in G!Thing /\ x \in O
    BY <1>2
  <2> HIDE DEF x
  <2>3. Looser(u, O, G!ReturnToTracked(u, x), O)
    BY <2>1, <2>2, ReturnLoosens
  <2>4. G!ReturnToTracked(u, x) \in Stage
    BY <2>1, <2>3, LooserStill DEF Looser
  <2> HIDE DEF Stage
  <2> QED BY <1>1, <1>3, <2>4 DEF x
<1>6. G!AllBack(w, q) \in Z[Len(q)]
  BY <1>1, <1>4, <1>5, AllBackEnds
<1> QED BY <1>1, <1>3, <1>6

LEMMA RefreshedLoosens ==
  ASSUME NEW g, Loosens(g), Tidy(g)
  PROVE  Loosens(G!Refreshed(g))
<1> DEFINE Outside(w, b) == G!AllOut(w, w.cont[b], g)
           Unweighed(w, b) == [Outside(w, b) EXCEPT !.stored[b] = 0]
           r == G!Refreshed(g)
<1>1. r = [w \in G!World |-> [b \in G!Box |-> G!AllBack(Unweighed(w, b), w.cont[b])]]
  BY DEF G!Refreshed
<1>2. r \in [G!World -> [G!Box -> G!World]]
  BY RefreshedIsTidy DEF Tidy
<1> HIDE DEF r, Unweighed
<1>3. ASSUME NEW w \in G!World, NEW b \in G!Box, NEW O
      PROVE  Looser(w, O, r[w][b], O)
  <2> DEFINE q == w.cont[b]
             o == Outside(w, b)
             m == Unweighed(w, b)
             P == O \cup Elems(q)
  <2>1. q \in Seq(G!Thing)
    BY DEF G!World
  <2>2. o = G!AllOut(w, q, g) /\ r[w][b] = G!AllBack(m, q)
    BY <1>1
  <2>3. m = [o EXCEPT !.stored[b] = 0]
    BY DEF Unweighed
  <2> HIDE DEF q, m, o
  <2>4. Looser(w, O, o, P) /\ o \in G!World
    BY <2>1, <2>2, AllOutLoosens DEF Looser
  <2>5. SamePlaces(o, m)
    BY <2>3, <2>4, ClearedStays
  <2>6. Looser(o, P, m, P) /\ m \in G!World
    <3>1. m \in G!World /\ m.cont = o.cont /\ m.hand = o.hand /\ m.last = o.last
      BY <2>5 DEF SamePlaces
    <3> HIDE DEF P
    <3> QED BY <2>4, <3>1, BagsAlone DEF Kept
  <2>7. Looser(m, P, r[w][b], P)
    BY <2>1, <2>2, <2>6, AllBackLoosens
  <2>8. O \subseteq P
    OBVIOUS
  <2> HIDE DEF P
  <2>9. Looser(w, O, r[w][b], P)
    BY <2>4, <2>6, <2>7, LooserStill
  <2> QED BY <2>8, <2>9, LooserForFewer
<1> QED BY <1>2, <1>3 DEF Loosens, r

LEMMA RefreshLoosens ==
  ASSUME NEW max \in Nat
  PROVE  Loosens(G!Refresh(max))
<1> DEFINE Z == {g \in [G!World -> [G!Box -> G!World]] : Tidy(g) /\ Loosens(g)}
<1>1. Tidy(G!NotRefreshed)
  BY NotRefreshedIsTidy
<1>2. Loosens(G!NotRefreshed)
  <2> DEFINE r == G!NotRefreshed
  <2>1. r = [w \in G!World |-> [b \in G!Box |-> w]]
    BY DEF G!NotRefreshed
  <2> HIDE DEF r
  <2>2. r \in [G!World -> [G!Box -> G!World]] /\ \A w \in G!World : \A b \in G!Box : r[w][b] = w
    BY <2>1
  <2> QED BY <2>2, LooserItself DEF Loosens, r
<1>3. G!NotRefreshed \in Z /\ \A g \in Z : G!Refreshed(g) \in Z
  BY <1>1, <1>2, RefreshedIsTidy, RefreshedLoosens DEF Tidy
<1>4. G!Refresh(max) \in Z
  <2> HIDE DEF Z
  <2> QED BY <1>3, RefreshEnds
<1> QED BY <1>4

(* The gear is taken off, its caches rebuilt, and put on again.            *)
LEMMA WeightRelatedLoosens ==
  ASSUME NEW w \in G!World, w.hand = Null \/ w.hand \in G!Thing
  PROVE  Looser(w, {}, G!WeightRelated(w), {})
<1> DEFINE g == G!Refresh(G!Cardinality(Bag) + 1)
           gear == (IF w.hand = Null THEN <<>> ELSE <<w.hand>>) \o <<Pack, Bank>>
           out == G!AllOut(w, gear, g)
           bare == [out EXCEPT !.stored[Body] = 0]
           held == IF w.hand = Null THEN bare ELSE G!EquipOnMobile(bare, w.hand)
           H == {w.hand}
           Stage == {u \in G!World : Looser(w, {}, u, H)}
           Z == [k \in 0..Len(gear) |-> Stage]
<1>1. G!WeightRelated(w) = G!EquipOnMobile(G!EquipOnMobile(held, Pack), Bank)
  BY DEF G!WeightRelated
<1>2. Loosens(g)
  <2>1. G!Cardinality(Bag) = Cardinality(Bag) /\ Cardinality(Bag) \in Nat
    BY Goods, SameCount, FS_CardinalityType
  <2>2. G!Cardinality(Bag) + 1 \in Nat
    BY <2>1
  <2> QED BY <2>2, RefreshLoosens
<1>3. Pack \in G!Worn /\ Bank \in G!Worn /\ Null \notin G!Thing
  BY Apartness
<1>4. Len(gear) \in Nat /\ \A k \in 1..Len(gear) : gear[k] \in G!Worn \/ (gear[k] = w.hand /\ w.hand \in G!Thing)
  <2>1. CASE w.hand = Null
    <3>1. gear = <<Pack, Bank>>
      BY <2>1
    <3> QED BY <1>3, <3>1
  <2>2. CASE w.hand # Null
    <3> DEFINE h == w.hand
    <3>1. gear = <<h>> \o <<Pack, Bank>>
      BY <2>2
    <3>2. h = w.hand /\ h \in G!Thing
      BY <2>2
    <3> HIDE DEF gear, h
    <3>3. Len(gear) = 3 /\ gear[1] = h /\ gear[2] = Pack /\ gear[3] = Bank
      BY <3>1
    <3> QED BY <1>3, <3>2, <3>3
  <2> QED BY <2>1, <2>2
<1>o. out = G!AllOut(w, gear, g)
  OBVIOUS
<1>b. bare = [out EXCEPT !.stored[Body] = 0]
  OBVIOUS
<1> HIDE DEF g, out, bare, gear
<1>5. w \in Stage
  BY LooserItself DEF Looser, Holds
<1>6. ASSUME NEW u \in Stage, NEW x, x \in G!Worn \/ (x = w.hand /\ x \in G!Thing)
      PROVE  G!TakenOut(u, x, g) \in Stage
  <2>1. u \in G!World /\ Looser(w, {}, u, H)
    OBVIOUS
  <2>2. Looser(u, H, G!TakenOut(u, x, g), H)
    <3>1. CASE x \in G!Worn
      <4> HIDE DEF H
      <4> QED BY <1>2, <2>1, <3>1, GearOutLoosens
    <3>2. CASE x = w.hand /\ x \in G!Thing
      <4>1. H \cup {x} = H
        BY <3>2
      <4>2. Looser(u, H, G!TakenOut(u, x, g), H \cup {x})
        <5> HIDE DEF H
        <5> QED BY <1>2, <2>1, <3>2, TakenOutLoosens
      <4> QED BY <4>1, <4>2, Zenon
    <3> QED BY <1>6, <3>1, <3>2
  <2>3. Looser(w, {}, G!TakenOut(u, x, g), H)
    <3> HIDE DEF H
    <3> QED BY <2>1, <2>2, LooserStill
  <2> QED BY <2>3 DEF Looser
<1>7. \A k \in 1..Len(gear) : k \in 0..Len(gear) /\ k - 1 \in 0..Len(gear)
  BY <1>4
<1>8. w \in Z[0] /\ Z[Len(gear)] = Stage /\ \A k \in 1..Len(gear) : Z[k - 1] = Stage /\ Z[k] = Stage
  <2> HIDE DEF Stage
  <2> QED BY <1>4, <1>5, <1>7
<1> HIDE DEF Z
<1>9. out \in Stage
  <2>1. \A k \in 1..Len(gear) : \A z \in Z[k - 1] : G!TakenOut(z, gear[k], g) \in Z[k]
    <3> HIDE DEF Stage
    <3> QED BY <1>4, <1>6, <1>8
  <2>2. G!AllOut(w, gear, g) \in Z[Len(gear)]
    BY <1>4, <1>8, <2>1, AllOutEnds
  <2> QED BY <1>o, <1>8, <2>2
<1>10. Looser(w, {}, bare, H) /\ bare \in G!World
  <2>1. out \in G!World /\ Looser(w, {}, out, H)
    BY <1>9
  <2>2. SamePlaces(out, bare)
    BY <1>b, <2>1, ClearedStays
  <2>3. bare \in G!World /\ bare.cont = out.cont /\ bare.hand = out.hand /\ bare.last = out.last
    BY <2>2 DEF SamePlaces
  <2> HIDE DEF H
  <2>4. Looser(out, H, bare, H)
    BY <2>1, <2>3, BagsAlone DEF Kept
  <2> QED BY <2>1, <2>3, <2>4, LooserStill
<1>11. Looser(w, {}, held, H) /\ held \in G!World
  <2>1. CASE w.hand = Null
    BY <1>10, <2>1
  <2>2. CASE w.hand # Null
    <3>1. held = G!EquipOnMobile(bare, w.hand) /\ w.hand \in G!Thing \cap (Stack \cup H)
      BY <2>2
    <3> HIDE DEF held, H
    <3>2. Looser(bare, H, held, H)
      BY <1>10, <3>1, GearOnLoosens
    <3>3. Looser(w, {}, held, H)
      BY <1>10, <3>2, LooserStill
    <3> QED BY <3>3 DEF Looser
  <2> QED BY <2>1, <2>2
<1> HIDE DEF held, H
<1> DEFINE packed == G!EquipOnMobile(held, Pack)
           banked == G!EquipOnMobile(packed, Bank)
<1>12. Looser(held, H, packed, H) /\ packed \in G!World
  BY <1>3, <1>11, GearOnLoosens DEF Looser
<1>13. banked = G!EquipOnMobile(packed, Bank)
  OBVIOUS
<1> HIDE DEF packed
<1>14. Looser(packed, H, banked, H)
  BY <1>3, <1>12, <1>13, GearOnLoosens
<1>15. G!WeightRelated(w) = banked
  BY <1>1 DEF packed
<1> HIDE DEF banked
<1>16. Looser(w, {}, packed, H)
  BY <1>11, <1>12, LooserStill
<1>17. Looser(w, {}, banked, H)
  BY <1>14, <1>16, LooserStill
<1> QED BY <1>15, <1>17, LooserForFewer

-----------------------------------------------------------------------------
(* What a thing lies in, and what that lies in.  The climb from place to   *)
(* place goes on past the places of P; there is a function that climbs,    *)
(* acyclic or not: from y it finds what every closed set with y contains.  *)
Node == G!Thing \cup G!Worn
Stop == Node \cup {Body, Null}

Climbs(up, w, P) ==
  up = [y \in G!Thing \cup G!Worn \cup {Body, Null} |->
          IF y = Null THEN {}
          ELSE {y} \cup (IF y # Body /\ y \in P THEN up[G!Parent(w, y)] ELSE {})]

Closed(w, P, T) == \A y \in T : y \in Node \cap P => G!Parent(w, y) \in T
Reached(w, P, y) == {z \in Stop : \A T \in SUBSET Stop : y \in T /\ Closed(w, P, T) => z \in T}

LEMMA ReachedIs ==
  ASSUME NEW w \in G!World, NEW P, NEW y \in Stop
  PROVE  /\ y \in Reached(w, P, y)
         /\ y \in Node \cap P => Reached(w, P, y) = {y} \cup Reached(w, P, G!Parent(w, y))
         /\ y \notin Node \cap P => Reached(w, P, y) = {y}
<1>1. y \in Reached(w, P, y)
  BY DEF Reached
<1>2. ASSUME y \in Node \cap P
      PROVE  Reached(w, P, y) = {y} \cup Reached(w, P, G!Parent(w, y))
  <2> DEFINE p == G!Parent(w, y)
             T == {y} \cup Reached(w, P, p)
  <2>1. p \in Stop
    BY ParentIs, Apartness DEF Stop, Node
  <2>2. Reached(w, P, p) \subseteq Reached(w, P, y)
    BY <1>2 DEF Reached, Closed
  <2>3. p \in T
    BY <2>1 DEF Reached
  <2>4. Closed(w, P, T)
    <3> SUFFICES ASSUME NEW a \in T, a \in Node \cap P PROVE G!Parent(w, a) \in T
      BY DEF Closed
    <3>1. CASE a = y
      BY <2>3, <3>1
    <3>2. CASE a \in Reached(w, P, p)
      <4>1. G!Parent(w, a) \in Stop
        BY ParentIs, Apartness DEF Stop, Node
      <4>2. G!Parent(w, a) \in Reached(w, P, p)
        BY <3>2, <4>1 DEF Reached, Closed
      <4> QED BY <4>2
    <3> QED BY <3>1, <3>2
  <2>5. T \in SUBSET Stop /\ y \in T
    BY DEF Reached
  <2> HIDE DEF T
  <2>6. Reached(w, P, y) \subseteq T
    BY <2>4, <2>5 DEF Reached
  <2> QED BY <1>1, <2>2, <2>6 DEF T
<1>3. ASSUME y \notin Node \cap P
      PROVE  Reached(w, P, y) = {y}
  <2>1. Closed(w, P, {y}) /\ {y} \in SUBSET Stop
    BY <1>3 DEF Closed
  <2>2. Reached(w, P, y) \subseteq {y}
    BY <2>1 DEF Reached
  <2> QED BY <1>1, <2>2
<1> QED BY <1>1, <1>2, <1>3

LEMMA ClimbExists ==
  ASSUME NEW w \in G!World, NEW P
  PROVE  \E up : Climbs(up, w, P)
<1> DEFINE up == [y \in Stop |-> Reached(w, P, y) \ {Null}]
<1>1. ASSUME NEW y \in Stop
      PROVE  up[y] = IF y = Null THEN {}
                     ELSE {y} \cup (IF y # Body /\ y \in P THEN up[G!Parent(w, y)] ELSE {})
  <2>1. y \in Node <=> y # Null /\ y # Body
    BY Apartness DEF Stop, Node
  <2>2. G!Parent(w, y) \in Stop
    BY ParentIs, Apartness DEF Stop, Node
  <2>3. CASE y = Null
    <3>1. Reached(w, P, y) = {Null}
      BY <2>1, <2>3, ReachedIs
    <3> QED BY <2>3, <3>1
  <2>4. CASE y # Null /\ y # Body /\ y \in P
    <3>1. Reached(w, P, y) = {y} \cup Reached(w, P, G!Parent(w, y))
      BY <2>1, <2>4, ReachedIs
    <3>2. up[y] = Reached(w, P, y) \ {Null} /\ up[G!Parent(w, y)] = Reached(w, P, G!Parent(w, y)) \ {Null}
      BY <2>2
    <3> QED BY <2>4, <3>1, <3>2
  <2>5. CASE y # Null /\ ~(y # Body /\ y \in P)
    <3>1. Reached(w, P, y) = {y}
      BY <2>1, <2>5, ReachedIs
    <3> QED BY <2>5, <3>1
  <2> QED BY <2>3, <2>4, <2>5
<1>2. Stop = G!Thing \cup G!Worn \cup {Body, Null}
  BY DEF Stop, Node
<1>3. up = [y \in Stop |-> up[y]]
  OBVIOUS
<1> HIDE DEF up
<1>4. Climbs(up, w, P)
  BY <1>1, <1>2, <1>3 DEF Climbs
<1> QED BY <1>4

LEMMA AboveIs ==
  ASSUME NEW w \in G!World, NEW y \in Node
  PROVE  /\ G!Parent(w, y) \in G!Box => G!Above(w, y) = {y} \cup G!Above(w, G!Parent(w, y))
         /\ G!Parent(w, y) \notin G!Box => G!Above(w, y) = {y}
<1> DEFINE Run(f) == f = [z \in G!Thing \cup G!Worn \cup {Body, Null} |->
                            IF z = Null THEN {}
                            ELSE {z} \cup (IF z # Body /\ TRUE THEN f[G!Parent(w, z)] ELSE {})]
           up == CHOOSE f : Run(f)
<1>1. \A z : G!Above(w, z) = up[z] \ {Body}
  BY DEF G!Above, G!Upward
<1>2. \E f : Run(f)
  <2>1. PICK f : Climbs(f, w, Stop)
    BY ClimbExists
  <2>2. Run(f)
    BY <2>1 DEF Climbs, Stop, Node
  <2> QED BY <2>2
<1> HIDE DEF up
<1>3. Run(up)
  <2> HIDE DEF Run
  <2> QED BY <1>2 DEF up
<1>4. up[Null] = {} /\ up[Body] = {Body}
  BY <1>3, Apartness
<1>5. up[y] = {y} \cup up[G!Parent(w, y)]
  BY <1>3, Apartness DEF Node
<1>6. y # Body /\ G!Parent(w, y) \in G!Box \cup {Body, Null}
  BY ParentIs, Apartness DEF Node
<1> HIDE DEF Run
<1> QED BY <1>1, <1>4, <1>5, <1>6

(* Nothing lies in two places and no bag in itself.                        *)
Tree(w) == w \in G!World /\ Apart(w) /\ Rooted(w, {})

LEMMA KeptAbove ==
  ASSUME NEW w \in G!World, Apart(w), NEW y \in Node
  PROVE  /\ \A b \in G!Box : y \in Kept(w, b) => G!Above(w, y) = {y} \cup G!Above(w, b)
         /\ (\A b \in G!Box : y \notin Kept(w, b)) => G!Above(w, y) = {y}
<1>1. \A b \in G!Box : y \in Kept(w, b) => G!Parent(w, y) = b
  BY ParentIs
<1>2. G!Parent(w, y) \in G!Box => y \in Kept(w, G!Parent(w, y))
  BY ParentIs
<1> QED BY <1>1, <1>2, AboveIs

LEMMA OutermostIs ==
  ASSUME NEW w \in G!World, Rooted(w, {}), NEW S \in SUBSET Node, S # {}
  PROVE  \E y \in S : \A b \in S \cap G!Box : y \notin Kept(w, b)
<1>1. \A b \in G!Box : Kept(w, b) \subseteq G!Thing
  BY KeptAreThings
<1>2. /\ G!Worn \cap G!Thing = {} /\ G!Box = G!Worn \cup Bag /\ Bag \subseteq G!Thing
      /\ \A y \in Node : y \in Bag \/ y \in Stack \/ y \in G!Worn
  BY Apartness DEF Node
<1>3. CASE S \cap G!Worn # {}
  <2>1. PICK y \in S : y \in G!Worn
    BY <1>3
  <2> QED BY <1>1, <1>2, <2>1
<1>4. CASE S \cap G!Worn = {} /\ S \cap Bag = {}
  BY <1>2, <1>4
<1>5. CASE S \cap G!Worn = {} /\ S \cap Bag # {}
  <2>1. S \cap Bag \in SUBSET Bag
    OBVIOUS
  <2>2. PICK y \in S \cap Bag : \A b \in S \cap Bag : ~Holds(w, {}, y, b)
    BY <1>5, <2>1 DEF Rooted
  <2> QED BY <1>2, <1>5, <2>2 DEF Holds
<1> QED BY <1>3, <1>4, <1>5

LEMMA AboveIsClosed ==
  ASSUME NEW w, Tree(w), NEW y \in Node, NEW z \in G!Above(w, y)
  PROVE  z \in Node /\ G!Above(w, z) \subseteq G!Above(w, y)
<1>0. w \in G!World /\ Apart(w) /\ Rooted(w, {}) /\ \A b \in G!Box : b \in Node
  BY Apartness DEF Tree, Node
<1> DEFINE S == {x \in Node : \E a \in G!Above(w, x) : ~(a \in Node /\ G!Above(w, a) \subseteq G!Above(w, x))}
<1>1. SUFFICES ASSUME S # {} PROVE FALSE
  OBVIOUS
<1>2. PICK x \in S : \A b \in S \cap G!Box : x \notin Kept(w, b)
  <2>1. S \in SUBSET Node
    OBVIOUS
  <2> HIDE DEF S
  <2> QED BY <1>0, <1>1, <2>1, OutermostIs
<1>3. PICK a \in G!Above(w, x) : ~(a \in Node /\ G!Above(w, a) \subseteq G!Above(w, x))
  OBVIOUS
<1>4. x \in Node
  OBVIOUS
<1>5. ASSUME NEW b \in G!Box, x \in Kept(w, b)
      PROVE  FALSE
  <2>1. G!Above(w, x) = {x} \cup G!Above(w, b)
    BY <1>0, <1>4, <1>5, KeptAbove
  <2>2. a # x
    BY <1>3, <1>4
  <2>3. b \notin S
    BY <1>2, <1>5
  <2>4. a \in Node /\ G!Above(w, a) \subseteq G!Above(w, b)
    BY <1>0, <2>1, <2>2, <2>3
  <2> QED BY <1>3, <2>1, <2>4
<1>6. CASE \A b \in G!Box : x \notin Kept(w, b)
  BY <1>0, <1>3, <1>4, <1>6, KeptAbove
<1> QED BY <1>5, <1>6

LEMMA NotInItself ==
  ASSUME NEW w, Tree(w), NEW b \in G!Box, NEW y \in Kept(w, b)
  PROVE  y \notin G!Above(w, b)
<1>0. w \in G!World /\ Apart(w) /\ Rooted(w, {}) /\ b \in Node /\ y \in Node /\ \A c \in G!Box : c \in Node
  BY Apartness, KeptAreThings DEF Tree, Node
<1> DEFINE S == {x \in Node : y \in G!Above(w, x) /\ b \in G!Above(w, x)}
<1>1. SUFFICES ASSUME y \in G!Above(w, b) PROVE FALSE
  OBVIOUS
<1>2. b \in G!Above(w, b)
  BY <1>0, AboveIs
<1>3. PICK x \in S : \A c \in S \cap G!Box : x \notin Kept(w, c)
  <2>1. S \in SUBSET Node /\ b \in S
    BY <1>0, <1>1, <1>2
  <2> HIDE DEF S
  <2> QED BY <1>0, <2>1, OutermostIs
<1>4. x \in Node /\ y \in G!Above(w, x) /\ b \in G!Above(w, x) /\ b \in S
  BY <1>0, <1>1, <1>2
<1>5. G!Above(w, y) = {y} \cup G!Above(w, b)
  BY <1>0, KeptAbove
<1>6. x # y
  BY <1>3, <1>4
<1>7. ASSUME NEW c \in G!Box, x \in Kept(w, c)
      PROVE  FALSE
  <2>1. G!Above(w, x) = {x} \cup G!Above(w, c)
    BY <1>0, <1>4, <1>7, KeptAbove
  <2>2. y \in G!Above(w, c)
    BY <1>4, <1>6, <2>1
  <2>3. b \in G!Above(w, c)
    BY <1>0, <1>2, <1>5, <2>2, AboveIsClosed
  <2> QED BY <1>0, <1>3, <1>7, <2>2, <2>3
<1>8. CASE \A c \in G!Box : x \notin Kept(w, c)
  BY <1>0, <1>4, <1>6, <1>8, KeptAbove
<1> QED BY <1>7, <1>8

LEMMA AboveIsChain ==
  ASSUME NEW w, Tree(w), NEW x \in Node, NEW y \in G!Above(w, x), NEW z \in G!Above(w, x)
  PROVE  y \in G!Above(w, z) \/ z \in G!Above(w, y)
<1>0. w \in G!World /\ Apart(w) /\ Rooted(w, {}) /\ \A b \in G!Box : b \in Node
  BY Apartness DEF Tree, Node
<1> DEFINE S == {u \in Node : y \in G!Above(w, u) /\ z \in G!Above(w, u)}
<1>1. PICK u \in S : \A c \in S \cap G!Box : u \notin Kept(w, c)
  <2>1. S \in SUBSET Node /\ x \in S
    OBVIOUS
  <2> HIDE DEF S
  <2> QED BY <1>0, <2>1, OutermostIs
<1>2. u \in Node /\ y \in G!Above(w, u) /\ z \in G!Above(w, u)
  OBVIOUS
<1>3. ASSUME NEW c \in G!Box, u \in Kept(w, c)
      PROVE  u = y \/ u = z
  <2>1. G!Above(w, u) = {u} \cup G!Above(w, c)
    BY <1>0, <1>2, <1>3, KeptAbove
  <2> QED BY <1>0, <1>1, <1>2, <1>3, <2>1
<1>4. CASE \A c \in G!Box : u \notin Kept(w, c)
  BY <1>0, <1>2, <1>4, KeptAbove
<1> QED BY <1>2, <1>3, <1>4

(* What lies in a box side by side has nothing in common.                  *)
LEMMA SideBySide ==
  ASSUME NEW w, Tree(w), NEW b \in G!Box, NEW y \in Kept(w, b), NEW z \in Kept(w, b), y # z,
         NEW x \in Node
  PROVE  ~(y \in G!Above(w, x) /\ z \in G!Above(w, x))
<1>1. w \in G!World /\ Apart(w) /\ y \in Node /\ z \in Node
  BY KeptAreThings DEF Tree, Node
<1>2. G!Above(w, y) = {y} \cup G!Above(w, b) /\ G!Above(w, z) = {z} \cup G!Above(w, b)
  BY <1>1, KeptAbove
<1>3. y \notin G!Above(w, b) /\ z \notin G!Above(w, b)
  BY NotInItself
<1> QED BY <1>2, <1>3, AboveIsChain

(* What is in a box and deeper is in one of the things that lie in it.     *)
LEMMA OneOfThem ==
  ASSUME NEW w, Tree(w), NEW y \in Node, NEW b \in G!Above(w, y), y # b
  PROVE  b \in G!Box /\ \E c \in Kept(w, b) : c \in G!Above(w, y)
<1>0. w \in G!World /\ Apart(w) /\ Rooted(w, {}) /\ \A c \in G!Box : c \in Node
  BY Apartness DEF Tree, Node
<1> DEFINE S == {u \in Node : /\ b \in G!Above(w, u) /\ u # b
                              /\ ~(b \in G!Box /\ \E c \in Kept(w, b) : c \in G!Above(w, u))}
<1>1. SUFFICES ASSUME S # {} PROVE FALSE
  OBVIOUS
<1>2. PICK u \in S : \A c \in S \cap G!Box : u \notin Kept(w, c)
  <2>1. S \in SUBSET Node
    OBVIOUS
  <2> HIDE DEF S
  <2> QED BY <1>0, <1>1, <2>1, OutermostIs
<1>3. /\ u \in Node /\ b \in G!Above(w, u) /\ u # b
      /\ ~(b \in G!Box /\ \E c \in Kept(w, b) : c \in G!Above(w, u))
  OBVIOUS
<1>4. ASSUME NEW h \in G!Box, u \in Kept(w, h)
      PROVE  FALSE
  <2>1. G!Above(w, u) = {u} \cup G!Above(w, h)
    BY <1>0, <1>3, <1>4, KeptAbove
  <2>2. h # b
    BY <1>3, <1>4, <2>1
  <2>3. h \notin S
    BY <1>2, <1>4
  <2> QED BY <1>0, <1>3, <2>1, <2>2, <2>3
<1>5. CASE \A c \in G!Box : u \notin Kept(w, c)
  BY <1>0, <1>3, <1>5, KeptAbove
<1> QED BY <1>4, <1>5

(* A bag goes into a box that is not in it.                                *)
LEMMA LinkedBag ==
  ASSUME NEW w, Tree(w), NEW x \in G!Thing, x = w.hand, NEW b \in G!Box, x \notin G!Above(w, b),
         NEW v, v = G!Hide(w, x), NEW u, u = G!Link(v, x, b)
  PROVE  Rooted(u, {})
<1>0. w \in G!World /\ Apart(w) /\ Rooted(w, {}) /\ Bag \subseteq Node /\ Bag \subseteq G!Box /\ Null \notin Bag
  BY Apartness DEF Tree, Node
<1>1. /\ v \in G!World /\ v.hand = Null /\ \A d \in G!Box : Kept(v, d) \subseteq Kept(w, d)
  BY <1>0, HideLeaves
<1>2. /\ PutAway(v, x, u) /\ u.cont[b] = <<x>> \o v.cont[b] /\ \A d \in G!Box : d # b => u.cont[d] = v.cont[d]
  BY <1>1, LinkIs
<1>3. Elems(<<x>> \o v.cont[b]) = {x} \cup Elems(v.cont[b])
  BY <1>1, KeptAreThings, PrependedTo
<1>4. ASSUME NEW y \in Bag, NEW d \in Bag, Holds(u, {}, y, d)
      PROVE  y \in Kept(w, d) \/ (y = x /\ d = b)
  <2>1. y \in Kept(u, d)
    BY <1>0, <1>1, <1>2, <1>4 DEF Holds, PutAway
  <2> QED BY <1>0, <1>1, <1>2, <1>3, <2>1 DEF Kept
<1>5. SUFFICES ASSUME NEW S \in SUBSET Bag, S # {}
               PROVE  \E y \in S : \A d \in S : ~Holds(u, {}, y, d)
  BY DEF Rooted
<1>6. CASE b \notin S
  <2>1. PICK y \in S : \A d \in S : ~Holds(w, {}, y, d)
    BY <1>0, <1>5 DEF Rooted
  <2>2. \A d \in S : ~Holds(u, {}, y, d)
    BY <1>4, <1>6, <2>1 DEF Holds
  <2> QED BY <2>2
<1>7. CASE b \in S
  <2> DEFINE T == {y \in S : x \notin G!Above(w, y)}
  <2>1. T \in SUBSET Bag /\ T # {}
    BY <1>7
  <2>2. PICK y \in T : \A d \in T : ~Holds(w, {}, y, d)
    <3> HIDE DEF T
    <3> QED BY <1>0, <2>1 DEF Rooted
  <2>3. y \in S /\ y \in Bag /\ y \in Node /\ x \notin G!Above(w, y)
    BY <1>0
  <2>4. y # x
    BY <1>0, <2>3, AboveIs
  <2>5. ASSUME NEW d \in S, Holds(u, {}, y, d) PROVE FALSE
    <3>1. y \in Kept(w, d) /\ d \in G!Box
      BY <1>0, <1>4, <2>3, <2>4, <2>5
    <3>2. G!Above(w, y) = {y} \cup G!Above(w, d)
      BY <1>0, <2>3, <3>1, KeptAbove
    <3>3. d \in T
      BY <2>3, <3>2
    <3> QED BY <2>2, <3>1, <3>3 DEF Holds
  <2> QED BY <2>3, <2>5
<1> QED BY <1>6, <1>7

-----------------------------------------------------------------------------
(* Every packet and script command keeps the bags rooted.                  *)
Orderly(w, given) == Balanced(w, given) /\ Rooted(w, {})

LEMMA OrderlyIs ==
  ASSUME Orderly(s, taken)
  PROVE  /\ s \in G!World /\ Fits(s, {}, Gold - taken) /\ Tree(s) /\ Rooted(s, {})
         /\ s.hand # Null => s.hand \in G!Thing /\ s.hand \in s.live
         /\ s.hand = Null \/ s.hand \in G!Thing
BY HeldLives DEF Orderly, Balanced, Fits, Sound, Tree

LEMMA BouncedLoosens ==
  ASSUME NEW w \in G!World, w.hand = Null \/ w.hand \in G!Thing, NEW v, v = G!Bounced(w)
  PROVE  Looser(w, {}, v, {})
<1>1. CASE w.hand = Null
  BY <1>1, LooserItself DEF G!Bounced
<1>2. CASE w.hand # Null
  <2> DEFINE x == w.hand
             u == G!Hide(w, x)
             X == {} \cup {x}
  <2>1. v = G!ReturnToTracked(u, x) /\ x \in G!Thing /\ x \in X
    BY <1>2 DEF G!Bounced
  <2>2. u = G!Hide(w, x)
    OBVIOUS
  <2> HIDE DEF x, u
  <2>3. Looser(w, {}, u, X)
    BY <2>1, <2>2, HideLoosens
  <2> HIDE DEF X
  <2>4. Looser(u, X, v, X)
    BY <2>1, <2>3, ReturnLoosens DEF Looser
  <2> QED BY <2>3, <2>4, LooserStill, LooserForFewer
<1> QED BY <1>1, <1>2

LEMMA LiftLoosens ==
  ASSUME Orderly(s, taken), NEW x \in G!Thing, G!Lift(x)
  PROVE  Looser(s, {}, s', {})
<1> DEFINE w == G!Bounced(s)
<1>w. w = G!Bounced(s)
  OBVIOUS
<1>1. \/ s' = w
      \/ s' = G!EquipOnMobile(G!Hide(w, x), x)
      \/ /\ x \in Stack
         /\ \E y \in G!Fresh(w), n \in 1..(w.amount[x] - 1) :
              s' = G!EquipOnMobile(G!SplitByAmount(w, x, n, y), y)
  BY DEF G!Lift
<1> HIDE DEF w
<1>2. Looser(s, {}, w, {}) /\ w \in G!World
  BY <1>w, OrderlyIs, BouncedLoosens DEF Looser
<1>3. ASSUME s' = G!EquipOnMobile(G!Hide(w, x), x) PROVE Looser(s, {}, s', {})
  <2> DEFINE v == G!Hide(w, x)
             u == G!EquipOnMobile(v, x)
             X == {} \cup {x}
  <2>1. Looser(w, {}, v, X)
    BY <1>2, HideLoosens
  <2>2. x \in X /\ u = G!EquipOnMobile(v, x) /\ s' = u
    BY <1>3
  <2> HIDE DEF v, X, u
  <2>3. v \in G!World
    BY <2>1 DEF Looser
  <2>4. Looser(v, X, u, X)
    BY <2>2, <2>3, GearOnLoosens
  <2>5. Looser(s, {}, u, X)
    BY <1>2, <2>1, <2>4, LooserStill
  <2> QED BY <2>2, <2>5, LooserForFewer
<1>4. ASSUME NEW y \in G!Fresh(w), NEW n \in 1..(w.amount[x] - 1), x \in Stack,
             s' = G!EquipOnMobile(G!SplitByAmount(w, x, n, y), y)
      PROVE  Looser(s, {}, s', {})
  <2> DEFINE v == G!SplitByAmount(w, x, n, y)
             u == G!EquipOnMobile(v, y)
  <2>1. y \in Stack /\ y \in G!Thing /\ n \in Nat /\ n <= w.amount[x]
    <3>1. w.amount[x] \in Nat
      BY <1>2, <1>4 DEF G!World
    <3>2. y \in Stack /\ y \in G!Thing
      BY Apartness DEF G!Fresh
    <3> QED BY <3>1, <3>2
  <2>2. Looser(w, {}, v, {})
    BY <1>2, <1>4, <2>1, SplitLoosens
  <2>3. u = G!EquipOnMobile(v, y) /\ s' = u
    BY <1>4
  <2> HIDE DEF v, u
  <2>4. Looser(v, {}, u, {})
    BY <2>1, <2>2, <2>3, GearOnLoosens DEF Looser
  <2> QED BY <1>2, <2>2, <2>3, <2>4, LooserStill
<1> QED BY <1>1, <1>2, <1>3, <1>4

LEMMA DropOnGroundLoosens ==
  ASSUME Orderly(s, taken), NEW x, x = s.hand, x # Null, NEW v, v = G!DropAtFeet(G!Hide(s, x), x)
  PROVE  Looser(s, {}, v, {})
<1> DEFINE u == G!Hide(s, x)
           X == {} \cup {x}
<1>1. s \in G!World /\ x \in G!Thing
  BY OrderlyIs
<1>2. Looser(s, {}, u, X)
  BY <1>1, HideLoosens
<1>3. v = G!DropAtFeet(u, x)
  OBVIOUS
<1> HIDE DEF u, X
<1>4. Looser(u, X, v, X)
  BY <1>1, <1>2, <1>3, DroppedThing DEF Looser
<1> QED BY <1>2, <1>4, LooserStill, LooserForFewer

LEMMA DropIntoRooted ==
  ASSUME Orderly(s, taken), NEW b \in G!Box, G!DropInto(b)
  PROVE  Rooted(s', {})
<1> DEFINE x == s.hand
           v == G!Hide(s, x)
           u == G!Link(v, x, b)
           a == G!AddToContainer(v, x, b)
<1>1. /\ x # Null
      /\ s' = G!Bounced(s) \/ (x \notin G!Above(s, b) /\ s' \in {u, a})
  BY DEF G!DropInto
<1>2. s \in G!World /\ x \in G!Thing /\ Tree(s) /\ Rooted(s, {}) /\ (s.hand = Null \/ s.hand \in G!Thing)
  BY <1>1, OrderlyIs
<1>3. CASE s' = G!Bounced(s)
  BY <1>2, <1>3, BouncedLoosens, LooserIsRooted
<1>4. CASE x \notin G!Above(s, b) /\ s' = u
  BY <1>2, <1>4, LinkedBag
<1>5. CASE x \notin G!Above(s, b) /\ s' = a
  <2>1. CASE x \in Stack
    <3>1. v = G!Hide(s, x)
      OBVIOUS
    <3>2. a = G!AddToContainer(v, x, b)
      OBVIOUS
    <3> HIDE DEF v, a, x
    <3>4. Looser(s, {}, v, {})
      BY <1>2, <2>1, <3>1, HideLoosens
    <3>5. v \in G!World
      BY <3>4 DEF Looser
    <3>3. Looser(v, {}, a, {})
      BY <2>1, <3>2, <3>5, AddLoosens
    <3> QED BY <1>2, <1>5, <3>3, <3>4, LooserStill, LooserIsRooted
  <2>2. CASE x \notin Stack
    <3> DEFINE k == G!SelectInSeq(v.cont[b], LAMBDA y : G!Stacks(v, x, y))
    <3>1. k = 0
      <4>1. {i \in 1..Len(v.cont[b]) : G!Stacks(v, x, v.cont[b][i])} = {}
        BY <2>2 DEF G!Stacks
      <4> QED BY <4>1 DEF G!SelectInSeq
    <3>2. a = u
      BY <3>1 DEF G!AddToContainer
    <3>3. s' = u /\ x \notin G!Above(s, b)
      BY <1>5, <3>2
    <3> HIDE DEF a
    <3> QED BY <1>2, <3>3, LinkedBag
  <2> QED BY <2>1, <2>2
<1> HIDE DEF x, u, a
<1> QED BY <1>1, <1>3, <1>4, <1>5

LEMMA DropOnLoosens ==
  ASSUME Orderly(s, taken), NEW y \in Stack, G!DropOn(y)
  PROVE  Looser(s, {}, s', {})
<1> DEFINE x == s.hand
           v == G!DropAtFeet(G!Hide(s, x), x)
           u == G!MergeInto(s, x, y)
<1>1. /\ s.hand # Null
      /\ s' \in {G!Bounced(s), v} \/ (G!Stacks(s, x, y) /\ s' = u)
  BY DEF G!DropOn
<1>2. s \in G!World /\ (s.hand = Null \/ s.hand \in G!Thing) /\ x = s.hand /\ x # Null
  BY <1>1, OrderlyIs
<1>3. v = G!DropAtFeet(G!Hide(s, x), x) /\ u = G!MergeInto(s, x, y)
  OBVIOUS
<1> HIDE DEF x, v, u
<1>4. Looser(s, {}, v, {})
  BY <1>2, <1>3, DropOnGroundLoosens
<1>5. Looser(s, {}, G!Bounced(s), {})
  BY <1>2, BouncedLoosens
<1>6. G!Stacks(s, x, y) => Looser(s, {}, u, {})
  <2>1. G!Stacks(s, x, y) => x \in Stack /\ y \in Stack /\ x # y
    BY DEF G!Stacks
  <2> QED BY <1>2, <1>3, <2>1, MergeIntoLoosens
<1> QED BY <1>1, <1>4, <1>5, <1>6

LEMMA DepositLoosens ==
  ASSUME Orderly(s, taken), NEW x \in Stack, G!Deposit(x)
  PROVE  Looser(s, {}, s', {})
<1> DEFINE v == G!Hide(s, x)
<1>1. /\ Bank \in G!Box /\ s \in G!World /\ x \in G!Thing
      /\ \/ s' = G!AddToContainer(v, x, Bank)
         \/ \E y \in G!Fresh(s), n \in 1..(s.amount[x] - 1) :
              s' = G!AddToContainer(G!SplitByAmount(s, x, n, y), y, Bank)
  BY OrderlyIs, Apartness DEF G!Deposit
<1>2. Looser(s, {}, v, {}) /\ v \in G!World
  BY <1>1, HideLoosens DEF Looser
<1> HIDE DEF v
<1>3. Looser(v, {}, G!AddToContainer(v, x, Bank), {})
  BY <1>1, <1>2, AddLoosens
<1>4. ASSUME NEW y \in G!Fresh(s), NEW n \in 1..(s.amount[x] - 1),
             s' = G!AddToContainer(G!SplitByAmount(s, x, n, y), y, Bank)
      PROVE  Looser(s, {}, s', {})
  <2> DEFINE u == G!SplitByAmount(s, x, n, y)
             a == G!AddToContainer(u, y, Bank)
  <2>1. y \in Stack /\ n \in Nat /\ n <= s.amount[x]
    <3>1. s.amount[x] \in Nat
      BY <1>1 DEF G!World
    <3>2. y \in Stack
      BY DEF G!Fresh
    <3> QED BY <3>1, <3>2
  <2>2. Looser(s, {}, u, {}) /\ u \in G!World
    BY <1>1, <2>1, SplitLoosens DEF Looser
  <2>3. a = G!AddToContainer(u, y, Bank) /\ s' = a
    BY <1>4
  <2> HIDE DEF u, a
  <2>4. Looser(u, {}, a, {})
    BY <1>1, <2>1, <2>2, <2>3, AddLoosens
  <2> QED BY <2>2, <2>3, <2>4, LooserStill
<1>5. Looser(s, {}, G!AddToContainer(v, x, Bank), {})
  BY <1>2, <1>3, LooserStill
<1> QED BY <1>1, <1>4, <1>5

LEMMA ChargeLoosens ==
  ASSUME NEW shut \in SUBSET Bag, Orderly(s, taken), NEW b \in G!Worn, NEW n \in 1..Gold, G!Charge(b, n, shut)
  PROVE  Looser(s, {}, s', {})
<1> DEFINE c == Gold - taken
           r == G!ConsumeResources(s, b, n, shut)
<1>1. s' = r.w /\ Fits(s, {}, c) /\ c \in 0..Gold
  BY RemainderIsNumber DEF G!Charge, Balanced, Orderly
<1>2. b \in G!Box /\ n \in Nat /\ r = G!ConsumeResources(s, b, n, shut)
  BY Goods DEF G!Box
<1> HIDE DEF r, c
<1> QED BY <1>1, <1>2, ConsumeLoosens

LEMMA GoodsDeleteLoosens ==
  ASSUME Orderly(s, taken), NEW x \in G!Thing, G!Delete(x)
  PROVE  Looser(s, {}, s', {})
<1> DEFINE c == Gold - taken
           r == G!Deleted(s, x)
<1>1. s' = r.w /\ Fits(s, {}, c) /\ c \in 0..Gold /\ r = G!Deleted(s, x)
  BY RemainderIsNumber DEF G!Delete, Balanced, Orderly
<1> HIDE DEF r, c
<1> QED BY <1>1, DeleteLoosens

LEMMA RecalcWeightLoosens ==
  ASSUME Orderly(s, taken), NEW b \in {Body} \cup G!Box, G!RecalcWeight(b)
  PROVE  Looser(s, {}, s', {})
<1>1. s' = IF b = Body THEN G!WeightRelated(s) ELSE G!RefreshContents(s, b)
  BY DEF G!RecalcWeight
<1>2. s \in G!World /\ (s.hand = Null \/ s.hand \in G!Thing)
  BY OrderlyIs
<1>3. b = Body => Looser(s, {}, s', {})
  BY <1>1, <1>2, WeightRelatedLoosens
<1>4. ASSUME b # Body PROVE Looser(s, {}, s', {})
  <2> DEFINE g == G!Refresh(G!Cardinality(Bag) + 1)
  <2>1. s' = g[s][b] /\ b \in G!Box
    BY <1>1, <1>4 DEF G!RefreshContents
  <2>2. Loosens(g)
    <3>1. G!Cardinality(Bag) = Cardinality(Bag) /\ Cardinality(Bag) \in Nat
      BY Goods, SameCount, FS_CardinalityType
    <3>2. G!Cardinality(Bag) + 1 \in Nat
      BY <3>1
    <3> QED BY <3>2, RefreshLoosens
  <2> HIDE DEF g
  <2> QED BY <1>2, <2>1, <2>2 DEF Loosens
<1> QED BY <1>3, <1>4

LEMMA StepRooted ==
  ASSUME Orderly(s, taken), G!Next
  PROVE  Orderly(s, taken)'
<1>0. Balanced(s, taken) /\ Rooted(s, {}) /\ s \in G!World /\ (s.hand = Null \/ s.hand \in G!Thing)
  BY OrderlyIs DEF Orderly
<1>1. ASSUME NEW x \in G!Thing, G!Lift(x) \/ G!Delete(x) PROVE Looser(s, {}, s', {})
  BY <1>1, LiftLoosens, GoodsDeleteLoosens
<1>2. ASSUME G!DropRefused PROVE Looser(s, {}, s', {})
  BY <1>0, <1>2, BouncedLoosens DEF G!DropRefused
<1>3. ASSUME G!DropOnGround PROVE Looser(s, {}, s', {})
  <2>1. s' = G!DropAtFeet(G!Hide(s, s.hand), s.hand) /\ s.hand # Null
    BY <1>3 DEF G!DropOnGround
  <2> QED BY <2>1, DropOnGroundLoosens
<1>4. ASSUME NEW y \in Stack, G!DropOn(y) \/ G!Deposit(y) PROVE Looser(s, {}, s', {})
  BY <1>4, DropOnLoosens, DepositLoosens
<1>5. ASSUME NEW b \in G!Worn, NEW n \in 1..Gold, NEW shut \in SUBSET Bag, G!Charge(b, n, shut)
      PROVE  Looser(s, {}, s', {})
  BY <1>5, ChargeLoosens
<1>6. ASSUME NEW b \in {Body} \cup G!Worn \cup (Bag \cap s.live), G!RecalcWeight(b)
      PROVE  Looser(s, {}, s', {})
  <2>1. b \in {Body} \cup G!Box
    BY DEF G!Box
  <2> QED BY <1>6, <2>1, RecalcWeightLoosens
<1>7. ASSUME NEW b \in G!Box, G!DropInto(b) PROVE Rooted(s', {})
  BY <1>7, DropIntoRooted
<1>8. Looser(s, {}, s', {}) => Rooted(s', {})
  BY <1>0, LooserIsRooted
<1>9. Rooted(s', {})
  BY <1>1, <1>2, <1>3, <1>4, <1>5, <1>6, <1>7, <1>8 DEF G!Next
<1>10. Balanced(s, taken)'
  BY <1>0, StepKeeps
<1> QED BY <1>9, <1>10 DEF Orderly

LEMMA StartOrderly == G!Init => Orderly(s, taken)
<1> SUFFICES ASSUME G!Init PROVE Orderly(s, taken)
  OBVIOUS
<1>1. Balanced(s, taken)
  BY StartBalanced
<1>2. s.hand = Null /\ \A b \in Bag : s.cont[b] = <<>>
  <2>1. \A b \in Bag : b \in G!Box /\ b # Pack /\ b # Bank
    BY Apartness
  <2> QED BY <2>1 DEF G!Init
<1>3. \A y, b \in Bag : ~Holds(s, {}, y, b)
  BY <1>2, Apartness DEF Holds, Kept, Elems
<1>4. Rooted(s, {})
  BY <1>3 DEF Rooted
<1> QED BY <1>1, <1>4 DEF Orderly

(* The coins and the bags together, as the goods move.                     *)
LEMMA GoodsAreOrderly == MCSpec => [](part = "goods" => Orderly(s, taken))
<1> DEFINE Inv == part = "goods" => Orderly(s, taken)
<1>1. MCInit => Inv
  BY StartOrderly DEF MCInit
<1>2. Inv /\ [MCNext]_all => Inv'
  <2> SUFFICES ASSUME part = "goods" => Orderly(s, taken), [MCNext]_all, part' = "goods"
               PROVE  Orderly(s, taken)'
    OBVIOUS
  <2>1. CASE s' = s /\ taken' = taken
    <3>1. Orderly(s, taken)
      BY DEF MCNext, all
    <3> QED BY <2>1, <3>1 DEF Orderly, Balanced
  <2>2. CASE G!Next /\ part = "goods"
    BY <2>2, StepRooted
  <2>3. (s' = s /\ taken' = taken) \/ (G!Next /\ part = "goods")
    BY DEF MCNext, all, goods
  <2> QED BY <2>1, <2>2, <2>3
<1> HIDE DEF Inv
<1>3. MCSpec => []Inv
  BY <1>1, <1>2, PTL DEF MCSpec
<1> QED BY <1>3 DEF Inv

(* However bags are dropped into one another, bounced, lifted out, deleted *)
(* and weighed anew, of any bags some bag lies in none of them and, held   *)
(* on the cursor, may go back without lying in any: no bag ends up inside  *)
(* itself (packet_handler.c:3609), and every walk to the top of the        *)
(* containers ends (packet_handler.c:3636, container.c:952 and 1066).      *)
THEOREM NoBagInItself == MCSpec => []When("goods", Rooted(s, {}))
<1>1. (part = "goods" => Orderly(s, taken)) => When("goods", Rooted(s, {}))
  BY DEF When, Orderly
<1> QED BY <1>1, GoodsAreOrderly, PTL

LEMMA ConsumingCounts ==
  ASSUME NEW shut \in SUBSET Bag, NEW want, NEW start, NEW n, n = G!Cardinality(G!Thing), NEW Z, start \in Z[0],
         \A k \in 1..n : \A r \in Z[k - 1] : G!Consumed(r, want, shut) \in Z[k]
  PROVE  G!AllConsumed(start, want, shut) \in Z[n]
<1> DEFINE f == [k \in 1..n |-> [r \in Z[k - 1] |-> G!Consumed(r, want, shut)]]
           Run(r) == r = [k \in 0..n |-> IF k = 0 THEN start ELSE G!Consumed(r[k - 1], want, shut)]
           r == CHOOSE r : Run(r)
<1>0. G!AllConsumed(start, want, shut) = r[n]
  BY DEF G!AllConsumed
<1> HIDE DEF r
<1>1. n \in Nat
  BY ThingsCount
<1>2. \E h : Run(h)
  <2>0. \A k \in 1..n : k - 1 \in 0..n /\ k \in 0..n
    BY <1>1
  <2>1. \A k \in 1..n : \A z \in Z[k - 1] : f[k][z] = G!Consumed(z, want, shut) /\ f[k][z] \in Z[k]
    OBVIOUS
  <2>3. PICK h : Iterates(h, start, f, n) /\ \A k \in 1..n : h[k - 1] \in Z[k - 1]
    <3> HIDE DEF f
    <3> QED BY <1>1, <2>1, Repeated
  <2>4. h = [k \in 0..n |-> h[k]] /\ h[0] = start /\ \A k \in 1..n : h[k] = f[k][h[k - 1]]
    <3> HIDE DEF f
    <3> QED BY <1>1, <2>3 DEF Iterates
  <2>6. ASSUME NEW k \in 0..n
        PROVE  h[k] = IF k = 0 THEN start ELSE G!Consumed(h[k - 1], want, shut)
    <3>1. k = 0 \/ k \in 1..n
      BY <1>1
    <3> HIDE DEF f
    <3> QED BY <2>1, <2>3, <2>4, <3>1
  <2> HIDE DEF f
  <2> QED BY <2>4, <2>6
<1>3. Run(r)
  <2> HIDE DEF Run
  <2> QED BY <1>2 DEF r
<1>4. r[0] = start /\ \A k \in 1..n : r[k] = G!Consumed(r[k - 1], want, shut)
  BY <1>1, <1>3
<1> HIDE DEF Run
<1>5. \A k \in 0..n : r[k] \in Z[k]
  <2>1. r[0] \in Z[0] /\ \A k \in 1..n : r[k - 1] \in Z[k - 1] => r[k] \in Z[k]
    BY <1>4
  <2> QED BY <1>1, <2>1, Stepwise
<1> QED BY <1>0, <1>1, <1>5

LEMMA JoinedOnce ==
  ASSUME NEW T, NEW p \in Seq(T), NEW q \in Seq(T), OneOf(p), OneOf(q), Elems(p) \cap Elems(q) = {}
  PROVE  OneOf(p \o q)
<1> DEFINE r == p \o q
           m == Len(p)
<1>1. /\ m \in Nat /\ Len(q) \in Nat /\ DOMAIN r = 1..(m + Len(q)) /\ DOMAIN p = 1..m /\ DOMAIN q = 1..Len(q)
      /\ \A i \in 1..m : r[i] = p[i]
      /\ \A i \in (m + 1)..(m + Len(q)) : r[i] = q[i - m]
  <2>1. Len(r) = m + Len(q) /\ r \in Seq(T) /\ m \in Nat /\ Len(q) \in Nat
    OBVIOUS
  <2> QED BY <2>1
<1> HIDE DEF r, m
<1>2. ASSUME NEW i \in 1..(m + Len(q)), NEW j \in 1..(m + Len(q)), r[i] = r[j]
      PROVE  i = j
  <2>1. \A k \in 1..(m + Len(q)) : k \in 1..m \/ (k \in (m + 1)..(m + Len(q)) /\ k - m \in 1..Len(q))
    BY <1>1
  <2>2. \A k \in 1..m : r[k] \in Elems(p)
    BY <1>1 DEF Elems
  <2>3. \A k \in (m + 1)..(m + Len(q)) : k - m \in 1..Len(q) => r[k] \in Elems(q)
    BY <1>1 DEF Elems
  <2>4. CASE i \in 1..m /\ j \in 1..m
    BY <1>1, <1>2, <2>4 DEF OneOf
  <2>5. CASE /\ i \in (m + 1)..(m + Len(q)) /\ i - m \in 1..Len(q)
             /\ j \in (m + 1)..(m + Len(q)) /\ j - m \in 1..Len(q)
    <3>1. q[i - m] = q[j - m]
      BY <1>1, <1>2, <2>5
    <3>2. i - m = j - m
      BY <1>1, <2>5, <3>1 DEF OneOf
    <3> QED BY <1>1, <3>2
  <2> QED BY <1>2, <2>1, <2>2, <2>3, <2>4, <2>5
<1> QED BY <1>1, <1>2 DEF OneOf, r

LEMMA HeadOnce ==
  ASSUME NEW T, NEW q \in Seq(T), q # <<>>, OneOf(q)
  PROVE  /\ Tail(q) \in Seq(T) /\ OneOf(Tail(q)) /\ Head(q) \in T
         /\ Head(q) \notin Elems(Tail(q)) /\ Elems(q) = {Head(q)} \cup Elems(Tail(q))
<1> DEFINE t == Tail(q)
           n == Len(q)
<1>1. /\ n \in Nat /\ n > 0 /\ DOMAIN q = 1..n /\ t \in Seq(T) /\ DOMAIN t = 1..(n - 1)
      /\ Head(q) = q[1] /\ \A i \in 1..(n - 1) : t[i] = q[i + 1]
  OBVIOUS
<1>h. PICK h : h = Head(q)
  OBVIOUS
<1>t. t = Tail(q)
  OBVIOUS
<1> HIDE DEF t, n
<1>2. \A i \in 1..(n - 1) : i \in 1..n /\ i + 1 \in 1..n /\ i + 1 # 1
  BY <1>1
<1>3. \A j \in 1..n : j = 1 \/ (j - 1 \in 1..(n - 1) /\ (j - 1) + 1 = j)
  BY <1>1
<1>4. h \notin Elems(t)
  BY <1>1, <1>2, <1>h DEF OneOf, Elems
<1>5. OneOf(t)
  <2> SUFFICES ASSUME NEW i \in 1..(n - 1), NEW j \in 1..(n - 1), t[i] = t[j] PROVE i = j
    BY <1>1 DEF OneOf
  <2>1. q[i + 1] = q[j + 1]
    BY <1>1
  <2>2. i + 1 = j + 1
    BY <1>1, <1>2, <2>1 DEF OneOf
  <2> QED BY <1>1, <2>2
<1>6. Elems(q) = {h} \cup Elems(t)
  <2>1. ASSUME NEW j \in 1..n PROVE q[j] \in {h} \cup Elems(t)
    <3>1. CASE j = 1
      BY <1>1, <1>h, <3>1
    <3>2. CASE j # 1
      <4>1. j - 1 \in 1..(n - 1) /\ t[j - 1] = q[j]
        BY <1>1, <1>3, <3>2
      <4> QED BY <1>1, <4>1 DEF Elems
    <3> QED BY <3>1, <3>2
  <2>2. ASSUME NEW i \in 1..(n - 1) PROVE t[i] \in Elems(q)
    BY <1>1, <1>2 DEF Elems
  <2>3. h \in Elems(q)
    BY <1>1, <1>h DEF Elems
  <2> QED BY <1>1, <2>1, <2>2, <2>3 DEF Elems
<1>7. h \in T
  BY <1>1, <1>h
<1> QED BY <1>1, <1>4, <1>5, <1>6, <1>7, <1>h, <1>t

-----------------------------------------------------------------------------
(* The things a charge has still to look at: what lies in the things of L, *)
(* and those themselves.  Nothing is in two of them.                       *)
Under(w, L) == {y \in G!Thing : \E z \in L : z \in G!Above(w, y)}
Separate(w, L) ==
  \A y, z \in L : y # z => \A x \in Node : ~(y \in G!Above(w, x) /\ z \in G!Above(w, x))

(* Piles may be gone since w, and the rest is where it was.                *)
Pruned(w, v) ==
  /\ v.live \subseteq w.live /\ w.live \ v.live \subseteq Stack
  /\ \A b \in G!Box : Kept(v, b) = Kept(w, b) \cap v.live

LEMMA KeptLive ==
  ASSUME NEW w, NEW O, Sound(w, O), NEW b \in G!Box
  PROVE  Kept(w, b) \subseteq w.live /\ Kept(w, b) \subseteq G!Thing
BY KeptAreThings DEF Sound, Lying

LEMMA PrunedAbove ==
  ASSUME NEW w, Tree(w), Sound(w, {}), NEW v, Sound(v, {}), Pruned(w, v),
         NEW y \in Node, y \in Stack => y \in v.live
  PROVE  G!Above(v, y) = G!Above(w, y)
<1>0. /\ w \in G!World /\ Apart(w) /\ Rooted(w, {}) /\ v \in G!World /\ Apart(v)
      /\ Stack \cap G!Box = {} /\ \A b \in G!Box : b \in Node
  BY Apartness DEF Tree, Sound, Node
<1> DEFINE S == {u \in Node : (u \in Stack => u \in v.live) /\ G!Above(v, u) # G!Above(w, u)}
<1>1. SUFFICES ASSUME S # {} PROVE FALSE
  OBVIOUS
<1>2. PICK u \in S : \A c \in S \cap G!Box : u \notin Kept(w, c)
  <2>1. S \in SUBSET Node
    OBVIOUS
  <2> HIDE DEF S
  <2> QED BY <1>0, <1>1, <2>1, OutermostIs
<1>3. u \in Node /\ (u \in Stack => u \in v.live) /\ G!Above(v, u) # G!Above(w, u)
  OBVIOUS
<1>4. \A b \in G!Box : u \in Kept(v, b) <=> u \in Kept(w, b)
  <2>1. ASSUME NEW b \in G!Box, u \in Kept(w, b) PROVE u \in v.live
    BY <1>3, <2>1, KeptLive DEF Pruned
  <2> QED BY <2>1 DEF Pruned
<1>5. ASSUME NEW c \in G!Box, u \in Kept(w, c)
      PROVE  FALSE
  <2>1. G!Above(w, u) = {u} \cup G!Above(w, c) /\ G!Above(v, u) = {u} \cup G!Above(v, c)
    BY <1>0, <1>3, <1>4, <1>5, KeptAbove
  <2>2. c \notin Stack /\ c \notin S /\ c \in Node
    BY <1>0, <1>2, <1>5
  <2> QED BY <1>3, <2>1, <2>2
<1>6. CASE \A c \in G!Box : u \notin Kept(w, c)
  BY <1>0, <1>3, <1>4, <1>6, KeptAbove
<1> QED BY <1>5, <1>6

LEMMA UnderThem ==
  ASSUME NEW w \in G!World, NEW L \in SUBSET G!Thing
  PROVE  /\ L \subseteq Under(w, L) /\ Under(w, L) \subseteq G!Thing
         /\ IsFiniteSet(Under(w, L)) /\ G!Cardinality(Under(w, L)) \in Nat
         /\ G!Cardinality(Under(w, L)) <= G!Cardinality(G!Thing)
         /\ G!Cardinality(Under(w, L)) <= 0 => L = {}
<1>1. \A z \in L : z \in G!Above(w, z)
  BY AboveIs DEF Node
<1>2. L \subseteq Under(w, L) /\ Under(w, L) \subseteq G!Thing
  BY <1>1 DEF Under
<1>3. IsFiniteSet(G!Thing)
  BY Goods, FS_Union DEF G!Thing
<1> DEFINE U == Under(w, L)
<1> HIDE DEF U
<1>4. IsFiniteSet(U) /\ Cardinality(U) \in Nat /\ Cardinality(U) <= Cardinality(G!Thing)
  BY <1>2, <1>3, FS_Subset, FS_CardinalityType DEF U
<1>5. Cardinality(U) <= 0 => U = {}
  <2>1. Cardinality(U) = 0 => U = {}
    BY <1>4, FS_EmptySet
  <2> QED BY <1>4, <2>1
<1>6. G!Cardinality(U) = Cardinality(U) /\ G!Cardinality(G!Thing) = Cardinality(G!Thing)
  BY SameCount
<1> QED BY <1>2, <1>4, <1>5, <1>6 DEF U

LEMMA FewerUnder ==
  ASSUME NEW w \in G!World, NEW L \in SUBSET G!Thing, NEW M \in SUBSET G!Thing,
         NEW x \in Under(w, L), Under(w, M) \subseteq Under(w, L) \ {x}
  PROVE  G!Cardinality(Under(w, M)) <= G!Cardinality(Under(w, L)) - 1
<1> DEFINE U == Under(w, L)
           V == Under(w, M)
<1>1. IsFiniteSet(U)
  BY UnderThem
<1>2. V \subseteq U \ {x} /\ x \in U
  OBVIOUS
<1> HIDE DEF U, V
<1>3. IsFiniteSet(U \ {x}) /\ Cardinality(U \ {x}) = Cardinality(U) - 1
  BY <1>1, <1>2, FS_RemoveElement
<1>4. Cardinality(V) <= Cardinality(U \ {x})
  BY <1>2, <1>3, FS_Subset
<1>5. G!Cardinality(U) = Cardinality(U) /\ G!Cardinality(V) = Cardinality(V)
  BY SameCount
<1> QED BY <1>3, <1>4, <1>5 DEF U, V

(* A bag is opened: what lies in it, K, takes its place.                   *)
InPlaceOf(w, v, x, L, K) ==
  /\ K \subseteq Kept(w, x) /\ K \cap L = {} /\ Separate(w, K \cup L)
  /\ Under(w, K \cup L) \subseteq Under(w, {x} \cup L) \ {x} /\ x \in Under(w, {x} \cup L)
  /\ \A y \in Piles(v) : y \in Under(w, {x} \cup L) => y \in Under(w, K \cup L)

LEMMA OpenedUnder ==
  ASSUME NEW w, Tree(w), Sound(w, {}), NEW v, Sound(v, {}), Pruned(w, v), NEW x \in Bag,
         NEW L \in SUBSET G!Thing, x \notin L, Separate(w, {x} \cup L), NEW K, K = Kept(v, x)
  PROVE  InPlaceOf(w, v, x, L, K)
<1>0. /\ w \in G!World /\ Apart(w) /\ x \in G!Box /\ x \in G!Thing /\ x \in Node /\ Stack \cap G!Box = {}
      /\ G!Thing \subseteq Node /\ K \subseteq Kept(w, x) /\ Kept(w, x) \subseteq G!Thing
      /\ Kept(w, x) \subseteq w.live
  BY Apartness, KeptLive DEF Tree, Node, Pruned
<1>1. \A c \in Kept(w, x) : x \in G!Above(w, c)
  <2>1. x \in G!Above(w, x)
    BY <1>0, AboveIs
  <2>2. \A c \in Kept(w, x) : G!Above(w, c) = {c} \cup G!Above(w, x)
    BY <1>0, KeptAbove
  <2> QED BY <2>1, <2>2
<1>2. \A c \in Kept(w, x) : \A y \in Node : c \in G!Above(w, y) => x \in G!Above(w, y)
  BY <1>0, <1>1, AboveIsClosed
<1>3. \A c \in Kept(w, x) : c \notin G!Above(w, x)
  BY <1>0, NotInItself
<1>4. \A y \in Node : y \in G!Above(w, y)
  BY <1>0, AboveIs
<1>5. \A z \in L : \A y \in Node : ~(x \in G!Above(w, y) /\ z \in G!Above(w, y))
  BY DEF Separate
<1>6. K \cap L = {}
  BY <1>0, <1>1, <1>4, <1>5
<1>7. Separate(w, K \cup L)
  <2> SUFFICES ASSUME NEW a \in K \cup L, NEW z \in K \cup L, a # z, NEW y \in Node,
                      a \in G!Above(w, y), z \in G!Above(w, y)
               PROVE  FALSE
    BY DEF Separate
  <2>1. CASE a \in K /\ z \in K
    BY <1>0, <2>1, SideBySide
  <2>2. CASE a \in L /\ z \in L
    BY <2>2 DEF Separate
  <2>3. CASE a \in K /\ z \in L
    BY <1>0, <1>2, <1>5, <2>3
  <2>4. CASE a \in L /\ z \in K
    BY <1>0, <1>2, <1>5, <2>4
  <2> QED BY <2>1, <2>2, <2>3, <2>4
<1>8. x \in Under(w, {x} \cup L)
  BY <1>0, <1>4 DEF Under
<1>9. Under(w, K \cup L) \subseteq Under(w, {x} \cup L) \ {x}
  <2>1. Under(w, K \cup L) \subseteq Under(w, {x} \cup L)
    BY <1>0, <1>2 DEF Under
  <2>2. x \notin Under(w, K \cup L)
    BY <1>0, <1>3, <1>4, <1>5 DEF Under
  <2> QED BY <2>1, <2>2
<1>10. ASSUME NEW y \in Piles(v), y \in Under(w, {x} \cup L)
       PROVE  y \in Under(w, K \cup L)
  <2>1. y \in Stack /\ y \in v.live /\ y \in G!Thing /\ y \in Node
    BY <1>10 DEF Piles, Under, Node
  <2>2. CASE x \in G!Above(w, y)
    <3>1. y # x
      BY <1>0, <2>1
    <3>2. PICK c \in Kept(w, x) : c \in G!Above(w, y)
      BY <2>1, <2>2, <3>1, OneOfThem
    <3>3. c \in v.live
      <4>1. CASE c \in Stack
        <5>1. c = y
          BY <1>0, <2>1, <3>2, <4>1, OneOfThem
        <5> QED BY <2>1, <5>1
      <4>2. CASE c \notin Stack
        BY <1>0, <4>2 DEF Pruned
      <4> QED BY <4>1, <4>2
    <3>4. c \in K
      BY <1>0, <3>3 DEF Pruned
    <3> QED BY <2>1, <3>2, <3>4 DEF Under
  <2>3. CASE x \notin G!Above(w, y)
    BY <1>10, <2>3 DEF Under
  <2> QED BY <2>2, <2>3
<1> QED BY <1>0, <1>6, <1>7, <1>8, <1>9, <1>10 DEF InPlaceOf

(* A pile has nothing in it but itself.                                    *)
LEMMA UsedUnder ==
  ASSUME NEW w, Tree(w), NEW x \in Stack, NEW L \in SUBSET G!Thing, x \notin L, Separate(w, {x} \cup L)
  PROVE  /\ Under(w, {x} \cup L) = {x} \cup Under(w, L) /\ x \notin Under(w, L) /\ Separate(w, L)
<1>0. w \in G!World /\ x \in G!Thing /\ x \notin G!Box /\ G!Thing \subseteq Node
  BY Apartness DEF Tree, Node
<1>1. \A y \in G!Thing : x \in G!Above(w, y) => y = x
  BY <1>0, OneOfThem
<1>2. x \in G!Above(w, x)
  BY <1>0, AboveIs
<1>3. \A z \in L : \A y \in Node : ~(x \in G!Above(w, y) /\ z \in G!Above(w, y))
  BY DEF Separate
<1>4. Separate(w, L)
  BY DEF Separate
<1> QED BY <1>0, <1>1, <1>2, <1>3, <1>4 DEF Under
-----------------------------------------------------------------------------
(* What a step of a charge does to the places of the others: nothing.      *)
LEMMA GoneLeaves ==
  ASSUME NEW w \in G!World, Apart(w), NEW x \in Stack, NEW u, u = G!Gone(w, x)
  PROVE  u.live = w.live \ {x} /\ u.amount = w.amount /\ \A d \in G!Box : Kept(u, d) = Kept(w, d) \ {x}
<1>1. x \in G!Thing
  BY Apartness
<1>h. PICK h : h = G!HideIfPlaced(w, x)
  OBVIOUS
<1>2. h \in G!World /\ h.live = w.live /\ h.amount = w.amount
  BY <1>1, <1>h, HideIfPlacedIs
<1>3. \A d \in G!Box : Kept(h, d) = Kept(w, d) \ {x}
  <2>1. CASE G!Placed(w, x)
    <3>1. h = G!Hide(w, x)
      BY <1>h, <2>1 DEF G!HideIfPlaced
    <3> QED BY <1>1, <3>1, HideIs
  <2>2. CASE ~G!Placed(w, x)
    <3>1. h = w /\ x \notin Lying(w)
      BY <1>1, <1>h, <2>2, PlacedIs DEF G!HideIfPlaced
    <3> QED BY <1>1, <3>1 DEF Lying
  <2> QED BY <2>1, <2>2
<1>4. u.live = h.live \ {x} /\ u.amount = h.amount /\ u.cont = h.cont
  BY <1>2, <1>h DEF G!Gone, G!World
<1> QED BY <1>2, <1>3, <1>4 DEF Kept

LEMMA LinkAdds ==
  ASSUME NEW w \in G!World, NEW x \in G!Thing, NEW d \in G!Box, NEW u, u = G!Link(w, x, d)
  PROVE  /\ u.live = w.live /\ u.amount = w.amount /\ Kept(u, d) = Kept(w, d) \cup {x}
         /\ \A e \in G!Box : e # d => Kept(u, e) = Kept(w, e)
<1>1. /\ PutAway(w, x, u) /\ u.cont[d] = <<x>> \o w.cont[d]
      /\ \A e \in G!Box : e # d => u.cont[e] = w.cont[e]
  BY LinkIs
<1>2. w.cont[d] \in Seq(G!Thing) /\ <<x>> \in Seq(G!Thing)
  BY KeptAreThings
<1>3. Elems(<<x>> \o w.cont[d]) = Elems(<<x>>) \cup Elems(w.cont[d])
  BY <1>2, Joined
<1>4. Elems(<<x>>) = {x}
  BY DEF Elems
<1> QED BY <1>1, <1>3, <1>4 DEF Kept, PutAway

LEMMA ReturnedLeaves ==
  ASSUME NEW w \in G!World, Apart(w), NEW x \in Stack, NEW d \in G!Worn \cup (Bag \cap w.live), x \in Kept(w, d),
         NEW a, a = G!Hide(w, x), NEW out \in G!World, out.live = a.live, out.last = a.last, out.cont = a.cont,
         NEW u, u = G!ReturnToTracked(out, x)
  PROVE  u.live = w.live /\ u.amount = out.amount /\ \A e \in G!Box : Kept(u, e) = Kept(w, e)
<1>1. x \in G!Thing /\ d \in G!Box /\ Stack \cap G!Box = {}
  BY Apartness
<1>2. /\ a \in G!World /\ a.live = w.live /\ a.last[x] = d
      /\ \A e \in G!Box : Kept(a, e) = Kept(w, e) \ {x}
  BY <1>1, HideIs
<1> DEFINE start == [w |-> out, x |-> x]
<1>4. G!AllRejoined(start) \in {start}
  <2>1. G!Rejoined(start) = start
    BY <1>1, <1>2 DEF G!Rejoined
  <2> HIDE DEF start
  <2> QED BY <2>1, RejoiningEnds
<1>5. u = G!PutBack(out, x)
  BY <1>4 DEF G!ReturnToTracked
<1>6. u = G!Link(out, x, d)
  BY <1>2, <1>5 DEF G!PutBack
<1>7. /\ u.live = out.live /\ u.amount = out.amount /\ Kept(u, d) = Kept(out, d) \cup {x}
      /\ \A e \in G!Box : e # d => Kept(u, e) = Kept(out, e)
  BY <1>1, <1>6, LinkAdds
<1>8. \A e \in G!Box : e # d => x \notin Kept(w, e)
  BY <1>1 DEF Apart
<1>9. \A e \in G!Box : Kept(out, e) = Kept(w, e) \ {x}
  BY <1>2 DEF Kept
<1>10. ASSUME NEW e \in G!Box
       PROVE  Kept(u, e) = Kept(w, e)
  <2>1. CASE e = d
    BY <1>7, <1>9, <2>1
  <2>2. CASE e # d
    BY <1>7, <1>8, <1>9, <2>2
  <2> QED BY <2>1, <2>2
<1> QED BY <1>2, <1>7, <1>10

-----------------------------------------------------------------------------
(* A charge takes what it can.  Before each step the gold left in the box  *)
(* lies in the things still to be visited, which lie apart.                *)
Unlocked(w, shut) == {y \in G!Thing : G!Above(w, y) \cap shut = {}}
PilesIn(w, v, b, shut) == {y \in Piles(v) : b \in G!Above(w, y) /\ y \in Unlocked(w, shut)}
ToVisit(w, b, v, list, shut) ==
  /\ OneOf(list) /\ Elems(list) \subseteq v.live
  /\ \A z \in Elems(list) : \E d \in G!Box : z \in Kept(w, d)
  /\ Separate(w, Elems(list))
  /\ \A z \in Elems(list) : G!Above(w, z) \cap shut \subseteq {z}
  /\ PilesIn(w, v, b, shut) = Piles(v) \cap Under(w, Elems(list)) \cap Unlocked(w, shut)
Visits(w, list) == G!Cardinality(Under(w, Elems(list)))

LEMMA GoldInIs ==
  ASSUME NEW shut \in SUBSET Bag,
         NEW w, Tree(w), Sound(w, {}), NEW v, Sound(v, {}), Pruned(w, v), NEW b \in G!Worn
  PROVE  G!GoldIn(v, b, shut) = Coins(v.amount, PilesIn(w, v, b, shut))
<1>1. ASSUME NEW y \in Piles(v) PROVE G!Above(v, y) = G!Above(w, y)
  <2>1. y \in Node /\ y \in v.live
    BY Apartness DEF Piles, Node
  <2> QED BY <2>1, PrunedAbove
<1>2. PilesIn(w, v, b, shut)
        = {y \in Stack \cap v.live : b \in G!Above(v, y) /\ G!Above(v, y) \cap shut = {}}
  BY <1>1, Apartness DEF PilesIn, Piles, Unlocked
<1> QED BY <1>2 DEF G!GoldIn, Coins

LEMMA PrunedItself ==
  ASSUME NEW w, NEW O, Sound(w, O)
  PROVE  Pruned(w, w)
BY KeptLive DEF Pruned

LEMMA OpenedStays ==
  ASSUME NEW shut,
         NEW w, Tree(w), Sound(w, {}), NEW v, Sound(v, {}), Pruned(w, v), NEW b \in G!Worn,
         NEW list \in Seq(G!Thing), list # <<>>, ToVisit(w, b, v, list, shut),
         NEW x, x = Head(list), x \in Bag \ shut,
         NEW q, q = v.cont[x] \o Tail(list)
  PROVE  ToVisit(w, b, v, q, shut) /\ Visits(w, q) <= Visits(w, list) - 1
<1> DEFINE t == Tail(list)
           L == Elems(t)
           K == Kept(v, x)
<1>1. /\ t \in Seq(G!Thing) /\ OneOf(t) /\ x \in G!Thing /\ x \notin L /\ Elems(list) = {x} \cup L
  <2>1. OneOf(list)
    BY DEF ToVisit
  <2> QED BY <2>1, HeadOnce
<1>t. t = Tail(list) /\ q = v.cont[x] \o t
  OBVIOUS
<1> HIDE DEF t
<1>2. /\ v \in G!World /\ w \in G!World /\ x \in G!Box /\ L \in SUBSET G!Thing /\ Apart(v)
  BY <1>1, Apartness DEF Sound, Elems
<1>3. v.cont[x] \in Seq(G!Thing) /\ K \subseteq G!Thing /\ OneOf(v.cont[x]) /\ K \subseteq v.live
  <2>1. K \subseteq v.live
    BY <1>2, KeptLive
  <2> QED BY <1>2, <2>1, KeptAreThings DEF Apart
<1>k. PICK M : M = K
  OBVIOUS
<1>4. /\ M \subseteq Kept(w, x) /\ M \cap L = {} /\ Separate(w, M \cup L)
      /\ Under(w, M \cup L) \subseteq Under(w, {x} \cup L) \ {x} /\ x \in Under(w, {x} \cup L)
      /\ \A y \in Piles(v) : y \in Under(w, {x} \cup L) => y \in Under(w, M \cup L)
  <2>1. Separate(w, {x} \cup L) /\ M = Kept(v, x) /\ x \notin L /\ L \in SUBSET G!Thing
    BY <1>1, <1>2, <1>k DEF ToVisit
  <2> HIDE DEF L, K
  <2>2. InPlaceOf(w, v, x, L, M)
    BY <2>1, OpenedUnder
  <2> QED BY <2>2 DEF InPlaceOf
<1>5. q \in Seq(G!Thing) /\ Elems(q) = M \cup L
  <2>1. PICK k : k = v.cont[x]
    OBVIOUS
  <2>2. q = k \o t /\ k \in Seq(G!Thing) /\ t \in Seq(G!Thing) /\ M = Elems(k)
    BY <1>1, <1>3, <1>t, <1>k, <2>1 DEF Kept
  <2> HIDE DEF K
  <2>3. k \o t \in Seq(G!Thing) /\ Elems(k \o t) = Elems(k) \cup Elems(t)
    BY <2>2, Joined
  <2> QED BY <2>2, <2>3
<1>6. OneOf(q)
  <2>1. PICK k : k = v.cont[x]
    OBVIOUS
  <2>2. /\ q = k \o t /\ k \in Seq(G!Thing) /\ t \in Seq(G!Thing) /\ OneOf(k) /\ OneOf(t)
        /\ Elems(k) \cap Elems(t) = {}
    BY <1>1, <1>3, <1>4, <1>t, <1>k, <2>1 DEF Kept
  <2>3. OneOf(k \o t)
    BY <2>2, JoinedOnce
  <2> QED BY <2>2, <2>3
<1>7. PilesIn(w, v, b, shut) = Piles(v) \cap Under(w, Elems(q)) \cap Unlocked(w, shut)
  <2>1. PilesIn(w, v, b, shut) = Piles(v) \cap Under(w, {x} \cup L) \cap Unlocked(w, shut)
    BY <1>1 DEF ToVisit
  <2> HIDE DEF L
  <2> QED BY <1>4, <1>5, <2>1
<1>8. ToVisit(w, b, v, q, shut)
  <2>1. Elems(q) \subseteq v.live
    BY <1>1, <1>3, <1>5, <1>k DEF ToVisit
  <2>2. \A z \in Elems(q) : \E d \in G!Box : z \in Kept(w, d)
    <3>1. \A z \in L : \E d \in G!Box : z \in Kept(w, d)
      BY <1>1 DEF ToVisit
    <3> HIDE DEF L
    <3> QED BY <1>2, <1>4, <1>5, <3>1
  <2>3. \A z \in Elems(q) : G!Above(w, z) \cap shut \subseteq {z}
    <3>1. /\ \A z \in L : G!Above(w, z) \cap shut \subseteq {z}
          /\ G!Above(w, x) \cap shut = {}
      BY <1>1 DEF ToVisit
    <3>2. \A z \in M : G!Above(w, z) = {z} \cup G!Above(w, x)
      <4> HIDE DEF L, K
      <4>1. Apart(w) /\ M \subseteq G!Thing /\ G!Thing \subseteq Node
        BY <1>3, <1>k DEF Tree, Node
      <4> QED BY <1>2, <1>4, <4>1, KeptAbove
    <3> HIDE DEF L
    <3> QED BY <1>5, <3>1, <3>2
  <2> QED BY <1>4, <1>5, <1>6, <1>7, <2>1, <2>2, <2>3 DEF ToVisit
<1>9. Visits(w, q) <= Visits(w, list) - 1
  <2> DEFINE A == {x} \cup L
             B == M \cup L
  <2>1. A \in SUBSET G!Thing /\ B \in SUBSET G!Thing
    BY <1>1, <1>2, <1>3, <1>k
  <2>2. x \in Under(w, A) /\ Under(w, B) \subseteq Under(w, A) \ {x}
    BY <1>4
  <2>3. A = Elems(list) /\ B = Elems(q)
    BY <1>1, <1>5
  <2> HIDE DEF A, B
  <2>4. G!Cardinality(Under(w, B)) <= G!Cardinality(Under(w, A)) - 1
    BY <1>2, <2>1, <2>2, FewerUnder
  <2> QED BY <2>3, <2>4 DEF Visits
<1> QED BY <1>8, <1>9

(* A locked bag is passed over: what lies in it is not looked for.          *)
LEMMA ShutStays ==
  ASSUME NEW shut, NEW w, Tree(w), Sound(w, {}), NEW v, NEW b \in G!Worn,
         NEW list \in Seq(G!Thing), list # <<>>, ToVisit(w, b, v, list, shut),
         NEW x, x = Head(list), x \in shut
  PROVE  ToVisit(w, b, v, Tail(list), shut) /\ Visits(w, Tail(list)) <= Visits(w, list) - 1
<1> DEFINE t == Tail(list)
           L == Elems(t)
           A == {x} \cup L
<1>1. /\ t \in Seq(G!Thing) /\ OneOf(t) /\ x \in G!Thing /\ x \notin L /\ Elems(list) = A
  <2>1. OneOf(list)
    BY DEF ToVisit
  <2> QED BY <2>1, HeadOnce
<1>2. w \in G!World /\ L \in SUBSET G!Thing /\ A \in SUBSET G!Thing /\ x \in Node
  BY <1>1 DEF Sound, Elems, Node
<1>3. Separate(w, A) /\ PilesIn(w, v, b, shut) = Piles(v) \cap Under(w, A) \cap Unlocked(w, shut)
  BY <1>1 DEF ToVisit
<1>4. x \in G!Above(w, x)
  BY <1>2, AboveIs
<1>5. x \in Under(w, A) /\ x \notin Under(w, L) /\ Separate(w, L) /\ Under(w, L) \subseteq Under(w, A)
  <2> HIDE DEF L
  <2> QED BY <1>1, <1>2, <1>3, <1>4 DEF Separate, Under
<1>6. Under(w, A) \cap Unlocked(w, shut) = Under(w, L) \cap Unlocked(w, shut)
  <2> HIDE DEF L
  <2> QED BY DEF Under, Unlocked
<1>7. ToVisit(w, b, v, t, shut)
  <2>1. PilesIn(w, v, b, shut) = Piles(v) \cap Under(w, L) \cap Unlocked(w, shut)
    <3> HIDE DEF L, A
    <3> QED BY <1>3, <1>6
  <2>2. /\ L \subseteq v.live /\ \A z \in L : \E d \in G!Box : z \in Kept(w, d)
        /\ \A z \in L : G!Above(w, z) \cap shut \subseteq {z}
    BY <1>1 DEF ToVisit
  <2> HIDE DEF t, A
  <2> QED BY <1>1, <1>5, <2>1, <2>2 DEF ToVisit
<1>8. Visits(w, t) <= Visits(w, list) - 1
  <2>1. x \in Under(w, A) /\ Under(w, L) \subseteq Under(w, A) \ {x}
    BY <1>5
  <2> HIDE DEF A, L
  <2>2. G!Cardinality(Under(w, L)) <= G!Cardinality(Under(w, A)) - 1
    BY <1>2, <2>1, FewerUnder
  <2> QED BY <1>1, <2>2 DEF Visits, L
<1> QED BY <1>7, <1>8

(* A pile is used up: there is one less.                                   *)
Without(v, x, u) == u.live = v.live \ {x} /\ \A d \in G!Box : Kept(u, d) = Kept(v, d) \ {x}
AtStack(w, b, v, list, x, u, shut) ==
  /\ Pruned(w, v) /\ list \in Seq(G!Thing) /\ list # <<>> /\ ToVisit(w, b, v, list, shut)
  /\ x = Head(list) /\ x \in Stack /\ x \notin shut /\ Without(v, x, u)
OneLess(w, b, v, list, x, u, shut) ==
  /\ Pruned(w, u) /\ ToVisit(w, b, u, Tail(list), shut) /\ Visits(w, Tail(list)) <= Visits(w, list) - 1
  /\ x \in PilesIn(w, v, b, shut) /\ PilesIn(w, u, b, shut) = PilesIn(w, v, b, shut) \ {x}
LEMMA UsedUpStays ==
  ASSUME NEW shut, NEW w, Tree(w), Sound(w, {}), NEW v, NEW b \in G!Worn, NEW list, NEW x, NEW u,
         AtStack(w, b, v, list, x, u, shut)
  PROVE  OneLess(w, b, v, list, x, u, shut)
<1>0. /\ Pruned(w, v) /\ list \in Seq(G!Thing) /\ list # <<>> /\ ToVisit(w, b, v, list, shut)
      /\ x = Head(list) /\ x \in Stack /\ x \notin shut /\ Without(v, x, u)
  BY DEF AtStack
<1> SUFFICES /\ Pruned(w, u) /\ ToVisit(w, b, u, Tail(list), shut)
             /\ Visits(w, Tail(list)) <= Visits(w, list) - 1
             /\ x \in PilesIn(w, v, b, shut) /\ PilesIn(w, u, b, shut) = PilesIn(w, v, b, shut) \ {x}
  BY DEF OneLess
<1> USE <1>0
<1> USE DEF Without
<1> DEFINE t == Tail(list)
           L == Elems(t)
           A == {x} \cup L
<1>1. /\ t \in Seq(G!Thing) /\ OneOf(t) /\ x \in G!Thing /\ x \notin L /\ Elems(list) = A
  <2>1. OneOf(list)
    BY DEF ToVisit
  <2> QED BY <2>1, HeadOnce
<1>2. w \in G!World /\ L \in SUBSET G!Thing /\ A \in SUBSET G!Thing
  BY <1>1 DEF Sound, Elems
<1>3. Separate(w, A) /\ A \subseteq v.live /\ PilesIn(w, v, b, shut) = Piles(v) \cap Under(w, A) \cap Unlocked(w, shut)
  BY <1>1 DEF ToVisit
<1>4. Under(w, A) = {x} \cup Under(w, L) /\ x \notin Under(w, L) /\ Separate(w, L)
  <2> HIDE DEF L
  <2> QED BY <1>1, <1>2, <1>3, UsedUnder
<1>5. Pruned(w, u)
  BY DEF Pruned
<1> HIDE DEF t, L
<1>6. x \in PilesIn(w, v, b, shut)
  <2>1. G!Above(w, x) \cap shut \subseteq {x}
    BY <1>1 DEF ToVisit, A
  <2>2. x \in Unlocked(w, shut)
    BY <1>1, <2>1 DEF Unlocked
  <2>3. x \in Piles(v) /\ x \in Under(w, A)
    BY <1>3, <1>4 DEF Piles
  <2> QED BY <1>3, <2>2, <2>3
<1>7. PilesIn(w, u, b, shut) = PilesIn(w, v, b, shut) \ {x}
  BY DEF PilesIn, Piles
<1>8. PilesIn(w, u, b, shut) = Piles(u) \cap Under(w, L) \cap Unlocked(w, shut)
  BY <1>3, <1>4, <1>7 DEF Piles
<1>9. ToVisit(w, b, u, t, shut)
  <2>1. L \subseteq u.live
    BY <1>1, <1>3
  <2>2. \A z \in L : \E d \in G!Box : z \in Kept(w, d)
    BY <1>1 DEF ToVisit
  <2>3. \A z \in L : G!Above(w, z) \cap shut \subseteq {z}
    BY <1>1 DEF ToVisit
  <2> QED BY <1>1, <1>4, <1>8, <2>1, <2>2, <2>3 DEF ToVisit, L
<1>10. Visits(w, t) <= Visits(w, list) - 1
  <2>1. Under(w, L) \subseteq Under(w, A) \ {x} /\ x \in Under(w, A)
    BY <1>4
  <2> HIDE DEF A
  <2>2. G!Cardinality(Under(w, L)) <= G!Cardinality(Under(w, A)) - 1
    BY <1>2, <2>1, FewerUnder
  <2> QED BY <1>1, <2>2 DEF Visits, L
<1> QED BY <1>5, <1>6, <1>7, <1>9, <1>10 DEF t

(* The pile that covers the rest goes back to its place, or is gone.       *)
Reinserted(v, x, n, u) ==
  \E a, out :
    /\ a = G!Hide(v, x) /\ out \in G!World /\ out.live = a.live /\ out.last = a.last
    /\ out.cont = a.cont /\ out.hand = a.hand /\ out.ground = a.ground /\ out.amount[x] = n
    /\ \A y \in Stack : y # x => out.amount[y] = a.amount[y]
    /\ u = IF out.amount[x] = 0 THEN G!Gone(out, x) ELSE G!ReturnToTracked(out, x)
PileLeft(w, b, v, x, n, u, shut) ==
  /\ Pruned(w, u) /\ \A y \in Stack : y # x => u.amount[y] = v.amount[y]
  /\ IF n = 0 THEN PilesIn(w, u, b, shut) = PilesIn(w, v, b, shut) \ {x}
     ELSE PilesIn(w, u, b, shut) = PilesIn(w, v, b, shut) /\ u.amount[x] = n
AtPile(w, b, v, x, n, u, shut) ==
  /\ Sound(v, {}) /\ Pruned(w, v) /\ x \in PilesIn(w, v, b, shut) /\ n \in Nat /\ Reinserted(v, x, n, u)
LEMMA CoveredStays ==
  ASSUME NEW shut, NEW w, Tree(w), Sound(w, {}), NEW v, NEW b \in G!Worn,
         NEW x, NEW e \in G!Box, x \in Kept(w, e), NEW n, NEW u, AtPile(w, b, v, x, n, u, shut)
  PROVE  PileLeft(w, b, v, x, n, u, shut)
<1>p. Sound(v, {}) /\ Pruned(w, v) /\ x \in PilesIn(w, v, b, shut) /\ n \in Nat /\ Reinserted(v, x, n, u)
  BY DEF AtPile
<1> SUFFICES /\ Pruned(w, u) /\ \A y \in Stack : y # x => u.amount[y] = v.amount[y]
             /\ IF n = 0 THEN PilesIn(w, u, b, shut) = PilesIn(w, v, b, shut) \ {x}
                ELSE PilesIn(w, u, b, shut) = PilesIn(w, v, b, shut) /\ u.amount[x] = n
  BY DEF PileLeft
<1> USE <1>p
<1>r. PICK a, out :
    /\ a = G!Hide(v, x) /\ out \in G!World /\ out.live = a.live /\ out.last = a.last
    /\ out.cont = a.cont /\ out.hand = a.hand /\ out.ground = a.ground /\ out.amount[x] = n
    /\ \A y \in Stack : y # x => out.amount[y] = a.amount[y]
    /\ u = IF out.amount[x] = 0 THEN G!Gone(out, x) ELSE G!ReturnToTracked(out, x)
  BY DEF Reinserted
<1>0. /\ x \in Stack /\ x \in v.live /\ b \in G!Above(w, x) /\ x \in G!Thing /\ x \in Node
      /\ v \in G!World /\ Apart(v) /\ w \in G!World /\ Apart(w) /\ Stack \cap G!Box = {}
      /\ b \in G!Box /\ e \in Node /\ G!Worn \cap G!Thing = {}
  BY Apartness DEF PilesIn, Piles, Sound, Node, Tree
<1>1. e \in G!Worn \cup (Bag \cap v.live)
  <2>1. b \in G!Above(w, e)
    <3>1. G!Above(w, x) = {x} \cup G!Above(w, e)
      BY <1>0, KeptAbove
    <3> QED BY <1>0, <3>1
  <2>2. CASE e = b
    BY <2>2
  <2>3. CASE e # b
    <3>1. PICK d \in G!Box : e \in Kept(w, d)
      BY <1>0, <2>1, <2>3, KeptAbove
    <3>2. e \in w.live /\ e \in G!Thing
      BY <3>1, KeptLive
    <3> QED BY <1>0, <3>2 DEF Pruned, G!Box
  <2> QED BY <2>2, <2>3
<1>2. x \in Kept(v, e) /\ x # v.hand
  BY <1>0 DEF Pruned, Apart
<1>3. /\ a \in G!World /\ a.live = v.live /\ a.amount = v.amount
      /\ \A d \in G!Box : Kept(a, d) = Kept(v, d) \ {x} /\ OneOf(a.cont[d])
      /\ a.hand = v.hand /\ a.ground = v.ground \ {x}
  BY <1>0, <1>2, <1>r, HideIs
<1>4. /\ out.live = v.live /\ out.hand = v.hand /\ out.ground = v.ground \ {x}
      /\ \A y \in Stack : y # x => out.amount[y] = v.amount[y]
  BY <1>3, <1>r
<1>5. \A d \in G!Box : Kept(out, d) = Kept(v, d) \ {x} /\ OneOf(out.cont[d])
  BY <1>3, <1>4, <1>r DEF Kept
<1>6. CASE n = 0
  <2>1. u = G!Gone(out, x)
    BY <1>r, <1>6
  <2>2. Apart(out)
    BY <1>0, <1>4, <1>5, <1>r DEF Apart
  <2>3. u.live = out.live \ {x} /\ u.amount = out.amount /\ \A d \in G!Box : Kept(u, d) = Kept(out, d) \ {x}
    BY <1>0, <1>4, <1>r, <2>1, <2>2, GoneLeaves
  <2>4. u.live = v.live \ {x} /\ \A d \in G!Box : Kept(u, d) = Kept(v, d) \ {x}
    BY <1>4, <1>5, <2>3
  <2>5. Pruned(w, u)
    BY <1>0, <2>4 DEF Pruned
  <2>6. PilesIn(w, u, b, shut) = PilesIn(w, v, b, shut) \ {x}
    BY <2>4 DEF PilesIn, Piles
  <2> QED BY <1>4, <1>6, <1>r, <2>3, <2>5, <2>6
<1>7. CASE n # 0
  <2>1. u = G!ReturnToTracked(out, x)
    BY <1>r, <1>7
  <2>2. u.live = v.live /\ u.amount = out.amount /\ \A d \in G!Box : Kept(u, d) = Kept(v, d)
    <3>1. v \in G!World /\ Apart(v) /\ x \in Stack /\ x \in Kept(v, e)
      BY <1>0, <1>2
    <3> QED BY <1>1, <1>r, <2>1, <3>1, ReturnedLeaves
  <2>3. Pruned(w, u)
    BY <2>2 DEF Pruned
  <2>4. PilesIn(w, u, b, shut) = PilesIn(w, v, b, shut)
    BY <2>2 DEF PilesIn, Piles
  <2> QED BY <1>4, <1>7, <1>r, <2>2, <2>3, <2>4
<1> QED BY <1>6, <1>7

LEMMA CoinsChanged ==
  ASSUME NEW amount \in [Stack -> Nat], NEW other \in [Stack -> Nat], NEW S \in SUBSET Stack, NEW x \in S,
         \A y \in Stack : y # x => other[y] = amount[y]
  PROVE  /\ Coins(amount, S) \in Nat /\ Coins(other, S \ {x}) = Coins(amount, S) - amount[x]
         /\ Coins(other, S) = Coins(amount, S) - (amount[x] - other[x])
<1> DEFINE T == S \ {x}
<1>1. Coins(amount, S) \in Nat /\ Coins(amount, S) = amount[x] + Coins(amount, T)
  BY CoinsWithout
<1>2. Coins(other, S) = other[x] + Coins(other, T)
  BY CoinsWithout
<1>3. T \in SUBSET Stack /\ \A y \in T : other[y] = amount[y]
  OBVIOUS
<1> HIDE DEF T
<1>4. Coins(other, T) = Coins(amount, T) /\ Coins(amount, T) \in Nat
  BY <1>3, CoinsAlike, CoinsAreNumbers
<1>5. amount[x] \in Nat /\ other[x] \in Nat
  OBVIOUS
<1> QED BY <1>1, <1>2, <1>4, <1>5 DEF T

(* A charge of `want' under way, with at most n more things to visit.      *)
Charged(w, b, want, c, n, shut) ==
  {r \in Paying(want, c) :
      /\ Pruned(w, r.w) /\ G!GoldIn(r.w, b, shut) = G!GoldIn(w, b, shut) - r.got
      /\ r.got = want \/ (ToVisit(w, b, r.w, r.list, shut) /\ Visits(w, r.list) <= n)}

LEMMA ChargedOn ==
  ASSUME NEW shut \in SUBSET Bag,
         NEW w, Tree(w), Sound(w, {}), NEW b \in G!Worn, NEW want \in Nat, NEW c \in 0..Gold, NEW n \in Nat,
         NEW r \in Charged(w, b, want, c, n + 1, shut), NEW z, z = G!Consumed(r, want, shut)
  PROVE  z \in Charged(w, b, want, c, n, shut)
<1>x. PICK v, x : v = r.w /\ x = Head(r.list)
  OBVIOUS
<1>v. \A q \in Seq(G!Thing) : Visits(w, q) \in Int
  <2>1. ASSUME NEW q \in Seq(G!Thing) PROVE Visits(w, q) \in Int
    <3>1. Elems(q) \in SUBSET G!Thing /\ w \in G!World
      BY DEF Elems, Tree
    <3> QED BY <3>1, UnderThem DEF Visits
  <2> QED BY <2>1
<1>1. /\ r \in Paying(want, c) /\ v \in G!World /\ r.list \in Seq(G!Thing) /\ r.got \in 0..want
      /\ Sound(v, {}) /\ Pruned(w, v) /\ w \in G!World /\ G!GoldIn(v, b, shut) = G!GoldIn(w, b, shut) - r.got
      /\ r.got # want => ToVisit(w, b, v, r.list, shut) /\ Visits(w, r.list) <= n + 1
  BY <1>x DEF Charged, Paying, Fits, Tree
<1>2. z \in Paying(want, c) /\ z.w \in G!World /\ Sound(z.w, {}) /\ z.w.amount \in [Stack -> Nat]
  <2>1. z \in Paying(want, c)
    BY <1>1, ConsumedStays
  <2> QED BY <2>1 DEF Paying, Fits, G!World
<1>3. r.list # <<>> => x \in G!Thing
  BY <1>1, <1>x, HeadAndTail
<1>4. PICK S : S = PilesIn(w, v, b, shut)
  OBVIOUS
<1>5. S \in SUBSET Stack /\ G!GoldIn(v, b, shut) = Coins(v.amount, S) /\ v.amount \in [Stack -> Nat]
  BY <1>1, <1>4, GoldInIs DEF PilesIn, Piles, G!World
<1>6. Coins(v.amount, S) \in Nat
  BY <1>5, CoinsAreNumbers
<1>7. G!GoldIn(w, b, shut) = Coins(v.amount, S) + r.got
  <2>1. G!GoldIn(w, b, shut) \in Int
    <3>1. G!GoldIn(w, b, shut) = Coins(w.amount, PilesIn(w, w, b, shut))
      BY PrunedItself, GoldInIs
    <3>2. PilesIn(w, w, b, shut) \in SUBSET Stack /\ w.amount \in [Stack -> Nat]
      BY <1>1 DEF PilesIn, Piles, G!World
    <3>3. Coins(w.amount, PilesIn(w, w, b, shut)) \in Nat
      BY <3>2, CoinsAreNumbers
    <3> QED BY <3>1, <3>3
  <2> QED BY <1>1, <1>5, <1>6, <2>1
<1>8. ASSUME Pruned(w, z.w), z.got \in Int,
             Coins(z.w.amount, PilesIn(w, z.w, b, shut)) = Coins(v.amount, S) - (z.got - r.got),
             z.got = want \/ (ToVisit(w, b, z.w, z.list, shut) /\ Visits(w, z.list) <= n)
      PROVE  z \in Charged(w, b, want, c, n, shut)
  <2>1. G!GoldIn(z.w, b, shut) = Coins(z.w.amount, PilesIn(w, z.w, b, shut))
    BY <1>2, <1>8, GoldInIs
  <2>2. G!GoldIn(z.w, b, shut) = G!GoldIn(w, b, shut) - z.got
    BY <1>1, <1>6, <1>7, <1>8, <2>1
  <2> QED BY <1>2, <1>8, <2>2 DEF Charged
<1>9. CASE (r.list = <<>> \/ r.got = want) /\ z = r
  <2>1. r.got = want \/ Visits(w, r.list) <= n
    <3>1. CASE r.list = <<>>
      <4>1. Under(w, Elems(r.list)) = {}
        BY <3>1 DEF Under, Elems
      <4>2. Visits(w, r.list) = Cardinality({})
        BY <4>1, SameCount DEF Visits
      <4> QED BY <4>2, FS_EmptySet
    <3> QED BY <1>9, <3>1
  <2> QED BY <1>9, <2>1 DEF Charged
<1>10. CASE r.list # <<>> /\ r.got # want /\ x \in Bag /\ Opened(r, x, shut, z)
  <2>1. z.w = v /\ z.got = r.got /\ z.list = G!Inside(v, x, shut) \o Tail(r.list)
    BY <1>1, <1>10, <1>x DEF Opened, Paying
  <2>2. PICK q : q = G!Inside(v, x, shut) \o Tail(r.list)
    OBVIOUS
  <2>3. ToVisit(w, b, v, q, shut) /\ Visits(w, q) <= Visits(w, r.list) - 1
    <3>1. ToVisit(w, b, v, r.list, shut) /\ r.list \in Seq(G!Thing) /\ Tail(r.list) \in Seq(G!Thing)
      BY <1>1, <1>10, HeadAndTail
    <3>2. CASE x \in shut
      <4>1. q = Tail(r.list)
        BY <2>2, <3>1, <3>2 DEF G!Inside
      <4> QED BY <1>1, <1>10, <1>x, <3>1, <3>2, <4>1, ShutStays
    <3>3. CASE x \notin shut
      <4>1. q = v.cont[x] \o Tail(r.list) /\ x \in Bag \ shut
        BY <1>10, <2>2, <3>3 DEF G!Inside
      <4> QED BY <1>1, <1>10, <1>x, <3>1, <4>1, OpenedStays
    <3> QED BY <3>2, <3>3
  <2>4. Visits(w, q) <= n
    <3>1. q \in Seq(G!Thing)
      BY <1>2, <2>1, <2>2 DEF Paying
    <3> QED BY <1>1, <1>10, <1>v, <2>3, <3>1
  <2>5. z.got - r.got = 0 /\ Coins(v.amount, S) - 0 = Coins(v.amount, S) /\ z.got \in Int
    BY <1>1, <1>6, <2>1
  <2> QED BY <1>1, <1>4, <1>8, <2>1, <2>2, <2>3, <2>4, <2>5
<1>11. CASE /\ r.list # <<>> /\ r.got # want /\ x \notin Bag /\ ~(v.amount[x] >= want - r.got)
            /\ UsedUp(r, x, z)
  <2>1. x \in Stack /\ x \in G!Thing
    BY <1>3, <1>11, Apartness
  <2>2. PICK a, u : a = G!Emptied(v, x) /\ u = G!Gone(a, x)
    OBVIOUS
  <2>3. /\ a \in G!World /\ a.live = v.live /\ a.cont = v.cont /\ a.hand = v.hand /\ a.ground = v.ground
        /\ \A y \in Stack : y # x => a.amount[y] = v.amount[y]
    <3>1. a = [v EXCEPT !.amount[x] = 0] /\ 0 \in Nat
      BY <2>2 DEF G!Emptied
    <3>2. v \in G!World /\ x \in Stack
      BY <1>1, <2>1
    <3> QED BY <3>1, <3>2, AmountOnly
  <2>4. Apart(a) /\ \A d \in G!Box : Kept(a, d) = Kept(v, d)
    BY <1>1, <2>3 DEF Sound, Apart, Kept
  <2>5. u.live = v.live \ {x} /\ u.amount = a.amount /\ \A d \in G!Box : Kept(u, d) = Kept(v, d) \ {x}
    BY <2>1, <2>2, <2>3, <2>4, GoneLeaves
  <2>6. z.w = u /\ z.list = Tail(r.list) /\ z.got = r.got + v.amount[x]
    BY <1>11, <1>x, <2>2 DEF UsedUp
  <2>7. ToVisit(w, b, v, r.list, shut)
    BY <1>1, <1>11
  <2>8. /\ Pruned(w, u) /\ ToVisit(w, b, u, Tail(r.list), shut) /\ Visits(w, Tail(r.list)) <= Visits(w, r.list) - 1
        /\ x \in S /\ PilesIn(w, u, b, shut) = S \ {x}
    <3>1. PICK list : list = r.list
      OBVIOUS
    <3>2. AtStack(w, b, v, list, x, u, shut)
      <4>1. /\ Pruned(w, v) /\ list \in Seq(G!Thing) /\ list # <<>> /\ x = Head(list) /\ x \in Stack
            /\ x \notin shut
        BY <1>1, <1>11, <1>x, <2>1, <3>1
      <4>2. Without(v, x, u)
        BY <2>4, <2>5 DEF Without
      <4> QED BY <2>7, <3>1, <4>1, <4>2 DEF AtStack
    <3>3. OneLess(w, b, v, list, x, u, shut)
      BY <3>2, UsedUpStays
    <3> QED BY <1>4, <3>1, <3>3 DEF OneLess
  <2>9. Coins(z.w.amount, PilesIn(w, z.w, b, shut)) = Coins(v.amount, S) - v.amount[x]
    <3>1. z.w.amount \in [Stack -> Nat] /\ \A y \in Stack : y # x => z.w.amount[y] = v.amount[y]
      BY <1>2, <2>3, <2>5, <2>6
    <3>2. Coins(z.w.amount, S \ {x}) = Coins(v.amount, S) - v.amount[x]
      BY <1>5, <2>8, <3>1, CoinsChanged
    <3> QED BY <2>6, <2>8, <3>2
  <2>10. Visits(w, Tail(r.list)) <= n
    <3>1. Tail(r.list) \in Seq(G!Thing)
      BY <1>1, <1>11, HeadAndTail
    <3>2. Visits(w, Tail(r.list)) \in Int /\ Visits(w, r.list) \in Int
      BY <1>1, <1>v, <3>1
    <3>3. Visits(w, r.list) <= n + 1
      BY <1>1, <1>11
    <3> QED BY <2>8, <3>2, <3>3
  <2>11. z.got \in Int /\ z.got - r.got = v.amount[x]
    BY <1>1, <1>5, <2>1, <2>6
  <2> QED BY <1>8, <2>6, <2>8, <2>9, <2>10, <2>11
<1>12. CASE /\ r.list # <<>> /\ r.got # want /\ x \notin Bag /\ v.amount[x] >= want - r.got
            /\ \E out : Reduced(r, want, x, out) /\ Covered(want, x, out, z)
  <2>1. PICK out : Reduced(r, want, x, out) /\ Covered(want, x, out, z)
    BY <1>12
  <2>2. /\ x \in Stack /\ x \in G!Thing /\ ToVisit(w, b, v, r.list, shut) /\ x \in Elems(r.list)
    BY <1>1, <1>3, <1>12, <1>x, HeadAndTail, Apartness
  <2>3. PICK e \in G!Box : x \in Kept(w, e)
    BY <2>2 DEF ToVisit
  <2>4. x \in S
    <3>1. Elems(r.list) \in SUBSET G!Thing /\ x \in v.live
      BY <1>1, <2>2 DEF ToVisit, Elems
    <3>2. x \in Under(w, Elems(r.list))
      BY <1>1, <2>2, <3>1, UnderThem
    <3>3. x \in Unlocked(w, shut)
      <4>1. G!Above(w, x) \cap shut \subseteq {x} /\ x \notin shut
        BY <2>2, Apartness DEF ToVisit, G!Box
      <4> QED BY <2>2, <4>1 DEF Unlocked
    <3> QED BY <1>4, <2>2, <3>1, <3>2, <3>3 DEF ToVisit, Piles
  <2>5. PICK a, n0, u : /\ a = G!Hide(v, x) /\ n0 = a.amount[x] - (want - r.got)
                        /\ u = IF out.amount[x] = 0 THEN G!Gone(out, x) ELSE G!ReturnToTracked(out, x)
    OBVIOUS
  <2>6. a \in G!World /\ a.amount = v.amount
    BY <1>1, <2>2, <2>5, HideIs
  <2>7. n0 \in Nat /\ n0 = v.amount[x] - (want - r.got)
    <3>1. v.amount[x] \in Nat /\ want - r.got \in Int
      BY <1>1, <1>5, <2>2
    <3>2. v.amount[x] >= want - r.got /\ n0 = v.amount[x] - (want - r.got)
      BY <1>12, <2>5, <2>6
    <3> QED BY <3>1, <3>2
  <2>8. out = [a EXCEPT !.amount[x] = n0]
    BY <1>x, <2>1, <2>5 DEF Reduced
  <2>9. /\ out \in G!World /\ out.live = a.live /\ out.last = a.last /\ out.cont = a.cont /\ out.hand = a.hand
        /\ out.ground = a.ground /\ out.amount[x] = n0
        /\ \A y \in Stack : y # x => out.amount[y] = a.amount[y]
    BY <2>2, <2>6, <2>7, <2>8, AmountOnly
  <2>10. /\ Pruned(w, u) /\ \A y \in Stack : y # x => u.amount[y] = v.amount[y]
         /\ IF n0 = 0 THEN PilesIn(w, u, b, shut) = S \ {x} ELSE PilesIn(w, u, b, shut) = S /\ u.amount[x] = n0
    <3>1. x \in PilesIn(w, v, b, shut)
      BY <1>4, <2>4
    <3>2. Sound(v, {}) /\ Pruned(w, v) /\ n0 \in Nat
      BY <1>1, <2>7
    <3>4. Reinserted(v, x, n0, u)
      BY <2>5, <2>9 DEF Reinserted
    <3>3. AtPile(w, b, v, x, n0, u, shut)
      BY <3>1, <3>2, <3>4 DEF AtPile
    <3>5. PileLeft(w, b, v, x, n0, u, shut)
      BY <2>3, <3>3, CoveredStays
    <3> QED BY <1>4, <3>5 DEF PileLeft
  <2>11. z.w = u /\ z.got = want
    BY <2>1, <2>5 DEF Covered
  <2>12. Coins(z.w.amount, PilesIn(w, z.w, b, shut)) = Coins(v.amount, S) - (v.amount[x] - n0)
    <3>1. u.amount \in [Stack -> Nat] /\ v.amount[x] \in Nat
      BY <1>2, <1>5, <2>2, <2>11
    <3>2. /\ Coins(u.amount, S \ {x}) = Coins(v.amount, S) - v.amount[x]
          /\ Coins(u.amount, S) = Coins(v.amount, S) - (v.amount[x] - u.amount[x])
      <4>1. \A y \in Stack : y # x => u.amount[y] = v.amount[y]
        BY <2>10
      <4> QED BY <1>5, <2>4, <3>1, <4>1, CoinsChanged
    <3>3. CASE n0 = 0
      <4>1. PilesIn(w, u, b, shut) = S \ {x} /\ v.amount[x] - n0 = v.amount[x]
        BY <2>10, <3>1, <3>3
      <4> QED BY <2>11, <3>2, <4>1
    <3>4. CASE n0 # 0
      <4>1. PilesIn(w, u, b, shut) = S /\ u.amount[x] = n0
        BY <2>10, <3>4
      <4> QED BY <2>11, <3>2, <4>1
    <3> QED BY <3>3, <3>4
  <2>13. z.got \in Int /\ z.got - r.got = v.amount[x] - n0
    <3>1. PICK m, g : m = v.amount[x] /\ g = r.got
      OBVIOUS
    <3>2. m \in Nat /\ g \in Int /\ n0 = m - (want - g) /\ z.got = want
      BY <1>1, <1>5, <2>2, <2>7, <2>11, <3>1
    <3>3. want - g = m - n0
      BY <3>2
    <3> QED BY <3>1, <3>2, <3>3
  <2> QED BY <1>8, <2>10, <2>11, <2>12, <2>13
<1> QED BY <1>x, <1>9, <1>10, <1>11, <1>12, ConsumedIs

LEMMA ChargeStarts ==
  ASSUME NEW shut \in SUBSET Bag,
         NEW w, Tree(w), NEW c \in 0..Gold, Fits(w, {}, c), NEW b \in G!Worn, NEW want \in Nat
  PROVE  [w |-> w, list |-> w.cont[b], got |-> 0] \in Charged(w, b, want, c, G!Cardinality(G!Thing), shut)
<1> DEFINE list == w.cont[b]
           r == [w |-> w, list |-> list, got |-> 0]
           K == Kept(w, b)
<1>1. /\ w \in G!World /\ Sound(w, {}) /\ Apart(w) /\ b \in G!Box /\ b \in Node /\ Stack \cap G!Box = {}
      /\ G!Thing \subseteq Node
  BY Apartness DEF Tree, Fits, Node
<1>2. /\ list \in Seq(G!Thing) /\ OneOf(list) /\ K = Elems(list) /\ K \subseteq w.live /\ K \in SUBSET G!Thing
  BY <1>1, KeptAreThings, KeptLive DEF Apart, Kept
<1>3. r \in Paying(want, c)
  <2>1. Payable(w, Elems(list))
    BY <1>1, ContentsPayable
  <2>2. 0 \in 0..want /\ c - 0 = c /\ c - 0 \in 0..Gold
    BY Goods
  <2> HIDE DEF list
  <2> QED BY <1>2, <2>1, <2>2, PayingIs
<1>4. Separate(w, K)
  BY SideBySide, <1>1 DEF Separate
<1>5. PilesIn(w, w, b, shut) = Piles(w) \cap Under(w, K) \cap Unlocked(w, shut)
  <2>1. ASSUME NEW y \in Piles(w), b \in G!Above(w, y)
        PROVE  y \in Under(w, K)
    <3>1. y \in Node /\ y # b /\ y \in G!Thing
      BY <1>1, Apartness DEF Piles, Node
    <3>2. \E z \in K : z \in G!Above(w, y)
      BY <2>1, <3>1, OneOfThem
    <3> QED BY <3>1, <3>2 DEF Under
  <2>2. ASSUME NEW y \in Piles(w), y \in Under(w, K)
        PROVE  b \in G!Above(w, y)
    <3>1. PICK z \in K : z \in G!Above(w, y)
      BY <2>2 DEF Under
    <3>2. y \in Node /\ z \in Node
      BY <1>1, <1>2, Apartness DEF Piles, Node
    <3>3. G!Above(w, z) = {z} \cup G!Above(w, b) /\ b \in G!Above(w, b)
      BY <1>1, <3>2, KeptAbove, AboveIs
    <3>4. G!Above(w, z) \subseteq G!Above(w, y)
      BY <3>1, <3>2, AboveIsClosed
    <3> QED BY <3>3, <3>4
  <2> QED BY <2>1, <2>2 DEF PilesIn
<1>6. ToVisit(w, b, w, list, shut)
  <2>1. \A z \in K : \E d \in G!Box : z \in Kept(w, d)
    BY <1>1
  <2>2. \A z \in K : G!Above(w, z) \cap shut \subseteq {z}
    <3>1. \A z \in K : G!Above(w, z) = {z} \cup G!Above(w, b)
      BY <1>1, <1>2, KeptAbove
    <3>2. G!Above(w, b) = {b} /\ b \notin shut
      <4>1. \A d \in G!Box : b \notin Kept(w, d)
        BY <1>1, KeptAreThings, Apartness
      <4> QED BY <1>1, <4>1, KeptAbove, Apartness
    <3> QED BY <3>1, <3>2
  <2> HIDE DEF K, list
  <2> QED BY <1>2, <1>4, <1>5, <2>1, <2>2 DEF ToVisit
<1>7. Visits(w, list) <= G!Cardinality(G!Thing)
  <2> HIDE DEF K
  <2> QED BY <1>1, <1>2, UnderThem DEF Visits
<1>8. Pruned(w, w)
  BY <1>1, PrunedItself
<1>9. G!GoldIn(w, b, shut) \in Nat
  <2>1. G!GoldIn(w, b, shut) = Coins(w.amount, PilesIn(w, w, b, shut))
    BY <1>1, <1>8, GoldInIs
  <2>2. PilesIn(w, w, b, shut) \in SUBSET Stack /\ w.amount \in [Stack -> Nat]
    BY <1>1 DEF PilesIn, Piles, G!World
  <2> QED BY <2>1, <2>2, CoinsAreNumbers
<1>10. r.w = w /\ r.list = list /\ r.got = 0
  OBVIOUS
<1> HIDE DEF r, list
<1>11. G!GoldIn(r.w, b, shut) = G!GoldIn(w, b, shut) - r.got
  BY <1>9, <1>10
<1>12. r \in Charged(w, b, want, c, G!Cardinality(G!Thing), shut)
  BY <1>3, <1>6, <1>7, <1>8, <1>10, <1>11 DEF Charged
<1> QED BY <1>12 DEF r, list

LEMMA ConsumesInFull ==
  ASSUME NEW shut \in SUBSET Bag,
         NEW w, Tree(w), NEW c \in 0..Gold, Fits(w, {}, c), NEW b \in G!Worn, NEW want \in Nat,
         NEW r, r = G!ConsumeResources(w, b, want, shut)
  PROVE  r.got = G!Min({want, G!GoldIn(w, b, shut)}) /\ G!GoldIn(r.w, b, shut) = G!GoldIn(w, b, shut) - r.got
<1> DEFINE n == G!Cardinality(G!Thing)
           start == [w |-> w, list |-> w.cont[b], got |-> 0]
           Z == [k \in 0..n |-> Charged(w, b, want, c, n - k, shut)]
<1>1. n \in Nat
  BY ThingsCount
<1>2. start \in Charged(w, b, want, c, n, shut)
  BY ChargeStarts
<1>3. r = G!AllConsumed(start, want, shut)
  BY DEF G!ConsumeResources, G!Consume
<1>n. n = G!Cardinality(G!Thing)
  OBVIOUS
<1> HIDE DEF n, start
<1>4. r \in Charged(w, b, want, c, 0, shut)
  <2>1. start \in Z[0] /\ n \in 0..n /\ n - n = 0
    <3>1. n - 0 = n /\ 0 \in 0..n
      BY <1>1
    <3> QED BY <1>1, <1>2, <3>1
  <2>2. ASSUME NEW k \in 1..n, NEW q \in Z[k - 1] PROVE G!Consumed(q, want, shut) \in Z[k]
    <3>1. k - 1 \in 0..n /\ k \in 0..n /\ n - (k - 1) = (n - k) + 1 /\ n - k \in Nat
      BY <1>1
    <3>2. q \in Charged(w, b, want, c, (n - k) + 1, shut)
      BY <3>1
    <3>3. Sound(w, {})
      BY DEF Fits
    <3>4. G!Consumed(q, want, shut) \in Charged(w, b, want, c, n - k, shut)
      BY <3>1, <3>2, <3>3, ChargedOn
    <3> QED BY <3>1, <3>4
  <2>3. Z[n] = Charged(w, b, want, c, 0, shut)
    BY <1>1, <2>1
  <2> HIDE DEF Z
  <2> QED BY <1>3, <1>n, <2>1, <2>2, <2>3, ConsumingCounts
<1>5. /\ r \in Paying(want, c) /\ Pruned(w, r.w) /\ Sound(r.w, {}) /\ Sound(w, {}) /\ w \in G!World
      /\ G!GoldIn(r.w, b, shut) = G!GoldIn(w, b, shut) - r.got /\ r.got \in 0..want /\ r.w \in G!World
      /\ r.list \in Seq(G!Thing)
      /\ r.got = want \/ (ToVisit(w, b, r.w, r.list, shut) /\ Visits(w, r.list) <= 0)
  BY <1>4 DEF Charged, Paying, Fits, Tree
<1>6. \A v \in {w, r.w} : G!GoldIn(v, b, shut) = Coins(v.amount, PilesIn(w, v, b, shut)) /\ G!GoldIn(v, b, shut) \in Nat
  <2>1. \A v \in {w, r.w} : Pruned(w, v) /\ Sound(v, {})
    BY <1>5, PrunedItself
  <2>2. \A v \in {w, r.w} : G!GoldIn(v, b, shut) = Coins(v.amount, PilesIn(w, v, b, shut))
    BY <2>1, <1>5, GoldInIs
  <2>3. \A v \in {w, r.w} : PilesIn(w, v, b, shut) \in SUBSET Stack /\ v.amount \in [Stack -> Nat]
    BY <1>5 DEF PilesIn, Piles, G!World
  <2> QED BY <2>2, <2>3, CoinsAreNumbers
<1>7. r.got = want \/ r.got = G!GoldIn(w, b, shut)
  <2>1. CASE r.got # want
    <3>1. Elems(r.list) = {}
      <4>1. Elems(r.list) \in SUBSET G!Thing /\ Visits(w, r.list) <= 0
        <5>1. r.list \in Seq(G!Thing)
          BY <1>5
        <5>2. Elems(r.list) \in SUBSET G!Thing
          BY <5>1 DEF Elems
        <5> QED BY <1>5, <2>1, <5>2
      <4> QED BY <1>5, <4>1, UnderThem DEF Visits
    <3>2. PilesIn(w, r.w, b, shut) = {}
      BY <1>5, <2>1, <3>1 DEF ToVisit, Under
    <3>3. G!GoldIn(r.w, b, shut) = 0
      BY <1>6, <3>2, NoCoins
    <3> QED BY <1>5, <1>6, <3>3
  <2> QED BY <2>1
<1>8. G!Min({want, G!GoldIn(w, b, shut)}) = r.got
  <2> DEFINE m == G!GoldIn(w, b, shut)
             T == {want, m}
  <2>1. m \in Nat /\ r.got \in Nat /\ r.got <= want /\ r.got <= m
    BY <1>5, <1>6
  <2> HIDE DEF m
  <2>2. r.got \in T /\ \A y \in T : r.got <= y
    BY <1>7, <2>1 DEF m
  <2>3. \A y \in T : (\A z \in T : y <= z) => y = r.got
    BY <2>1, <2>2
  <2>4. G!Min(T) = CHOOSE y \in T : \A z \in T : y <= z
    BY DEF G!Min
  <2> QED BY <2>2, <2>3, <2>4 DEF m
<1> QED BY <1>5, <1>8

(* In whatever state a charge comes, it takes what was asked, or all there *)
(* is if that is less, and only that, for any piles, however many bags are *)
(* in one another (ConsumeResources).                                      *)
THEOREM ChargesAreFull == MCSpec => []ChargedInFull
<1>1. Orderly(s, taken) => G!ChargedInFull
  <2> SUFFICES ASSUME Orderly(s, taken), NEW b \in G!Worn, NEW n \in 1..Gold, NEW shut \in SUBSET Bag,
                      NEW r, r = G!ConsumeResources(s, b, n, shut)
               PROVE  /\ r.got = G!Min({n, G!GoldIn(s, b, shut)})
                      /\ G!GoldIn(r.w, b, shut) = G!GoldIn(s, b, shut) - r.got
    BY DEF G!ChargedInFull
  <2>1. Tree(s) /\ Fits(s, {}, Gold - taken)
    BY OrderlyIs
  <2>2. Gold - taken \in 0..Gold /\ n \in Nat
    BY Goods DEF Orderly, Balanced
  <2> QED BY <2>1, <2>2, ConsumesInFull
<1>2. (part = "goods" => Orderly(s, taken)) => ChargedInFull
  BY <1>1 DEF When, ChargedInFull
<1> QED BY <1>2, GoodsAreOrderly, PTL

-----------------------------------------------------------------------------
(* What is in a box, at any depth, and what it weighs there.               *)
Below(w, b) == {x \in G!Thing \ {b} : b \in G!Above(w, x)}
Load(w) == [x \in G!Thing |-> IF x \in Stack THEN G!GetWeight(w, x) ELSE Own]

LEMMA LoadIs ==
  ASSUME NEW w \in G!World
  PROVE  /\ \A x \in G!Thing : Load(w)[x] \in Nat
         /\ \A x \in Stack : Load(w)[x] = G!GetWeight(w, x)
         /\ \A x \in Bag : Load(w)[x] = Own
         /\ IsFiniteSet(G!Thing)
         /\ \A v : v.amount = w.amount => Load(v) = Load(w)
<1>1. \A x \in Stack : G!GetWeight(w, x) \in Nat
  BY WeightIsNumber
<1>2. Own \in Nat /\ IsFiniteSet(G!Thing)
  BY Goods, FS_Union DEF G!Thing
<1>3. /\ \A x \in G!Thing : Load(w)[x] \in Nat
      /\ \A x \in Stack : Load(w)[x] = G!GetWeight(w, x)
      /\ \A x \in Bag : Load(w)[x] = Own
  BY <1>1, <1>2, Apartness DEF Load
<1>4. ASSUME NEW v, v.amount = w.amount
      PROVE  Load(v) = Load(w)
  <2>1. \A x \in Stack : G!GetWeight(v, x) = G!GetWeight(w, x)
    BY <1>4 DEF G!GetWeight
  <2> QED BY <2>1 DEF Load
<1> QED BY <1>2, <1>3, <1>4

LEMMA ContentsIs ==
  ASSUME NEW w \in G!World, NEW b
  PROVE  G!Contents(w, b) = Coins(Load(w), Below(w, b))
<1> DEFINE f == [x \in Below(w, b) |-> IF x \in Stack THEN G!GetWeight(w, x) ELSE Own]
<1>1. G!Contents(w, b) = Coins(f, Below(w, b))
  <2>1. G!Contents(w, b) = G!SumFunction(f)
    BY DEF G!Contents, Below
  <2>2. DOMAIN f = Below(w, b)
    OBVIOUS
  <2> HIDE DEF f
  <2> QED BY <2>1, <2>2 DEF G!SumFunction, Coins
<1>2. Below(w, b) \subseteq G!Thing
  BY DEF Below
<1>3. IsFiniteSet(Below(w, b))
  BY <1>2, LoadIs, FS_Subset
<1>4. \A x \in Below(w, b) : Load(w)[x] \in Nat /\ Load(w)[x] = f[x]
  BY <1>2, LoadIs DEF Load
<1> HIDE DEF f
<1>5. Coins(Load(w), Below(w, b)) = Coins(f, Below(w, b))
  BY <1>3, <1>4, SumAlike
<1> QED BY <1>1, <1>5

(* How far a change of weight is carried.                                  *)
LEMMA CarriersAre ==
  ASSUME NEW w \in G!World, NEW b \in Stop \ {Null}
  PROVE  /\ b = Body => G!Carriers(w, b) = {Body}
         /\ b # Body /\ G!Parent(w, b) = Null => G!Carriers(w, b) = {b}
<1> DEFINE Counts == {y \in Stop : ~G!IsNonCountable(w, y)}
           Run(f) == f = [z \in G!Thing \cup G!Worn \cup {Body, Null} |->
                            IF z = Null THEN {}
                            ELSE {z} \cup (IF z # Body /\ ~G!IsNonCountable(w, z) THEN f[G!Parent(w, z)] ELSE {})]
           up == CHOOSE f : Run(f)
<1>1. G!Carriers(w, b) = up[b]
  BY DEF G!Carriers, G!Upward
<1>2. \E f : Run(f)
  <2>1. PICK f : Climbs(f, w, Counts)
    BY ClimbExists
  <2>2. \A z \in Stop : z \in Counts <=> ~G!IsNonCountable(w, z)
    OBVIOUS
  <2>3. Stop = G!Thing \cup G!Worn \cup {Body, Null}
    BY DEF Stop, Node
  <2> HIDE DEF Counts
  <2>4. Run(f)
    BY <2>1, <2>2, <2>3 DEF Climbs
  <2> QED BY <2>4
<1> HIDE DEF up
<1>3. Run(up)
  <2> HIDE DEF Run
  <2> QED BY <1>2 DEF up
<1>4. up[Null] = {} /\ up[Body] = {Body}
  BY <1>3, Apartness
<1>5. b # Body => up[b] = {b} \cup (IF ~G!IsNonCountable(w, b) THEN up[G!Parent(w, b)] ELSE {})
  BY <1>3, Apartness DEF Stop, Node
<1> HIDE DEF Run
<1> QED BY <1>1, <1>4, <1>5

LEMMA ChangedAre ==
  ASSUME NEW w \in G!World, NEW b, NEW n \in Nat, NEW e \in G!Box \cup {Body}
  PROVE  /\ e \notin G!Carriers(w, b) => /\ G!AddStoredWeight(w, b, n).stored[e] = w.stored[e]
                                         /\ G!SubtractStoredWeight(w, b, n).stored[e] = w.stored[e]
         /\ e \in G!Carriers(w, b) => G!AddStoredWeight(w, b, n).stored[e] = w.stored[e] + n
<1> DEFINE over == G!Carriers(w, b)
<1>1. G!AddStoredWeight(w, b, n).stored = [c \in G!Box \cup {Body} |->
          IF c \in over THEN w.stored[c] + n ELSE w.stored[c]]
  BY DEF G!AddStoredWeight, G!Heavier, G!World
<1>2. G!SubtractStoredWeight(w, b, n).stored = [c \in G!Box \cup {Body} |->
          IF c \in over THEN IF w.stored[c] < n THEN 0 ELSE w.stored[c] - n ELSE w.stored[c]]
  BY DEF G!SubtractStoredWeight, G!Lighter, G!World
<1> HIDE DEF over
<1> QED BY <1>1, <1>2 DEF over

(* A box that is out of its place lies in nothing, and nothing above it is *)
(* to be told of its weight.                                               *)
Free(w, b) ==
  /\ b \in G!Box /\ b # w.hand /\ b \notin w.worn
  /\ \A e \in G!Box : b \notin Kept(w, e)

LEMMA FreeIs ==
  ASSUME NEW w \in G!World, NEW b, Free(w, b)
  PROVE  /\ G!Parent(w, b) = Null /\ G!Above(w, b) = {b} /\ G!Carriers(w, b) = {b}
         /\ b \in Node /\ b \in Stop /\ b # Null /\ b # Body
<1>1. b \in Node /\ b \in Stop /\ b # Null /\ b # Body /\ b \in G!Box
  BY Apartness DEF Free, Node, Stop
<1>2. G!Parent(w, b) \notin G!Box
  BY ParentIs DEF Free
<1>3. G!Parent(w, b) = Null
  <2>1. \A e \in G!Box : ~G!Contains(w.cont[e], b)
    BY ContainsIs DEF Free
  <2>2. {e \in G!Box : G!Contains(w.cont[e], b)} = {}
    BY <2>1
  <2> QED BY <2>2 DEF Free, G!Parent
<1> QED BY <1>1, <1>2, <1>3, AboveIs, CarriersAre

(* Taking out and putting in, as far as the caches of boxes are concerned: *)
(* only that of the free box a thing lies in changes.                      *)
LEMMA HideStored ==
  ASSUME NEW w \in G!World, NEW x \in G!Thing, NEW v, v = G!Hide(w, x),
         \/ x = w.hand
         \/ \E b : Free(w, b) /\ x \in Kept(w, b) /\ Apart(w),
         NEW e \in G!Box, x \notin Kept(w, e)
  PROVE  v.stored[e] = w.stored[e]
<1> DEFINE p == G!Parent(w, x)
           light == G!Lightened(w, x, p)
           out == G!Unlinked(light, x, p)
<1>1. x \in Node /\ x # Body /\ x # Null /\ x \notin G!Worn /\ e # Body
  BY Apartness DEF Node
<1>2. \/ p = Body /\ G!Above(w, x) = {x} /\ G!Carriers(w, p) = {Body}
      \/ \E b : p = b /\ b # e /\ Free(w, b) /\ G!Above(w, x) = {x, b} /\ G!Carriers(w, p) = {b}
  <2>1. CASE x = w.hand
    <3>1. p = Body /\ Body \in Stop \ {Null} /\ Body \notin G!Box
      BY <2>1, ParentIs, Apartness DEF Stop
    <3> HIDE DEF p
    <3>2. G!Carriers(w, p) = {Body}
      BY <3>1, CarriersAre
    <3> QED BY <1>1, <3>1, <3>2, AboveIs DEF p
  <2>2. CASE \E b : Free(w, b) /\ x \in Kept(w, b) /\ Apart(w)
    <3>1. PICK b : Free(w, b) /\ x \in Kept(w, b) /\ Apart(w)
      BY <2>2
    <3>2. b \in G!Box /\ p = b /\ b # e
      BY <3>1, ParentIs DEF Free
    <3>3. G!Above(w, b) = {b} /\ G!Carriers(w, b) = {b}
      BY <3>1, FreeIs
    <3> HIDE DEF p
    <3>4. G!Above(w, x) = {x, b}
      BY <1>1, <3>2, <3>3, AboveIs DEF p
    <3> QED BY <3>1, <3>2, <3>3, <3>4
  <2> QED BY <2>1, <2>2
<1>3. ~G!InBank(w, x)
  BY <1>1, <1>2, Apartness DEF G!InBank, Free
<1>4. e \notin G!Carriers(w, p)
  BY <1>1, <1>2
<1>5. light.stored[e] = w.stored[e] /\ SamePlaces(w, light)
  <2>1. G!GetWeight(w, x) \in Nat
    BY WeightIsNumber, Apartness
  <2>2. SamePlaces(w, w)
    BY DEF SamePlaces
  <2> HIDE DEF p
  <2> QED BY <1>4, <2>1, <2>2, ChangedAre, AddingIsLocal DEF G!Lightened
<1>6. v = out
  BY <1>3 DEF G!Hide, G!HideFrom, G!RecalcIf
<1>7. out.stored = light.stored
  <2>1. light \in G!World
    BY <1>5 DEF SamePlaces
  <2> HIDE DEF light, p
  <2> QED BY <2>1 DEF G!Unlinked, G!World
<1> HIDE DEF out, light
<1> QED BY <1>5, <1>6, <1>7

LEMMA HideWornStored ==
  ASSUME NEW w \in G!World, NEW x \in G!Worn, NEW v, v = G!Hide(w, x), NEW e \in G!Box
  PROVE  v.stored[e] = w.stored[e]
<1> DEFINE p == G!Parent(w, x)
           light == G!Lightened(w, x, p)
           out == G!Unlinked(light, x, p)
<1>1. x \notin G!Thing /\ x # w.hand /\ x \notin Bag /\ e # Body
  BY Apartness DEF G!World
<1>2. p \in {Body, Null}
  BY <1>1, ParentIs, KeptAreThings
<1>3. p # Null => e \notin G!Carriers(w, p)
  <2>1. Body \in Stop \ {Null}
    BY Apartness DEF Stop
  <2> HIDE DEF p
  <2> QED BY <1>1, <1>2, <2>1, CarriersAre
<1>4. light.stored[e] = w.stored[e] /\ SamePlaces(w, light)
  <2>1. G!GetWeight(w, x) \in Nat
    BY WeightIsNumber, Apartness
  <2>2. SamePlaces(w, w)
    BY DEF SamePlaces
  <2> HIDE DEF p
  <2> QED BY <1>3, <2>1, <2>2, ChangedAre, AddingIsLocal DEF G!Lightened
<1>5. v = out
  BY <1>1 DEF G!Hide, G!HideFrom, G!RecalcIf
<1>6. out.stored = light.stored
  <2>1. light \in G!World
    BY <1>4 DEF SamePlaces
  <2> HIDE DEF light, p
  <2> QED BY <2>1 DEF G!Unlinked, G!World
<1> HIDE DEF out, light
<1> QED BY <1>4, <1>5, <1>6

LEMMA EquipStored ==
  ASSUME NEW w \in G!World, NEW x \in G!Thing \cup G!Worn, NEW v, v = G!EquipOnMobile(w, x)
  PROVE  /\ \A e \in G!Box : v.stored[e] = w.stored[e]
         /\ v.stored[Body] = w.stored[Body] + (IF x = Bank THEN 0 ELSE G!GetWeight(w, x))
<1> DEFINE u == IF x \in G!Worn THEN [w EXCEPT !.worn = @ \cup {x}] ELSE [w EXCEPT !.hand = x]
<1>1. u \in G!World /\ u.amount = w.amount /\ u.stored = w.stored
      /\ (x \in G!Worn => x \in u.worn) /\ (x \notin G!Worn => u.hand = x)
  <2>1. CASE x \in G!Worn
    BY <2>1 DEF G!World
  <2>2. CASE x \notin G!Worn
    BY <2>2 DEF G!World
  <2> QED BY <2>1, <2>2
<1>2. v = IF G!IsNonCountable(u, x) THEN u ELSE G!AddStoredWeight(u, Body, G!GetWeight(u, x))
  BY DEF G!EquipOnMobile, G!Weighing
<1> HIDE DEF u
<1>3. G!GetWeight(u, x) = G!GetWeight(w, x) /\ G!GetWeight(u, x) \in Nat
  BY <1>1, WeightIsNumber, Apartness DEF G!GetWeight
<1>4. G!Carriers(u, Body) = {Body} /\ Body \notin G!Box
  <2>1. Body \in Stop \ {Null} /\ Body \notin G!Box
    BY Apartness DEF Stop
  <2> QED BY <1>1, <2>1, CarriersAre
<1>5. G!IsNonCountable(u, x) <=> x = Bank
  <2>1. CASE x \in G!Worn
    BY <1>1, <2>1, Apartness DEF G!IsNonCountable
  <2>2. CASE x \notin G!Worn
    <3>1. G!Parent(u, x) = Body /\ x \in Node /\ x # Bank
      BY <1>1, <2>2, ParentIs, Apartness DEF Node
    <3>2. G!Above(u, x) = {x}
      BY <1>1, <1>4, <3>1, AboveIs
    <3> QED BY <3>1, <3>2 DEF G!IsNonCountable, G!InBank
  <2> QED BY <2>1, <2>2
<1>6. u.stored[Body] \in Nat
  BY <1>1 DEF G!World
<1> QED BY <1>1, <1>2, <1>3, <1>4, <1>5, <1>6, ChangedAre

LEMMA LinkStored ==
  ASSUME NEW w \in G!World, NEW x \in G!Thing, NEW b, Free(w, b), x # b, x # w.hand,
         \A d \in G!Box : x \notin Kept(w, d), NEW v, v = G!Link(w, x, b)
  PROVE  /\ v.stored[b] = w.stored[b] + G!GetWeight(w, x)
         /\ \A e \in G!Box : e # b => v.stored[e] = w.stored[e]
<1> DEFINE u == [w EXCEPT !.cont[b] = <<x>> \o @]
<1>1. /\ u \in G!World /\ u.amount = w.amount /\ u.hand = w.hand /\ u.worn = w.worn
      /\ u.stored = w.stored
      /\ u.cont = [w.cont EXCEPT ![b] = <<x>> \o w.cont[b]]
  <2>1. w.cont \in [G!Box -> Seq(G!Thing)] /\ b \in G!Box
    BY DEF G!World, Free
  <2>2. <<x>> \o w.cont[b] \in Seq(G!Thing)
    BY <2>1, PrependedTo
  <2>3. [w.cont EXCEPT ![b] = <<x>> \o w.cont[b]] \in [G!Box -> Seq(G!Thing)]
    BY <2>1, <2>2
  <2>4. u = [w EXCEPT !.cont = [w.cont EXCEPT ![b] = <<x>> \o w.cont[b]]]
    BY DEF G!World
  <2> HIDE DEF u
  <2> QED BY <2>3, <2>4 DEF G!World
<1>2. v = [G!Weighing(G!Banked(u, x), x, b) EXCEPT !.last[x] = Null]
  BY DEF G!Link
<1> HIDE DEF u
<1>3. \A d \in G!Box : Kept(u, d) = IF d = b THEN {x} \cup Kept(w, b) ELSE Kept(w, d)
  <2>1. w.cont \in [G!Box -> Seq(G!Thing)] /\ b \in G!Box
    BY DEF G!World, Free
  <2>2. Elems(<<x>> \o w.cont[b]) = {x} \cup Elems(w.cont[b])
    BY <2>1, PrependedTo
  <2> QED BY <1>1, <2>1, <2>2 DEF Kept
<1>4. Free(u, b)
  BY <1>1, <1>3 DEF Free
<1>5. G!Above(u, b) = {b} /\ G!Carriers(u, b) = {b} /\ b \in G!Box
  BY <1>1, <1>4, FreeIs DEF Free
<1>6. ~G!InBank(u, x) /\ ~G!IsNonCountable(u, x) /\ x \notin G!Worn
  <2>1. x \in Node /\ x \notin G!Worn /\ Bank \in G!Worn
    BY Apartness DEF Node
  <2>2. G!Parent(u, x) \in G!Box => G!Parent(u, x) = b
    BY <1>1, <1>3, ParentIs
  <2>3. G!Above(u, x) \subseteq {x, b}
    BY <1>1, <1>5, <2>1, <2>2, AboveIs
  <2>4. b \notin u.worn
    BY <1>4 DEF Free
  <2> QED BY <2>1, <2>3, <2>4 DEF G!InBank, G!IsNonCountable
<1>7. v = [G!AddStoredWeight(u, b, G!GetWeight(u, x)) EXCEPT !.last[x] = Null]
  BY <1>2, <1>6 DEF G!Banked, G!RecalcIf, G!Weighing
<1>8. G!GetWeight(u, x) = G!GetWeight(w, x) /\ G!GetWeight(u, x) \in Nat
  BY <1>1, WeightIsNumber, Apartness DEF G!GetWeight
<1> DEFINE a == G!AddStoredWeight(u, b, G!GetWeight(u, x))
<1>9. v.stored = a.stored
  <2>1. a \in G!World
    BY <1>1, <1>8, AddingIsLocal DEF SamePlaces
  <2> HIDE DEF a
  <2> QED BY <1>7, <2>1 DEF a, G!World
<1> QED BY <1>1, <1>5, <1>8, <1>9, ChangedAre

-----------------------------------------------------------------------------
(* What it takes to rebuild the caches of a box.                           *)

(* Whatever leaves the free box b, what it leaves behind and what it takes *)
(* along stay as they were.                                                *)
LEMMA AboveApartFrom ==
  ASSUME NEW w, Tree(w), NEW u \in G!World, Apart(u), NEW b,
         \A e \in G!Box : IF e = b THEN Kept(u, e) \subseteq Kept(w, e) ELSE Kept(u, e) = Kept(w, e),
         \A e \in G!Box : b \notin Kept(w, e)
  PROVE  /\ \A y \in Node : \A e \in Node : e # b => (e \in G!Above(u, y) <=> e \in G!Above(w, y))
         /\ \A e \in G!Box : e # b => Below(u, e) = Below(w, e)
<1>0. w \in G!World /\ Apart(w) /\ Rooted(w, {}) /\ \A e \in G!Box : e \in Node
  BY Apartness DEF Tree, Node
<1> DEFINE S == {y \in Node : \E e \in Node : e # b /\ ~(e \in G!Above(u, y) <=> e \in G!Above(w, y))}
<1>1. S = {}
  <2>1. SUFFICES ASSUME S # {} PROVE FALSE
    OBVIOUS
  <2>2. PICK y \in S : \A d \in S \cap G!Box : y \notin Kept(w, d)
    <3>1. S \in SUBSET Node
      OBVIOUS
    <3> HIDE DEF S
    <3> QED BY <1>0, <2>1, <3>1, OutermostIs
  <2>3. PICK e \in Node : e # b /\ ~(e \in G!Above(u, y) <=> e \in G!Above(w, y))
    OBVIOUS
  <2>4. y \in Node
    OBVIOUS
  <2>5. ASSUME NEW d \in G!Box, y \in Kept(w, d), d # b
        PROVE  FALSE
    <3>1. G!Above(w, y) = {y} \cup G!Above(w, d)
      BY <1>0, <2>4, <2>5, KeptAbove
    <3>2. G!Above(u, y) = {y} \cup G!Above(u, d)
      BY <2>4, <2>5, KeptAbove
    <3>3. e \in G!Above(u, d) <=> e \in G!Above(w, d)
      BY <1>0, <2>2, <2>3, <2>5
    <3> QED BY <2>3, <3>1, <3>2, <3>3
  <2>6. ASSUME b \in G!Box, y \in Kept(w, b)
        PROVE  FALSE
    <3>1. G!Above(w, y) = {y} \cup G!Above(w, b) /\ G!Above(w, b) = {b}
      BY <1>0, <2>4, <2>6, KeptAbove
    <3>2. G!Above(u, b) = {b}
      <4>1. \A d \in G!Box : b \notin Kept(u, d)
        OBVIOUS
      <4> QED BY <1>0, <2>6, <4>1, KeptAbove
    <3>3. y \in Kept(u, b) => G!Above(u, y) = {y} \cup G!Above(u, b)
      BY <2>4, <2>6, KeptAbove
    <3>4. y \notin Kept(u, b) => G!Above(u, y) = {y}
      <4>1. \A d \in G!Box : d # b => y \notin Kept(u, d)
        BY <1>0, <2>6 DEF Apart
      <4> QED BY <2>4, <4>1, KeptAbove
    <3> QED BY <2>3, <3>1, <3>2, <3>3, <3>4
  <2>7. CASE \A d \in G!Box : y \notin Kept(w, d)
    <3>1. \A d \in G!Box : y \notin Kept(u, d)
      BY <2>7
    <3>2. G!Above(w, y) = {y} /\ G!Above(u, y) = {y}
      BY <1>0, <2>4, <2>7, <3>1, KeptAbove
    <3> QED BY <2>3, <3>2
  <2> QED BY <2>5, <2>6, <2>7
<1>2. \A y \in Node : \A e \in Node : e # b => (e \in G!Above(u, y) <=> e \in G!Above(w, y))
  BY <1>1
<1>3. G!Thing \subseteq Node
  BY DEF Node
<1> QED BY <1>0, <1>2, <1>3 DEF Below

(* The box is rebuilt when the caches of all boxes in it, its own          *)
(* included, are the weight of what is in them, and nothing else changed.  *)
Reweighed(w, b, v) ==
  /\ v.amount = w.amount /\ v.worn = w.worn
  /\ \A e \in G!Box : Kept(v, e) = Kept(w, e)
  /\ \A e \in G!Box :
        v.stored[e] = IF b \in G!Above(w, e) THEN Coins(Load(w), Below(w, e)) ELSE w.stored[e]

(* The box is out of its place, like the things of O.                      *)
Ready(w, O, c, b) ==
  Fits(w, O, c) /\ Rooted(w, O) /\ b \in G!Box /\ b \in O \cup (G!Worn \ w.worn)

(* What rebuilds a box with fewer than d bags in it.                       *)
Weighs(g, d) ==
  \A w \in G!World : \A b \in G!Box : \A O, c :
     Ready(w, O, c, b) /\ Cardinality(Bag \cap Below(w, b)) < d => Reweighed(w, b, g[w][b])

LEMMA ReadyIs ==
  ASSUME NEW w, NEW O, NEW c, NEW b, Ready(w, O, c, b)
  PROVE  /\ w \in G!World /\ Tree(w) /\ Sound(w, O) /\ Free(w, b) /\ G!Above(w, b) = {b}
         /\ b \in Bag => b \in w.live
<1>1. w \in G!World /\ Apart(w) /\ Sound(w, O) /\ O \subseteq w.live /\ Lying(w) = w.live \ O /\ b \in G!Box
  BY DEF Ready, Fits, Sound
<1>2. Rooted(w, {})
  <2>1. Looser(w, O, w, {})
    BY <1>1, LooserItself, LooserForFewer
  <2> QED BY <2>1, LooserIsRooted DEF Ready
<1>3. Free(w, b) /\ (b \in Bag => b \in w.live)
  <2>1. w.worn \subseteq G!Worn /\ w.live \subseteq G!Thing /\ w.hand \in G!Thing \cup {Null}
    BY <1>1, WorldFields
  <2>2. \A e \in G!Box : Kept(w, e) \subseteq G!Thing
    BY <1>1, KeptAreThings
  <2>3. CASE b \in O
    <3>1. b \in w.live /\ b \in G!Thing /\ b \notin Lying(w)
      BY <1>1, <2>1, <2>3
    <3> QED BY <1>1, <2>1, <3>1, Apartness DEF Free, Lying
  <2>4. CASE b \notin O
    <3>1. b \in G!Worn \ w.worn
      BY <2>4 DEF Ready
    <3> QED BY <1>1, <2>1, <2>2, <3>1, Apartness DEF Free
  <2> QED BY <2>3, <2>4
<1> QED BY <1>1, <1>2, <1>3, FreeIs DEF Tree

(* A bag in the box has fewer bags in it than the box.                     *)
LEMMA DeeperIsLess ==
  ASSUME NEW w, Tree(w), NEW b \in G!Box, G!Above(w, b) = {b}, NEW x \in Bag, x \in Kept(w, b),
         NEW d \in Nat, Cardinality(Bag \cap Below(w, b)) < d + 1
  PROVE  Cardinality(Bag \cap Below(w, x)) < d
<1>1. x \in G!Thing /\ x \in Node /\ w \in G!World /\ Apart(w) /\ G!Thing \subseteq Node
  BY Apartness DEF Tree, Node
<1>2. G!Above(w, x) = {x, b} /\ x # b
  <2>1. x \notin G!Above(w, b)
    BY NotInItself
  <2> QED BY <1>1, <2>1, KeptAbove
<1>3. Bag \cap Below(w, x) \subseteq (Bag \cap Below(w, b)) \ {x} /\ x \in Bag \cap Below(w, b)
  <2>1. \A y \in Below(w, x) : b \in G!Above(w, y)
    BY <1>1, <1>2, AboveIsClosed DEF Below
  <2>2. b \notin Below(w, x)
    BY <1>2 DEF Below
  <2> QED BY <1>1, <1>2, <2>1, <2>2 DEF Below
<1> DEFINE B == Bag \cap Below(w, b)
           D == Bag \cap Below(w, x)
<1>4. IsFiniteSet(B) /\ D \in SUBSET (B \ {x}) /\ x \in B
  <2>1. IsFiniteSet(Bag) /\ B \in SUBSET Bag
    BY Goods
  <2> HIDE DEF B
  <2>2. IsFiniteSet(B)
    BY <2>1, FS_Subset
  <2> QED BY <1>3, <2>2 DEF B
<1> HIDE DEF B, D
<1>5. IsFiniteSet(B \ {x}) /\ Cardinality(B \ {x}) = Cardinality(B) - 1
  BY <1>4, FS_RemoveElement
<1>6. Cardinality(D) <= Cardinality(B \ {x}) /\ IsFiniteSet(D)
  BY <1>4, <1>5, FS_Subset
<1>7. Cardinality(D) \in Nat /\ Cardinality(B) \in Nat /\ Cardinality(B) < d + 1
  BY <1>4, <1>6, FS_CardinalityType DEF B
<1> QED BY <1>5, <1>6, <1>7 DEF D

(* The things of X have left the box b, and the caches in them are right.  *)
Stripped(w, b, X, m) ==
  /\ m.amount = w.amount /\ m.worn = w.worn
  /\ \A z \in X : m.last[z] = b
  /\ \A e \in G!Box : Kept(m, e) = IF e = b THEN Kept(w, b) \ X ELSE Kept(w, e)
  /\ \A e \in G!Box \ {b} :
        m.stored[e] = IF \E z \in X : z \in G!Above(w, e) THEN Coins(Load(w), Below(w, e)) ELSE w.stored[e]

LEMMA StrippedOfOne ==
  ASSUME NEW w, NEW O, NEW c, NEW b, Ready(w, O, c, b), NEW d \in Nat,
         Cardinality(Bag \cap Below(w, b)) < d + 1,
         NEW g, Tidy(g), Loosens(g), Weighs(g, d),
         NEW X \in SUBSET Kept(w, b), NEW m \in Out(w, O, c, X), Looser(w, O, m, O \cup X),
         Stripped(w, b, X, m), NEW x \in Kept(w, b) \ X, NEW r, r = G!TakenOut(m, x, g)
  PROVE  /\ r \in Out(w, O, c, X \cup {x}) /\ Looser(w, O, r, O \cup (X \cup {x}))
         /\ Stripped(w, b, X \cup {x}, r)
<1>1. /\ w \in G!World /\ Tree(w) /\ Apart(w) /\ Sound(w, O) /\ Free(w, b) /\ G!Above(w, b) = {b} /\ b \in G!Box
      /\ Rooted(w, O) /\ \A e \in G!Box : b \notin Kept(w, e)
  BY ReadyIs DEF Free, Sound, Ready
<1>2. x \in w.live /\ x \notin O \cup X /\ x # w.hand /\ x \in G!Thing /\ x # b /\ x \in Node
  <2>1. x \in G!Thing /\ x \in Lying(w) /\ x # w.hand
    BY <1>1, KeptAreThings DEF Lying, Apart
  <2>2. x # b
    BY <1>1
  <2> QED BY <1>1, <2>1, <2>2 DEF Sound, Node
<1>3. r \in Out(w, O, c, X \cup {x})
  BY <1>1, <1>2, TakenOutStays
<1>4. /\ m \in G!World /\ Fits(m, O \cup X, c) /\ m.live = w.live /\ m.hand = w.hand /\ Apart(m)
      /\ Rooted(m, O \cup X)
  BY <1>1, LooserIsRooted DEF Out, Fits, Sound
<1> DEFINE T == O \cup X
           U == O \cup (X \cup {x})
<1>5. U = T \cup {x}
  OBVIOUS
<1>6. Looser(w, O, r, U)
  <2> HIDE DEF U, T
  <2>1. Looser(m, T, r, T \cup {x})
    BY <1>2, <1>4, TakenOutLoosens
  <2>2. Looser(w, O, m, T)
    BY DEF T
  <2> QED BY <1>5, <2>1, <2>2, LooserStill
<1> DEFINE u == G!Hide(m, x)
<1>7. u = G!Hide(m, x)
  OBVIOUS
<1> HIDE DEF u
<1>8. /\ u \in G!World /\ u.live = w.live /\ u.amount = w.amount /\ u.worn = w.worn
      /\ \A z \in X : u.last[z] = b
      /\ u.last[x] = b
      /\ \A e \in G!Box : Kept(u, e) = Kept(m, e) \ {x}
  <2>1. /\ u \in G!World /\ u.live = m.live /\ u.amount = m.amount /\ u.worn = m.worn
        /\ \A z \in G!Thing : z # x => u.last[z] = m.last[z]
        /\ \A e \in G!Box : Kept(u, e) = Kept(m, e) \ {x} /\ (x \in Kept(m, e) => u.last[x] = e)
    BY <1>2, <1>4, <1>7, HideIs
  <2>2. x \in Kept(m, b) /\ X \subseteq G!Thing
    BY <1>1, KeptAreThings DEF Stripped
  <2> QED BY <1>1, <1>2, <1>4, <2>1, <2>2 DEF Stripped
<1>9. \A e \in G!Box : Kept(u, e) = IF e = b THEN Kept(w, b) \ (X \cup {x}) ELSE Kept(w, e)
  <2>1. \A e \in G!Box : e # b => x \notin Kept(w, e)
    BY <1>1 DEF Apart
  <2>2. \A e \in G!Box : Kept(m, e) = IF e = b THEN Kept(w, b) \ X ELSE Kept(w, e)
    BY DEF Stripped
  <2> SUFFICES ASSUME NEW e \in G!Box
               PROVE  Kept(u, e) = IF e = b THEN Kept(w, b) \ (X \cup {x}) ELSE Kept(w, e)
    OBVIOUS
  <2>3. Kept(u, e) = Kept(m, e) \ {x}
    BY <1>8
  <2>4. CASE e = b
    BY <2>2, <2>3, <2>4
  <2>5. CASE e # b
    BY <2>1, <2>2, <2>3, <2>5
  <2> QED BY <2>4, <2>5
<1>10. Fits(u, U, c) /\ Apart(u) /\ Rooted(u, U)
  <2> HIDE DEF U, T
  <2>1. x \in m.live /\ Fits(m, T, c) /\ Rooted(m, T)
    BY <1>2, <1>4 DEF T
  <2>2. Fits(u, T \cup {x}, c)
    BY <1>7, <2>1, OutFits
  <2>3. Looser(m, T, u, T \cup {x})
    BY <1>2, <1>4, <1>7, HideLoosens
  <2> QED BY <1>5, <2>1, <2>2, <2>3, LooserIsRooted DEF Fits, Sound
<1>11. \A e \in G!Box \ {b} : u.stored[e] = m.stored[e]
  <2>1. Free(m, b) /\ x \in Kept(m, b)
    BY <1>1, <1>4 DEF Stripped, Free
  <2>2. \A e \in G!Box \ {b} : x \notin Kept(m, e)
    BY <1>1, <1>4, <2>1 DEF Apart
  <2> QED BY <1>2, <1>4, <1>7, <2>1, <2>2, HideStored
<1>12. /\ \A y \in Node : \A e \in Node : e # b => (e \in G!Above(u, y) <=> e \in G!Above(w, y))
       /\ \A e \in G!Box : e # b => Below(u, e) = Below(w, e)
  <2>1. \A e \in G!Box : IF e = b THEN Kept(u, e) \subseteq Kept(w, e) ELSE Kept(u, e) = Kept(w, e)
    BY <1>9
  <2> QED BY <1>1, <1>8, <1>10, <2>1, AboveApartFrom
<1>13. CASE x \in Stack
  <2>1. r = u
    BY <1>7, <1>13, Apartness DEF G!TakenOut
  <2>2. \A e \in G!Box : x \notin G!Above(w, e)
    <3>1. \A e \in G!Box : e \in Node /\ e # x
      BY <1>13, Apartness DEF Node
    <3>2. x \notin G!Box
      BY <1>13, Apartness
    <3> QED BY <1>1, <3>1, <3>2, OneOfThem
  <2>3. \A e \in G!Box \ {b} :
           u.stored[e] = IF \E z \in X \cup {x} : z \in G!Above(w, e) THEN Coins(Load(w), Below(w, e)) ELSE w.stored[e]
    BY <1>11, <2>2 DEF Stripped
  <2>4. Stripped(w, b, X \cup {x}, u)
    BY <1>8, <1>9, <2>3 DEF Stripped
  <2> QED BY <1>3, <1>6, <2>1, <2>4
<1>14. CASE x \in Bag
  <2>1. x \in G!Box /\ r = g[u][x]
    BY <1>7, <1>14, Apartness DEF G!TakenOut
  <2>2. Below(u, x) = Below(w, x)
    BY <1>2, <1>12, <2>1
  <2>3. Cardinality(Bag \cap Below(u, x)) < d
    BY <1>1, <1>14, <2>2, DeeperIsLess
  <2>4. Ready(u, U, c, x)
    BY <1>10, <2>1 DEF Ready
  <2> HIDE DEF U
  <2>5. Reweighed(u, x, r)
    BY <1>8, <2>1, <2>3, <2>4 DEF Weighs
  <2>6. \A z \in U : r.last[z] = u.last[z]
    BY <1>8, <1>10, <2>1 DEF Tidy, Out
  <2>7. \A z \in X \cup {x} : r.last[z] = b
    BY <1>8, <2>6 DEF U
  <2>8. Load(u) = Load(w)
    BY <1>1, <1>8, LoadIs
  <2>9. \A e \in G!Box : Kept(r, e) = IF e = b THEN Kept(w, b) \ (X \cup {x}) ELSE Kept(w, e)
    BY <1>9, <2>5 DEF Reweighed
  <2>10. ASSUME NEW e \in G!Box \ {b}
         PROVE  r.stored[e] = IF \E z \in X \cup {x} : z \in G!Above(w, e)
                              THEN Coins(Load(w), Below(w, e)) ELSE w.stored[e]
    <3>1. e \in Node /\ (x \in G!Above(u, e) <=> x \in G!Above(w, e)) /\ Below(u, e) = Below(w, e)
      BY <1>2, <1>12, Apartness DEF Node
    <3>2. CASE x \in G!Above(w, e)
      BY <2>5, <2>8, <3>1, <3>2 DEF Reweighed
    <3>3. CASE x \notin G!Above(w, e)
      <4>1. r.stored[e] = m.stored[e]
        BY <1>11, <2>5, <3>1, <3>3 DEF Reweighed
      <4> QED BY <3>3, <4>1 DEF Stripped
    <3> QED BY <3>2, <3>3
  <2>11. r.amount = w.amount /\ r.worn = w.worn
    BY <1>8, <2>5 DEF Reweighed
  <2>12. Stripped(w, b, X \cup {x}, r)
    BY <2>7, <2>9, <2>10, <2>11 DEF Stripped
  <2> QED BY <1>3, <1>6, <2>12 DEF U
<1> QED BY <1>2, <1>13, <1>14, Apartness

(* All that lies in the box leaves it.                                     *)
LEMMA AllStripped ==
  ASSUME NEW w, NEW O, NEW c, NEW b, Ready(w, O, c, b), NEW d \in Nat,
         Cardinality(Bag \cap Below(w, b)) < d + 1,
         NEW g, Tidy(g), Loosens(g), Weighs(g, d),
         NEW q, q = w.cont[b], NEW o, o = G!AllOut(w, q, g)
  PROVE  o \in Out(w, O, c, Kept(w, b)) /\ Stripped(w, b, Kept(w, b), o)
<1> DEFINE Stage(X) == {m \in Out(w, O, c, X) : Looser(w, O, m, O \cup X) /\ Stripped(w, b, X, m)}
           Z == [k \in 0..Len(q) |-> Stage(First(q, k))]
<1>1. /\ w \in G!World /\ Apart(w) /\ b \in G!Box /\ Fits(w, O, c)
      /\ q \in Seq(G!Thing) /\ OneOf(q) /\ Elems(q) = Kept(w, b)
  <2>1. w \in G!World /\ Apart(w) /\ b \in G!Box /\ Fits(w, O, c)
    BY ReadyIs DEF Tree, Ready
  <2> QED BY <2>1, KeptAreThings DEF Kept, Apart
<1>2. Len(q) \in Nat /\ \A k \in 1..Len(q) : k \in 0..Len(q) /\ k - 1 \in 0..Len(q)
  BY <1>1
<1>3. /\ First(q, 0) = {} /\ First(q, Len(q)) = Kept(w, b)
      /\ \A k \in 1..Len(q) : First(q, k - 1) \subseteq Kept(w, b) /\ q[k] \in Kept(w, b)
      /\ \A k \in 1..Len(q) : q[k] \notin First(q, k - 1) /\ First(q, k) = First(q, k - 1) \cup {q[k]}
  <2>1. \A k \in 1..Len(q) : First(q, k - 1) \subseteq Elems(q) /\ q[k] \in Elems(q)
    BY <1>1 DEF First, Elems
  <2> QED BY <1>1, <2>1, FirstAndRest
<1>4. w \in Stage({})
  <2>1. O \cup {} = O
    OBVIOUS
  <2>2. w \in Out(w, O, c, {}) /\ Looser(w, O, w, O \cup {})
    BY <1>1, <2>1, LooserItself DEF Out
  <2>3. Stripped(w, b, {}, w)
    BY DEF Stripped
  <2> QED BY <2>2, <2>3
<1>5. w \in Z[0]
  <2> HIDE DEF Stage
  <2>1. w \in Stage(First(q, 0))
    BY <1>3, <1>4, Zenon
  <2> QED BY <1>2, <2>1
<1>6. ASSUME NEW k \in 1..Len(q), NEW m \in Z[k - 1]
      PROVE  G!TakenOut(m, q[k], g) \in Z[k]
  <2> DEFINE x == q[k]
             X == First(q, k - 1)
             r == G!TakenOut(m, x, g)
  <2>1. Z[k - 1] = Stage(X) /\ Z[k] = Stage(First(q, k))
    <3> HIDE DEF Stage
    <3> QED BY <1>2
  <2>2. X \in SUBSET Kept(w, b) /\ x \in Kept(w, b) \ X /\ First(q, k) = X \cup {x}
    BY <1>3
  <2>3. r = G!TakenOut(m, x, g)
    OBVIOUS
  <2> HIDE DEF Z, x, X, r
  <2>4. m \in Out(w, O, c, X) /\ Looser(w, O, m, O \cup X) /\ Stripped(w, b, X, m)
    BY <1>6, <2>1
  <2>5. r \in Stage(X \cup {x})
    BY <2>2, <2>3, <2>4, StrippedOfOne
  <2> HIDE DEF Stage
  <2> QED BY <2>1, <2>2, <2>5 DEF r, x
<1>7. Z[Len(q)] = Stage(Kept(w, b))
  <2> HIDE DEF Stage
  <2> QED BY <1>2, <1>3
<1> HIDE DEF Z
<1>8. o \in Z[Len(q)]
  <2> HIDE DEF Stage
  <2> QED BY <1>2, <1>5, <1>6, AllOutEnds
<1> QED BY <1>7, <1>8

(* What a thing weighs is the weight of all that goes where it goes.       *)
LEMMA WeightIs ==
  ASSUME NEW w, Tree(w), NEW m \in G!World, m.amount = w.amount, NEW x \in G!Thing,
         x \in Bag => m.stored[x] = Coins(Load(w), Below(w, x))
  PROVE  G!GetWeight(m, x) = Coins(Load(w), Under(w, {x}))
<1>1. w \in G!World /\ x \in Node /\ G!Thing \subseteq Node
  BY DEF Tree, Node
<1>2. x \in Under(w, {x}) /\ Under(w, {x}) \ {x} = Below(w, x)
  BY <1>1, AboveIs DEF Under, Below
<1>3. IsFiniteSet(Under(w, {x})) /\ \A y \in Under(w, {x}) : Load(w)[y] \in Nat
  BY <1>1, LoadIs, FS_Subset DEF Under
<1>4. Coins(Load(w), Under(w, {x})) = Load(w)[x] + Coins(Load(w), Below(w, x))
  <2> DEFINE A == Under(w, {x})
  <2>1. IsFiniteSet(A) /\ x \in A /\ \A y \in A : Load(w)[y] \in Nat
    BY <1>2, <1>3
  <2> HIDE DEF A
  <2>2. Coins(Load(w), A) = Load(w)[x] + Coins(Load(w), A \ {x})
    BY <2>1, SumWithout
  <2>3. A \ {x} = Below(w, x)
    BY <1>2 DEF A
  <2> QED BY <2>2, <2>3 DEF A
<1>5. CASE x \in Stack
  <2>1. Below(w, x) = {}
    <3>1. x \notin G!Box
      BY <1>5, Apartness
    <3> QED BY <1>1, <3>1, OneOfThem DEF Below
  <2>2. Load(w)[x] = G!GetWeight(w, x) /\ Load(w)[x] \in Nat
    BY <1>1, <1>5, LoadIs
  <2>3. G!GetWeight(m, x) = G!GetWeight(w, x)
    BY <1>5 DEF G!GetWeight
  <2> QED BY <1>4, <2>1, <2>2, <2>3, NoCoins
<1>6. CASE x \in Bag
  <2>1. Load(w)[x] = Own /\ x \notin Stack
    BY <1>1, <1>6, LoadIs, Apartness
  <2>2. G!GetWeight(m, x) = Own + m.stored[x]
    BY <2>1 DEF G!GetWeight
  <2> QED BY <1>4, <1>6, <2>1, <2>2
<1> QED BY <1>5, <1>6, Apartness

(* Out of a box, a thing goes back into it.                                *)
LEMMA ReturnLinks ==
  ASSUME NEW w \in G!World, NEW x \in G!Thing, NEW b \in G!Box, w.last[x] = b, b \in Bag => b \in w.live
  PROVE  G!ReturnToTracked(w, x) = G!Link(w, x, b)
<1> DEFINE start == [w |-> w, x |-> x]
<1>1. b \notin Stack /\ b \in G!Worn \cup (Bag \cap w.live)
  BY Apartness
<1>2. G!AllRejoined(start) \in {start}
  <2>1. G!Rejoined(start) = start
    BY <1>1 DEF G!Rejoined
  <2> HIDE DEF start
  <2> QED BY <2>1, RejoiningEnds
<1>3. G!ReturnToTracked(w, x) = G!PutBack(w, x)
  BY <1>2 DEF G!ReturnToTracked
<1> QED BY <1>1, <1>3 DEF G!PutBack

(* The things of X are back in the box b, and its cache is their weight.   *)
Refilled(w, b, X, m) ==
  /\ m.amount = w.amount /\ m.worn = w.worn
  /\ \A z \in Kept(w, b) \ X : m.last[z] = b
  /\ \A e \in G!Box : Kept(m, e) = IF e = b THEN X ELSE Kept(w, e)
  /\ \A e \in G!Box \ {b} :
        m.stored[e] = IF b \in G!Above(w, e) THEN Coins(Load(w), Below(w, e)) ELSE w.stored[e]
  /\ m.stored[b] = Coins(Load(w), Under(w, X))

LEMMA RefilledWithOne ==
  ASSUME NEW w, NEW O, NEW c, NEW b, Ready(w, O, c, b),
         NEW X \in SUBSET Kept(w, b), NEW x \in Kept(w, b) \ X,
         NEW m \in Out(w, O, c, Kept(w, b) \ X), Refilled(w, b, X, m),
         NEW v, v = G!ReturnToTracked(m, x)
  PROVE  v \in Out(w, O, c, Kept(w, b) \ (X \cup {x})) /\ Refilled(w, b, X \cup {x}, v)
<1>1. /\ w \in G!World /\ Tree(w) /\ Apart(w) /\ Sound(w, O) /\ Free(w, b) /\ G!Above(w, b) = {b} /\ b \in G!Box
      /\ (b \in Bag => b \in w.live) /\ \A e \in G!Box : b \notin Kept(w, e)
  BY ReadyIs DEF Free, Sound, Ready
<1>2. x \notin O /\ x # w.hand /\ x \in G!Thing /\ x # b /\ x \in Node
  <2>1. x \in G!Thing /\ x \in Lying(w) /\ x # w.hand
    BY <1>1, KeptAreThings DEF Lying, Apart
  <2>2. x # b
    BY <1>1
  <2> QED BY <1>1, <2>1, <2>2 DEF Sound, Node
<1>3. v \in Out(w, O, c, Kept(w, b) \ (X \cup {x}))
  <2> DEFINE L == Kept(w, b) \ X
  <2>1. L \ {x} = Kept(w, b) \ (X \cup {x}) /\ x \in L /\ m \in Out(w, O, c, L)
    OBVIOUS
  <2> HIDE DEF L
  <2>2. v \in Out(w, O, c, L \ {x})
    BY <1>1, <1>2, <2>1, ReturnedStays
  <2> QED BY <2>1, <2>2
<1>4. m \in G!World /\ m.live = w.live /\ m.hand = w.hand
  BY DEF Out
<1>5. v = G!Link(m, x, b)
  <2>1. m.last[x] = b
    BY DEF Refilled
  <2> QED BY <1>1, <1>2, <1>4, <2>1, ReturnLinks
<1>6. /\ v.amount = w.amount /\ v.worn = w.worn
      /\ \A z \in Kept(w, b) \ (X \cup {x}) : v.last[z] = b
  <2>1. PutAway(m, x, v)
    BY <1>1, <1>2, <1>4, <1>5, LinkIs
  <2>2. Kept(w, b) \subseteq G!Thing
    BY <1>1, KeptAreThings
  <2> QED BY <2>1, <2>2 DEF PutAway, Refilled
<1>7. \A e \in G!Box : Kept(v, e) = IF e = b THEN X \cup {x} ELSE Kept(w, e)
  <2>1. Kept(v, b) = Kept(m, b) \cup {x} /\ \A e \in G!Box : e # b => Kept(v, e) = Kept(m, e)
    BY <1>1, <1>2, <1>4, <1>5, LinkAdds
  <2>2. \A e \in G!Box : Kept(m, e) = IF e = b THEN X ELSE Kept(w, e)
    BY DEF Refilled
  <2> QED BY <1>1, <2>1, <2>2
<1>8. v.stored[b] = m.stored[b] + G!GetWeight(m, x) /\ \A e \in G!Box : e # b => v.stored[e] = m.stored[e]
  <2>1. \A e \in G!Box : Kept(m, e) = IF e = b THEN X ELSE Kept(w, e)
    BY DEF Refilled
  <2>2. Free(m, b)
    <3>1. m.worn = w.worn /\ b \notin X
      BY <1>1 DEF Refilled
    <3> QED BY <1>1, <1>4, <2>1, <3>1 DEF Free
  <2>3. \A e \in G!Box : x \notin Kept(m, e)
    BY <1>1, <2>1 DEF Apart
  <2> QED BY <1>2, <1>4, <1>5, <2>2, <2>3, LinkStored
<1>9. G!GetWeight(m, x) = Coins(Load(w), Under(w, {x}))
  <2>1. G!Above(w, x) = {x} \cup G!Above(w, b)
    BY <1>1, <1>2, KeptAbove
  <2>2. x \in Bag => m.stored[x] = Coins(Load(w), Below(w, x))
    BY <1>1, <1>2, <2>1, Apartness DEF Refilled
  <2>3. m.amount = w.amount
    BY DEF Refilled
  <2> QED BY <1>1, <1>2, <1>4, <2>2, <2>3, WeightIs
<1>10. v.stored[b] = Coins(Load(w), Under(w, X \cup {x}))
  <2> DEFINE A == Under(w, X)
             B == Under(w, {x})
  <2>1. A \in SUBSET G!Thing /\ B \in SUBSET G!Thing /\ Under(w, X \cup {x}) = A \cup B
    BY DEF Under
  <2>2. A \cap B = {}
    <3>1. G!Thing \subseteq Node
      BY DEF Node
    <3> QED BY <1>1, <3>1, SideBySide DEF Under
  <2> HIDE DEF A, B
  <2>3. IsFiniteSet(G!Thing) /\ \A y \in G!Thing : Load(w)[y] \in Nat
    BY <1>1, LoadIs
  <2>4. Coins(Load(w), A \cup B) = Coins(Load(w), A) + Coins(Load(w), B)
    BY <2>1, <2>2, <2>3, SumJoined
  <2>5. m.stored[b] = Coins(Load(w), A)
    BY DEF Refilled, A
  <2> QED BY <1>8, <1>9, <2>1, <2>4, <2>5 DEF B
<1>11. \A e \in G!Box \ {b} :
          v.stored[e] = IF b \in G!Above(w, e) THEN Coins(Load(w), Below(w, e)) ELSE w.stored[e]
  BY <1>8 DEF Refilled
<1> QED BY <1>3, <1>6, <1>7, <1>10, <1>11 DEF Refilled

(* All that lay in the box goes back into it.                              *)
LEMMA AllRefilled ==
  ASSUME NEW w, NEW O, NEW c, NEW b, Ready(w, O, c, b), NEW q, q = w.cont[b],
         NEW o \in Out(w, O, c, Kept(w, b)), Refilled(w, b, {}, o), NEW v, v = G!AllBack(o, q)
  PROVE  Refilled(w, b, Kept(w, b), v)
<1> DEFINE Stage(X) == {m \in Out(w, O, c, Kept(w, b) \ X) : Refilled(w, b, X, m)}
           Z == [k \in 0..Len(q) |-> Stage(First(q, k))]
<1>1. w \in G!World /\ b \in G!Box /\ q \in Seq(G!Thing) /\ OneOf(q) /\ Elems(q) = Kept(w, b)
  <2>1. w \in G!World /\ Apart(w) /\ b \in G!Box
    BY ReadyIs DEF Tree, Ready
  <2> QED BY <2>1, KeptAreThings DEF Kept, Apart
<1>2. Len(q) \in Nat /\ \A k \in 1..Len(q) : k \in 0..Len(q) /\ k - 1 \in 0..Len(q)
  BY <1>1
<1>3. /\ First(q, 0) = {} /\ First(q, Len(q)) = Kept(w, b)
      /\ \A k \in 1..Len(q) : First(q, k - 1) \subseteq Kept(w, b) /\ q[k] \in Kept(w, b)
      /\ \A k \in 1..Len(q) : q[k] \notin First(q, k - 1) /\ First(q, k) = First(q, k - 1) \cup {q[k]}
  <2>1. \A k \in 1..Len(q) : First(q, k - 1) \subseteq Elems(q) /\ q[k] \in Elems(q)
    BY <1>1 DEF First, Elems
  <2> QED BY <1>1, <2>1, FirstAndRest
<1>4. o \in Stage({})
  <2>1. Kept(w, b) \ {} = Kept(w, b)
    OBVIOUS
  <2> QED BY <2>1, Zenon
<1>5. o \in Z[0]
  <2> HIDE DEF Stage
  <2>1. o \in Stage(First(q, 0))
    BY <1>3, <1>4, Zenon
  <2> QED BY <1>2, <2>1
<1>6. ASSUME NEW k \in 1..Len(q), NEW m \in Z[k - 1]
      PROVE  G!ReturnToTracked(m, q[k]) \in Z[k]
  <2> DEFINE x == q[k]
             X == First(q, k - 1)
             r == G!ReturnToTracked(m, x)
  <2>1. Z[k - 1] = Stage(X) /\ Z[k] = Stage(First(q, k))
    <3> HIDE DEF Stage
    <3> QED BY <1>2
  <2>2. X \in SUBSET Kept(w, b) /\ x \in Kept(w, b) \ X /\ First(q, k) = X \cup {x}
    BY <1>3
  <2>3. r = G!ReturnToTracked(m, x)
    OBVIOUS
  <2> HIDE DEF Z, x, X, r
  <2>4. m \in Out(w, O, c, Kept(w, b) \ X) /\ Refilled(w, b, X, m)
    BY <1>6, <2>1
  <2>5. r \in Stage(X \cup {x})
    BY <2>2, <2>3, <2>4, RefilledWithOne
  <2> HIDE DEF Stage
  <2> QED BY <2>1, <2>2, <2>5 DEF r, x
<1>7. Z[Len(q)] = Stage(Kept(w, b))
  <2> HIDE DEF Stage
  <2> QED BY <1>2, <1>3
<1> HIDE DEF Z
<1>8. v \in Z[Len(q)]
  <2> HIDE DEF Stage
  <2> QED BY <1>2, <1>5, <1>6, AllBackEnds
<1> QED BY <1>7, <1>8

(* What rebuilds boxes with fewer than d bags in them makes what rebuilds  *)
(* boxes with d.                                                           *)
LEMMA RefreshedWeighs ==
  ASSUME NEW d \in Nat, NEW g, Tidy(g), Loosens(g), Weighs(g, d)
  PROVE  Weighs(G!Refreshed(g), d + 1)
<1> DEFINE Unweighed(w, b) == [G!AllOut(w, w.cont[b], g) EXCEPT !.stored[b] = 0]
           r == G!Refreshed(g)
<1>1. r = [w \in G!World |-> [b \in G!Box |-> G!AllBack(Unweighed(w, b), w.cont[b])]]
  BY DEF G!Refreshed
<1> HIDE DEF r, Unweighed
<1>2. ASSUME NEW w \in G!World, NEW b \in G!Box, NEW O, NEW c, Ready(w, O, c, b),
             Cardinality(Bag \cap Below(w, b)) < d + 1
      PROVE  Reweighed(w, b, r[w][b])
  <2> DEFINE q == w.cont[b]
             o == G!AllOut(w, q, g)
             m == Unweighed(w, b)
             v == G!AllBack(m, q)
             K == Kept(w, b)
  <2>1. r[w][b] = v
    BY <1>1
  <2>2. o = G!AllOut(w, q, g) /\ v = G!AllBack(m, q)
    OBVIOUS
  <2>3. m = [o EXCEPT !.stored[b] = 0] /\ q = w.cont[b]
    BY DEF Unweighed
  <2> HIDE DEF q, o, m, v
  <2>4. o \in Out(w, O, c, K) /\ Stripped(w, b, K, o)
    BY <1>2, <2>2, <2>3, AllStripped
  <2>5. SamePlaces(o, m) /\ m.stored[b] = 0 /\ \A e \in G!Box \ {b} : m.stored[e] = o.stored[e]
    <3>1. o \in G!World
      BY <2>4 DEF Out
    <3>2. SamePlaces(o, m)
      BY <2>3, <3>1, ClearedStays
    <3> QED BY <2>3, <3>1, <3>2, Apartness DEF G!World
  <2>6. m \in Out(w, O, c, K)
    <3>1. Fits(m, O \cup K, c)
      <4> HIDE DEF K
      <4> QED BY <2>4, <2>5, SameFits DEF Out
    <3> HIDE DEF K
    <3> QED BY <2>4, <2>5, <3>1 DEF Out, SamePlaces
  <2>7. w \in G!World /\ Tree(w) /\ Apart(w) /\ G!Above(w, b) = {b} /\ \A e \in G!Box : b \notin Kept(w, e)
    BY <1>2, ReadyIs DEF Tree, Free
  <2>8. ASSUME NEW y \in Node, y # b
        PROVE  b \in G!Above(w, y) <=> \E z \in K : z \in G!Above(w, y)
    <3>1. b \in G!Above(w, y) => \E z \in K : z \in G!Above(w, y)
      BY <2>7, <2>8, OneOfThem
    <3>2. ASSUME NEW z \in K, z \in G!Above(w, y)
          PROVE  b \in G!Above(w, y)
      <4>1. z \in Node /\ b \in Node
        BY <2>7, KeptAreThings, Apartness DEF Node
      <4>2. b \in G!Above(w, z)
        BY <2>7, <4>1, KeptAbove
      <4> QED BY <2>7, <3>2, <4>2, AboveIsClosed
    <3> QED BY <3>1, <3>2
  <2>9. Refilled(w, b, {}, m)
    <3>1. /\ m.amount = w.amount /\ m.worn = w.worn
          /\ \A z \in Kept(w, b) : m.last[z] = b
          /\ \A e \in G!Box : Kept(m, e) = Kept(o, e)
          /\ \A e \in G!Box : Kept(o, e) = IF e = b THEN Kept(w, b) \ Kept(w, b) ELSE Kept(w, e)
      BY <2>4, <2>5 DEF SamePlaces, Stripped, Kept
    <3>2. \A e \in G!Box : Kept(m, e) = IF e = b THEN {} ELSE Kept(w, e)
      BY <3>1
    <3>3. \A e \in G!Box \ {b} :
             m.stored[e] = IF b \in G!Above(w, e) THEN Coins(Load(w), Below(w, e)) ELSE w.stored[e]
      <4>1. \A e \in G!Box : e \in Node
        BY Apartness DEF Node
      <4> QED BY <2>4, <2>5, <2>8, <4>1 DEF Stripped
    <3>4. m.stored[b] = Coins(Load(w), Under(w, {}))
      <4>1. Under(w, {}) = {}
        BY DEF Under
      <4> QED BY <2>5, <4>1, NoCoins
    <3> QED BY <3>1, <3>2, <3>3, <3>4 DEF Refilled
  <2>10. Refilled(w, b, K, v)
    BY <1>2, <2>2, <2>3, <2>6, <2>9, AllRefilled
  <2>11. Under(w, K) = Below(w, b)
    <3>1. b \notin Under(w, K)
      BY <2>7 DEF Under
    <3>2. G!Thing \subseteq Node
      BY DEF Node
    <3> QED BY <2>8, <3>1, <3>2 DEF Under, Below
  <2>12. Reweighed(w, b, v)
    <3>1. \A e \in G!Box : Kept(v, e) = Kept(w, e)
      BY <2>10 DEF Refilled
    <3>2. ASSUME NEW e \in G!Box
          PROVE  v.stored[e] = IF b \in G!Above(w, e) THEN Coins(Load(w), Below(w, e)) ELSE w.stored[e]
      <4>1. CASE e = b
        BY <2>7, <2>10, <2>11, <4>1 DEF Refilled
      <4>2. CASE e # b
        BY <2>10, <4>2 DEF Refilled
      <4> QED BY <4>1, <4>2
    <3> QED BY <2>10, <3>1, <3>2 DEF Reweighed, Refilled
  <2> QED BY <2>1, <2>12
<1> QED BY <1>2 DEF Weighs, r

LEMMA RefreshWeighs ==
  ASSUME NEW max \in Nat
  PROVE  Weighs(G!Refresh(max), max) /\ Tidy(G!Refresh(max)) /\ Loosens(G!Refresh(max))
<1> DEFINE Right(g, d) == Tidy(g) /\ Loosens(g) /\ Weighs(g, d)
           Z == [d \in 0..max |-> {g \in [G!World -> [G!Box -> G!World]] : Right(g, d)}]
<1>1. Tidy(G!NotRefreshed) /\ Loosens(G!NotRefreshed)
  <2>1. G!Refresh(0) = G!NotRefreshed
    <3>1. G!Refresh(0) \in [k \in 0..0 |-> {G!NotRefreshed}][0]
      <4> DEFINE Y == [k \in 0..0 |-> {G!NotRefreshed}]
      <4>1. G!NotRefreshed \in Y[0] /\ \A k \in 1..0 : \A r \in Y[k - 1] : G!Refreshed(r) \in Y[k]
        OBVIOUS
      <4> HIDE DEF Y
      <4>2. G!Refresh(0) \in Y[0]
        BY <4>1, RefreshCounts
      <4> QED BY <4>2 DEF Y
    <3> QED BY <3>1
  <2> QED BY <2>1, RefreshIsTidy, RefreshLoosens
<1>2. Weighs(G!NotRefreshed, 0)
  <2> SUFFICES ASSUME NEW w \in G!World, NEW b \in G!Box, Cardinality(Bag \cap Below(w, b)) < 0 PROVE FALSE
    BY DEF Weighs
  <2>1. IsFiniteSet(Bag \cap Below(w, b))
    BY Goods, FS_Subset
  <2> QED BY <2>1, FS_CardinalityType
<1>3. G!NotRefreshed \in Z[0]
  BY <1>1, <1>2 DEF Tidy
<1>4. ASSUME NEW k \in 1..max, NEW g \in Z[k - 1]
      PROVE  G!Refreshed(g) \in Z[k]
  <2>1. k - 1 \in Nat /\ (k - 1) + 1 = k /\ k \in 0..max /\ k - 1 \in 0..max
    OBVIOUS
  <2>2. Tidy(g) /\ Loosens(g) /\ Weighs(g, k - 1)
    BY <2>1
  <2>3. Weighs(G!Refreshed(g), k)
    <3>1. Weighs(G!Refreshed(g), (k - 1) + 1)
      BY <2>1, <2>2, RefreshedWeighs
    <3> QED BY <2>1, <3>1
  <2>4. Right(G!Refreshed(g), k)
    BY <2>2, <2>3, RefreshedIsTidy, RefreshedLoosens
  <2>5. G!Refreshed(g) \in [G!World -> [G!Box -> G!World]]
    BY <2>4 DEF Tidy
  <2> HIDE DEF Right
  <2> QED BY <2>1, <2>4, <2>5
<1>5. G!Refresh(max) \in Z[max]
  <2> HIDE DEF Z
  <2> QED BY <1>3, <1>4, RefreshCounts
<1> QED BY <1>5

-----------------------------------------------------------------------------
(* The gear is taken off and rebuilt piece by piece: the boxes in what is  *)
(* done, the things of D, are right.                                       *)
Weighed(w, D, v) ==
  /\ v.amount = w.amount /\ \A e \in G!Box : Kept(v, e) = Kept(w, e)
  /\ \A e \in G!Box : (\E d \in D : d \in G!Above(w, e)) => v.stored[e] = Coins(Load(w), Below(w, e))

LEMMA SameAbove ==
  ASSUME NEW w, Tree(w), NEW u \in G!World, Apart(u), \A e \in G!Box : Kept(u, e) = Kept(w, e)
  PROVE  /\ \A y \in Node : \A e \in Node : e \in G!Above(u, y) <=> e \in G!Above(w, y)
         /\ \A e \in G!Box : Below(u, e) = Below(w, e)
<1>1. Null \notin Node /\ Null \notin G!Box /\ \A e \in G!Box : Null \notin Kept(w, e)
  BY Apartness, KeptAreThings DEF Node, Tree
<1>2. \A e \in G!Box : IF e = Null THEN Kept(u, e) \subseteq Kept(w, e) ELSE Kept(u, e) = Kept(w, e)
  BY <1>1
<1>3. /\ \A y \in Node : \A e \in Node : e # Null => (e \in G!Above(u, y) <=> e \in G!Above(w, y))
      /\ \A e \in G!Box : e # Null => Below(u, e) = Below(w, e)
  BY <1>1, <1>2, AboveApartFrom
<1>4. /\ \A e \in Node : e # Null
      /\ \A e \in G!Box : e # Null
  BY <1>1
<1> QED BY <1>3, <1>4

LEMMA EnoughDepth ==
  ASSUME NEW w, NEW b, NEW n \in Nat, Cardinality(Bag) < n
  PROVE  Cardinality(Bag \cap Below(w, b)) < n
<1>1. IsFiniteSet(Bag) /\ Bag \cap Below(w, b) \in SUBSET Bag
  BY Goods
<1>2. Cardinality(Bag \cap Below(w, b)) <= Cardinality(Bag) /\ IsFiniteSet(Bag \cap Below(w, b))
  BY <1>1, FS_Subset
<1>3. Cardinality(Bag \cap Below(w, b)) \in Nat /\ Cardinality(Bag) \in Nat
  BY <1>1, <1>2, FS_CardinalityType
<1> QED BY <1>2, <1>3

LEMMA RebuiltIs ==
  ASSUME NEW w, Tree(w), NEW D, NEW u \in G!World, Weighed(w, D, u),
         NEW v, Sound(v, {}) \/ Apart(v), v \in G!World, v.amount = u.amount,
         \A e \in G!Box : Kept(v, e) = Kept(u, e) /\ v.stored[e] = u.stored[e],
         NEW x \in G!Box, NEW r, Reweighed(v, x, r)
  PROVE  Weighed(w, D \cup {x}, r)
<1>1. /\ v.amount = w.amount /\ \A e \in G!Box : Kept(v, e) = Kept(w, e)
      /\ w \in G!World /\ x \in Node /\ \A e \in G!Box : e \in Node
  BY Apartness DEF Weighed, Tree, Node
<1>2. /\ \A y \in Node : \A e \in Node : e \in G!Above(v, y) <=> e \in G!Above(w, y)
      /\ \A e \in G!Box : Below(v, e) = Below(w, e)
  BY <1>1, SameAbove DEF Sound
<1>3. Load(v) = Load(w)
  BY <1>1, LoadIs
<1>4. r.amount = w.amount /\ \A e \in G!Box : Kept(r, e) = Kept(w, e)
  BY <1>1 DEF Reweighed
<1>5. ASSUME NEW e \in G!Box, NEW d \in D \cup {x}, d \in G!Above(w, e)
      PROVE  r.stored[e] = Coins(Load(w), Below(w, e))
  <2>1. CASE x \in G!Above(w, e)
    BY <1>1, <1>2, <1>3, <2>1 DEF Reweighed
  <2>2. CASE x \notin G!Above(w, e)
    <3>1. r.stored[e] = u.stored[e]
      BY <1>1, <1>2, <2>2 DEF Reweighed
    <3>2. d \in D
      BY <1>5, <2>2
    <3> QED BY <1>5, <3>1, <3>2 DEF Weighed
  <2> QED BY <2>1, <2>2
<1> QED BY <1>4, <1>5 DEF Weighed

LEMMA GearWeighed ==
  ASSUME NEW w, Tree(w), NEW D, NEW u, NEW O, NEW c, Fits(u, O, c), Rooted(u, O), Weighed(w, D, u),
         NEW n \in Nat, Cardinality(Bag) < n, NEW g, Tidy(g), Loosens(g), Weighs(g, n),
         NEW x \in G!Worn, NEW r, r = G!TakenOut(u, x, g)
  PROVE  Fits(r, O, c) /\ Rooted(r, O) /\ r.hand = u.hand /\ Weighed(w, D \cup {x}, r)
<1> DEFINE v == G!Hide(u, x)
<1>0. v = G!Hide(u, x) /\ u \in G!World /\ x \in G!Box
  BY Apartness DEF Fits, Sound
<1> HIDE DEF v
<1>1. /\ v \in G!World /\ v.live = u.live /\ v.amount = u.amount /\ v.hand = u.hand
      /\ v.ground = u.ground /\ v.cont = u.cont /\ v.last = u.last /\ v.worn = u.worn \ {x}
  BY <1>0, HideWornIs
<1>2. \A e \in G!Box : Kept(v, e) = Kept(u, e) /\ v.stored[e] = u.stored[e]
  BY <1>0, <1>1, HideWornStored DEF Kept
<1>3. Fits(v, O, c)
  BY <1>1, WornFits
<1>4. Rooted(v, O)
  <2>1. Looser(u, O, v, O)
    <3>1. \A b \in Bag : Kept(v, b) \cap Bag \subseteq Kept(u, b)
      BY <1>2, Apartness
    <3>2. v.last = u.last /\ v.hand = u.hand /\ v \in G!World /\ u \in G!World
      BY <1>0, <1>1
    <3>3. \A z \in Bag : v.last[z] = u.last[z]
      BY <3>2
    <3> QED BY <3>1, <3>2, <3>3, BagsAlone
  <2> QED BY <2>1, LooserIsRooted
<1>5. r = g[v][x]
  BY <1>0 DEF G!TakenOut
<1>6. Fits(r, O, c) /\ r.hand = v.hand
  <2>1. r \in Out(v, O, c, {})
    BY <1>0, <1>1, <1>3, <1>5 DEF Tidy
  <2>2. O \cup {} = O
    OBVIOUS
  <2> QED BY <2>1, <2>2 DEF Out
<1>7. Rooted(r, O)
  <2>1. Looser(v, O, r, O)
    BY <1>0, <1>1, <1>5 DEF Loosens
  <2> QED BY <1>4, <2>1, LooserIsRooted
<1>8. Reweighed(v, x, r)
  <2>1. Ready(v, O, c, x)
    BY <1>0, <1>1, <1>3, <1>4 DEF Ready
  <2>2. Cardinality(Bag \cap Below(v, x)) < n
    BY EnoughDepth
  <2> QED BY <1>0, <1>1, <1>5, <2>1, <2>2 DEF Weighs
<1>9. Apart(v)
  BY <1>3 DEF Fits, Sound
<1>10. Weighed(w, D \cup {x}, r)
  BY <1>0, <1>1, <1>2, <1>8, <1>9, RebuiltIs
<1> QED BY <1>1, <1>6, <1>7, <1>10

LEMMA HeldWeighed ==
  ASSUME NEW w, NEW c, Fits(w, {}, c), Rooted(w, {}), NEW h, h = w.hand, h # Null,
         NEW n \in Nat, Cardinality(Bag) < n, NEW g, Tidy(g), Loosens(g), Weighs(g, n),
         NEW r, r = G!TakenOut(w, h, g)
  PROVE  Fits(r, {h}, c) /\ Rooted(r, {h}) /\ r.hand = Null /\ Weighed(w, {h}, r)
<1>1. /\ w \in G!World /\ Apart(w) /\ Tree(w) /\ h \in G!Thing /\ h \in w.live /\ h \in Node
      /\ \A e \in G!Box : e \in Node
  BY HeldLives, Apartness DEF Fits, Sound, Tree, Node
<1>2. Fits(r, {h}, c) /\ r.hand = Null
  BY <1>1, HeldOutFits
<1>3. {} \cup {h} = {h}
  OBVIOUS
<1>4. Rooted(r, {h})
  <2>1. Looser(w, {}, r, {} \cup {h})
    BY <1>1, TakenOutLoosens
  <2>2. Looser(w, {}, r, {h})
    BY <1>3, <2>1, Zenon
  <2> QED BY <2>2, LooserIsRooted
<1> DEFINE v == G!Hide(w, h)
<1>5. v = G!Hide(w, h)
  OBVIOUS
<1> HIDE DEF v
<1>6. /\ v \in G!World /\ v.amount = w.amount
      /\ \A e \in G!Box : Kept(v, e) = Kept(w, e)
  <2>1. \A e \in G!Box : h \notin Kept(w, e)
    BY <1>1 DEF Apart
  <2>2. /\ v \in G!World /\ v.amount = w.amount
        /\ \A e \in G!Box : Kept(v, e) = Kept(w, e) \ {h}
    BY <1>1, <1>5, HideIs
  <2> QED BY <2>1, <2>2
<1>7. \A e \in G!Box : v.stored[e] = w.stored[e]
  BY <1>1, <1>5, HideStored DEF Apart
<1>8. Weighed(w, {}, w)
  BY DEF Weighed
<1>9. CASE h \in Stack
  <2>1. r = v
    BY <1>5, <1>9, Apartness DEF G!TakenOut
  <2>2. \A e \in G!Box : h \notin G!Above(w, e)
    <3>1. h \notin G!Box
      BY <1>9, Apartness
    <3> QED BY <1>1, <3>1, OneOfThem
  <2>3. Weighed(w, {h}, v)
    BY <1>6, <2>2 DEF Weighed
  <2> QED BY <1>2, <1>4, <2>1, <2>3
<1>10. CASE h \in Bag
  <2>1. h \in G!Box /\ r = g[v][h]
    BY <1>5, <1>10, Apartness DEF G!TakenOut
  <2>2. Fits(v, {h}, c)
    <3>1. Fits(v, {} \cup {h}, c)
      BY <1>1, <1>5, OutFits
    <3> QED BY <1>3, <3>1, Zenon
  <2>3. Rooted(v, {h})
    <3>1. Looser(w, {}, v, {} \cup {h})
      BY <1>1, <1>5, HideLoosens
    <3>2. Looser(w, {}, v, {h})
      BY <1>3, <3>1, Zenon
    <3> QED BY <3>2, LooserIsRooted
  <2>4. Ready(v, {h}, c, h)
    BY <2>1, <2>2, <2>3 DEF Ready
  <2>5. Cardinality(Bag \cap Below(v, h)) < n
    BY EnoughDepth
  <2>6. Reweighed(v, h, r)
    BY <1>6, <2>1, <2>4, <2>5 DEF Weighs
  <2>7. Apart(v)
    BY <2>2 DEF Fits, Sound
  <2>8. Weighed(w, {} \cup {h}, r)
    BY <1>1, <1>6, <1>7, <1>8, <2>1, <2>6, <2>7, RebuiltIs
  <2>9. Weighed(w, {h}, r)
    BY <1>3, <2>8, Zenon
  <2> QED BY <1>2, <1>4, <2>9
<1> QED BY <1>1, <1>9, <1>10, Apartness

LEMMA OutOfTwo ==
  ASSUME NEW w, NEW x, NEW y, NEW g
  PROVE  G!AllOut(w, <<x, y>>, g) = G!TakenOut(G!TakenOut(w, x, g), y, g)
<1> DEFINE a == G!TakenOut(w, x, g)
           e == G!TakenOut(a, y, g)
           q == <<x, y>>
           Z == [k \in 0..2 |-> IF k = 0 THEN {w} ELSE IF k = 1 THEN {a} ELSE {e}]
<1>1. Len(q) = 2 /\ q[1] = x /\ q[2] = y
  OBVIOUS
<1>2. Z[0] = {w} /\ Z[1] = {a} /\ Z[2] = {e}
  OBVIOUS
<1>3. a = G!TakenOut(w, x, g) /\ e = G!TakenOut(a, y, g)
  OBVIOUS
<1> HIDE DEF a, e, q, Z
<1>4. \A k \in 1..Len(q) : \A z \in Z[k - 1] : G!TakenOut(z, q[k], g) \in Z[k]
  <2> SUFFICES ASSUME NEW k \in 1..2, NEW z \in Z[k - 1] PROVE G!TakenOut(z, q[k], g) \in Z[k]
    BY <1>1
  <2>1. CASE k = 1
    BY <1>1, <1>2, <1>3, <2>1
  <2>2. CASE k = 2
    BY <1>1, <1>2, <1>3, <2>2
  <2> QED BY <2>1, <2>2
<1>5. G!AllOut(w, q, g) \in Z[Len(q)]
  <2>1. Len(q) \in Nat /\ w \in Z[0]
    BY <1>1, <1>2
  <2> QED BY <1>4, <2>1, AllOutEnds
<1> QED BY <1>1, <1>2, <1>5 DEF q, e, a

LEMMA OutOfThree ==
  ASSUME NEW w, NEW h, NEW x, NEW y, NEW g
  PROVE  G!AllOut(w, <<h>> \o <<x, y>>, g) = G!TakenOut(G!TakenOut(G!TakenOut(w, h, g), x, g), y, g)
<1> DEFINE f == G!TakenOut(w, h, g)
           a == G!TakenOut(f, x, g)
           e == G!TakenOut(a, y, g)
           q == <<h>> \o <<x, y>>
           Z == [k \in 0..3 |-> IF k = 0 THEN {w} ELSE IF k = 1 THEN {f} ELSE IF k = 2 THEN {a} ELSE {e}]
<1>1. Len(q) = 3 /\ q[1] = h /\ q[2] = x /\ q[3] = y
  OBVIOUS
<1>2. Z[0] = {w} /\ Z[1] = {f} /\ Z[2] = {a} /\ Z[3] = {e}
  OBVIOUS
<1>3. f = G!TakenOut(w, h, g) /\ a = G!TakenOut(f, x, g) /\ e = G!TakenOut(a, y, g)
  OBVIOUS
<1> HIDE DEF f, a, e, q, Z
<1>4. \A k \in 1..Len(q) : \A z \in Z[k - 1] : G!TakenOut(z, q[k], g) \in Z[k]
  <2> SUFFICES ASSUME NEW k \in 1..3, NEW z \in Z[k - 1] PROVE G!TakenOut(z, q[k], g) \in Z[k]
    BY <1>1
  <2>1. CASE k = 1
    BY <1>1, <1>2, <1>3, <2>1
  <2>2. CASE k = 2
    BY <1>1, <1>2, <1>3, <2>2
  <2>3. CASE k = 3
    BY <1>1, <1>2, <1>3, <2>3
  <2> QED BY <2>1, <2>2, <2>3
<1>5. G!AllOut(w, q, g) \in Z[Len(q)]
  <2>1. Len(q) \in Nat /\ w \in Z[0]
    BY <1>1, <1>2
  <2> QED BY <1>4, <2>1, AllOutEnds
<1> QED BY <1>1, <1>2, <1>5 DEF q, e, a, f

LEMMA GearIsWeighed ==
  ASSUME NEW w, NEW c, Fits(w, {}, c), Rooted(w, {}),
         NEW n \in Nat, Cardinality(Bag) < n, NEW g, Tidy(g), Loosens(g), Weighs(g, n),
         NEW gear, gear = (IF w.hand = Null THEN <<>> ELSE <<w.hand>>) \o <<Pack, Bank>>,
         NEW out, out = G!AllOut(w, gear, g)
  PROVE  out \in G!World /\ out.hand = Null /\ Weighed(w, {w.hand, Pack}, out)
<1> DEFINE D == {w.hand} \ {Null}
           first == IF w.hand = Null THEN w ELSE G!TakenOut(w, w.hand, g)
           second == G!TakenOut(first, Pack, g)
           third == G!TakenOut(second, Bank, g)
<1>1. Tree(w) /\ Pack \in G!Worn /\ Bank \in G!Worn
  BY Apartness DEF Tree, Fits, Sound
<1>2. Fits(first, D, c) /\ Rooted(first, D) /\ first.hand = Null /\ Weighed(w, D, first)
  <2>1. CASE w.hand = Null
    <3>1. D = {} /\ first = w
      BY <2>1
    <3>2. Weighed(w, {}, w)
      BY DEF Weighed
    <3> HIDE DEF D, first
    <3> QED BY <2>1, <3>1, <3>2
  <2>2. CASE w.hand # Null
    <3> DEFINE h == w.hand
    <3>1. D = {h} /\ first = G!TakenOut(w, h, g) /\ h = w.hand /\ h # Null
      BY <2>2
    <3> HIDE DEF D, first, h
    <3>2. Fits(first, {h}, c) /\ Rooted(first, {h}) /\ first.hand = Null /\ Weighed(w, {h}, first)
      BY <3>1, HeldWeighed
    <3> QED BY <3>1, <3>2
  <2> QED BY <2>1, <2>2
<1>3. out = third
  <2>1. CASE w.hand = Null
    <3>1. <<>> \o <<Pack, Bank>> = <<Pack, Bank>>
      OBVIOUS
    <3>2. out = G!AllOut(w, <<Pack, Bank>>, g)
      BY <2>1, <3>1
    <3> QED BY <2>1, <3>2, OutOfTwo
  <2>2. CASE w.hand # Null
    BY <2>2, OutOfThree
  <2> QED BY <2>1, <2>2
<1>4. second = G!TakenOut(first, Pack, g) /\ third = G!TakenOut(second, Bank, g)
  OBVIOUS
<1> HIDE DEF D, first, second, third
<1>5. /\ Fits(second, D, c) /\ Rooted(second, D) /\ second.hand = Null
      /\ Weighed(w, D \cup {Pack}, second)
  BY <1>1, <1>2, <1>4, GearWeighed
<1> DEFINE E == D \cup {Pack}
<1>6. Fits(third, D, c) /\ third.hand = Null /\ Weighed(w, E \cup {Bank}, third)
  <2>1. Weighed(w, E, second)
    BY <1>5
  <2> HIDE DEF E
  <2> QED BY <1>1, <1>4, <1>5, <2>1, GearWeighed
<1>7. Weighed(w, {w.hand, Pack}, third)
  <2>1. \A e \in G!Box : Null \notin G!Above(w, e)
    <3>1. Null \notin Node /\ \A e \in G!Box : e \in Node
      BY Apartness DEF Node
    <3> QED BY <1>1, <3>1, AboveIsClosed
  <2>2. \A d \in {w.hand, Pack} : d = Null \/ d \in E \cup {Bank}
    BY DEF D
  <2> HIDE DEF E
  <2> QED BY <1>6, <2>1, <2>2 DEF Weighed
<1> QED BY <1>3, <1>6, <1>7 DEF Fits, Sound

LEMMA WeightRelatedExact ==
  ASSUME NEW w, NEW c, Fits(w, {}, c), Rooted(w, {}), NEW v, v = G!WeightRelated(w)
  PROVE  G!Exact(v)
<1> DEFINE n == G!Cardinality(Bag) + 1
           g == G!Refresh(n)
           gear == (IF w.hand = Null THEN <<>> ELSE <<w.hand>>) \o <<Pack, Bank>>
           out == G!AllOut(w, gear, g)
           bare == [out EXCEPT !.stored[Body] = 0]
           held == IF w.hand = Null THEN bare ELSE G!EquipOnMobile(bare, w.hand)
           packed == G!EquipOnMobile(held, Pack)
<1>1. v = G!EquipOnMobile(packed, Bank)
  BY DEF G!WeightRelated
<1>2. n \in Nat /\ Cardinality(Bag) < n
  <2>1. G!Cardinality(Bag) = Cardinality(Bag) /\ Cardinality(Bag) \in Nat
    BY Goods, SameCount, FS_CardinalityType
  <2> QED BY <2>1
<1> HIDE DEF n
<1>3. Tidy(g) /\ Loosens(g) /\ Weighs(g, n)
  BY <1>2, RefreshWeighs
<1>o. out = G!AllOut(w, gear, g) /\ gear = (IF w.hand = Null THEN <<>> ELSE <<w.hand>>) \o <<Pack, Bank>>
  OBVIOUS
<1>b. bare = [out EXCEPT !.stored[Body] = 0]
  OBVIOUS
<1> HIDE DEF g, gear, out, bare
<1>4. out \in G!World /\ out.hand = Null /\ Weighed(w, {w.hand, Pack}, out)
  BY <1>2, <1>3, <1>o, GearIsWeighed
<1>5. /\ w \in G!World /\ Tree(w) /\ Pack \in G!Worn /\ Bank \in G!Worn /\ Pack # Bank
      /\ Pack \in G!Box /\ Body \notin G!Box /\ Pack \notin Stack
      /\ (w.hand # Null => w.hand \in G!Thing /\ w.hand \notin G!Worn /\ w.hand # Bank /\ w.hand \in Node)
  BY HeldLives, Apartness DEF Tree, Fits, Sound, Node
<1>6. /\ bare \in G!World /\ bare.amount = w.amount /\ bare.hand = Null
      /\ \A e \in G!Box : Kept(bare, e) = Kept(w, e)
      /\ \A e \in G!Box : bare.stored[e] = out.stored[e]
      /\ bare.stored[Body] = 0
  <2>1. SamePlaces(out, bare)
    BY <1>b, <1>4, ClearedStays
  <2>2. bare.stored = [out.stored EXCEPT ![Body] = 0] /\ out.stored \in [G!Box \cup {Body} -> Nat]
    BY <1>b, <1>4 DEF G!World
  <2> QED BY <1>4, <1>5, <2>1, <2>2 DEF SamePlaces, Weighed, Kept
<1> DEFINE inHand == IF w.hand = Null THEN 0 ELSE G!GetWeight(bare, w.hand)
<1>7. inHand \in Nat
  BY <1>5, <1>6, WeightIsNumber, Apartness
<1> HIDE DEF inHand
<1>8. /\ held \in G!World /\ held.amount = w.amount /\ held.hand = w.hand
      /\ \A e \in G!Box : Kept(held, e) = Kept(w, e) /\ held.stored[e] = out.stored[e]
      /\ held.stored[Body] = inHand
  <2>1. CASE w.hand = Null
    BY <1>6, <2>1 DEF inHand
  <2>2. CASE w.hand # Null
    <3>1. held = G!EquipOnMobile(bare, w.hand)
      BY <2>2
    <3> HIDE DEF held
    <3>2. /\ held \in G!World /\ held.amount = bare.amount /\ held.cont = bare.cont /\ held.hand = w.hand
      <4>1. bare \in G!World /\ w.hand \in G!Thing \cup G!Worn /\ w.hand \notin G!Worn
        BY <1>5, <1>6, <2>2
      <4> QED BY <3>1, <4>1, EquipIs
    <3>3. /\ \A e \in G!Box : held.stored[e] = bare.stored[e]
          /\ held.stored[Body] = 0 + G!GetWeight(bare, w.hand)
      BY <1>5, <1>6, <2>2, <3>1, EquipStored
    <3>4. inHand = G!GetWeight(bare, w.hand)
      BY <2>2 DEF inHand
    <3> QED BY <1>6, <1>7, <3>2, <3>3, <3>4 DEF Kept
  <2> QED BY <2>1, <2>2
<1>p. packed = G!EquipOnMobile(held, Pack)
  OBVIOUS
<1> HIDE DEF held, packed
<1>9. /\ packed \in G!World /\ packed.amount = w.amount /\ packed.hand = w.hand
      /\ \A e \in G!Box : Kept(packed, e) = Kept(w, e) /\ packed.stored[e] = out.stored[e]
      /\ packed.stored[Body] = inHand + (Own + out.stored[Pack])
  <2>1. packed \in G!World /\ packed.amount = held.amount /\ packed.cont = held.cont /\ packed.hand = held.hand
    <3>1. held \in G!World /\ Pack \in G!Thing \cup G!Worn /\ Pack \in G!Worn
      BY <1>5, <1>8
    <3> QED BY <1>p, <3>1, EquipIs
  <2>2. /\ \A e \in G!Box : packed.stored[e] = held.stored[e]
        /\ packed.stored[Body] = held.stored[Body] + G!GetWeight(held, Pack)
    BY <1>5, <1>8, <1>p, EquipStored
  <2>3. G!GetWeight(held, Pack) = Own + held.stored[Pack]
    BY <1>5 DEF G!GetWeight
  <2> QED BY <1>5, <1>8, <2>1, <2>2, <2>3 DEF Kept
<1>10. /\ v \in G!World /\ v.amount = w.amount /\ v.hand = w.hand
       /\ \A e \in G!Box : Kept(v, e) = Kept(w, e) /\ v.stored[e] = out.stored[e]
       /\ v.stored[Body] = inHand + (Own + out.stored[Pack])
  <2>1. v \in G!World /\ v.amount = packed.amount /\ v.cont = packed.cont /\ v.hand = packed.hand
    <3>1. packed \in G!World /\ Bank \in G!Thing \cup G!Worn /\ Bank \in G!Worn
      BY <1>5, <1>9
    <3> QED BY <1>1, <3>1, EquipIs
  <2>2. /\ \A e \in G!Box : v.stored[e] = packed.stored[e]
        /\ v.stored[Body] = packed.stored[Body] + 0
    BY <1>1, <1>5, <1>9, EquipStored
  <2>3. packed.stored[Body] \in Nat
    BY <1>9 DEF G!World
  <2> QED BY <1>9, <2>1, <2>2, <2>3 DEF Kept
<1>11. Apart(v)
  <2>1. Fits(v, {}, c)
    BY WeightRelatedFits
  <2> QED BY <2>1 DEF Fits, Sound
<1>12. /\ \A y \in Node : \A e \in Node : e \in G!Above(v, y) <=> e \in G!Above(w, y)
       /\ \A e \in G!Box : Below(v, e) = Below(w, e)
  BY <1>5, <1>10, <1>11, SameAbove
<1>13. \A e \in G!Box : Pack \in G!Above(w, e) \/ w.hand \in G!Above(w, e) => out.stored[e] = G!Contents(v, e)
  <2>1. \A e \in G!Box : G!Contents(v, e) = Coins(Load(w), Below(w, e))
    BY <1>5, <1>10, <1>12, LoadIs, ContentsIs
  <2> QED BY <1>4, <2>1 DEF Weighed
<1>14. Pack \in Node /\ \A e \in G!Box : e \in Node
  BY <1>5, Apartness DEF Node
<1>15. out.stored[Pack] = G!Contents(v, Pack) /\ out.stored[Pack] \in Nat
  <2>1. Pack \in G!Above(w, Pack)
    BY <1>5, <1>14, AboveIs
  <2> QED BY <1>4, <1>5, <1>13, <2>1 DEF G!World
<1>16. inHand = IF v.hand = Null THEN 0 ELSE IF v.hand \in Stack THEN G!GetWeight(v, v.hand)
                ELSE Own + G!Contents(v, v.hand)
  <2>1. CASE w.hand = Null
    BY <1>10, <2>1 DEF inHand
  <2>2. CASE w.hand # Null /\ w.hand \in Stack
    <3>1. G!GetWeight(bare, w.hand) = G!GetWeight(v, w.hand)
      BY <1>6, <1>10, <2>2 DEF G!GetWeight
    <3> QED BY <1>10, <2>2, <3>1 DEF inHand
  <2>3. CASE w.hand # Null /\ w.hand \notin Stack
    <3>1. w.hand \in Bag /\ w.hand \in G!Box /\ w.hand \in Node
      BY <1>5, <2>3, Apartness
    <3>2. w.hand \in G!Above(w, w.hand)
      BY <1>5, <3>1, AboveIs
    <3>3. G!GetWeight(bare, w.hand) = Own + bare.stored[w.hand]
      BY <2>3 DEF G!GetWeight
    <3>4. bare.stored[w.hand] = G!Contents(v, w.hand)
      BY <1>6, <1>13, <3>1, <3>2
    <3> QED BY <1>10, <2>3, <3>3, <3>4 DEF inHand
  <2> QED BY <2>1, <2>2, <2>3
<1>17. v.stored[Body] = Own + G!Contents(v, Pack) + inHand
  <2>1. Own \in Nat
    BY Goods
  <2> QED BY <1>7, <1>10, <1>15, <2>1
<1>18. \A e \in {Pack} \cup Bag : Pack \in G!Above(v, e) => v.stored[e] = G!Contents(v, e)
  <2>1. \A e \in {Pack} \cup Bag : e \in G!Box
    BY <1>5, Apartness
  <2> QED BY <1>10, <1>12, <1>13, <1>14, <2>1
<1> QED BY <1>16, <1>17, <1>18 DEF G!Exact

(* Cached weights that went wrong are right again after a recalculation,   *)
(* however deep bags lie in bags.                                          *)
THEOREM RecalculationsRepair == MCSpec => []RecalcRepairs
<1>1. (part = "goods" /\ Orderly(s, taken)) => RecalcRepairs
  BY OrderlyIs, WeightRelatedExact DEF RecalcRepairs, When, G!RecalcRepairs
<1>2. part # "goods" => RecalcRepairs
  BY DEF RecalcRepairs, When
<1>3. (part = "goods" => Orderly(s, taken)) => RecalcRepairs
  BY <1>1, <1>2
<1> QED BY <1>3, GoodsAreOrderly, PTL

-----------------------------------------------------------------------------
(* The server that restarts: what TradeProofs proves of Trade, for the     *)
(* instance of it here.                                                    *)

P == INSTANCE TradeProofs WITH
    Player <- Trader, Item <- Ware, Trade <- Deal,
    MaxSpot <- 0, Reach <- 0, Crashes <- TRUE,
    online <- online2, here <- here2, pos <- pos2, home <- home2,
    loc <- loc2, party <- party2, acc <- acc2, saved <- saved2

LEMMA RestartedIsTrade ==
  /\ (P!Init <=> R!Init) /\ (P!Next <=> R!Next) /\ P!vars = R!vars
  /\ (P!TypeOK <=> R!TypeOK) /\ (P!TypeOK' <=> R!TypeOK')
  /\ (P!TradersTogether <=> R!TradersTogether) /\ (P!TradersTogether' <=> R!TradersTogether')
<1>1. P!Init <=> R!Init
  BY DEF R!Init, P!Init, R!NoAccept, P!NoAccept, R!Snapshot, P!Snapshot
<1>2. P!Next <=> R!Next
  BY DEF
     R!people, P!people, R!deals, P!deals, R!vars, P!vars, R!Side, P!Side,
     R!Box, P!Box, R!Other, P!Other, R!NoAccept, P!NoAccept, R!open, P!open,
     R!Distance, P!Distance, R!Near, P!Near, R!Contents, P!Contents,
     R!Offered, P!Offered, R!Held, P!Held, R!Snapshot, P!Snapshot,
     R!SecuredTrade, P!SecuredTrade, R!Cleared, P!Cleared, R!TradesOf,
     P!TradesOf, R!FindSession, P!FindSession, R!Boxed, P!Boxed, R!Receiver,
     P!Receiver, R!Emptied, P!Emptied, R!Laid, P!Laid, R!ReturnItems,
     P!ReturnItems, R!MoveItems, P!MoveItems, R!CloseTrade, P!CloseTrade,
     R!LetGo, P!LetGo, R!Reaches, P!Reaches, R!PutBack, P!PutBack,
     R!Returnable, P!Returnable, R!PickUp, P!PickUp, R!FreeTrade,
     P!FreeTrade, R!DropOnPlayer, P!DropOnPlayer, R!DropInBox, P!DropInBox,
     R!DropElsewhere, P!DropElsewhere, R!BothAccept, P!BothAccept, R!Accept,
     P!Accept, R!Cancel, P!Cancel, R!TooFar, P!TooFar, R!Step, P!Step,
     R!Teleport, P!Teleport, R!Die, P!Die, R!Connect, P!Connect, R!Offline,
     P!Offline, R!LogOut, P!LogOut, R!Disconnect, P!Disconnect, R!SaveWorld,
     P!SaveWorld, R!Restart, P!Restart, R!Next, P!Next
<1>3. (P!TypeOK <=> R!TypeOK) /\ (P!TypeOK' <=> R!TypeOK')
  BY DEF P!TypeOK, R!TypeOK, P!Box, R!Box, P!Side, R!Side
<1>4. (P!TradersTogether <=> R!TradersTogether) /\ (P!TradersTogether' <=> R!TradersTogether')
  BY DEF R!TradersTogether, P!TradersTogether, P!open, R!open, P!Near, R!Near,
         P!Distance, R!Distance
<1>5. P!vars = R!vars
  BY DEF P!vars, R!vars
<1> QED BY <1>1, <1>2, <1>3, <1>4, <1>5

(* A crash at any moment and a restart from any earlier save leave no open *)
(* trade whose players are not in the world and in reach (dynamic.c,       *)
(* trade.c).                                                               *)
THEOREM TogetherAfterRestart == MCSpec => []AlsoAfterRestart
<1>1. R!Init => R!TypeOK /\ R!TradersTogether
  <2>1. P!Init => P!TypeOK
    BY Restarted, P!TypeInit
  <2>2. R!Init => R!TradersTogether
    BY DEF R!Init, R!TradersTogether, R!open
  <2> QED BY <2>1, <2>2, RestartedIsTrade
<1>2. R!TypeOK /\ R!TradersTogether /\ [R!Next]_R!vars => (R!TypeOK /\ R!TradersTogether)'
  <2>1. P!TypeOK /\ [P!Next]_P!vars => P!TypeOK'
    BY Restarted, P!TypeStep
  <2>2. P!TypeOK /\ P!TradersTogether /\ [P!Next]_P!vars => P!TradersTogether'
    BY Restarted, P!TogetherStep
  <2>3. [R!Next]_R!vars => [P!Next]_P!vars
    <3>1. UNCHANGED R!vars => UNCHANGED P!vars
      BY DEF R!vars, P!vars
    <3> QED BY <3>1, RestartedIsTrade
  <2> QED BY <2>1, <2>2, <2>3, RestartedIsTrade
<1>3. [MCNext]_all => [R!Next]_R!vars
  BY DEF MCNext, all, restarted, R!vars
<1>4. MCInit => AlsoAfterRestart
  BY <1>1 DEF MCInit, AlsoAfterRestart
<1>5. AlsoAfterRestart /\ [MCNext]_all => AlsoAfterRestart'
  BY <1>2, <1>3 DEF AlsoAfterRestart
<1> QED BY <1>4, <1>5, PTL DEF MCSpec
=============================================================================
