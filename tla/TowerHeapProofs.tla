-------------------------- MODULE TowerHeapProofs --------------------------
(***************************************************************************)
(* What the proofs about lists of nodes need: the order of the nodes on a  *)
(* level, what it is for a level to be a sorted list, that Chain then      *)
(* finds exactly the nodes of that list, what linking and unlinking a node *)
(* make of it, how such a list stands for a map, and in which order nodes  *)
(* are locked.                                                             *)
(***************************************************************************)
EXTENDS TowerHeap, FiniteSetTheorems, TLAPS

-----------------------------------------------------------------------------
(* Least numbers and last elements, in place of induction.                 *)

\* A set of natural numbers has a least element.
LEMMA LeastNumber ==
  ASSUME NEW S \in SUBSET Nat, S # {}
  PROVE  \E m \in S : \A n \in S : m <= n
  <1> DEFINE R == {ss \in Nat \X Nat : ss[1] < ss[2]}
  <1>1. IsWellFoundedOn(R, Nat)
    BY NatLessThanWellFounded DEF OpToRel
  <1>2. PICK m \in S : \A n \in S : <<n, m>> \notin R
    <2> HIDE DEF R
    <2> QED
      BY <1>1, WFMin
  <1>3. ASSUME NEW n \in S PROVE m <= n
    <2>1. <<n, m>> \in Nat \X Nat /\ <<n, m>>[1] = n /\ <<n, m>>[2] = m
      OBVIOUS
    <2>2. ~(n < m)
      BY <1>2, <2>1
    <2>3. n \in Int /\ m \in Int
      OBVIOUS
    <2> QED
      BY <2>2, <2>3
  <1> QED
    BY <1>3

\* What holds for 0, and for every number after one it holds for, holds for
\* all: S is the set of the numbers it holds for.
LEMMA AllNumbers ==
  ASSUME NEW S, 0 \in S, \A n \in Nat : n \in S => n + 1 \in S
  PROVE  Nat \subseteq S
  <1> SUFFICES ASSUME Nat \ S # {} PROVE FALSE
    OBVIOUS
  <1>1. PICK m \in Nat \ S : \A n \in Nat \ S : m <= n
    BY LeastNumber
  <1>2. m - 1 \in Nat /\ m - 1 \in S
    BY <1>1
  <1> QED
    BY <1>1, <1>2

\* A finite set that is ordered has a last element.
LEMMA LastElement ==
  ASSUME NEW S, IsFiniteSet(S), S # {}, NEW R,
         \A x \in S : <<x, x>> \notin R,
         \A x, y, z \in S : <<x, y>> \in R /\ <<y, z>> \in R => <<x, z>> \in R
  PROVE  \E x \in S : \A y \in S : <<x, y>> \notin R
  <1> DEFINE Above(x) == {y \in S : <<x, y>> \in R}
             Sizes == {Cardinality(Above(x)) : x \in S}
  <1>1. ASSUME NEW x \in S
        PROVE  IsFiniteSet(Above(x)) /\ Cardinality(Above(x)) \in Nat
    <2>1. Above(x) \in SUBSET S
      OBVIOUS
    <2> HIDE DEF Above
    <2>2. IsFiniteSet(Above(x))
      BY <2>1, FS_Subset
    <2> QED
      BY <2>2, FS_CardinalityType
  <1> HIDE DEF Above
  <1>2. PICK m \in Sizes : \A n \in Sizes : m <= n
    <2>1. Sizes \in SUBSET Nat /\ Sizes # {}
      BY <1>1
    <2> HIDE DEF Sizes
    <2> QED
      BY <2>1, LeastNumber
  <1>3. PICK x \in S : m = Cardinality(Above(x))
    BY <1>2
  <1>4. ASSUME NEW y \in S, <<x, y>> \in R PROVE FALSE
    <2>1. Above(y) \in SUBSET Above(x) /\ Above(y) # Above(x)
      <3>1. \A z \in Above(y) : z \in Above(x)
        BY <1>4 DEF Above
      <3>2. y \in Above(x) /\ y \notin Above(y)
        BY <1>4 DEF Above
      <3> QED
        BY <3>1, <3>2
    <2>2. Cardinality(Above(y)) <= Cardinality(Above(x)) /\ Cardinality(Above(y)) # Cardinality(Above(x))
      BY <1>1, <2>1, FS_Subset
    <2>3. Cardinality(Above(y)) \in Sizes
      OBVIOUS
    <2>4. Cardinality(Above(x)) <= Cardinality(Above(y))
      BY <1>2, <1>3, <2>3
    <2>5. Cardinality(Above(x)) \in Int /\ Cardinality(Above(y)) \in Int
      BY <1>1
    <2> QED
      BY <2>2, <2>4, <2>5
  <1> QED
    BY <1>4

-----------------------------------------------------------------------------
(* Positions on a level and sorted levels.                                 *)

Heads == {Head[i] : i \in Level}
Tails == {Tail[i] : i \in Level}

\* The order of the positions on a level, when f[n] is the key of node n:
\* m is left of n; n is short of the key k, and past it.
Left(f, m, n) == /\ m \notin Tails /\ n \notin Heads
                 /\ m \in Heads \/ n \in Tails \/ f[m] < f[n]
Short(f, n, k) == n \in Heads \/ (n \notin Tails /\ f[n] < k)
Past(f, n, k)  == n \in Tails \/ (n \notin Heads /\ f[n] > k)

KeysOf(f, S) == \A n \in S : IF n \in Sentinel THEN f[n] = NoKey ELSE f[n] \in Key

\* Each level is a sorted list without gaps from its head to its tail.  Here
\* and below, on is the set of nodes that are linked and at[n] is the level
\* of the live node n: neither is part of the state, and both exist.
ListInv(at, on) ==
  /\ on \subseteq alive /\ Sentinel \subseteq on
  /\ \A i \in Level : at[Head[i]] = i /\ at[Tail[i]] = i
  /\ KeysOf(key, alive)
  /\ \A n \in on \cap Tails : next[n] = Null
  /\ \A n \in on \ Tails : next[n] \in on /\ at[next[n]] = at[n] /\ Left(key, n, next[n])
  /\ \A m, n \in on : at[m] = at[n] /\ Left(key, m, n) => n = next[m] \/ Left(key, next[m], n)
  /\ \A m, n \in on : at[m] = at[n] /\ m # n => Left(key, m, n) \/ Left(key, n, m)

-----------------------------------------------------------------------------
(* The order of positions.                                                 *)

\* Heads and tails are different nodes.
LEMMA SentinelSets ==
  /\ Sentinel = Heads \cup Tails
  /\ Heads \cap Tails = {}
  /\ Heads \subseteq Node /\ Tails \subseteq Node
  BY HeapAssumption DEF Sentinel, Heads, Tails

\* Positions are ordered like keys, the head before and the tail behind
\* every key.
LEMMA Order ==
  ASSUME NEW f, NEW S, KeysOf(f, S)
  PROVE  /\ \A m \in S : ~Left(f, m, m)
         /\ \A m, n, p \in S : Left(f, m, n) /\ Left(f, n, p) => Left(f, m, p)
         /\ \A m, n \in S : ~(Left(f, m, n) /\ Left(f, n, m))
  <1>1. \A n \in S : n \notin Heads /\ n \notin Tails => f[n] \in Int
    BY SentinelSets, CallAssumption DEF KeysOf
  <1>2. \A n : ~(n \in Heads /\ n \in Tails)
    BY SentinelSets
  <1> QED
    BY <1>1, <1>2 DEF Left

\* Where the places of a key are: one that is short of it is left of one that
\* is not, and what is right of the key is past it.
LEMMA OrderOfKeys ==
  ASSUME NEW f, NEW S, KeysOf(f, S), NEW k \in Key
  PROVE  /\ \A n \in S : ~(Short(f, n, k) /\ Past(f, n, k))
         /\ \A n \in S : f[n] = k => ~Short(f, n, k) /\ ~Past(f, n, k) /\ n \notin Sentinel
         /\ \A n \in S : Short(f, n, k) \/ Past(f, n, k) \/ f[n] = k
         /\ \A m, n \in S : Short(f, m, k) /\ ~Short(f, n, k) => Left(f, m, n)
         /\ \A m, n \in S : ~Past(f, m, k) /\ Past(f, n, k) => Left(f, m, n)
         /\ \A m, n \in S : Left(f, m, n) /\ Short(f, n, k) => Short(f, m, k)
         /\ \A m, n \in S : Left(f, m, n) /\ Past(f, m, k) => Past(f, n, k)
         /\ \A m, n \in S : Left(f, m, n) /\ f[m] = k => Past(f, n, k)
         /\ \A m, n \in S : Left(f, m, n) /\ f[n] = k => Short(f, m, k)
  <1>1. \A n \in S : n \notin Heads /\ n \notin Tails => f[n] \in Int /\ n \notin Sentinel
    BY SentinelSets, CallAssumption DEF KeysOf
  <1>2. \A n \in S : n \in Heads \cup Tails => f[n] # k
    BY SentinelSets, CallAssumption DEF KeysOf
  <1>3. \A n : ~(n \in Heads /\ n \in Tails)
    BY SentinelSets
  <1>4. k \in Int
    BY CallAssumption
  <1>5. \A n \in S : f[n] = k => n \notin Heads /\ n \notin Tails
    BY <1>2
  <1>6. \A n \in S : f[n] = k => ~Short(f, n, k) /\ ~Past(f, n, k) /\ n \notin Sentinel
    BY <1>1, <1>4, <1>5 DEF Short, Past
  <1> QED
    BY <1>1, <1>3, <1>4, <1>6 DEF Left, Short, Past

\* What is past the farther of two keys is past the nearer one.
LEMMA OrderOfTwoKeys ==
  ASSUME NEW f, NEW S, KeysOf(f, S), NEW j \in Key, NEW k \in Key, j <= k
  PROVE  /\ \A n \in S : Past(f, n, k) => Past(f, n, j)
         /\ \A n \in S : Short(f, n, j) => Short(f, n, k)
  <1>1. \A n \in S : n \notin Heads /\ n \notin Tails => f[n] \in Int
    BY SentinelSets, CallAssumption DEF KeysOf
  <1> QED
    BY <1>1, CallAssumption DEF Short, Past

\* Only the keys of the two nodes matter.
LEMMA SameOrder ==
  ASSUME NEW f, NEW g, NEW m, NEW n, f[m] = g[m], f[n] = g[n]
  PROVE  /\ Left(f, m, n) <=> Left(g, m, n)
         /\ \A k : Short(f, n, k) <=> Short(g, n, k)
         /\ \A k : Past(f, n, k) <=> Past(g, n, k)
  BY DEF Left, Short, Past

\* What a search finds out about the node to its right.
LEMMA Comparisons ==
  ASSUME NEW at, NEW on \in SUBSET Node, ListInv(at, on), NEW c \in on \ Heads, NEW k \in Key
  PROVE  /\ Beyond(c, k) <=> Past(key, c, k)
         /\ Equal(c, k) <=> key[c] = k
         /\ Before(c, k) <=> Short(key, c, k)
  <1>1. next[c] = Null <=> c \in Tails
    BY HeapAssumption, SentinelSets DEF ListInv
  <1>2. IF c \in Tails THEN key[c] = NoKey ELSE key[c] \in Key
    BY SentinelSets DEF ListInv, KeysOf
  <1> QED
    BY <1>1, <1>2, CallAssumption DEF Beyond, Equal, Before, Past, Short

-----------------------------------------------------------------------------
(* The nodes of a list.                                                    *)

\* One step further along next.
Further(S) == S \cup ({next[n] : n \in S} \ {Null})

\* The nodes Chain collects: one step further each time.
LEMMA ChainSteps ==
  ASSUME next \in [Node -> Pointer], NEW i \in Level
  PROVE \E w : /\ w[0] = {Head[i]}
               /\ \A j \in Nat : w[j+1] = Further(w[j])
               /\ Chain(i) = w[Cardinality(Node)]
  <1> DEFINE w == CHOOSE within : within = [j \in Nat |-> IF j = 0 THEN {Head[i]} ELSE
                    LET near == within[j-1]
                    IN near \cup ({next[n] : n \in near} \ {Null})]
             Path(p, j) == /\ p \in [0..j -> Node] /\ p[0] = Head[i]
                           /\ \A a \in 1..j : p[a] = p[a-1] \/ p[a] = next[p[a-1]]
             F == [j \in Nat |-> {n \in Node : \E p : Path(p, j) /\ p[j] = n}]
  <1>1. Chain(i) = w[Cardinality(Node)]
    BY DEF Chain
  <1>2. F[0] = {Head[i]}
    <2>1. ASSUME NEW n \in F[0] PROVE n = Head[i]
      BY <2>1
    <2>2. Path([a \in 0..0 |-> Head[i]], 0)
      BY HeapAssumption
    <2>3. Head[i] \in Node
      BY HeapAssumption
    <2>4. Head[i] \in F[0]
      BY <2>2, <2>3
    <2> QED
      BY <2>1, <2>4
  <1>3. ASSUME NEW j \in Nat PROVE F[j+1] = Further(F[j])
    <2>1. ASSUME NEW n \in F[j+1] PROVE n \in Further(F[j])
      <3>1. PICK p : Path(p, j+1) /\ p[j+1] = n
        BY <2>1
      <3> DEFINE r == [a \in 0..j |-> p[a]]
      <3>2. r \in [0..j -> Node] /\ r[0] = Head[i] /\ r[j] = p[j]
        BY <3>1
      <3>3. \A a \in 1..j : r[a] = r[a-1] \/ r[a] = next[r[a-1]]
        <4> TAKE a \in 1..j
        <4>1. a \in 1..(j+1) /\ a \in 0..j /\ a-1 \in 0..j
          OBVIOUS
        <4> QED
          BY <3>1, <4>1
      <3>4. p[j] \in F[j]
        <4> HIDE DEF r
        <4>1. Path(r, j)
          BY <3>2, <3>3
        <4>2. r[j] \in Node
          BY <3>2
        <4> QED
          BY <3>2, <4>1, <4>2
      <3>5. n = p[j] \/ n = next[p[j]]
        BY <3>1
      <3>6. n \in Node
        BY <2>1
      <3> QED
        BY <3>4, <3>5, <3>6, HeapAssumption DEF Further
    <2>2. ASSUME NEW n \in Further(F[j]) PROVE n \in F[j+1]
      <3>1. PICK m \in F[j] : n = m \/ (n = next[m] /\ n # Null)
        BY <2>2 DEF Further
      <3>2. m \in Node
        OBVIOUS
      <3>3. n \in Node
        BY <3>1, <3>2 DEF Pointer
      <3>4. PICK p : Path(p, j) /\ p[j] = m
        OBVIOUS
      <3> DEFINE q == [a \in 0..(j+1) |-> IF a = j+1 THEN n ELSE p[a]]
      <3>5. q \in [0..(j+1) -> Node] /\ q[0] = Head[i] /\ q[j+1] = n
        BY <3>3, <3>4
      <3>6. ASSUME NEW a \in 1..(j+1) PROVE q[a] = q[a-1] \/ q[a] = next[q[a-1]]
        <4>1. CASE a = j+1
          BY <3>1, <3>4, <4>1
        <4>2. CASE a # j+1
          <5>1. a \in 1..j /\ a-1 \in 0..j
            BY <4>2
          <5> QED
            BY <3>4, <5>1
        <4> QED
          BY <4>1, <4>2
      <3> HIDE DEF q
      <3>7. Path(q, j+1) /\ j+1 \in Nat
        BY <3>5, <3>6
      <3> QED
        BY <3>3, <3>5, <3>7
    <2> QED
      BY <2>1, <2>2
  <1>4. F = [j \in Nat |-> IF j = 0 THEN {Head[i]} ELSE
                    LET near == F[j-1]
                    IN near \cup ({next[n] : n \in near} \ {Null})]
    <2>1. ASSUME NEW j \in Nat
          PROVE F[j] = IF j = 0 THEN {Head[i]} ELSE Further(F[j-1])
      <3>1. CASE j = 0
        BY <1>2, <3>1
      <3>2. CASE j # 0
        <4>1. j - 1 \in Nat /\ (j-1)+1 = j
          BY <3>2
        <4> QED
          BY <1>3, <3>2, <4>1
      <3> QED
        BY <3>1, <3>2
    <2> HIDE DEF F
    <2>2. F = [j \in Nat |-> F[j]]
      BY DEF F
    <2> QED
      BY <2>1, <2>2 DEF Further
  <1>5. w = [j \in Nat |-> IF j = 0 THEN {Head[i]} ELSE
                    LET near == w[j-1]
                    IN near \cup ({next[n] : n \in near} \ {Null})]
    BY <1>4
  <1> HIDE DEF w
  <1>6. w[0] = {Head[i]}
    BY <1>5
  <1>7. \A j \in Nat : w[j+1] = Further(w[j])
    <2> TAKE j \in Nat
    <2>1. j+1 \in Nat /\ j+1 # 0 /\ (j+1)-1 = j
      OBVIOUS
    <2>2. w[j+1] = Further(w[(j+1)-1])
      BY <1>5, <2>1 DEF Further
    <2> QED
      BY <2>1, <2>2
  <1> QED
    BY <1>1, <1>6, <1>7

\* The list of a level begins at the head and goes on as far as there is a
\* next node.
LEMMA ChainClosed ==
  ASSUME next \in [Node -> Pointer], NEW i \in Level
  PROVE  /\ Head[i] \in Chain(i) /\ Chain(i) \subseteq Node
         /\ \A n \in Chain(i) : next[n] # Null => next[n] \in Chain(i)
  <1>1. PICK w : /\ w[0] = {Head[i]}
                 /\ \A j \in Nat : w[j+1] = Further(w[j])
                 /\ Chain(i) = w[Cardinality(Node)]
    BY ChainSteps
  <1> DEFINE Shut(S) == \A n \in S : next[n] # Null => next[n] \in S
             Good(j) == /\ Head[i] \in w[j] /\ w[j] \in SUBSET Node
                        /\ Shut(w[j]) \/ Cardinality(w[j]) > j
             Ok == {j \in Nat : Good(j)}
  <1>2. Good(0)
    <2>1. Cardinality({Head[i]}) = 1
      BY FS_Singleton
    <2> QED
      BY <1>1, <2>1, HeapAssumption
  <1>3. ASSUME NEW j \in Nat, Good(j) PROVE Good(j+1)
    <2>1. w[j+1] = Further(w[j])
      BY <1>1
    <2>2. Head[i] \in w[j+1] /\ w[j+1] \in SUBSET Node /\ w[j] \subseteq w[j+1]
      BY <1>3, <2>1 DEF Further, Pointer
    <2>3. CASE Shut(w[j])
      <3>1. w[j+1] = w[j]
        BY <2>1, <2>3 DEF Further
      <3> QED
        BY <2>2, <2>3, <3>1
    <2>4. CASE ~Shut(w[j])
      <3>1. PICK n \in w[j] : next[n] # Null /\ next[n] \notin w[j]
        BY <2>4
      <3>2. next[n] \in w[j+1]
        BY <2>1, <3>1 DEF Further
      <3>3. IsFiniteSet(w[j]) /\ IsFiniteSet(w[j+1])
        BY <1>3, <2>2, FS_Subset, HeapAssumption
      <3>4. Cardinality(w[j]) < Cardinality(w[j+1])
        <4>1. w[j] \in SUBSET w[j+1] /\ w[j] # w[j+1]
          BY <2>2, <3>1, <3>2
        <4>2. Cardinality(w[j]) \in Nat /\ Cardinality(w[j+1]) \in Nat
          BY <3>3, FS_CardinalityType
        <4>3. Cardinality(w[j]) <= Cardinality(w[j+1]) /\ Cardinality(w[j]) # Cardinality(w[j+1])
          BY <3>3, <4>1, FS_Subset
        <4> QED
          BY <4>2, <4>3
      <3>5. Cardinality(w[j]) \in Nat /\ Cardinality(w[j+1]) \in Nat
        BY <3>3, FS_CardinalityType
      <3>6. Cardinality(w[j]) > j
        BY <1>3, <2>4
      <3> QED
        BY <2>2, <3>4, <3>5, <3>6
    <2> QED
      BY <2>3, <2>4
  <1> HIDE DEF Good
  <1>4. Nat \subseteq Ok
    <2>1. 0 \in Ok
      BY <1>2
    <2>2. \A j \in Nat : j \in Ok => j+1 \in Ok
      BY <1>3
    <2> HIDE DEF Ok
    <2> QED
      BY <2>1, <2>2, AllNumbers
  <1>5. Cardinality(Node) \in Nat
    BY FS_CardinalityType, HeapAssumption
  <1>6. Good(Cardinality(Node))
    BY <1>4, <1>5
  <1>7. Chain(i) \in SUBSET Node /\ Cardinality(Chain(i)) <= Cardinality(Node)
    <2>1. Chain(i) \in SUBSET Node
      BY <1>1, <1>6 DEF Good
    <2> QED
      BY <2>1, FS_Subset, HeapAssumption
  <1>8. Cardinality(Chain(i)) \in Nat
    BY <1>7, FS_Subset, FS_CardinalityType, HeapAssumption
  <1>9. Shut(Chain(i))
    BY <1>1, <1>5, <1>6, <1>7, <1>8 DEF Good
  <1> QED
    BY <1>1, <1>6, <1>7, <1>9 DEF Good

\* And it holds no other nodes.
LEMMA ChainLeast ==
  ASSUME next \in [Node -> Pointer], NEW i \in Level, NEW S, Head[i] \in S,
         \A n \in S : next[n] # Null => next[n] \in S
  PROVE  Chain(i) \subseteq S
  <1>1. PICK w : /\ w[0] = {Head[i]}
                 /\ \A j \in Nat : w[j+1] = Further(w[j])
                 /\ Chain(i) = w[Cardinality(Node)]
    BY ChainSteps
  <1> DEFINE Ok == {j \in Nat : w[j] \subseteq S}
  <1>2. 0 \in Ok
    BY <1>1
  <1>3. ASSUME NEW j \in Nat, j \in Ok PROVE j+1 \in Ok
    <2>1. w[j+1] = Further(w[j])
      BY <1>1
    <2> QED
      BY <1>3, <2>1 DEF Further
  <1>4. Nat \subseteq Ok
    <2> HIDE DEF Ok
    <2> QED
      BY <1>2, <1>3, AllNumbers
  <1>5. Cardinality(Node) \in Nat
    BY FS_CardinalityType, HeapAssumption
  <1> QED
    BY <1>1, <1>4, <1>5

\* Chain finds the nodes that are linked on the level, and only those.
LEMMA ChainOfList ==
  ASSUME HeapTypeOK, NEW at, NEW on \in SUBSET Node, ListInv(at, on), NEW i \in Level
  PROVE  Chain(i) = {n \in on : at[n] = i}
  <1>1. next \in [Node -> Pointer]
    BY DEF HeapTypeOK
  <1>2. Head[i] \in on /\ at[Head[i]] = i /\ Head[i] \in Heads
    BY DEF ListInv, Sentinel, Heads
  <1>3. \A n \in on : next[n] # Null =>
          next[n] \in on /\ at[next[n]] = at[n] /\ Left(key, n, next[n])
    BY DEF ListInv
  <1>4. Chain(i) \subseteq {n \in on : at[n] = i}
    <2> DEFINE S == {n \in on : at[n] = i}
    <2>1. Head[i] \in S /\ \A n \in S : next[n] # Null => next[n] \in S
      BY <1>2, <1>3
    <2> HIDE DEF S
    <2>2. Chain(i) \subseteq S
      BY <1>1, <2>1, ChainLeast
    <2> QED
      BY <2>2 DEF S
  <1>5. ASSUME NEW n \in on, at[n] = i, n \notin Chain(i) PROVE FALSE
    <2> DEFINE C == {m \in Chain(i) : Left(key, m, n)}
               R == {e \in Node \X Node : Left(key, e[1], e[2])}
    <2>1. Head[i] \in C
      <3>1. Head[i] \in Chain(i)
        BY <1>1, ChainClosed
      <3>2. Left(key, Head[i], n) \/ Left(key, n, Head[i])
        BY <1>2, <1>5, <3>1 DEF ListInv
      <3> QED
        BY <1>2, <3>1, <3>2 DEF Left
    <2>2. C \subseteq on /\ IsFiniteSet(C)
      <3>1. C \in SUBSET Node
        BY <1>4
      <3> QED
        BY <1>4, <3>1, FS_Subset, HeapAssumption
    <2>3. KeysOf(key, C)
      BY <2>2 DEF ListInv, KeysOf
    <2>3a. \A x, y \in C : <<x, y>> \in R <=> Left(key, x, y)
      BY <2>2
    <2>4. /\ \A x \in C : <<x, x>> \notin R
          /\ \A x, y, z \in C : <<x, y>> \in R /\ <<y, z>> \in R => <<x, z>> \in R
      <3> HIDE DEF C, R
      <3> QED
        BY <2>3, <2>3a, Order
    <2>5. PICK m \in C : \A y \in C : <<m, y>> \notin R
      <3> HIDE DEF C, R
      <3> QED
        BY <2>1, <2>2, <2>4, LastElement
    <2>6. m \in on \ Tails /\ at[m] = i /\ m \in Chain(i) /\ Left(key, m, n)
      BY <1>4, <2>2 DEF Left
    <2>7. n = next[m] \/ Left(key, next[m], n)
      BY <1>5, <2>6 DEF ListInv
    <2>8. next[m] \in on /\ Left(key, m, next[m])
      BY <2>6 DEF ListInv
    <2>9. next[m] \in Chain(i)
      BY <1>1, <2>6, <2>8, ChainClosed, HeapAssumption
    <2>10. next[m] \in C
      BY <1>5, <2>7, <2>9
    <2> QED
      BY <2>3a, <2>5, <2>6, <2>8, <2>10
  <1> QED
    BY <1>4, <1>5

\* So such levels are sorted from the head to the tail.
LEMMA ListIsSorted ==
  ASSUME HeapTypeOK, NEW at, NEW on \in SUBSET Node, ListInv(at, on)
  PROVE  LevelsSorted
  <1> SUFFICES ASSUME NEW i \in Level
               PROVE  /\ Tail[i] \in Chain(i)
                      /\ \A n \in Chain(i) : next[n] # Null => Ordered(i, n, next[n])
    BY DEF LevelsSorted
  <1>1. Chain(i) = {n \in on : at[n] = i}
    BY ChainOfList
  <1>2. Tail[i] \in Chain(i)
    BY <1>1 DEF ListInv, Sentinel
  <1>3. ASSUME NEW n \in Chain(i), next[n] # Null PROVE Ordered(i, n, next[n])
    <2>1. next[n] \in on /\ at[next[n]] = i /\ Left(key, n, next[n])
      BY <1>1, <1>3 DEF ListInv
    <2>2. n \in Heads => n = Head[i]
      BY <1>1 DEF Heads, ListInv
    <2>3. next[n] \in Tails => next[n] = Tail[i]
      BY <2>1 DEF Tails, ListInv
    <2> QED
      BY <2>1, <2>2, <2>3 DEF Ordered, Left
  <1> QED
    BY <1>2, <1>3

-----------------------------------------------------------------------------
(* The map the nodes stand for.                                            *)

\* No key has a value twice, when f[n] is the key of node n and g[n] its value.
OneHolder(f, g) ==
  \A m, n \in Node : g[m] # NoValue /\ g[n] # NoValue /\ f[m] = f[n] => m = n

BoundTo(f, g, k) ==
  LET holders == {n \in Node : f[n] = k /\ g[n] # NoValue}
  IN IF holders = {} THEN NoValue ELSE g[CHOOSE n \in holders : TRUE]

\* Then the node that has a value says what its key is bound to.
LEMMA BoundToOf ==
  ASSUME NEW f, NEW g, OneHolder(f, g), NEW k
  PROVE  /\ \A n \in Node : f[n] = k /\ g[n] # NoValue => BoundTo(f, g, k) = g[n]
         /\ (\A n \in Node : f[n] # k \/ g[n] = NoValue) => BoundTo(f, g, k) = NoValue
  <1> DEFINE holders == {n \in Node : f[n] = k /\ g[n] # NoValue}
  <1>1. BoundTo(f, g, k) = IF holders = {} THEN NoValue ELSE g[CHOOSE n \in holders : TRUE]
    BY DEF BoundTo
  <1>2. ASSUME NEW n \in holders PROVE (CHOOSE m \in holders : TRUE) = n
    <2>1. (CHOOSE m \in holders : TRUE) \in holders
      BY <1>2
    <2> QED
      BY <2>1 DEF OneHolder
  <1> QED
    BY <1>1, <1>2

LEMMA ContentsOf ==
  ASSUME OneHolder(key, val), NEW k \in Key
  PROVE  /\ \A n \in Node : key[n] = k /\ val[n] # NoValue => Contents[k] = val[n]
         /\ (\A n \in Node : key[n] # k \/ val[n] = NoValue) => Contents[k] = NoValue
  <1>1. Contents[k] = BoundTo(key, val, k)
    BY DEF Contents, BoundTo
  <1> QED
    BY <1>1, BoundToOf

\* Steps that change no node with a value keep the map.
LEMMA ContentsSame ==
  ASSUME \A n \in Node : val[n] # NoValue \/ val'[n] # NoValue
                           => key'[n] = key[n] /\ val'[n] = val[n]
  PROVE  Contents' = Contents
  <1>1. ASSUME NEW k \in Key PROVE Contents'[k] = Contents[k]
    <2> DEFINE S == {n \in Node : key[n] = k /\ val[n] # NoValue}
               T == {n \in Node : key'[n] = k /\ val'[n] # NoValue}
    <2>1. S = T
      OBVIOUS
    <2>2. Contents[k] = IF S = {} THEN NoValue ELSE val[CHOOSE n \in S : TRUE]
      BY DEF Contents
    <2>3. Contents'[k] = IF T = {} THEN NoValue ELSE val'[CHOOSE n \in T : TRUE]
      BY DEF Contents
    <2>4. S # {} => (CHOOSE n \in S : TRUE) \in S
      OBVIOUS
    <2> QED
      BY <2>1, <2>2, <2>3, <2>4
  <1>2. Contents = [k \in Key |-> Contents[k]] /\ Contents' = [k \in Key |-> Contents'[k]]
    BY DEF Contents
  <1> QED
    BY <1>1, <1>2

\* A node gets a value, a new one or in place of another: its key is bound
\* to it, the others stay bound.  Or its value goes.
LEMMA ContentsChange ==
  ASSUME OneHolder(key, val), OneHolder(key', val'), NEW n \in Node, NEW k \in Key, NEW v,
         val[n] # NoValue => key[n] = k, val'[n] # NoValue => key'[n] = k,
         val'[n] = v, val[n] # NoValue \/ v # NoValue,
         \A m \in Node \ {n} : val[m] # NoValue \/ val'[m] # NoValue
                                 => key'[m] = key[m] /\ val'[m] = val[m]
  PROVE  Contents' = [Contents EXCEPT ![k] = v]
  <1>0. ASSUME NEW j \in Key
        PROVE  Contents[j] = BoundTo(key, val, j) /\ Contents'[j] = BoundTo(key', val', j)
    BY DEF Contents, BoundTo
  <1>1. Contents'[k] = v
    <2>1. CASE v # NoValue
      BY <2>1, <1>0, BoundToOf
    <2>2. CASE v = NoValue
      <3>1. \A m \in Node : key'[m] # k \/ val'[m] = NoValue
        BY <2>2 DEF OneHolder
      <3> QED
        BY <2>2, <3>1, <1>0, BoundToOf
    <2> QED
      BY <2>1, <2>2
  <1>2. ASSUME NEW j \in Key, j # k PROVE Contents'[j] = Contents[j]
    <2>1. CASE \E m \in Node : key[m] = j /\ val[m] # NoValue
      <3>1. PICK m \in Node : key[m] = j /\ val[m] # NoValue
        BY <2>1
      <3>2. key'[m] = j /\ val'[m] = val[m]
        BY <1>2, <3>1
      <3> QED
        BY <3>1, <3>2, <1>0, BoundToOf
    <2>2. CASE \A m \in Node : key[m] # j \/ val[m] = NoValue
      <3>1. \A m \in Node : key'[m] # j \/ val'[m] = NoValue
        BY <1>2, <2>2
      <3> QED
        BY <2>2, <3>1, <1>0, BoundToOf
    <2> QED
      BY <2>1, <2>2
  <1>3. Contents = [j \in Key |-> Contents[j]] /\ Contents' = [j \in Key |-> Contents'[j]]
    BY DEF Contents
  <1> QED
    BY <1>1, <1>2, <1>3

-----------------------------------------------------------------------------
(* What the operations do to a list.                                       *)

\* A new node n of key k goes behind p.
Linked(p, n, k) ==
  /\ n \in Node \ alive /\ alive' = alive \cup {n}
  /\ key'[n] = k /\ next'[n] = next[p]
  /\ \A m \in alive : /\ key'[m] = key[m]
                      /\ next'[m] = IF m = p THEN n ELSE next[m]

\* The levels with a new node on level i in place.
Grown(at, on, at2, on2, i, n) ==
  on2 = on \cup {n} /\ at2[n] = i /\ \A m \in Node \ {n} : at2[m] = at[m]

\* The node c behind p is taken out of its level, and it may be deleted.
Unlinked(p, c) ==
  /\ alive' \subseteq alive /\ alive \ {c} \subseteq alive'
  /\ \A n \in alive \ {c} : /\ key'[n] = key[n]
                            /\ next'[n] = IF n = p THEN next[c] ELSE next[n]
  /\ c \in alive' => key'[c] = key[c]

\* Between the last node short of its key and the first one past it, the new
\* node stands right behind p.
LEMMA LinkedPlace ==
  ASSUME NEW at \in [Node -> Level], NEW on \in SUBSET Node, ListInv(at, on), alive \subseteq Node,
         NEW p \in on \ Tails, NEW k \in Key, NEW n \in Node, Linked(p, n, k),
         Short(key, p, k), Past(key, next[p], k)
  PROVE  /\ n \notin Heads /\ n \notin Tails
         /\ KeysOf(key', alive')
         /\ \A l, m \in alive : Left(key', l, m) <=> Left(key, l, m)
         /\ \A m \in on : at[m] = at[p] =>
              /\ Left(key', m, n) <=> (m = p \/ Left(key, m, p))
              /\ Left(key', n, m) <=> Left(key, p, m)
  <1> DEFINE c == next[p]
  <1>1. /\ c \in on /\ at[c] = at[p] /\ Left(key, p, c)
        /\ KeysOf(key, alive) /\ on \subseteq alive
    BY DEF ListInv
  <1>2. n \notin Heads /\ n \notin Tails /\ n \notin Sentinel
    BY SentinelSets DEF Linked, ListInv
  <1>3. \A l, m \in alive : Left(key', l, m) <=> Left(key, l, m)
    BY SameOrder DEF Linked
  <1>4. KeysOf(key', alive')
    BY <1>1, <1>2 DEF Linked, KeysOf
  <1>5. ASSUME NEW m \in on, at[m] = at[p]
        PROVE  /\ Left(key', m, n) <=> (m = p \/ Left(key, m, p))
               /\ Left(key', n, m) <=> Left(key, p, m)
    <2>1. m \in alive /\ key'[m] = key[m] /\ key'[n] = k
      BY <1>1 DEF Linked
    <2>2. ~(m \in Heads /\ m \in Tails)
      BY SentinelSets
    <2>3. Left(key', m, n) <=> Short(key, m, k)
      BY <1>2, <2>1, <2>2 DEF Left, Short
    <2>4. Left(key', n, m) <=> Past(key, m, k)
      <3>1. m \notin Sentinel => key[m] \in Int
        BY <1>1, <2>1, CallAssumption DEF KeysOf
      <3>2. k \in Int
        BY CallAssumption
      <3> QED
        BY <1>2, <2>1, <2>2, <3>1, <3>2, SentinelSets DEF Left, Past
    <2>5. m = p \/ Left(key, m, p) \/ Left(key, p, m)
      BY <1>5 DEF ListInv
    <2>6. CASE m = p
      BY <1>1, <2>1, <2>3, <2>4, <2>6, Order, OrderOfKeys
    <2>7. CASE Left(key, m, p)
      <3>1. Short(key, m, k)
        BY <1>1, <2>1, <2>7, OrderOfKeys
      <3>2. ~Past(key, m, k)
        BY <1>1, <2>1, <3>1, OrderOfKeys
      <3>3. ~Left(key, p, m)
        BY <1>1, <2>1, <2>7, Order
      <3> QED
        BY <2>3, <2>4, <2>7, <3>1, <3>2, <3>3
    <2>8. CASE Left(key, p, m)
      <3>1. Past(key, m, k)
        <4>1. m = c \/ Left(key, c, m)
          BY <1>5, <2>8 DEF ListInv
        <4> QED
          BY <1>1, <2>1, <4>1, OrderOfKeys
      <3>2. ~Short(key, m, k)
        BY <1>1, <2>1, <3>1, OrderOfKeys
      <3>3. m # p /\ ~Left(key, m, p)
        BY <1>1, <2>1, <2>8, Order
      <3> QED
        BY <2>3, <2>4, <2>8, <3>1, <3>2, <3>3
    <2> QED
      BY <2>5, <2>6, <2>7, <2>8
  <1> QED
    BY <1>2, <1>3, <1>4, <1>5

\* So the level stays a sorted list without gaps.
LEMMA ListGrows ==
  ASSUME NEW at \in [Node -> Level], NEW on \in SUBSET Node, ListInv(at, on), alive \subseteq Node,
         NEW p \in on \ Tails, NEW k \in Key, NEW n \in Node, Linked(p, n, k),
         Short(key, p, k), Past(key, next[p], k),
         NEW at2 \in [Node -> Level], NEW on2 \in SUBSET Node, Grown(at, on, at2, on2, at[p], n)
  PROVE  ListInv(at2, on2)'
  <1> DEFINE c == next[p]
             h == at[p]
  <1>1. /\ c \in on /\ at[c] = h /\ Left(key, p, c)
        /\ on \subseteq alive /\ n \notin Heads /\ n \notin Tails
        /\ KeysOf(key', alive') /\ KeysOf(key, alive)
    <2>1. n \notin Heads /\ n \notin Tails /\ KeysOf(key', alive')
      BY LinkedPlace
    <2> QED
      BY <2>1 DEF ListInv
  <1>2. \A l, m \in on : Left(key', l, m) <=> Left(key, l, m)
    BY <1>1, LinkedPlace
  <1>3. \A m \in on : at[m] = h =>
              /\ Left(key', m, n) <=> (m = p \/ Left(key, m, p))
              /\ Left(key', n, m) <=> Left(key, p, m)
    BY LinkedPlace
  <1>4. /\ n \notin on /\ at2[n] = h /\ next'[n] = c
        /\ \A m \in on : at2[m] = at[m] /\ next'[m] = IF m = p THEN n ELSE next[m]
        /\ on2 = on \cup {n}
    BY <1>1 DEF Linked, Grown
  <1>5. on2 \subseteq alive' /\ Sentinel \subseteq on2
    BY <1>1, <1>4 DEF ListInv, Linked
  <1>6. \A i \in Level : at2[Head[i]] = i /\ at2[Tail[i]] = i
    BY <1>1, <1>4, SentinelSets DEF ListInv, Heads, Tails
  <1>7. \A m \in on2 \cap Tails : next'[m] = Null
    BY <1>1, <1>4 DEF ListInv
  <1>8. ASSUME NEW m \in on2 \ Tails
        PROVE  next'[m] \in on2 /\ at2[next'[m]] = at2[m] /\ Left(key', m, next'[m])
    <2>1. CASE m = p
      BY <1>1, <1>3, <1>4, <2>1
    <2>2. CASE m = n
      BY <1>1, <1>3, <1>4, <2>2
    <2>3. CASE m \in on /\ m # p
      BY <1>2, <1>4, <2>3 DEF ListInv
    <2> QED
      BY <1>4, <2>1, <2>2, <2>3
  <1>9. ASSUME NEW l \in on, NEW m \in on, at[l] = at[m], Left(key, l, m)
        PROVE  m = next[l] \/ Left(key, next[l], m)
    BY <1>9 DEF ListInv
  <1>10. \A l, m \in on : at[l] = at[m] /\ l # m => Left(key, l, m) \/ Left(key, m, l)
    BY DEF ListInv
  <1>11. ASSUME NEW l \in on2, NEW m \in on2, at2[l] = at2[m], Left(key', l, m)
         PROVE  m = next'[l] \/ Left(key', next'[l], m)
    <2>1. CASE l = p /\ m \in on
      BY <1>1, <1>2, <1>3, <1>4, <1>11, <2>1
    <2>2. CASE l = n /\ m \in on
      <3>1. at[m] = h /\ Left(key, p, m)
        BY <1>3, <1>4, <1>11, <2>2
      <3> QED
        BY <1>1, <1>2, <1>4, <1>9, <2>2, <3>1
    <2>3. CASE l \in on /\ l # p /\ m \in on
      <3>1. l \notin Tails
        BY <1>11 DEF Left
      <3>2. next[l] \in on
        BY <2>3, <3>1 DEF ListInv
      <3> QED
        BY <1>2, <1>4, <1>9, <1>11, <2>3, <3>2
    <2>4. CASE l \in on /\ l # p /\ m = n
      <3>1. at[l] = h /\ Left(key, l, p)
        BY <1>3, <1>4, <1>11, <2>4
      <3>2. l \notin Tails
        BY <1>11 DEF Left
      <3>3. next[l] \in on /\ at[next[l]] = h
        BY <2>4, <3>1, <3>2 DEF ListInv
      <3> QED
        BY <1>1, <1>3, <1>4, <1>9, <2>4, <3>1, <3>3
    <2>5. CASE l = n /\ m = n
      <3>1. n \in alive'
        BY DEF Linked
      <3> QED
        BY <1>1, <1>11, <2>5, <3>1, Order
    <2> QED
      BY <1>4, <2>1, <2>2, <2>3, <2>4, <2>5
  <1>12. ASSUME NEW l \in on2, NEW m \in on2, at2[l] = at2[m], l # m
         PROVE  Left(key', l, m) \/ Left(key', m, l)
    <2>1. CASE l \in on /\ m \in on
      BY <1>2, <1>4, <1>10, <1>12, <2>1
    <2>2. CASE l = n /\ m \in on
      BY <1>1, <1>3, <1>4, <1>10, <1>12, <2>2
    <2>3. CASE l \in on /\ m = n
      BY <1>1, <1>3, <1>4, <1>10, <1>12, <2>3
    <2> QED
      BY <1>4, <1>12, <2>1, <2>2, <2>3
  <1> QED
    BY <1>1, <1>5, <1>6, <1>7, <1>8, <1>11, <1>12 DEF ListInv

\* The level closes over a node that is taken out.
LEMMA ListShrinks ==
  ASSUME NEW at \in [Node -> Level], NEW on \in SUBSET Node, ListInv(at, on),
         NEW p \in on \ Tails, NEW c, c = next[p], c \notin Tails, Unlinked(p, c),
         NEW on2 \in SUBSET Node, on2 = on \ {c}
  PROVE  ListInv(at, on2)'
  <1> DEFINE q == next[c]
  <1>1. /\ c \in on /\ at[c] = at[p] /\ Left(key, p, c) /\ c \notin Heads
        /\ q \in on /\ at[q] = at[p] /\ Left(key, c, q)
    BY DEF ListInv, Left
  <1>2. on \subseteq alive /\ KeysOf(key, alive)
    BY DEF ListInv
  <1>3. p # c /\ q # c
    BY <1>1, <1>2, Order
  <1>4. \A n \in on2 : key'[n] = key[n] /\ next'[n] = IF n = p THEN q ELSE next[n]
    BY <1>2 DEF Unlinked
  <1>5. \A m, n \in on2 : Left(key', m, n) <=> Left(key, m, n)
    BY <1>4, SameOrder
  <1>6. Left(key, p, q)
    BY <1>1, <1>2, Order
  <1>7. on2 \subseteq alive' /\ Sentinel \subseteq on2
    BY <1>1, <1>2, SentinelSets DEF ListInv, Unlinked
  <1>8. KeysOf(key', alive')
    <2>1. \A n \in alive' : n \in alive /\ key'[n] = key[n]
      BY DEF Unlinked
    <2> QED
      BY <1>2, <2>1 DEF KeysOf
  <1>9. \A n \in on2 \cap Tails : next'[n] = Null
    BY <1>1, <1>4 DEF ListInv
  <1>10. ASSUME NEW n \in on2 \ Tails
         PROVE  next'[n] \in on2 /\ at[next'[n]] = at[n] /\ Left(key, n, next'[n])
    <2>1. CASE n = p
      BY <1>1, <1>3, <1>4, <1>6, <2>1
    <2>2. CASE n # p
      <3>1. next[n] \in on /\ at[next[n]] = at[n] /\ Left(key, n, next[n])
        BY DEF ListInv
      <3>2. next[n] # c
        <4> SUFFICES ASSUME next[n] = c PROVE FALSE
          OBVIOUS
        <4>1. Left(key, n, p) \/ Left(key, p, n)
          BY <1>1, <2>2, <3>1 DEF ListInv
        <4>2. CASE Left(key, n, p)
          <5>1. Left(key, c, p)
            BY <1>1, <1>3, <3>1, <4>2 DEF ListInv
          <5> QED
            BY <1>1, <1>2, <5>1, Order
        <4>3. CASE Left(key, p, n)
          <5>1. Left(key, c, n)
            BY <1>1, <3>1, <4>3 DEF ListInv
          <5> QED
            BY <1>1, <1>2, <3>1, <5>1, Order
        <4> QED
          BY <4>1, <4>2, <4>3
      <3> QED
        BY <1>4, <2>2, <3>1, <3>2
    <2> QED
      BY <2>1, <2>2
  <1>11. ASSUME NEW m \in on2, NEW n \in on2, at[m] = at[n], Left(key, m, n)
         PROVE  n = next'[m] \/ Left(key, next'[m], n)
    <2>1. CASE m = p
      <3>1. Left(key, c, n)
        BY <1>1, <1>11, <2>1 DEF ListInv
      <3> QED
        BY <1>1, <1>4, <1>11, <2>1, <3>1 DEF ListInv
    <2>2. CASE m # p
      BY <1>4, <1>11, <2>2 DEF ListInv
    <2> QED
      BY <2>1, <2>2
  <1>12. \A m, n \in on2 : at[m] = at[n] /\ m # n => Left(key, m, n) \/ Left(key, n, m)
    BY DEF ListInv
  <1>13. \A i \in Level : at[Head[i]] = i /\ at[Tail[i]] = i
    BY DEF ListInv
  <1>14. ASSUME NEW m \in on2, NEW n \in on2, at[m] = at[n], Left(key', m, n)
         PROVE  n = next'[m] \/ Left(key', next'[m], n)
    <2>1. m \in on2 \ Tails
      BY <1>14 DEF Left
    <2> QED
      BY <1>5, <1>10, <1>11, <1>14, <2>1
  <1> QED
    BY <1>5, <1>7, <1>8, <1>9, <1>10, <1>12, <1>13, <1>14 DEF ListInv

\* Down leads to the node of the same key one level down; unused nodes lead
\* nowhere.
DownInv(at, on) ==
  /\ \A n \in alive : down[n] # Null =>
        /\ down[n] \in on /\ at[n] = at[down[n]] + 1 /\ key[down[n]] = key[n]
        /\ n \in Heads <=> down[n] \in Heads
        /\ n \in Tails <=> down[n] \in Tails
  /\ \A n \in Node \ alive : down[n] = Null

\* The pointers of the empty skiplist.
LEMMA EmptyList ==
  ASSUME HeapInit, NEW i \in Level
  PROVE  /\ next[Head[i]] = Tail[i] /\ next[Tail[i]] = Null
         /\ down[Head[i]] = IF i = 0 THEN Null ELSE Head[i - 1]
         /\ down[Tail[i]] = IF i = 0 THEN Null ELSE Tail[i - 1]
  <1> USE HeapAssumption
  <1>1. Head[i] \in Node /\ Tail[i] \in Node /\ \A j \in Level : Tail[i] # Head[j] /\ Head[i] # Tail[j]
    OBVIOUS
  <1>2. \A j \in Level : (Head[i] = Head[j] => i = j) /\ (Tail[i] = Tail[j] => i = j)
    OBVIOUS
  <1>3. (CHOOSE j \in Level : Head[i] = Head[j]) = i /\ (CHOOSE j \in Level : Tail[i] = Tail[j]) = i
    BY <1>2
  <1>4. next[Head[i]] = Tail[i] /\ next[Tail[i]] = Null
    BY <1>1, <1>3 DEF HeapInit
  <1>5. down[Head[i]] = IF i = 0 THEN Null ELSE Head[i - 1]
    BY <1>1, <1>2, <1>3 DEF HeapInit
  <1>6. down[Tail[i]] = IF i = 0 THEN Null ELSE Tail[i - 1]
    BY <1>1, <1>2, <1>3 DEF HeapInit
  <1> QED
    BY <1>4, <1>5, <1>6

\* The other nodes lead nowhere.
LEMMA EmptyMemory ==
  ASSUME HeapInit
  PROVE  \A n \in Node \ Sentinel : down[n] = Null
  BY DEF HeapInit, Sentinel

\* The constructor builds empty levels, one above the other.
LEMMA EmptyHeap ==
  ASSUME HeapInit
  PROVE  \E at \in [Node -> Level] :
           /\ ListInv(at, Sentinel) /\ DownInv(at, Sentinel)
           /\ \A n \in alive : down[n] = Null => at[n] = 0
  <1> USE HeapAssumption
  <1> DEFINE lev(n) == CHOOSE i \in Level : n = Head[i] \/ n = Tail[i]
             at == [n \in Node |-> IF n \in Sentinel THEN lev(n) ELSE 0]
             on == Sentinel
  <1>1. HeapInit /\ alive = Sentinel /\ \A n \in Node : key[n] = NoKey
    BY DEF HeapInit
  <1>2. on \in SUBSET Node
    BY DEF Sentinel
  <1>3. 0 \in Level /\ \A i \in Level : i # 0 => i - 1 \in Level
    BY CallAssumption DEF Level
  <1>4. at \in [Node -> Level]
    <2>1. \A n \in Sentinel : lev(n) \in Level
      BY DEF Sentinel
    <2> QED
      BY <1>3, <2>1
  <1>5. \A i \in Level : at[Head[i]] = i /\ at[Tail[i]] = i
    <2> SUFFICES ASSUME NEW i \in Level PROVE at[Head[i]] = i /\ at[Tail[i]] = i
      OBVIOUS
    <2>1. \A j \in Level : /\ Head[i] = Head[j] \/ Head[i] = Tail[j] => i = j
                           /\ Tail[i] = Head[j] \/ Tail[i] = Tail[j] => i = j
      OBVIOUS
    <2>2. lev(Head[i]) = i /\ lev(Tail[i]) = i
      BY <2>1
    <2>3. Head[i] \in Node /\ Tail[i] \in Node /\ Head[i] \in Sentinel /\ Tail[i] \in Sentinel
      BY DEF Sentinel
    <2> QED
      BY <2>2, <2>3
  <1> HIDE DEF at, lev
  <1>6. \A n \in on : \E i \in Level : n = Head[i] \/ n = Tail[i]
    BY DEF Sentinel
  <1>7. \A m, n \in on : Left(key, m, n) <=> m \in Heads /\ n \in Tails
    BY SentinelSets DEF Left
  <1>8. ListInv(at, on)
    <2>1. KeysOf(key, alive)
      BY <1>1, <1>2 DEF KeysOf
    <2>2. \A n \in on \cap Tails : next[n] = Null
      BY <1>1, EmptyList DEF Tails
    <2>3. ASSUME NEW n \in on \ Tails
          PROVE  next[n] \in on /\ at[next[n]] = at[n] /\ Left(key, n, next[n])
      <3>1. PICK i \in Level : n = Head[i]
        BY <1>6 DEF Tails
      <3>2. next[n] = Tail[i]
        BY <1>1, <3>1, EmptyList
      <3> QED
        BY <1>5, <1>7, <3>1, <3>2 DEF Heads, Tails, Sentinel
    <2>4. ASSUME NEW m \in on, NEW n \in on, at[m] = at[n], Left(key, m, n) PROVE n = next[m]
      <3>1. PICK i \in Level : m = Head[i]
        BY <1>7, <2>4 DEF Heads
      <3>2. PICK j \in Level : n = Tail[j]
        BY <1>7, <2>4 DEF Tails
      <3> QED
        BY <1>1, <1>5, <2>4, <3>1, <3>2, EmptyList
    <2>5. ASSUME NEW m \in on, NEW n \in on, at[m] = at[n], m # n
          PROVE  Left(key, m, n) \/ Left(key, n, m)
      <3>1. PICK i \in Level : m = Head[i] \/ m = Tail[i]
        BY <1>6
      <3>2. PICK j \in Level : n = Head[j] \/ n = Tail[j]
        BY <1>6
      <3> QED
        BY <1>5, <1>7, <2>5, <3>1, <3>2 DEF Heads, Tails
    <2> QED
      BY <1>1, <1>5, <2>1, <2>2, <2>3, <2>4, <2>5 DEF ListInv
  <1>9. DownInv(at, on) /\ \A n \in alive : down[n] = Null => at[n] = 0
    <2>1. ASSUME NEW n \in alive, down[n] # Null
          PROVE  /\ down[n] \in on /\ at[n] = at[down[n]] + 1 /\ key[down[n]] = key[n]
                 /\ n \in Heads <=> down[n] \in Heads
                 /\ n \in Tails <=> down[n] \in Tails
      <3>1. PICK i \in Level : n = Head[i] \/ n = Tail[i]
        BY <1>1, <1>6
      <3>2. /\ i # 0 /\ i - 1 \in Level
            /\ down[n] = IF n = Head[i] THEN Head[i - 1] ELSE Tail[i - 1]
        BY <1>1, <1>3, <2>1, <3>1, EmptyList
      <3>3. at[n] = at[down[n]] + 1
        BY <1>5, <3>1, <3>2 DEF Level
      <3>4. Heads \cap Tails = {}
        BY SentinelSets
      <3> QED
        BY <1>1, <1>2, <3>1, <3>2, <3>3, <3>4 DEF Heads, Tails, Sentinel
    <2>2. ASSUME NEW n \in alive, down[n] = Null PROVE at[n] = 0
      <3>1. PICK i \in Level : n = Head[i] \/ n = Tail[i]
        BY <1>1, <1>6
      <3>2. i = 0
        BY <1>1, <1>3, <2>2, <3>1, EmptyList
      <3> QED
        BY <1>5, <3>1, <3>2
    <2>3. \A n \in Node \ alive : down[n] = Null
      BY <1>1, EmptyMemory
    <2> QED
      BY <1>1, <2>1, <2>2, <2>3 DEF DownInv
  <1> QED
    BY <1>4, <1>8, <1>9

-----------------------------------------------------------------------------
(* What a list says about the map.                                         *)

\* The nodes with a value are those of the bottom level.
ValuesAt(at, on) == \A n \in Node : val[n] # NoValue <=> n \in on \ Sentinel /\ at[n] = 0

LEMMA ListHoldsOnce ==
  ASSUME NEW at, NEW on, ListInv(at, on), ValuesAt(at, on)
  PROVE  OneHolder(key, val)
  <1>1. ASSUME NEW m \in Node, NEW n \in Node, val[m] # NoValue, val[n] # NoValue,
               key[m] = key[n], m # n
        PROVE  FALSE
    <2>1. /\ m \in on \ Sentinel /\ at[m] = 0
          /\ n \in on \ Sentinel /\ at[n] = 0
      BY <1>1 DEF ValuesAt
    <2>2. Left(key, m, n) \/ Left(key, n, m)
      BY <1>1, <2>1 DEF ListInv
    <2>3. key[m] \in Int /\ key[n] \in Int
      BY <2>1, CallAssumption DEF ListInv, KeysOf
    <2> QED
      BY <1>1, <2>1, <2>2, <2>3, SentinelSets DEF Left
  <1> QED
    BY <1>1 DEF OneHolder

\* A node of the bottom level says what its key is bound to, and each bound
\* key has a node there.
LEMMA ListIsMap ==
  ASSUME NEW at, NEW on \in SUBSET Node, ListInv(at, on), ValuesAt(at, on)
  PROVE  /\ \A n \in on \ Sentinel : at[n] = 0 =>
               key[n] \in Key /\ val[n] # NoValue /\ Contents[key[n]] = val[n]
         /\ \A k \in Key : Contents[k] # NoValue =>
               \E n \in on \ Sentinel : at[n] = 0 /\ key[n] = k
  <1>1. ASSUME NEW n \in on \ Sentinel, at[n] = 0
        PROVE  key[n] \in Key /\ val[n] # NoValue /\ Contents[key[n]] = val[n]
    <2>1. key[n] \in Key
      BY DEF ListInv, KeysOf
    <2>2. val[n] # NoValue
      BY <1>1 DEF ValuesAt
    <2> QED
      BY <2>1, <2>2, ListHoldsOnce, ContentsOf
  <1>2. ASSUME NEW k \in Key, Contents[k] # NoValue
        PROVE  \E n \in on \ Sentinel : at[n] = 0 /\ key[n] = k
    <2>1. \E n \in Node : key[n] = k /\ val[n] # NoValue
      BY <1>2, ListHoldsOnce, ContentsOf
    <2> QED
      BY <2>1 DEF ValuesAt
  <1> QED
    BY <1>1, <1>2

\* A key that has no node between p and the node to its right is not bound.
LEMMA NotOnList ==
  ASSUME NEW at, NEW on \in SUBSET Node, ListInv(at, on), ValuesAt(at, on),
         NEW p \in on, at[p] = 0, NEW k \in Key, Short(key, p, k), Past(key, next[p], k)
  PROVE  Contents[k] = NoValue
  <1> DEFINE c == next[p]
  <1>1. /\ KeysOf(key, alive) /\ on \subseteq alive /\ p \notin Tails
        /\ \A n \in on : at[n] = 0 /\ Left(key, p, n) => n = c \/ Left(key, c, n)
    BY SentinelSets DEF ListInv, Short
  <1>2. c \in on
    BY <1>1 DEF ListInv
  <1>3. ASSUME NEW n \in on \ Sentinel, at[n] = 0, key[n] = k PROVE FALSE
    <2>1. ~Short(key, n, k) /\ ~Past(key, n, k) /\ n \in alive
      BY <1>1, <1>3, OrderOfKeys
    <2>2. Left(key, p, n)
      BY <1>1, <2>1, OrderOfKeys
    <2>3. n = c \/ Left(key, c, n)
      BY <1>1, <1>3, <2>2
    <2> QED
      BY <1>1, <1>2, <2>1, <2>3, OrderOfKeys
  <1> QED
    BY <1>3, ListIsMap

LeastKey(S) == IF S = {} THEN NoKey ELSE CHOOSE k \in S : \A j \in S : k <= j

\* A node of the bottom level that has nothing of S to its left has the least
\* key of S, the tail when S is empty.
LEMMA LeastOfList ==
  ASSUME NEW at, NEW on \in SUBSET Node, ListInv(at, on), ValuesAt(at, on),
         NEW d \in on \ Heads, at[d] = 0, NEW S, S \subseteq {k \in Key : Contents[k] # NoValue},
         d \notin Tails => key[d] \in S,
         \A n \in on \ Sentinel : at[n] = 0 /\ key[n] \in S => ~Left(key, n, d)
  PROVE  LeastKey(S) = key[d]
  <1>1. \A k \in S : k \in Key /\ \E n \in on \ Sentinel : at[n] = 0 /\ key[n] = k
    BY ListIsMap
  <1>2. KeysOf(key, alive) /\ on \subseteq alive
    BY DEF ListInv
  <1>3. CASE d \in Tails
    <2>1. key[d] = NoKey
      BY <1>2, <1>3, SentinelSets DEF KeysOf
    <2>2. S = {}
      BY <1>1, <1>3, SentinelSets DEF Left
    <2> QED
      BY <2>1, <2>2 DEF LeastKey
  <1>4. CASE d \notin Tails
    <2>1. key[d] \in S
      BY <1>4
    <2>2. ASSUME NEW j \in S PROVE key[d] <= j
      <3>1. PICK n \in on \ Sentinel : at[n] = 0 /\ key[n] = j
        BY <1>1
      <3>2. ~(key[n] < key[d])
        BY <1>4, <3>1, SentinelSets DEF Left
      <3>3. key[d] \in Int /\ j \in Int
        BY <1>1, <2>1, CallAssumption
      <3> QED
        BY <3>1, <3>2, <3>3
    <2>3. S \subseteq Int
      BY <1>1, CallAssumption
    <2>4. \A k \in S : (\A j \in S : k <= j) => k = key[d]
      <3> SUFFICES ASSUME NEW k \in S, \A j \in S : k <= j PROVE k = key[d]
        OBVIOUS
      <3>1. k <= key[d] /\ key[d] <= k
        BY <2>1, <2>2
      <3>2. k \in Int /\ key[d] \in Int
        BY <2>1, <2>3
      <3> QED
        BY <3>1, <3>2
    <2>5. (CHOOSE k \in S : \A j \in S : k <= j) = key[d]
      BY <2>1, <2>2, <2>4
    <2> QED
      BY <2>1, <2>5 DEF LeastKey
  <1> QED
    BY <1>3, <1>4

\* From the last node short of k on, the first node is that of the least
\* bound key that is not below k, or above it.
LEMMA LeastFromHere ==
  ASSUME NEW at, NEW on \in SUBSET Node, ListInv(at, on), ValuesAt(at, on),
         NEW p \in on, at[p] = 0, NEW k \in Key, Short(key, p, k), Past(key, next[p], k)
  PROVE  LeastKey({j \in {i \in Key : Contents[i] # NoValue} : j >= k}) = key[next[p]]
  <1> DEFINE d == next[p]
             bound == {i \in Key : Contents[i] # NoValue}
             S == {j \in bound : j >= k}
  <1>1. /\ KeysOf(key, alive) /\ on \subseteq alive /\ p \notin Tails
        /\ \A n \in on : at[n] = 0 /\ Left(key, p, n) => n = d \/ Left(key, d, n)
    BY SentinelSets DEF ListInv, Short
  <1>2. d \in on \ Heads /\ at[d] = 0
    BY <1>1 DEF ListInv, Left
  <1>3. k \in Int /\ \A j \in bound : j \in Int
    BY CallAssumption
  <1>4. ASSUME d \notin Tails PROVE key[d] \in S
    <2>1. key[d] \in Key /\ Contents[key[d]] # NoValue
      BY <1>2, <1>4, ListIsMap, SentinelSets
    <2>2. key[d] > k
      BY <1>4 DEF Past
    <2>3. key[d] \in bound
      BY <2>1
    <2>4. key[d] \in Int
      BY <2>1, CallAssumption
    <2>5. key[d] >= k
      BY <1>3, <2>2, <2>4
    <2> QED
      BY <2>3, <2>5
  <1>5. ASSUME NEW n \in on \ Sentinel, at[n] = 0, key[n] \in S PROVE ~Left(key, n, d)
    <2>1. key[n] \in Int /\ key[n] >= k /\ n \notin Heads /\ n \in alive
      BY <1>1, <1>3, <1>5, SentinelSets
    <2>2. ~Short(key, n, k)
      BY <1>3, <2>1 DEF Short
    <2>3. Left(key, p, n)
      BY <1>1, <2>1, <2>2, OrderOfKeys
    <2>4. n = d \/ Left(key, d, n)
      BY <1>1, <1>5, <2>3
    <2> QED
      BY <1>1, <1>2, <2>1, <2>4, Order
  <1>6. S \subseteq bound
    OBVIOUS
  <1> HIDE DEF S, d
  <1>7. LeastKey(S) = key[d]
    BY <1>2, <1>4, <1>5, <1>6, LeastOfList
  <1> QED
    BY <1>7 DEF S, d

\* The node of k has itself as the first, and the one to its right as the
\* next.
LEMMA LeastAtNode ==
  ASSUME NEW at, NEW on \in SUBSET Node, ListInv(at, on), ValuesAt(at, on),
         NEW c \in on \ Sentinel, at[c] = 0
  PROVE  /\ LeastKey({j \in {i \in Key : Contents[i] # NoValue} : j >= key[c]}) = key[c]
         /\ LeastKey({j \in {i \in Key : Contents[i] # NoValue} : j > key[c]}) = key[next[c]]
  <1> DEFINE d == next[c]
             k == key[c]
             bound == {i \in Key : Contents[i] # NoValue}
             S == {j \in bound : j >= k}
             T == {j \in bound : j > k}
  <1>1. /\ c \notin Heads /\ c \notin Tails /\ KeysOf(key, alive) /\ on \subseteq alive
    BY SentinelSets DEF ListInv
  <1>2. /\ d \in on \ Heads /\ at[d] = 0 /\ Left(key, c, d)
        /\ \A n \in on : at[n] = 0 /\ Left(key, c, n) => n = d \/ Left(key, d, n)
    BY <1>1 DEF ListInv, Left
  <1>3. k \in Key /\ k \in Int /\ k \in bound /\ \A j \in bound : j \in Int
    <2>1. k \in Key /\ Contents[k] # NoValue
      BY ListIsMap
    <2>2. k \in bound
      BY <2>1
    <2> QED
      BY <2>1, <2>2, CallAssumption
  <1>4. LeastKey(S) = key[c]
    <2>1. key[c] \in S
      BY <1>3
    <2>2. ASSUME NEW n \in on \ Sentinel, at[n] = 0, key[n] \in S PROVE ~Left(key, n, c)
      BY <1>1, <1>3, <2>2, SentinelSets DEF Left
    <2>3. S \subseteq bound
      OBVIOUS
    <2> HIDE DEF S
    <2> QED
      BY <1>1, <2>1, <2>2, <2>3, LeastOfList
  <1>5. LeastKey(T) = key[d]
    <2>1. ASSUME d \notin Tails PROVE key[d] \in T
      <3>1. key[d] \in Key /\ Contents[key[d]] # NoValue
        BY <1>2, <2>1, ListIsMap, SentinelSets
      <3>2. key[d] > k /\ key[d] \in bound
        BY <1>1, <1>2, <1>3, <2>1, <3>1, CallAssumption DEF Left
      <3> QED
        BY <1>3, <3>2
    <2>2. ASSUME NEW n \in on \ Sentinel, at[n] = 0, key[n] \in T PROVE ~Left(key, n, d)
      <3>1. key[n] \in Int /\ key[n] > k
        BY <1>3, <2>2
      <3>2. Left(key, c, n)
        BY <1>1, <1>3, <2>2, <3>1, SentinelSets DEF Left
      <3>3. n = d \/ Left(key, d, n)
        BY <1>2, <2>2, <3>2
      <3>4. n \in alive /\ d \in alive
        BY <1>1, <1>2, <2>2
      <3> QED
        BY <1>1, <3>3, <3>4, Order
    <2>3. T \subseteq bound
      OBVIOUS
    <2> HIDE DEF T, d
    <2> QED
      BY <1>2, <2>1, <2>2, <2>3, LeastOfList
  <1> QED
    BY <1>4, <1>5

-----------------------------------------------------------------------------
(* The order of locks: downwards from level to level, and to the right     *)
(* within a level.                                                         *)

\* The order in which locks are taken: y is after x.
After(at, x, y) == at[y] < at[x] \/ (at[y] = at[x] /\ Left(key, x, y))

\* It is an order.
LEMMA AfterIsAnOrder ==
  ASSUME NEW at \in [Node -> Level], NEW S \in SUBSET Node, KeysOf(key, S)
  PROVE  /\ \A x \in S : ~After(at, x, x)
         /\ \A x, y, z \in S : After(at, x, y) /\ After(at, y, z) => After(at, x, z)
  <1>1. \A x \in S : at[x] \in Int
    BY DEF Level
  <1> QED
    BY <1>1, Order DEF After

\* The node next of a node comes after it.
LEMMA NextIsAfter ==
  ASSUME NEW at \in [Node -> Level], NEW on \in SUBSET Node, ListInv(at, on),
         NEW n \in on, next[n] # Null
  PROVE  next[n] \in on /\ at[next[n]] = at[n] /\ After(at, n, next[n])
  BY DEF ListInv, After

\* Of finitely many nodes one comes last.
LEMMA LastNode ==
  ASSUME NEW at \in [Node -> Level], KeysOf(key, alive), alive \subseteq Node,
         NEW T \in SUBSET alive, T # {}
  PROVE  \E x \in T : \A y \in T : ~After(at, x, y)
  <1> DEFINE R == {e \in Node \X Node : After(at, e[1], e[2])}
  <1>1. T \in SUBSET Node /\ KeysOf(key, T)
    BY DEF KeysOf
  <1>2. IsFiniteSet(T)
    BY <1>1, FS_Subset, HeapAssumption
  <1>3. \A x, y \in T : <<x, y>> \in R <=> After(at, x, y)
    BY <1>1
  <1> HIDE DEF R
  <1>4. /\ \A y \in T : <<y, y>> \notin R
        /\ \A p, y, z \in T : <<p, y>> \in R /\ <<y, z>> \in R => <<p, z>> \in R
    BY <1>1, <1>3, AfterIsAnOrder
  <1>5. PICK x \in T : \A y \in T : <<x, y>> \notin R
    BY <1>2, <1>4, LastElement
  <1> QED
    BY <1>3, <1>5
=============================================================================
