------------------------- MODULE BSkiplistMapProofs --------------------------
(******************************************************************************)
(* The cache-friendly skiplist: its levels, the map its callers see, and the  *)
(* benchmark.                                                                 *)
(*                                                                            *)
(* LevelsSorted and DownStartsWithKey walk along a level, following next from *)
(* First.  A walk that ascends does not come back to where it was, so it      *)
(* ends, and it meets every node it does not leave behind; the rest of the    *)
(* two properties is Inv.                                                     *)
(*                                                                            *)
(* Stored is what the nodes hold; those of its entries that have a value are  *)
(* the bottom level's, and a key has one of them at most, so Contents reads   *)
(* the map off them.  A split or a merge moves entries and stores nothing     *)
(* new.  What a call has to find where it takes effect is in Shape: a search  *)
(* that ends has passed every smaller key, a range the nodes of the bottom    *)
(* level in order.  MapInv adds what Inv does not say of answers, of a        *)
(* remove that has taken its key out, and of a range's place in its node.     *)
(*                                                                            *)
(* What the benchmark sees of the keys it has loaded then follows from the    *)
(* steps of the map, and what the destructor finds from the lists.            *)
(******************************************************************************)
EXTENDS BSkiplistProofs, Bench

-----------------------------------------------------------------------------
(* Walks along next.                                                       *)

\* What holds for 0, and for every number after one it holds for, holds for
\* all: S is the set of the numbers it holds for.
LEMMA AllNumbers ==
  ASSUME NEW S, 0 \in S, \A n \in Nat : n \in S => n + 1 \in S
  PROVE  Nat \subseteq S
  <1> SUFFICES ASSUME Nat \ S # {} PROVE FALSE
    OBVIOUS
  <1>1. PICK m \in Nat \ S : \A n \in Nat \ S : m <= n
    BY LeastNumber
  <1>2. m - 1 \in Nat /\ m - 1 \in S
    BY <1>1
  <1> QED
    BY <1>1, <1>2

\* p goes from the first node of level i along next, j nodes further or to
\* where there is no next.
Steps(i, j, p) ==
  /\ p \in Seq(Node) /\ 1 <= Len(p) /\ Len(p) <= j + 1
  /\ p[1] = First[i]
  /\ \A a \in Nat : 1 <= a /\ a < Len(p) => next[p[a]] = p[a+1]
  /\ Len(p) = j + 1 \/ next[p[Len(p)]] = Null

\* One node further.
Onward(w) == IF next[w[Len(w)]] = Null THEN w ELSE Append(w, next[w[Len(w)]])

\* One node further is one step more.
LEMMA StepsOn ==
  ASSUME next \in [Node -> Pointer], NEW i \in Level, NEW j \in Nat, NEW p, Steps(i, j, p)
  PROVE  Steps(i, j + 1, Onward(p))
  <1>1. /\ p \in Seq(Node) /\ 1 <= Len(p) /\ Len(p) <= j + 1 /\ Len(p) \in Nat
        /\ p[1] = First[i]
        /\ \A a \in Nat : 1 <= a /\ a < Len(p) => next[p[a]] = p[a+1]
        /\ Len(p) = j + 1 \/ next[p[Len(p)]] = Null
    BY DEF Steps
  <1>2. CASE next[p[Len(p)]] = Null
    <2>1. Onward(p) = p
      BY <1>2 DEF Onward
    <2>2. Len(p) <= (j + 1) + 1
      BY <1>1
    <2> QED
      BY <1>1, <1>2, <2>1, <2>2 DEF Steps
  <1>3. CASE next[p[Len(p)]] # Null
    <2> DEFINE n == next[p[Len(p)]]
               q == Append(p, n)
    <2>1. Onward(p) = q
      BY <1>3 DEF Onward
    <2>2. p[Len(p)] \in Node
      BY <1>1, ElementOfSeq
    <2>3. n \in Node
      BY <1>3, <2>2 DEF Pointer
    <2>4. /\ q \in Seq(Node) /\ Len(q) = Len(p) + 1 /\ q[Len(p) + 1] = n
          /\ \A a \in 1 .. Len(p) : q[a] = p[a]
      BY <1>1, <2>3, AppendProperties
    <2>5. next[p[Len(p)]] = n
      OBVIOUS
    <2> HIDE DEF q, n
    <2>6. ASSUME NEW a \in Nat, 1 <= a, a < Len(q) PROVE next[q[a]] = q[a+1]
      <3>1. CASE a = Len(p)
        BY <1>1, <2>4, <2>5, <3>1
      <3>2. CASE a # Len(p)
        <4>1. a < Len(p) /\ a \in 1 .. Len(p) /\ a + 1 \in 1 .. Len(p)
          BY <1>1, <2>4, <2>6, <3>2
        <4> QED
          BY <1>1, <2>4, <2>6, <4>1
      <3> QED
        BY <3>1, <3>2
    <2>7. Len(p) = j + 1
      BY <1>1, <1>3
    <2>8. q[1] = First[i]
      BY <1>1, <2>4
    <2> QED
      BY <1>1, <2>1, <2>4, <2>6, <2>7, <2>8 DEF Steps
  <1> QED
    BY <1>2, <1>3

\* There is one such walk.
LEMMA StepsSame ==
  ASSUME NEW i \in Level, NEW j \in Nat, NEW p, Steps(i, j, p), NEW q, Steps(i, j, q)
  PROVE  p = q
  <1>1. /\ p \in Seq(Node) /\ 1 <= Len(p) /\ Len(p) <= j + 1 /\ Len(p) \in Nat
        /\ p[1] = First[i]
        /\ \A a \in Nat : 1 <= a /\ a < Len(p) => next[p[a]] = p[a+1]
        /\ Len(p) = j + 1 \/ next[p[Len(p)]] = Null
    BY DEF Steps
  <1>2. /\ q \in Seq(Node) /\ 1 <= Len(q) /\ Len(q) <= j + 1 /\ Len(q) \in Nat
        /\ q[1] = First[i]
        /\ \A a \in Nat : 1 <= a /\ a < Len(q) => next[q[a]] = q[a+1]
        /\ Len(q) = j + 1 \/ next[q[Len(q)]] = Null
    BY DEF Steps
  <1> DEFINE S == {a \in Nat : a + 1 <= Len(p) /\ a + 1 <= Len(q) => p[a+1] = q[a+1]}
  <1>3. Nat \subseteq S
    <2>1. 0 \in S
      BY <1>1, <1>2
    <2>2. ASSUME NEW a \in Nat, a \in S PROVE a + 1 \in S
      <3> SUFFICES ASSUME (a + 1) + 1 <= Len(p), (a + 1) + 1 <= Len(q)
                   PROVE  p[(a + 1) + 1] = q[(a + 1) + 1]
        OBVIOUS
      <3>1. a + 1 \in Nat /\ 1 <= a + 1 /\ a + 1 < Len(p) /\ a + 1 < Len(q)
        BY <1>1, <1>2
      <3>2. p[a+1] = q[a+1]
        BY <2>2, <3>1
      <3> HIDE DEF S
      <3> QED
        BY <1>1, <1>2, <3>1, <3>2
    <2> HIDE DEF S
    <2> QED
      BY <2>1, <2>2, AllNumbers
  <1>4. ASSUME NEW a \in Nat, 1 <= a, a <= Len(p), a <= Len(q) PROVE p[a] = q[a]
    <2>1. a - 1 \in Nat /\ (a - 1) + 1 = a
      BY <1>4
    <2>2. a - 1 \in S
      BY <1>3, <2>1
    <2> QED
      BY <1>4, <2>1, <2>2
  <1> HIDE DEF S
  <1>5. \A a \in 1 .. Len(p) : p[a] \in Node
    BY <1>1, ElementOfSeq
  <1>6. \A a \in 1 .. Len(q) : q[a] \in Node
    BY <1>2, ElementOfSeq
  <1>7. Null \notin Node
    BY Ends
  <1>8. ~(Len(p) < Len(q))
    <2> SUFFICES ASSUME Len(p) < Len(q) PROVE FALSE
      OBVIOUS
    <2>1. next[p[Len(p)]] = Null /\ next[q[Len(p)]] = q[Len(p) + 1] /\ Len(p) + 1 \in 1 .. Len(q)
      BY <1>1, <1>2
    <2>2. p[Len(p)] = q[Len(p)]
      BY <1>1, <1>2, <1>4
    <2>3. q[Len(p) + 1] \in Node
      BY <1>6, <2>1
    <2> QED
      BY <1>7, <2>1, <2>2, <2>3
  <1>9. ~(Len(q) < Len(p))
    <2> SUFFICES ASSUME Len(q) < Len(p) PROVE FALSE
      OBVIOUS
    <2>1. next[q[Len(q)]] = Null /\ next[p[Len(q)]] = p[Len(q) + 1] /\ Len(q) + 1 \in 1 .. Len(p)
      BY <1>1, <1>2
    <2>2. p[Len(q)] = q[Len(q)]
      BY <1>2, <1>4
    <2> QED
      BY <1>5, <1>7, <2>1, <2>2
  <1>10. Len(p) = Len(q)
    BY <1>1, <1>2, <1>8, <1>9
  <1>11. \A a \in 1 .. Len(p) : p[a] = q[a]
    BY <1>1, <1>4, <1>10
  <1> QED
    BY <1>1, <1>2, <1>10, <1>11, SeqEqual

\* That is what Walk collects.
LEMMA WalkSteps ==
  ASSUME next \in [Node -> Pointer], NEW i \in Level, Cardinality(alive) \in Nat
  PROVE  Steps(i, Cardinality(alive), Walk(i))
  <1> DEFINE w == CHOOSE walk : walk = [j \in Nat |->
                    IF j = 0 THEN <<First[i]>>
                    ELSE LET p == walk[j-1] IN
                         IF next[p[Len(p)]] = Null THEN p ELSE Append(p, next[p[Len(p)]])]
             F == [j \in Nat |-> CHOOSE p : Steps(i, j, p)]
             S == {j \in Nat : \E p : Steps(i, j, p)}
  <1>1. Walk(i) = w[Cardinality(alive)]
    BY DEF Walk
  <1>2. Steps(i, 0, <<First[i]>>)
    <2>1. First[i] \in Node
      BY BAssumption
    <2> QED
      BY <2>1 DEF Steps
  <1>3. Nat \subseteq S
    <2>1. 0 \in S
      BY <1>2
    <2>2. ASSUME NEW j \in Nat, j \in S PROVE j + 1 \in S
      BY <2>2, StepsOn
    <2> HIDE DEF S
    <2> QED
      BY <2>1, <2>2, AllNumbers
  <1>4. \A j \in Nat : Steps(i, j, F[j])
    BY <1>3
  <1> HIDE DEF S, w
  <1>5. F = [j \in Nat |-> IF j = 0 THEN <<First[i]>> ELSE Onward(F[j-1])]
    <2>1. ASSUME NEW j \in Nat
          PROVE F[j] = IF j = 0 THEN <<First[i]>> ELSE Onward(F[j-1])
      <3>1. F = [m \in Nat |-> F[m]]
        OBVIOUS
      <3> HIDE DEF F
      <3>2. CASE j = 0
        BY <1>2, <1>4, <3>2, StepsSame
      <3>3. CASE j # 0
        <4>1. j - 1 \in Nat /\ (j-1)+1 = j
          BY <3>3
        <4>2. Steps(i, (j-1)+1, Onward(F[j-1]))
          BY <1>4, <4>1, StepsOn
        <4>3. Steps(i, j, Onward(F[j-1]))
          BY <4>1, <4>2
        <4> QED
          BY <1>4, <3>3, <4>3, StepsSame
      <3> QED
        BY <3>2, <3>3
    <2>2. F = [j \in Nat |-> F[j]]
      OBVIOUS
    <2> HIDE DEF F
    <2> QED
      BY <2>1, <2>2
  <1> HIDE DEF F
  <1>6. F = [j \in Nat |->
                    IF j = 0 THEN <<First[i]>>
                    ELSE LET p == F[j-1] IN
                         IF next[p[Len(p)]] = Null THEN p ELSE Append(p, next[p[Len(p)]])]
    BY <1>5 DEF Onward
  <1>7. w = [j \in Nat |-> IF j = 0 THEN <<First[i]>> ELSE Onward(w[j-1])]
    BY <1>6 DEF w, Onward
  <1>8. w[0] = <<First[i]>> /\ \A j \in Nat : j # 0 => w[j] = Onward(w[j-1])
    BY <1>7
  <1> DEFINE T == {j \in Nat : Steps(i, j, w[j])}
  <1>9. Nat \subseteq T
    <2>1. 0 \in T
      BY <1>2, <1>8
    <2>2. ASSUME NEW j \in Nat, j \in T PROVE j + 1 \in T
      <3>1. w[j + 1] = Onward(w[j])
        <4>1. j + 1 \in Nat /\ j + 1 # 0 /\ (j + 1) - 1 = j
          OBVIOUS
        <4>2. w[j+1] = Onward(w[(j+1)-1])
          BY <1>8, <4>1
        <4> QED
          BY <4>1, <4>2
      <3> QED
        BY <2>2, <3>1, StepsOn
    <2> HIDE DEF T
    <2> QED
      BY <2>1, <2>2, AllNumbers
  <1> QED
    BY <1>1, <1>9

\* From the first node of level i, next stays in M and goes on in the order R.
Along(i, M, R) ==
  /\ First[i] \in M /\ M \subseteq alive
  /\ \A n \in M : next[n] # Null => next[n] \in M /\ <<n, next[n]>> \in R
  /\ \A n \in M : <<n, n>> \notin R
  /\ \A l, m, n \in M : <<l, m>> \in R /\ <<m, n>> \in R => <<l, n>> \in R

\* Then the walk meets nodes of M only, in that order, and ends where there is
\* no next: it goes on for as many steps as there are nodes in use.
LEMMA WalkMeets ==
  ASSUME next \in [Node -> Pointer], NEW i \in Level, alive \subseteq Node,
         NEW M, NEW R, Along(i, M, R)
  PROVE  LET w == Walk(i) IN
         /\ w \in Seq(Node) /\ Len(w) \in Nat /\ 1 <= Len(w) /\ w[1] = First[i]
         /\ next[w[Len(w)]] = Null
         /\ \A a \in 1 .. Len(w) : w[a] \in M
         /\ \A a \in Nat : 1 <= a /\ a < Len(w) => next[w[a]] = w[a+1]
         /\ \A a, b \in 1 .. Len(w) : a < b => <<w[a], w[b]>> \in R
  <1> DEFINE w == Walk(i)
             N == Cardinality(alive)
  <1>1. IsFiniteSet(alive) /\ N \in Nat
    BY BAssumption, FS_Subset, FS_CardinalityType
  <1>2. Steps(i, N, w)
    BY <1>1, WalkSteps
  <1> HIDE DEF w, N
  <1>3. /\ w \in Seq(Node) /\ 1 <= Len(w) /\ Len(w) <= N + 1 /\ Len(w) \in Nat
        /\ w[1] = First[i]
        /\ \A a \in Nat : 1 <= a /\ a < Len(w) => next[w[a]] = w[a+1]
        /\ Len(w) = N + 1 \/ next[w[Len(w)]] = Null
    BY <1>1, <1>2 DEF Steps
  <1>4. \A a \in 1 .. Len(w) : w[a] \in Node
    BY <1>3, ElementOfSeq
  <1>5. Null \notin Node
    BY Ends
  <1>6. \A a \in 1 .. Len(w) : w[a] \in M
    <2> DEFINE S == {a \in Nat : a + 1 <= Len(w) => w[a+1] \in M}
    <2>1. 0 \in S
      BY <1>3 DEF Along
    <2>2. ASSUME NEW a \in Nat, a \in S PROVE a + 1 \in S
      <3> SUFFICES ASSUME (a + 1) + 1 <= Len(w) PROVE w[(a + 1) + 1] \in M
        OBVIOUS
      <3>1. a + 1 \in Nat /\ 1 <= a + 1 /\ a + 1 < Len(w) /\ (a + 1) + 1 \in 1 .. Len(w)
        BY <1>3
      <3>2. w[a+1] \in M
        BY <2>2, <3>1
      <3>3. next[w[a+1]] = w[(a+1)+1] /\ w[(a+1)+1] # Null
        BY <1>3, <1>4, <1>5, <3>1
      <3> QED
        BY <3>2, <3>3 DEF Along
    <2>3. Nat \subseteq S
      <3> HIDE DEF S
      <3> QED
        BY <2>1, <2>2, AllNumbers
    <2> TAKE a \in 1 .. Len(w)
    <2>4. a - 1 \in Nat /\ (a - 1) + 1 = a /\ a <= Len(w)
      BY <1>3
    <2>5. a - 1 \in S
      BY <2>3, <2>4
    <2> QED
      BY <2>4, <2>5
  <1>7. ASSUME NEW a \in 1 .. Len(w) PROVE \A b \in 1 .. Len(w) : a < b => <<w[a], w[b]>> \in R
    <2> DEFINE S == {d \in Nat : (a + d) + 1 <= Len(w) => <<w[a], w[(a+d)+1]>> \in R}
    <2>1. a \in Nat /\ 1 <= a /\ a <= Len(w) /\ a + 0 = a
      BY <1>3
    <2>2. ASSUME NEW c \in Nat, 1 <= c, c + 1 <= Len(w) PROVE <<w[c], w[c+1]>> \in R
      <3>1. c \in 1 .. Len(w) /\ c + 1 \in 1 .. Len(w) /\ c < Len(w)
        BY <1>3, <2>2
      <3>2. next[w[c]] = w[c+1] /\ w[c+1] # Null /\ w[c] \in M
        BY <1>3, <1>4, <1>5, <1>6, <3>1
      <3> QED
        BY <3>2 DEF Along
    <2>3. 0 \in S
      BY <2>1, <2>2
    <2>4. ASSUME NEW d \in Nat, d \in S PROVE d + 1 \in S
      <3> SUFFICES ASSUME (a + (d + 1)) + 1 <= Len(w) PROVE <<w[a], w[(a + (d + 1)) + 1]>> \in R
        OBVIOUS
      <3> DEFINE c == (a + d) + 1
      <3>1. c \in Nat /\ 1 <= c /\ c + 1 <= Len(w) /\ c <= Len(w) /\ a + (d + 1) = c
        BY <1>3, <2>1
      <3>2. <<w[a], w[c]>> \in R
        BY <2>4, <3>1
      <3> HIDE DEF c
      <3>3. <<w[c], w[c+1]>> \in R
        BY <2>2, <3>1
      <3>4. c \in 1 .. Len(w) /\ c + 1 \in 1 .. Len(w)
        BY <1>3, <3>1
      <3>5. w[a] \in M /\ w[c] \in M /\ w[c+1] \in M
        BY <1>6, <3>4
      <3>6. <<w[a], w[c+1]>> \in R
        BY <3>2, <3>3, <3>5 DEF Along
      <3> QED
        BY <3>1, <3>6
    <2>5. Nat \subseteq S
      <3> HIDE DEF S
      <3> QED
        BY <2>3, <2>4, AllNumbers
    <2> TAKE b \in 1 .. Len(w)
    <2> HAVE a < b
    <2>6. (b - a) - 1 \in Nat /\ (a + ((b - a) - 1)) + 1 = b /\ b <= Len(w)
      BY <1>3, <2>1
    <2>7. (b - a) - 1 \in S
      BY <2>5, <2>6
    <2> QED
      BY <2>6, <2>7
  <1>8. next[w[Len(w)]] = Null
    <2> SUFFICES ASSUME Len(w) = N + 1 PROVE FALSE
      BY <1>3
    <2> DEFINE f == [a \in 1 .. Len(w) |-> w[a]]
    <2>1. f \in [1 .. Len(w) -> alive]
      BY <1>6 DEF Along
    <2>2. IsFiniteSet(1 .. Len(w)) /\ Cardinality(1 .. Len(w)) = N + 1
      <3> DEFINE l == Len(w)
      <3>1. l \in Int /\ 1 \in Int /\ 1 <= l
        BY <1>3
      <3> HIDE DEF l
      <3>2. /\ IsFiniteSet(1 .. l)
            /\ Cardinality(1 .. l) = IF 1 > l THEN 0 ELSE l - 1 + 1
        BY <3>1, FS_Interval
      <3>3. Cardinality(1 .. l) = l
        BY <3>1, <3>2
      <3> QED
        BY <3>2, <3>3 DEF l
    <2>3. Cardinality(alive) < Cardinality(1 .. Len(w))
      BY <1>1, <2>2 DEF N
    <2> HIDE DEF f
    <2>4. PICK a, b \in 1 .. Len(w) : a # b /\ f[a] = f[b]
      BY <1>1, <2>1, <2>2, <2>3, FS_PigeonHole
    <2>5. w[a] = w[b] /\ w[a] \in M
      BY <1>6, <2>4 DEF f
    <2>6. a < b \/ b < a
      BY <1>3, <2>4
    <2>7. <<w[a], w[a]>> \in R
      BY <1>7, <2>5, <2>6
    <2> QED
      BY <2>5, <2>7 DEF Along
  <1>9. \A a, b \in 1 .. Len(w) : a < b => <<w[a], w[b]>> \in R
    BY <1>7
  <1> QED
    BY <1>3, <1>6, <1>8, <1>9 DEF w

\* It meets every node that next does not go past.
LEMMA WalkFinds ==
  ASSUME next \in [Node -> Pointer], NEW i \in Level, alive \subseteq Node,
         NEW M, NEW R, Along(i, M, R), NEW m,
         m = First[i] \/ <<First[i], m>> \in R,
         \A n \in M : <<n, m>> \in R =>
            next[n] # Null /\ (next[n] = m \/ <<next[n], m>> \in R)
  PROVE  \E b \in DOMAIN Walk(i) : Walk(i)[b] = m
  <1> DEFINE w == Walk(i)
  <1>1. /\ w \in Seq(Node) /\ Len(w) \in Nat /\ 1 <= Len(w) /\ w[1] = First[i]
        /\ next[w[Len(w)]] = Null
        /\ \A a \in 1 .. Len(w) : w[a] \in M
        /\ \A a \in Nat : 1 <= a /\ a < Len(w) => next[w[a]] = w[a+1]
    BY WalkMeets
  <1> HIDE DEF w
  <1> SUFFICES ASSUME \A b \in 1 .. Len(w) : w[b] # m PROVE FALSE
    BY <1>1, LenProperties DEF w
  <1> DEFINE S == {a \in Nat : a + 1 <= Len(w) => <<w[a+1], m>> \in R}
  <1>2. 0 \in S
    BY <1>1
  <1>3. ASSUME NEW a \in Nat, a \in S PROVE a + 1 \in S
    <2> SUFFICES ASSUME (a + 1) + 1 <= Len(w) PROVE <<w[(a + 1) + 1], m>> \in R
      OBVIOUS
    <2>1. a + 1 \in Nat /\ 1 <= a + 1 /\ a + 1 < Len(w) /\ a + 1 \in 1 .. Len(w)
          /\ (a + 1) + 1 \in 1 .. Len(w)
      BY <1>1
    <2>2. <<w[a+1], m>> \in R /\ w[a+1] \in M
      BY <1>1, <1>3, <2>1
    <2>3. next[w[a+1]] = w[(a+1)+1] /\ w[(a+1)+1] # m
      BY <1>1, <2>1
    <2> HIDE DEF S
    <2> QED
      BY <2>2, <2>3
  <1>4. Nat \subseteq S
    <2> HIDE DEF S
    <2> QED
      BY <1>2, <1>3, AllNumbers
  <1>5. Len(w) - 1 \in Nat /\ (Len(w) - 1) + 1 = Len(w) /\ Len(w) \in 1 .. Len(w)
    BY <1>1
  <1>6. Len(w) - 1 \in S
    BY <1>4, <1>5
  <1>7. <<w[Len(w)], m>> \in R /\ w[Len(w)] \in M
    BY <1>1, <1>5, <1>6
  <1> QED
    BY <1>1, <1>7

-----------------------------------------------------------------------------
(* The walk along a level.                                                 *)

\* Node n has been emptied by a merge and is still linked behind p.
Hangs(p, n) == \E t \in Thread : pc[t] = "relink" /\ prev[t] = p /\ next[p] = n

\* Its place on the list is behind p; that of the other nodes is their own.
Base(on, n) == IF n \in on THEN n ELSE CHOOSE p \in on : Hangs(p, n)

\* What a walk along level i meets, and the order it does so in.
Met(at, on, i) ==
  {n \in alive : \/ n \in on /\ at[n] = i
                 \/ n \notin on /\ \E p \in on : at[p] = i /\ Hangs(p, n)}
Order(on) ==
  {e \in Node \X Node :
     \/ Left(data, Base(on, e[1]), Base(on, e[2]))
     \/ Base(on, e[1]) = Base(on, e[2]) /\ e[1] \in on /\ e[2] \notin on}

\* The order of a walk, spelt out.
LEMMA InOrder ==
  ASSUME NEW on, NEW m \in Node, NEW n \in Node
  PROVE  <<m, n>> \in Order(on) <=>
           \/ Left(data, Base(on, m), Base(on, n))
           \/ Base(on, m) = Base(on, n) /\ m \in on /\ n \notin on
  <1>1. <<m, n>> \in Node \X Node /\ <<m, n>>[1] = m /\ <<m, n>>[2] = n
    OBVIOUS
  <1> QED
    BY <1>1 DEF Order

\* The facts about the lists used below.
LEMMA OnLists ==
  ASSUME LInv, NEW at, NEW on, Shape(at, on)
  PROVE  /\ Listed(data, Right, at, on) /\ Accounted(on)
         /\ on \subseteq alive /\ alive \subseteq Node /\ Null \notin Node
         /\ Sentinel \subseteq on /\ Firsts \subseteq on /\ Lasts \subseteq on
         /\ next \in [Node -> Pointer]
         /\ \A i \in Level : at[First[i]] = i /\ at[Last[i]] = i
         /\ \A n \in Node : n \in on \ Lasts <=> data[n] # <<>>
  <1>1. Listed(data, Right, at, on) /\ Accounted(on)
    BY DEF Shape
  <1>2. on \subseteq alive /\ alive \subseteq Node /\ next \in [Node -> Pointer]
    BY <1>1 DEF Accounted, LInv, TypeOK
  <1>3. Sentinel \subseteq on /\ \A i \in Level : at[First[i]] = i /\ at[Last[i]] = i
    BY <1>1 DEF Listed
  <1>4. \A n \in Node : NodeOK(data, on, n)
    BY <1>1 DEF Listed
  <1>5. \A n \in Node : n \in on \ Lasts <=> data[n] # <<>>
    BY <1>4 DEF NodeOK
  <1>6. Null \notin Node /\ Firsts \subseteq on /\ Lasts \subseteq on
    BY <1>3, Ends
  <1> QED
    BY <1>1, <1>2, <1>3, <1>5, <1>6

\* An emptied node hangs behind one node, and leads to its right neighbour.
LEMMA HangsBehind ==
  ASSUME LInv, NEW at, NEW on, Shape(at, on), NEW p, NEW n, Hangs(p, n)
  PROVE  /\ p \in on \ Lasts /\ n \in alive \ on /\ Right[p] = next[n]
         /\ \A q : Hangs(q, n) => q = p
  <1>1. PICK t \in Thread : pc[t] = "relink" /\ prev[t] = p /\ next[p] = n
    BY DEF Hangs
  <1>2. PrevInv(at, on, t)
    BY DEF Shape, ThreadInv
  <1>3. p # Null /\ p \in on \ Lasts /\ n \in alive \ on
    BY <1>1, <1>2 DEF PrevInv, Leftover
  <1>4. p \in Node
    BY <1>3, OnLists
  <1>5. Right[p] = next[n]
    BY <1>1, <1>4 DEF Right
  <1>6. ASSUME NEW q, Hangs(q, n) PROVE q = p
    <2>1. PICK u \in Thread : pc[u] = "relink" /\ prev[u] = q /\ next[q] = n
      BY <1>6 DEF Hangs
    <2>2. Leftover(u) = Leftover(t)
      BY <1>1, <2>1 DEF Leftover
    <2>3. u = t
      BY <1>1, <1>2, <2>1, <2>2 DEF PrevInv
    <2> QED
      BY <1>1, <2>1, <2>3
  <1> QED
    BY <1>3, <1>5, <1>6

\* The bases of the nodes a walk along level i meets are the nodes of its list.
LEMMA BaseOf ==
  ASSUME LInv, NEW at, NEW on, Shape(at, on), NEW i \in Level
  PROVE  /\ \A n \in Met(at, on, i) :
              /\ n \in alive /\ n \in Node
              /\ Base(on, n) \in on /\ at[Base(on, n)] = i
              /\ n \in on => Base(on, n) = n
              /\ n \notin on => Hangs(Base(on, n), n)
         /\ \A p, n : p \in on /\ at[p] = i /\ Hangs(p, n) =>
              n \in Met(at, on, i) /\ n \notin on /\ Base(on, n) = p
         /\ \A n \in on : Base(on, n) = n /\ (at[n] = i => n \in Met(at, on, i))
  <1>1. on \subseteq alive /\ alive \subseteq Node
    BY OnLists
  <1>2. ASSUME NEW p \in on, NEW n, Hangs(p, n) PROVE n \in alive \ on /\ Base(on, n) = p
    BY <1>2, HangsBehind DEF Base
  <1>3. \A n \in on : Base(on, n) = n /\ (at[n] = i => n \in Met(at, on, i))
    BY <1>1 DEF Base, Met
  <1>4. \A p, n : p \in on /\ at[p] = i /\ Hangs(p, n) =>
              n \in Met(at, on, i) /\ n \notin on /\ Base(on, n) = p
    BY <1>2 DEF Met
  <1>5. ASSUME NEW n \in Met(at, on, i), n \notin on
        PROVE  Base(on, n) \in on /\ at[Base(on, n)] = i /\ Hangs(Base(on, n), n)
    <2>1. PICK p \in on : at[p] = i /\ Hangs(p, n)
      BY <1>5 DEF Met
    <2>2. Base(on, n) = p
      BY <1>2, <2>1
    <2> QED
      BY <2>1, <2>2
  <1>6. \A n \in Met(at, on, i) : n \in alive /\ (n \in on => at[n] = i)
    BY DEF Met
  <1> QED
    BY <1>1, <1>3, <1>4, <1>5, <1>6

\* From a node a walk meets, next leads to the one that comes next.
LEMMA MetNext ==
  ASSUME LInv, NEW at, NEW on, Shape(at, on), NEW i \in Level, NEW n \in Met(at, on, i)
  PROVE  /\ n \in Lasts => next[n] = Null
         /\ n \notin Lasts =>
              /\ next[n] # Null /\ next[n] \in Met(at, on, i) /\ <<n, next[n]>> \in Order(on)
              /\ \A m \in on : at[m] = i /\ <<n, m>> \in Order(on) =>
                   next[n] = m \/ <<next[n], m>> \in Order(on)
  <1> DEFINE p == Base(on, n)
  <1>1. /\ n \in alive /\ n \in Node /\ p \in on /\ at[p] = i
        /\ n \in on => p = n
        /\ n \notin on => Hangs(p, n)
    BY BaseOf
  <1>2. /\ Listed(data, Right, at, on) /\ on \subseteq Node /\ Null \notin Node /\ Lasts \subseteq on
    BY OnLists
  <1>3. \A m \in on : Base(on, m) = m
    BY BaseOf
  <1>4. \A m \in on : <<n, m>> \in Order(on) <=> Left(data, p, m)
    BY <1>1, <1>2, <1>3, InOrder
  <1>5. p \notin Lasts => /\ Right[p] \in on /\ at[Right[p]] = i /\ Left(data, p, Right[p])
                          /\ \A m \in on : at[m] = i /\ Left(data, p, m) =>
                               m = Right[p] \/ Left(data, Right[p], m)
    BY <1>1, <1>2 DEF Listed
  <1>6. p \in Lasts => Right[p] = Null
    BY <1>1, <1>2 DEF Listed
  <1> HIDE DEF p
  <1>7. ASSUME p \notin Lasts, next[n] = Right[p]
        PROVE  /\ next[n] # Null /\ next[n] \in Met(at, on, i) /\ <<n, next[n]>> \in Order(on)
               /\ \A m \in on : at[m] = i /\ <<n, m>> \in Order(on) =>
                    next[n] = m \/ <<next[n], m>> \in Order(on)
    <2>1. next[n] \in on /\ at[next[n]] = i /\ next[n] \in Node /\ next[n] # Null
      BY <1>2, <1>5, <1>7
    <2>2. next[n] \in Met(at, on, i) /\ Base(on, next[n]) = next[n]
      BY <2>1, BaseOf
    <2>3. <<n, next[n]>> \in Order(on)
      BY <1>4, <1>5, <1>7, <2>1
    <2>4. \A m \in on : <<next[n], m>> \in Order(on) <=> Left(data, next[n], m)
      BY <1>2, <1>3, <2>1, <2>2, InOrder
    <2> QED
      BY <1>4, <1>5, <1>7, <2>1, <2>2, <2>3, <2>4
  <1>8. CASE n \notin on
    <2>1. p \in on \ Lasts /\ Right[p] = next[n]
      BY <1>1, <1>8, HangsBehind
    <2> QED
      BY <1>2, <1>7, <1>8, <2>1
  <1>9. CASE n \in on /\ \E t \in Thread : pc[t] = "relink" /\ prev[t] = n
    <2>1. Hangs(n, next[n]) /\ p = n
      BY <1>1, <1>9 DEF Hangs
    <2>2. n \in on \ Lasts /\ next[n] \in alive \ on
      BY <2>1, HangsBehind
    <2>3. next[n] \in Met(at, on, i) /\ Base(on, next[n]) = n
      BY <1>1, <2>1, <2>2, BaseOf
    <2>4. next[n] \in Node /\ next[n] # Null
      BY <1>2, <2>3, BaseOf
    <2>5. <<n, next[n]>> \in Order(on)
      BY <1>1, <1>9, <2>2, <2>3, <2>4, <1>3, InOrder
    <2>6. \A m \in on : <<next[n], m>> \in Order(on) <=> Left(data, n, m)
      BY <1>2, <1>3, <2>2, <2>3, <2>4, InOrder
    <2> QED
      BY <1>4, <2>1, <2>2, <2>3, <2>4, <2>5, <2>6
  <1>10. CASE n \in on /\ ~\E t \in Thread : pc[t] = "relink" /\ prev[t] = n
    <2>1. next[n] = Right[n] /\ p = n
      BY <1>1, <1>10 DEF Right
    <2> QED
      BY <1>6, <1>7, <2>1
  <1> QED
    BY <1>8, <1>9, <1>10

\* From First[i] a walk stays among them, in order.
LEMMA LevelAlong ==
  ASSUME LInv, NEW at, NEW on, Shape(at, on), NEW i \in Level
  PROVE  Along(i, Met(at, on, i), Order(on))
  <1>1. /\ Listed(data, Right, at, on) /\ on \subseteq Node /\ Firsts \subseteq on
        /\ First[i] \in Firsts /\ at[First[i]] = i
    BY OnLists, Ends
  <1>2. First[i] \in Met(at, on, i)
    BY <1>1, BaseOf
  <1>3. \A n \in Met(at, on, i) : next[n] # Null =>
           next[n] \in Met(at, on, i) /\ <<n, next[n]>> \in Order(on)
    BY MetNext
  <1>4. \A n \in Met(at, on, i) : n \in alive /\ n \in Node /\ Base(on, n) \in on
    BY BaseOf
  <1>5. \A n \in Met(at, on, i) : <<n, n>> \notin Order(on)
    <2> TAKE n \in Met(at, on, i)
    <2>1. n \in Node /\ Base(on, n) \in on
      BY <1>4
    <2>2. ~Left(data, Base(on, n), Base(on, n))
      BY <1>1, <2>1, LeftOrder
    <2> QED
      BY <2>1, <2>2, InOrder
  <1>6. \A l, m, n \in Met(at, on, i) :
           <<l, m>> \in Order(on) /\ <<m, n>> \in Order(on) => <<l, n>> \in Order(on)
    <2> SUFFICES ASSUME NEW l \in Met(at, on, i), NEW m \in Met(at, on, i), NEW n \in Met(at, on, i),
                        <<l, m>> \in Order(on), <<m, n>> \in Order(on)
                 PROVE  <<l, n>> \in Order(on)
      OBVIOUS
    <2>1. /\ l \in Node /\ m \in Node /\ n \in Node
          /\ Base(on, l) \in on /\ Base(on, m) \in on /\ Base(on, n) \in on
      BY <1>4
    <2>2. Left(data, Base(on, l), Base(on, m)) /\ Left(data, Base(on, m), Base(on, n))
            => Left(data, Base(on, l), Base(on, n))
      BY <1>1, <2>1, LeftOrder
    <2>3. \/ Left(data, Base(on, l), Base(on, m))
          \/ Base(on, l) = Base(on, m) /\ l \in on /\ m \notin on
      BY <2>1, InOrder
    <2>4. \/ Left(data, Base(on, m), Base(on, n))
          \/ Base(on, m) = Base(on, n) /\ m \in on /\ n \notin on
      BY <2>1, InOrder
    <2>5. \/ Left(data, Base(on, l), Base(on, n))
          \/ Base(on, l) = Base(on, n) /\ l \in on /\ n \notin on
      BY <2>2, <2>3, <2>4
    <2> QED
      BY <2>1, <2>5, InOrder
  <1>7. Met(at, on, i) \subseteq alive
    BY <1>4
  <1> QED
    BY <1>2, <1>3, <1>5, <1>6, <1>7 DEF Along

\* The walk along level i meets exactly the nodes of its list, with those that
\* hang behind one of them, from left to right, and ends with the last.
LEMMA LevelWalk ==
  ASSUME LInv, NEW at, NEW on, Shape(at, on), NEW i \in Level
  PROVE  LET w == Walk(i) IN
         /\ Len(w) \in Nat /\ 1 <= Len(w) /\ DOMAIN w = 1 .. Len(w)
         /\ w[1] = First[i] /\ w[Len(w)] = Last[i]
         /\ \A a \in DOMAIN w : /\ w[a] \in Met(at, on, i) /\ w[a] \in Node
                                /\ w[a] \in on => at[w[a]] = i
                                /\ w[a] \notin on => Emptied(w[a])
         /\ \A a, b \in DOMAIN w : a < b /\ w[a] \in on /\ w[b] \in on =>
              Left(data, w[a], w[b])
         /\ \A m \in on : at[m] = i => \E b \in DOMAIN w : w[b] = m
  <1> DEFINE w == Walk(i)
  <1>1. Along(i, Met(at, on, i), Order(on))
    BY LevelAlong
  <1>2. next \in [Node -> Pointer] /\ alive \subseteq Node
    BY OnLists
  <1>3. /\ w \in Seq(Node) /\ Len(w) \in Nat /\ 1 <= Len(w) /\ w[1] = First[i]
        /\ next[w[Len(w)]] = Null
        /\ \A a \in 1 .. Len(w) : w[a] \in Met(at, on, i)
        /\ \A a, b \in 1 .. Len(w) : a < b => <<w[a], w[b]>> \in Order(on)
    BY <1>1, <1>2, WalkMeets
  <1>4. ASSUME NEW m \in on, at[m] = i PROVE \E b \in DOMAIN w : w[b] = m
    <2>1. /\ Listed(data, Right, at, on) /\ on \subseteq Node
          /\ First[i] \in on /\ First[i] \in Firsts /\ at[First[i]] = i
      BY OnLists, Ends
    <2>2. m = First[i] \/ <<First[i], m>> \in Order(on)
      <3>1. m = First[i] \/ Left(data, First[i], m)
        <4>1. ~Left(data, m, First[i])
          BY <2>1 DEF Left
        <4> QED
          BY <1>4, <2>1, <4>1 DEF Listed
      <3> QED
        BY <2>1, <3>1, BaseOf, InOrder
    <2>3. \A n \in Met(at, on, i) : <<n, m>> \in Order(on) =>
            next[n] # Null /\ (next[n] = m \/ <<next[n], m>> \in Order(on))
      <3> TAKE n \in Met(at, on, i)
      <3> HAVE <<n, m>> \in Order(on)
      <3>1. n \notin Lasts
        <4> SUFFICES ASSUME n \in Lasts PROVE FALSE
          OBVIOUS
        <4>1. n \in on /\ Base(on, n) = n /\ Base(on, m) = m /\ n \in Node
          BY <2>1, OnLists, BaseOf
        <4>2. Left(data, n, m)
          BY <2>1, <4>1, InOrder
        <4> QED
          BY <4>2 DEF Left
      <3> QED
        BY <1>4, <3>1, MetNext
    <2> QED
      BY <1>1, <1>2, <2>2, <2>3, WalkFinds
  <1> HIDE DEF w
  <1>5. DOMAIN w = 1 .. Len(w)
    BY <1>3, LenProperties
  <1>6. \A n \in Met(at, on, i) : /\ n \in Node /\ (n \in on => at[n] = i)
                                  /\ n \notin on => Emptied(n)
    <2> TAKE n \in Met(at, on, i)
    <2>1. /\ n \in Node /\ (n \notin on => Hangs(Base(on, n), n))
          /\ n \in on => at[n] = i
      BY BaseOf
    <2>2. n \notin on => Emptied(n)
      BY <2>1 DEF Hangs, Emptied
    <2> QED
      BY <2>1, <2>2
  <1>7. ASSUME NEW a \in DOMAIN w, NEW b \in DOMAIN w, a < b, w[a] \in on, w[b] \in on
        PROVE  Left(data, w[a], w[b])
    <2>1. <<w[a], w[b]>> \in Order(on) /\ w[a] \in Node /\ w[b] \in Node
      BY <1>3, <1>5, <1>6, <1>7
    <2>2. Base(on, w[a]) = w[a] /\ Base(on, w[b]) = w[b]
      BY <1>7, BaseOf
    <2> QED
      BY <1>7, <2>1, <2>2, InOrder
  <1>8. w[Len(w)] = Last[i]
    <2>1. Len(w) \in 1 .. Len(w)
      BY <1>3
    <2>2. w[Len(w)] \in Met(at, on, i)
      BY <1>3, <2>1
    <2>3. w[Len(w)] \in Lasts
      BY <1>3, <2>2, MetNext
    <2>4. PICK j \in Level : w[Len(w)] = Last[j]
      BY <2>3, Ends
    <2>5. at[w[Len(w)]] = i /\ at[Last[j]] = j
      BY <1>6, <2>2, <2>3, OnLists
    <2> QED
      BY <2>4, <2>5
  <1> QED
    BY <1>3, <1>4, <1>5, <1>6, <1>7, <1>8 DEF w

\* The levels are sorted by what Shape says of them.
LEMMA InvSorted == Inv => LevelsSorted
  <1> SUFFICES ASSUME Inv, NEW i \in Level
               PROVE  LET w == Walk(i) IN
                      /\ w[Len(w)] = Last[i] /\ data[Last[i]] = <<>>
                      /\ \A a \in DOMAIN w :
                           LET s == data[w[a]] IN
                           /\ s = <<>> => w[a] = Last[i] \/ Emptied(w[a])
                           /\ \A j \in DOMAIN s : s[j].key = NoKey <=> a = 1 /\ j = 1
                           /\ \A j, l \in DOMAIN s : j < l /\ s[j].key # NoKey => s[j].key < s[l].key
                           /\ \A b \in DOMAIN w : a < b =>
                                \A k \in Keys(w[a]), m \in Keys(w[b]) : k < m
    BY Zenon DEF LevelsSorted
  <1> DEFINE w == Walk(i)
  <1>1. LInv
    BY DEF Inv
  <1>2. PICK at, on : Shape(at, on)
    BY DEF Inv
  <1>3. /\ Len(w) \in Nat /\ 1 <= Len(w) /\ DOMAIN w = 1 .. Len(w)
        /\ w[1] = First[i] /\ w[Len(w)] = Last[i]
        /\ \A a \in DOMAIN w : /\ w[a] \in Met(at, on, i) /\ w[a] \in Node
                               /\ w[a] \in on => at[w[a]] = i
                               /\ w[a] \notin on => Emptied(w[a])
        /\ \A a, b \in DOMAIN w : a < b /\ w[a] \in on /\ w[b] \in on =>
             Left(data, w[a], w[b])
    BY <1>1, <1>2, LevelWalk
  <1> HIDE DEF w
  <1>4. /\ Listed(data, Right, at, on) /\ on \subseteq Node /\ Last[i] \in Lasts /\ Last[i] \in Node
        /\ First[i] \in Firsts /\ First[i] \in on /\ First[i] \notin Lasts
        /\ \A j \in Level : at[Last[j]] = j
        /\ \A n \in Node : n \in on \ Lasts <=> data[n] # <<>>
    BY <1>1, <1>2, OnLists, Ends
  <1>5. data[Last[i]] = <<>>
    BY <1>4
  <1>6. ASSUME NEW a \in DOMAIN w, data[w[a]] = <<>> PROVE w[a] = Last[i] \/ Emptied(w[a])
    <2> SUFFICES ASSUME w[a] \in on PROVE w[a] = Last[i]
      BY <1>3
    <2>1. w[a] \in Lasts /\ at[w[a]] = i
      BY <1>3, <1>4, <1>6
    <2>2. PICK j \in Level : w[a] = Last[j]
      BY <2>1, Ends
    <2> QED
      BY <1>4, <2>1, <2>2
  <1>7. ASSUME NEW a \in DOMAIN w, NEW j \in DOMAIN data[w[a]]
        PROVE  /\ data[w[a]] # <<>> /\ w[a] \in on \ Lasts
               /\ data[w[a]][j] \in EntriesOf(data[w[a]])
               /\ Ascending(data[w[a]]) /\ data[w[a]] \in Seq(EntryType)
               /\ j \in Nat /\ 1 <= j /\ 1 \in DOMAIN data[w[a]]
    <2>1. w[a] \in Node
      BY <1>3
    <2>2. data[w[a]][j] \in EntriesOf(data[w[a]])
      BY DEF EntriesOf
    <2>3. w[a] \in on \ Lasts /\ Ascending(data[w[a]]) /\ data[w[a]] \in Seq(EntryType)
      BY <1>4, <2>1, <2>2, NodeFacts
    <2>4. DOMAIN data[w[a]] = 1 .. Len(data[w[a]]) /\ Len(data[w[a]]) \in Nat
      BY <2>3, LenProperties
    <2>5. j \in Nat /\ 1 <= j /\ 1 \in DOMAIN data[w[a]]
      BY <2>4
    <2> QED
      BY <1>4, <2>1, <2>2, <2>3, <2>5
  <1>8. ASSUME NEW a \in DOMAIN w, NEW j \in DOMAIN data[w[a]]
        PROVE  data[w[a]][j].key = NoKey <=> a = 1 /\ j = 1
    <2>1. /\ w[a] \in on \ Lasts /\ w[a] \in Node /\ a \in 1 .. Len(w) /\ 1 \in DOMAIN w
          /\ data[w[a]][j] \in EntriesOf(data[w[a]]) /\ Ascending(data[w[a]])
          /\ j \in Nat /\ 1 <= j /\ 1 \in DOMAIN data[w[a]]
      BY <1>3, <1>7
    <2>2. CASE a = 1
      <3>1. w[a] \in Firsts
        BY <1>3, <1>4, <2>2
      <3>2. data[w[a]][1].key = NoKey
        BY <1>4, <2>1, <3>1, NodeFacts DEF Start
      <3>3. j # 1 => data[w[a]][j].key # NoKey
        BY <2>1 DEF Ascending
      <3> QED
        BY <2>2, <3>2, <3>3
    <2>3. CASE a # 1
      <3>1. 1 < a
        BY <1>3, <2>1, <2>3
      <3>2. Left(data, w[1], w[a])
        BY <1>3, <1>4, <2>1, <3>1
      <3>3. w[a] \notin Firsts
        BY <3>2 DEF Left
      <3>4. data[w[a]][j].key # NoKey
        BY <1>4, <2>1, <3>3, NodeFacts
      <3> QED
        BY <2>3, <3>4
    <2> QED
      BY <2>2, <2>3
  <1>9. ASSUME NEW a \in DOMAIN w, NEW j \in DOMAIN data[w[a]], NEW l \in DOMAIN data[w[a]],
               j < l, data[w[a]][j].key # NoKey
        PROVE  data[w[a]][j].key < data[w[a]][l].key
    <2>1. Ascending(data[w[a]])
      BY <1>7
    <2> QED
      BY <1>9, <2>1 DEF Ascending
  <1>10. ASSUME NEW a \in DOMAIN w, NEW b \in DOMAIN w, a < b, NEW k \in Keys(w[a]), NEW m \in Keys(w[b])
         PROVE  k < m
    <2>1. PICK j \in DOMAIN data[w[a]] : k = data[w[a]][j].key /\ k # NoKey
      BY DEF Keys
    <2>2. PICK l \in DOMAIN data[w[b]] : m = data[w[b]][l].key /\ m # NoKey
      BY DEF Keys
    <2>3. /\ w[a] \in on \ Lasts /\ w[a] \in Node /\ data[w[a]][j] \in EntriesOf(data[w[a]])
          /\ w[b] \in on \ Lasts /\ w[b] \in Node /\ data[w[b]][l] \in EntriesOf(data[w[b]])
          /\ at[w[a]] = at[w[b]]
      BY <1>3, <1>7
    <2>4. Left(data, w[a], w[b])
      BY <1>3, <1>10, <2>3
    <2>5. w[b] \notin Firsts
      BY <2>4 DEF Left
    <2>6. k < Start(data, w[b])
      BY <1>4, <2>1, <2>3, <2>4, EntriesLeft DEF Before
    <2>7. Start(data, w[b]) <= m /\ Start(data, w[b]) \in Int /\ m \in Int /\ k \in Int
      BY <1>4, <2>1, <2>2, <2>3, <2>5, NodeFacts
    <2> QED
      BY <2>6, <2>7
  <1> QED
    BY <1>3, <1>5, <1>6, <1>8, <1>9, <1>10 DEF w

\* At every point of every call each level is a list from its first node to its last,
\* with ascending keys within and across its nodes; only its last node is empty, and
\* a node a merge is about to take off.
THEOREM LevelsStaySorted == Spec => []LevelsSorted
  BY Invariant, InvSorted, PTL

\* Down pointers land by what DownInv says of them.
LEMMA InvDown == Inv => DownStartsWithKey
  <1> SUFFICES ASSUME Inv, NEW i \in Level \ {0}, NEW a \in DOMAIN Walk(i),
                      NEW j \in DOMAIN data[Walk(i)[a]]
               PROVE  LET below == Walk(i - 1)
                          e == data[Walk(i)[a]][j] IN
                      \/ \E b \in DOMAIN below : below[b] = e.down /\ data[e.down][1].key = e.key
                      \/ \E t \in Thread : /\ insertNode[t] = e.down /\ owner[e.down] = t
                                           /\ op[t].key = e.key /\ data[e.down] = <<>>
    BY Zenon DEF DownStartsWithKey
  <1> DEFINE n == Walk(i)[a]
             e == data[n][j]
  <1>1. LInv
    BY DEF Inv
  <1>2. PICK at, on : Shape(at, on)
    BY DEF Inv
  <1>3. n \in Node /\ (n \in on => at[n] = i)
    BY <1>1, <1>2, LevelWalk
  <1>4. /\ Listed(data, Right, at, on) /\ alive \subseteq Node
        /\ \A m \in Node : m \in on \ Lasts <=> data[m] # <<>>
    BY <1>1, <1>2, OnLists
  <1>5. e \in EntriesOf(data[n])
    BY DEF EntriesOf
  <1> HIDE DEF n, e
  <1>6. n \in on
    BY <1>3, <1>4, <1>5, NodeFacts
  <1>7. Link(data, at, on, i, e.key, e.down)
    BY <1>3, <1>5, <1>6 DEF Link
  <1>8. i > 0 /\ i - 1 \in Level
    BY CallAssumption DEF Level
  <1>9. \/ Stands(at, on, e.down, i - 1, e.key)
        \/ \E t \in Thread : Waits(t, i - 1, e.key, e.down)
    BY <1>2, <1>7, <1>8 DEF Shape, DownInv
  <1>10. ASSUME Stands(at, on, e.down, i - 1, e.key)
         PROVE  \E b \in DOMAIN Walk(i - 1) : Walk(i - 1)[b] = e.down /\ data[e.down][1].key = e.key
    <2>1. e.down \in on /\ at[e.down] = i - 1 /\ data[e.down][1].key = e.key
      BY <1>10 DEF Stands, Start
    <2>2. \E b \in DOMAIN Walk(i - 1) : Walk(i - 1)[b] = e.down
      BY <1>1, <1>2, <1>8, <2>1, LevelWalk
    <2> QED
      BY <2>1, <2>2
  <1>11. ASSUME NEW t \in Thread, Waits(t, i - 1, e.key, e.down)
         PROVE  /\ insertNode[t] = e.down /\ owner[e.down] = t
                /\ op[t].key = e.key /\ data[e.down] = <<>>
    <2>1. insertNode[t] = e.down /\ e.down # Null /\ op[t].key = e.key
      BY <1>11 DEF Waits
    <2>2. e.down \in alive \ on
      BY <1>1, <1>2, <2>1, HeldAlive
    <2>3. data[e.down] = <<>>
      BY <1>4, <2>2
    <2>4. e.down \in HeldExclusive(t)
      BY <2>1 DEF HeldExclusive
    <2>5. owner[e.down] = t
      BY <1>1, <1>4, <2>2, <2>4 DEF LInv, Holds
    <2> QED
      BY <2>1, <2>3, <2>5
  <1> QED
    BY <1>9, <1>10, <1>11 DEF n, e

\* Through all splits, merges and deletions an entry above the bottom level points to the
\* node of the level below that starts with its key, or to the node its insert holds
\* locked to put it there.
THEOREM DownPointersHold == Spec => []DownStartsWithKey
  BY Invariant, InvDown, PTL

-----------------------------------------------------------------------------
(* The map the nodes store.                                                *)

\* The entries of all nodes.
Stored == UNION {EntriesOf(data[n]) : n \in Node}

\* The entries with a value are those of the bottom level: nothing is below
\* them, nor is there a place for a node.  Null keys have none.
ValuesInv == \A e \in Stored : e.val # NoValue <=> e.down = Null /\ e.key # NoKey

\* Some node stores v for k.
Binds(k, v) == \E e \in Stored : e.key = k /\ e.val = v

\* The value Contents takes from those stored for a key.
Choice(S) == IF S = {} THEN NoValue ELSE CHOOSE v \in S : TRUE

\* Where an entry of a node is, and that nothing is below those of the bottom
\* level only.
LEMMA StoredAt ==
  ASSUME LInv, NEW at, NEW on, Shape(at, on)
  PROVE  /\ \A e \in Stored : e \in EntryType /\ \E n \in on : e \in EntriesOf(data[n])
         /\ \A n \in Node : \A e \in EntriesOf(data[n]) :
              /\ e \in Stored /\ n \in on \ Lasts /\ e \in EntryType
              /\ at[n] = 0 <=> e.down = Null
  <1>1. Listed(data, Right, at, on) /\ DownInv(at, on)
    BY DEF Shape
  <1>2. ASSUME NEW n \in Node, NEW e \in EntriesOf(data[n])
        PROVE  /\ e \in Stored /\ n \in on \ Lasts /\ e \in EntryType
               /\ at[n] = 0 <=> e.down = Null
    <2>1. n \in on \ Lasts /\ e \in EntryType
      BY <1>1, NodeFacts
    <2>2. e \in Stored
      BY DEF Stored
    <2>3. Link(data, at, on, at[n], e.key, e.down)
      BY <2>1 DEF Link
    <2>4. at[n] \in Level /\ on \subseteq Node
      BY <1>1 DEF Listed
    <2>5. at[n] = 0 => e.down = Null
      BY <1>1, <2>3 DEF DownInv
    <2>6. ASSUME at[n] # 0 PROVE e.down # Null
      <3>1. at[n] > 0
        BY <2>4, <2>6 DEF Level
      <3>2. \/ Stands(at, on, e.down, at[n] - 1, e.key)
            \/ \E t \in Thread : Waits(t, at[n] - 1, e.key, e.down)
        BY <1>1, <2>3, <3>1 DEF DownInv
      <3> QED
        BY <2>4, <3>2, Ends DEF Stands, Waits
    <2> QED
      BY <2>1, <2>2, <2>5, <2>6
  <1>3. ASSUME NEW e \in Stored PROVE e \in EntryType /\ \E n \in on : e \in EntriesOf(data[n])
    <2>1. PICK n \in Node : e \in EntriesOf(data[n])
      BY DEF Stored
    <2> QED
      BY <1>2, <2>1
  <1> QED
    BY <1>2, <1>3

\* A level has one entry of a key.
LEMMA OneEntry ==
  ASSUME NEW D, NEW X, NEW at, NEW on, Listed(D, X, at, on),
         NEW m \in on, NEW n \in on, at[m] = at[n],
         NEW e \in EntriesOf(D[m]), NEW f \in EntriesOf(D[n]), e.key = f.key, e.key # NoKey
  PROVE  m = n /\ e = f
  <1>1. on \subseteq Node
    BY DEF Listed
  <1>2. /\ m \notin Lasts /\ n \notin Lasts /\ e.key \in Int
        /\ m \notin Firsts => Start(D, m) \in Int /\ Start(D, m) <= e.key
        /\ n \notin Firsts => Start(D, n) \in Int /\ Start(D, n) <= e.key
    BY <1>1, NodeFacts
  <1>3. ~Left(D, m, n)
    <2> SUFFICES ASSUME Left(D, m, n) PROVE FALSE
      OBVIOUS
    <2>1. Before(D[m], Start(D, n)) /\ n \notin Firsts
      BY <1>2, EntriesLeft DEF Left
    <2> QED
      BY <1>2, <2>1 DEF Before
  <1>4. ~Left(D, n, m)
    <2> SUFFICES ASSUME Left(D, n, m) PROVE FALSE
      OBVIOUS
    <2>1. Before(D[n], Start(D, m)) /\ m \notin Firsts
      BY <1>2, EntriesLeft DEF Left
    <2> QED
      BY <1>2, <2>1 DEF Before
  <1>5. m = n
    BY <1>3, <1>4 DEF Listed
  <1>6. D[n] \in Seq(EntryType) /\ Ascending(D[n]) /\ D[n] # <<>>
    BY <1>1, <1>2, NodeFacts
  <1> QED
    BY <1>5, <1>6, EntryOrder

\* Contents reads that map.
LEMMA ContentsAre == Inv => Contents = [j \in Key |-> Choice({v \in Value : Binds(j, v)})]
  <1> SUFFICES ASSUME Inv
               PROVE  Contents = [j \in Key |-> Choice({v \in Value : Binds(j, v)})]
    OBVIOUS
  <1>1. PICK at, on : Shape(at, on)
    BY DEF Inv
  <1>2. LInv /\ on \subseteq alive /\ alive \subseteq Node
    BY <1>1, HeldAlive DEF Inv, Shape, Accounted, LInv, TypeOK
  <1>3. data \in [Node -> Seq(EntryType)]
    BY <1>2 DEF LInv, TypeOK
  <1>4. ASSUME NEW k, NEW v
        PROVE  (\E n \in alive : \E i \in DOMAIN data[n] : data[n][i].key = k /\ data[n][i].val = v)
                 <=> Binds(k, v)
    <2>1. ASSUME NEW n \in alive, NEW i \in DOMAIN data[n], data[n][i].key = k, data[n][i].val = v
          PROVE  Binds(k, v)
      <3>1. data[n][i] \in EntriesOf(data[n]) /\ n \in Node
        BY <1>2 DEF EntriesOf
      <3> QED
        BY <2>1, <3>1 DEF Binds, Stored
    <2>2. ASSUME NEW e \in Stored, e.key = k, e.val = v
          PROVE  \E n \in alive : \E i \in DOMAIN data[n] : data[n][i].key = k /\ data[n][i].val = v
      <3>1. PICK n \in on : e \in EntriesOf(data[n])
        BY <1>1, <1>2, StoredAt
      <3>2. PICK i \in DOMAIN data[n] : e = data[n][i]
        BY <3>1 DEF EntriesOf
      <3> QED
        BY <1>2, <2>2, <3>2
    <2> QED
      BY <2>1, <2>2 DEF Binds
  <1>5. \A k : {v \in Value : \E n \in alive : \E i \in DOMAIN data[n] :
                                data[n][i].key = k /\ data[n][i].val = v}
                 = {v \in Value : Binds(k, v)}
    BY <1>4
  <1> QED
    BY <1>5 DEF Contents, Choice

\* Before a step and after it.
LEMMA ContentsNext ==
  Inv /\ Inv' => /\ Contents = [j \in Key |-> Choice({v \in Value : Binds(j, v)})]
                 /\ (Contents = [j \in Key |-> Choice({v \in Value : Binds(j, v)})])'
  BY ContentsAre, PTL

\* A node that stores a value stores what is bound to its key, and nothing else is
\* bound.
LEMMA BoundValue ==
  ASSUME Inv, ValuesInv, NEW e \in Stored, e.val # NoValue
  PROVE  e.key \in Key /\ e.val \in Value /\ Contents[e.key] = e.val
  <1>1. PICK at, on : Shape(at, on)
    BY DEF Inv
  <1>2. LInv /\ Listed(data, Right, at, on) /\ on \subseteq Node
    BY <1>1 DEF Inv, Shape, Listed
  <1>3. e \in EntryType /\ e.key # NoKey /\ e.down = Null
    BY <1>1, <1>2, StoredAt DEF ValuesInv
  <1>4. e.key \in Key /\ e.val \in Value
    BY <1>3 DEF EntryType
  <1>5. ASSUME NEW v \in Value, Binds(e.key, v) PROVE v = e.val
    <2>1. PICK f \in Stored : f.key = e.key /\ f.val = v
      BY <1>5 DEF Binds
    <2>2. v # NoValue
      BY CallAssumption
    <2>3. f.down = Null
      BY <2>1, <2>2 DEF ValuesInv
    <2>4. PICK m \in on : e \in EntriesOf(data[m])
      BY <1>1, <1>2, StoredAt
    <2>5. PICK n \in on : f \in EntriesOf(data[n])
      BY <1>1, <1>2, StoredAt
    <2>6. at[m] = 0 /\ at[n] = 0
      BY <1>1, <1>2, <1>3, <2>3, <2>4, <2>5, StoredAt
    <2>7. e = f
      BY <1>2, <1>3, <2>1, <2>4, <2>5, <2>6, OneEntry
    <2> QED
      BY <2>1, <2>7
  <1>6. {v \in Value : Binds(e.key, v)} = {e.val}
    <2>1. Binds(e.key, e.val)
      BY DEF Binds
    <2> QED
      BY <1>4, <1>5, <2>1
  <1>7. Choice({e.val}) = e.val
    BY DEF Choice
  <1>8. Contents[e.key] = Choice({v \in Value : Binds(e.key, v)})
    BY <1>4, ContentsAre
  <1> QED
    BY <1>4, <1>6, <1>7, <1>8

\* A key that no node stores a value for is not bound.
LEMMA Unbound ==
  ASSUME Inv, NEW k \in Key, \A v \in Value : ~Binds(k, v)
  PROVE  Contents[k] = NoValue
  <1>1. {v \in Value : Binds(k, v)} = {}
    OBVIOUS
  <1>2. Contents[k] = Choice({v \in Value : Binds(k, v)})
    BY ContentsAre
  <1> QED
    BY <1>1, <1>2 DEF Choice

\* What a step does to the map.
LEMMA ContentsSame ==
  ASSUME Inv, Inv', \A k \in Key, v \in Value : Binds(k, v)' <=> Binds(k, v)
  PROVE  Contents' = Contents
  <1>1. /\ Contents = [j \in Key |-> Choice({v \in Value : Binds(j, v)})]
        /\ (Contents = [j \in Key |-> Choice({v \in Value : Binds(j, v)})])'
    BY ContentsNext
  <1>2. ASSUME NEW k \in Key
        PROVE  {v \in Value : Binds(k, v)}' = {v \in Value : Binds(k, v)}
    OBVIOUS
  <1>3. \A S : Choice(S)' = Choice(S)
    BY DEF Choice
  <1> QED
    BY <1>1, <1>2, <1>3

\* One that changes the values stored for one key binds or unbinds that key.
LEMMA ContentsChange ==
  ASSUME Inv, Inv', NEW k \in Key, NEW w \in Value \cup {NoValue},
         \A j \in Key \ {k}, v \in Value : Binds(j, v)' <=> Binds(j, v),
         \A v \in Value : Binds(k, v)' <=> v = w
  PROVE  Contents' = [Contents EXCEPT ![k] = w]
  <1>1. /\ Contents = [j \in Key |-> Choice({v \in Value : Binds(j, v)})]
        /\ Contents' = [j \in Key |-> Choice({v \in Value : Binds(j, v)'})]
    BY ContentsNext DEF Choice
  <1>2. ASSUME NEW j \in Key \ {k} PROVE Contents'[j] = Contents[j]
    <2>1. {v \in Value : Binds(j, v)'} = {v \in Value : Binds(j, v)}
      OBVIOUS
    <2> QED
      BY <1>1, <2>1
  <1>3. Contents'[k] = w
    <2>1. CASE w \in Value
      <3>1. {v \in Value : Binds(k, v)'} = {w}
        BY <2>1
      <3>2. Choice({w}) = w
        BY DEF Choice
      <3> QED
        BY <1>1, <3>1, <3>2
    <2>2. CASE w = NoValue
      <3>1. {v \in Value : Binds(k, v)'} = {}
        BY <2>2, CallAssumption
      <3>2. Choice({}) = w
        BY <2>2 DEF Choice
      <3> QED
        BY <1>1, <3>1, <3>2
    <2> QED
      BY <2>1, <2>2
  <1>4. DOMAIN Contents' = Key /\ DOMAIN Contents = Key
    BY <1>1
  <1>5. Contents' = [j \in Key |-> Contents'[j]] /\ Contents = [j \in Key |-> Contents[j]]
    BY <1>1
  <1> QED
    BY <1>2, <1>3, <1>4, <1>5

\* Where a search on the bottom level has found the place of its key between
\* two others, the key is not there.
LEMMA NothingThere ==
  ASSUME LInv, NEW at, NEW on, Shape(at, on), ValuesInv, NEW k \in Key, NEW n \in on,
         at[n] = 0, Short(data, n, k), Past(data, Right[n], k), ~Hit(data[n], k)
  PROVE  \A v \in Value : ~Binds(k, v)
  <1> SUFFICES ASSUME NEW v \in Value, NEW e \in Stored, e.key = k, e.val = v PROVE FALSE
    BY DEF Binds
  <1>1. Listed(data, Right, at, on) /\ on \subseteq Node /\ NoValue \notin Value
    BY CallAssumption DEF Shape, Listed
  <1>2. PICK m \in on : e \in EntriesOf(data[m])
    BY StoredAt
  <1>3. at[m] = 0
    BY <1>1, <1>2, StoredAt DEF ValuesInv
  <1>4. m = n
    BY <1>1, <1>2, <1>3, SamePlace
  <1>5. data[n] \in Seq(EntryType) /\ Ascending(data[n])
    BY <1>1, NodeFacts
  <1> QED
    BY <1>2, <1>4, <1>5, HitFinds

-----------------------------------------------------------------------------
(* What the steps that change nodes do to what is stored.                  *)

\* No node comes to start lower than it did.
Rising ==
  \A n \in Node : data[n] # <<>> /\ data'[n] # <<>> /\ data[n][1].key \in Int
                    => data[n][1].key <= data'[n][1].key

\* What is stored, by two nodes and by the others.
LEMMA StoredSplit ==
  ASSUME NEW c \in Node, NEW n \in Node,
         \A m \in Node : m # c /\ m # n => data'[m] = data[m]
  PROVE  \A e : /\ e \in Stored <=>
                     \/ e \in EntriesOf(data[c]) \/ e \in EntriesOf(data[n])
                     \/ \E m \in Node : m # c /\ m # n /\ e \in EntriesOf(data[m])
                /\ e \in Stored' <=>
                     \/ e \in EntriesOf(data'[c]) \/ e \in EntriesOf(data'[n])
                     \/ \E m \in Node : m # c /\ m # n /\ e \in EntriesOf(data[m])
  <1>1. ASSUME NEW e
        PROVE  e \in Stored <=>
                     \/ e \in EntriesOf(data[c]) \/ e \in EntriesOf(data[n])
                     \/ \E m \in Node : m # c /\ m # n /\ e \in EntriesOf(data[m])
    BY DEF Stored
  <1>2. ASSUME NEW e
        PROVE  e \in Stored' <=>
                     \/ e \in EntriesOf(data'[c]) \/ e \in EntriesOf(data'[n])
                     \/ \E m \in Node : m # c /\ m # n /\ e \in EntriesOf(data[m])
    <2>1. e \in Stored' <=> \E m \in Node : e \in EntriesOf(data'[m])
      BY DEF Stored, EntriesOf
    <2> QED
      BY <2>1
  <1> QED
    BY <1>1, <1>2

\* insert_into_node adds its entry, whether it splits the node or not.
LEMMA PlaceStores ==
  ASSUME LInv, NEW at, NEW on, Shape(at, on), NEW t \in Thread, Working(t, height[t]), Place(t)
  PROVE  LET e == Entry(op[t].key, IF height[t] = 0 THEN op[t].val ELSE NoValue, nextNode[t])
         IN Stored' = Stored \cup {e} /\ Rising
  <1> DEFINE c == cur[t]
             k == op[t].key
             s == data[c]
             i == Passed(s, k)
             e == Entry(k, IF height[t] = 0 THEN op[t].val ELSE NoValue, nextNode[t])
             n == IF insertNode[t] = Null THEN Fresh(k, height[t]) ELSE insertNode[t]
  <1>1. /\ pc[t] = "below" /\ data' = Placed(data, c, n, i, e, Splits(c, insertNode[t]))
        /\ Splits(c, insertNode[t]) /\ insertNode[t] = Null => Vacant(k, height[t]) # {}
    BY DEF Place
  <1>2. Listed(data, Right, at, on) /\ data \in [Node -> Seq(EntryType)] /\ on \subseteq Node
    BY DEF Shape, Listed
  <1>3. /\ c \in on \ Lasts /\ c \in Node /\ k \in Key /\ k \in Int
        /\ s \in Seq(EntryType) /\ Ascending(s) /\ s # <<>> /\ ~Hit(s, k) /\ i > 0
        /\ e \in EntryType /\ e.key = k
    <2>1. c \in on \ Lasts /\ c \in Node /\ k \in Key /\ k \in Int
      BY <1>1, PlaceFacts
    <2>2. s \in Seq(EntryType) /\ Ascending(s) /\ s # <<>> /\ ~Hit(s, k)
      BY <1>1, PlaceFacts
    <2>3. i \in 1 .. Len(s) /\ Len(s) \in Nat
      BY <1>1, PlaceFacts
    <2>4. e \in EntryType /\ e.key = k
      BY <1>1, PlaceFacts
    <2> QED
      BY <2>1, <2>2, <2>3, <2>4
  <1>4. \A f \in EntriesOf(s) : f.key # NoKey => f.key \in Int
    BY <1>2, <1>3, NodeFacts
  <1> HIDE DEF e, n
  <1>5. CASE ~Splits(c, insertNode[t])
    <2> DEFINE r == (UpTo(s, i) \o <<e>>) \o After(s, i)
    <2>1. r \in Seq(EntryType) /\ EntriesOf(r) = EntriesOf(s) \cup {e} /\ r[1] = s[1]
      BY <1>3, EntryAdded
    <2>2. data' = [data EXCEPT ![c] = r]
      BY <1>1, <1>5 DEF Placed
    <2> HIDE DEF r, i
    <2>3. data'[c] = r /\ \A m \in Node : m # c => data'[m] = data[m]
      BY <1>2, <1>3, <2>2
    <2>4. ASSUME NEW f PROVE f \in Stored' <=> f \in Stored \/ f = e
      BY <1>3, <2>1, <2>3, StoredSplit
    <2>5. Rising
      BY <2>1, <2>3 DEF Rising
    <2> QED
      BY <2>4, <2>5 DEF e
  <1>6. CASE Splits(c, insertNode[t])
    <2> DEFINE l == UpTo(s, i)
               r == <<e>> \o After(s, i)
    <2>1. /\ EntriesOf(l) = {f \in EntriesOf(s) : f.key = NoKey \/ f.key < k}
          /\ l # <<>> /\ l[1] = s[1] /\ l \in Seq(EntryType)
      BY <1>3, FrontEntries
    <2>2. EntriesOf(r) = {e} \cup {f \in EntriesOf(s) : f.key # NoKey /\ f.key >= k}
      BY <1>3, EntryFirst
    <2>3. n \in Node \ on
      <3>1. CASE insertNode[t] = Null
        <4>1. n \in Vacant(k, height[t])
          BY <1>1, <1>6, <3>1 DEF Fresh, n
        <4>2. height[t] \in Level
          BY Types DEF LInv
        <4>3. Site[k][height[t]] \subseteq Node /\ on \subseteq alive
          BY <1>3, <4>2, Ends, HeldAlive
        <4> QED
          BY <4>1, <4>3 DEF Vacant
      <3>2. CASE insertNode[t] # Null
        <4>1. insertNode[t] \in alive \ on /\ alive \subseteq Node
          BY <3>2, HeldAlive
        <4> QED
          BY <3>2, <4>1 DEF n
      <3> QED
        BY <3>1, <3>2
    <2>4. n # c /\ data[n] = <<>> /\ EntriesOf(data[n]) = {}
      <3>1. data[n] = <<>>
        BY <1>2, <2>3 DEF Listed, NodeOK
      <3> QED
        BY <1>3, <2>3, <3>1, EntrySeq, EmptySeq
    <2>5. data' = [data EXCEPT ![c] = l, ![n] = r]
      BY <1>1, <1>6 DEF Placed
    <2> HIDE DEF l, r, i
    <2>6. data'[c] = l /\ data'[n] = r /\ \A m \in Node : m # c /\ m # n => data'[m] = data[m]
      BY <1>2, <1>3, <2>3, <2>4, <2>5
    <2>7. ASSUME NEW f PROVE f \in Stored' <=> f \in Stored \/ f = e
      <3>1. f \in EntriesOf(l) \/ f \in EntriesOf(r) <=> f \in EntriesOf(s) \/ f = e
        BY <1>3, <1>4, <2>1, <2>2
      <3>2. /\ f \in Stored <=> \/ f \in EntriesOf(data[c]) \/ f \in EntriesOf(data[n])
                                \/ \E m \in Node : m # c /\ m # n /\ f \in EntriesOf(data[m])
            /\ f \in Stored' <=> \/ f \in EntriesOf(data'[c]) \/ f \in EntriesOf(data'[n])
                                 \/ \E m \in Node : m # c /\ m # n /\ f \in EntriesOf(data[m])
        BY <1>3, <2>3, <2>6, StoredSplit
      <3> QED
        BY <2>4, <2>6, <3>1, <3>2
    <2>8. Rising
      BY <2>1, <2>4, <2>6 DEF Rising
    <2> QED
      BY <2>7, <2>8 DEF e
  <1> QED
    BY <1>5, <1>6

\* The merge in insert_or_modify only moves entries.
LEMMA MoveOverStores ==
  ASSUME LInv, NEW at, NEW on, Shape(at, on), NEW t \in Thread, MoveOver(t)
  PROVE  Stored' = Stored /\ Rising
  <1> DEFINE c == cur[t]
             n == insertNode[t]
             k == op[t].key
             s == data[c]
             i == Passed(s, k)
             l == UpTo(s, i)
             r == After(s, i)
  <1>1. pc[t] = "hit" /\ n # Null /\ data' = [data EXCEPT ![c] = l, ![n] = r]
    BY DEF MoveOver, MovedOver
  <1>2. Listed(data, Right, at, on) /\ data \in [Node -> Seq(EntryType)] /\ on \subseteq Node
    BY DEF Shape, Listed
  <1>3. c \in on /\ c \in Node /\ k \in Key /\ k \in Int
    BY <1>1, SeekStart, CallAssumption DEF Waiting
  <1>4. n \in Node \ on /\ n # c /\ data[n] = <<>> /\ EntriesOf(data[n]) = {}
    <2>1. n \in alive \ on /\ alive \subseteq Node
      BY <1>1, HeldAlive
    <2>2. data[n] = <<>>
      BY <1>2, <2>1 DEF Listed, NodeOK
    <2> QED
      BY <1>3, <2>1, <2>2, EntrySeq, EmptySeq
  <1>5. s \in Seq(EntryType) /\ Ascending(s) /\ \A f \in EntriesOf(s) : f.key # NoKey => f.key \in Int
    BY <1>2, <1>3, NodeFacts
  <1>6. /\ EntriesOf(l) = {f \in EntriesOf(s) : f.key = NoKey \/ f.key < k}
        /\ i > 0 => l # <<>> /\ l[1] = s[1]
    BY <1>3, <1>5, FrontEntries
  <1>7. EntriesOf(r) = {f \in EntriesOf(s) : f.key # NoKey /\ f.key >= k}
    BY <1>3, <1>5, BackEntries
  <1>8. i = 0 => l = <<>>
    <2>1. i \in 0 .. Len(s)
      BY <1>3, <1>5, PassedSplits
    <2>2. l \in Seq(EntryType) /\ Len(l) = i
      BY <1>5, <2>1, Pieces
    <2> QED
      BY <2>2, EntrySeq
  <1>9. i \in Nat
    <2>1. i \in 0 .. Len(s) /\ Len(s) \in Nat
      BY <1>3, <1>5, PassedSplits, EntrySeq
    <2> QED
      BY <2>1
  <1> HIDE DEF l, r, i
  <1>10. data'[c] = l /\ data'[n] = r /\ \A m \in Node : m # c /\ m # n => data'[m] = data[m]
    BY <1>1, <1>2, <1>3, <1>4
  <1>11. ASSUME NEW f PROVE f \in Stored' <=> f \in Stored
    <2>1. f \in EntriesOf(l) \/ f \in EntriesOf(r) <=> f \in EntriesOf(s)
      BY <1>3, <1>5, <1>6, <1>7
    <2>2. /\ f \in Stored <=> \/ f \in EntriesOf(data[c]) \/ f \in EntriesOf(data[n])
                              \/ \E m \in Node : m # c /\ m # n /\ f \in EntriesOf(data[m])
          /\ f \in Stored' <=> \/ f \in EntriesOf(data'[c]) \/ f \in EntriesOf(data'[n])
                               \/ \E m \in Node : m # c /\ m # n /\ f \in EntriesOf(data[m])
      BY <1>3, <1>4, <1>10, StoredSplit
    <2> QED
      BY <1>4, <1>10, <2>1, <2>2
  <1>12. Rising
    <2>1. i = 0 \/ i > 0
      BY <1>9
    <2> QED
      BY <1>4, <1>6, <1>8, <1>10, <2>1 DEF Rising
  <1> QED
    BY <1>11, <1>12

\* The entry a call has found on the bottom level is the only one of its key
\* there.
LEMMA OnlyAt ==
  ASSUME LInv, NEW at, NEW on, Shape(at, on), NEW t \in Thread,
         pc[t] \in {"hit", "tower", "merged", "settle"}, At(t).down = Null,
         NEW m \in Node, NEW e \in EntriesOf(data[m]), e.key = op[t].key, e.down = Null
  PROVE  m = cur[t] /\ e = At(t)
  <1>1. /\ cur[t] \in on /\ cur[t] \in Node /\ At(t) \in EntriesOf(data[cur[t]])
        /\ At(t).key = op[t].key /\ op[t].key # NoKey
    BY FoundEntry, CallAssumption
  <1>2. at[cur[t]] = 0 /\ at[m] = 0 /\ m \in on
    BY <1>1, StoredAt
  <1>3. Listed(data, Right, at, on)
    BY DEF Shape
  <1> QED
    BY <1>1, <1>2, <1>3, OneEntry

\* An insert that finds its key writes the value of that entry.
LEMMA WriteStores ==
  ASSUME LInv, NEW at, NEW on, Shape(at, on), NEW t \in Thread, WriteValue(t)
  PROVE  LET b == [At(t) EXCEPT !.val = op[t].val] IN
         /\ b \in Stored' /\ At(t) \in Stored
         /\ \A e \in Stored : e \in Stored' \/ e = At(t)
         /\ \A e \in Stored' : e = b \/ (e \in Stored /\ (e.down = Null => e.key # op[t].key))
         /\ Rising
  <1> DEFINE c == cur[t]
             k == op[t].key
             s == data[c]
             i == Passed(s, k) + 1
             r == Written(s, i, op[t].val)
             b == [At(t) EXCEPT !.val = op[t].val]
  <1>1. pc[t] \in {"tower", "merged"} /\ At(t).down = Null /\ data' = [data EXCEPT ![c] = r]
    BY DEF WriteValue, Written
  <1>2. /\ c \in on /\ c \in Node /\ k \in Key /\ k \in Int /\ i \in 1 .. Len(s)
        /\ At(t) \in EntriesOf(s) /\ At(t) \in EntryType /\ At(t).key = k
    BY <1>1, FoundEntry, CallAssumption
  <1>3. Listed(data, Right, at, on) /\ data \in [Node -> Seq(EntryType)]
    BY DEF Shape, Listed
  <1>4. s \in Seq(EntryType) /\ Ascending(s) /\ DOMAIN s = 1 .. Len(s) /\ Len(s) \in Nat
    BY <1>2, <1>3, NodeFacts, EntrySeq
  <1>5. At(t) = s[i]
    BY DEF At
  <1>6. op[t].val \in Value \cup {NoValue}
    BY Types DEF LInv, OpType
  <1>7. /\ r \in Seq(EntryType) /\ DOMAIN r = 1 .. Len(s)
        /\ \A j \in 1 .. Len(s) : /\ r[j].key = s[j].key /\ r[j].down = s[j].down
                                  /\ r[j].val = IF j = i THEN op[t].val ELSE s[j].val
    <2> HIDE DEF c, i
    <2>1. /\ r \in Seq(EntryType) /\ Len(r) = Len(s)
          /\ \A j \in 1 .. Len(s) : /\ r[j].key = s[j].key /\ r[j].down = s[j].down
                                    /\ r[j].val = IF j = i THEN op[t].val ELSE s[j].val
      BY <1>2, <1>4, <1>6, ValueWritten
    <2> QED
      BY <2>1, EntrySeq
  <1> HIDE DEF r, i
  <1>8. \A j \in 1 .. Len(s) : r[j] = IF j = i THEN b ELSE s[j]
    <2> SUFFICES ASSUME NEW j \in 1 .. Len(s) PROVE r[j] = IF j = i THEN b ELSE s[j]
      OBVIOUS
    <2>1. r[j] \in EntryType /\ s[j] \in EntryType
      BY <1>4, <1>7, EntrySeq
    <2>2. /\ r[j].key = s[j].key /\ r[j].down = s[j].down
          /\ r[j].val = IF j = i THEN op[t].val ELSE s[j].val
      BY <1>7
    <2>3. r[j] = [key |-> r[j].key, val |-> r[j].val, down |-> r[j].down]
      BY <2>1 DEF EntryType
    <2>4. s[j] = [key |-> s[j].key, val |-> s[j].val, down |-> s[j].down]
      BY <2>1 DEF EntryType
    <2>5. At(t) = [key |-> At(t).key, val |-> At(t).val, down |-> At(t).down]
      BY <1>2 DEF EntryType
    <2>6. b = [key |-> At(t).key, val |-> op[t].val, down |-> At(t).down]
      BY <2>5
    <2>7. CASE j = i
      BY <1>5, <2>2, <2>3, <2>6, <2>7
    <2>8. CASE j # i
      BY <2>2, <2>3, <2>4, <2>8
    <2> QED
      BY <2>7, <2>8
  <1>9. b.key = k /\ b.down = Null /\ b.val = op[t].val
    <2>1. At(t) = [key |-> At(t).key, val |-> At(t).val, down |-> At(t).down]
      BY <1>2 DEF EntryType
    <2>2. b = [key |-> At(t).key, val |-> op[t].val, down |-> At(t).down]
      BY <2>1
    <2> QED
      BY <1>1, <1>2, <2>2
  <1>10. data'[c] = r /\ \A m \in Node : m # c => data'[m] = data[m]
    BY <1>1, <1>2, <1>3, <1>7
  <1>11. EntriesOf(r) = {r[j] : j \in 1 .. Len(s)} /\ EntriesOf(s) = {s[j] : j \in 1 .. Len(s)}
    BY <1>4, <1>7 DEF EntriesOf
  <1>12. ASSUME NEW j \in 1 .. Len(s), j # i PROVE s[j].key # k
    <2>1. s[i].key = k /\ k # NoKey /\ i \in Nat /\ j \in Nat
      BY <1>2, <1>5, CallAssumption
    <2>2. CASE j < i
      BY <1>2, <1>4, <1>12, <2>1, <2>2 DEF Ascending
    <2>3. CASE i < j
      BY <1>2, <1>4, <1>12, <2>1, <2>3 DEF Ascending
    <2> QED
      BY <1>12, <2>1, <2>2, <2>3
  <1>13. \A e : /\ e \in Stored <=> e \in EntriesOf(s) \/ \E m \in Node : m # c /\ e \in EntriesOf(data[m])
                /\ e \in Stored' <=> e \in EntriesOf(r) \/ \E m \in Node : m # c /\ e \in EntriesOf(data[m])
    BY <1>2, <1>10, StoredSplit
  <1> HIDE DEF b
  <1>14. b \in Stored' /\ At(t) \in Stored
    BY <1>2, <1>8, <1>11, <1>13
  <1>15. ASSUME NEW e \in Stored PROVE e \in Stored' \/ e = At(t)
    <2>1. CASE e \in EntriesOf(s)
      BY <1>5, <1>8, <1>11, <1>13, <2>1
    <2>2. CASE e \notin EntriesOf(s)
      BY <1>13, <1>15, <2>2
    <2> QED
      BY <2>1, <2>2
  <1>16. ASSUME NEW e \in Stored' PROVE e = b \/ (e \in Stored /\ (e.down = Null => e.key # k))
    <2>1. CASE e \in EntriesOf(r)
      <3>1. PICK j \in 1 .. Len(s) : e = r[j]
        BY <1>11, <2>1
      <3> QED
        BY <1>8, <1>11, <1>12, <1>13, <3>1
    <2>2. CASE e \notin EntriesOf(r)
      <3>1. PICK m \in Node : m # c /\ e \in EntriesOf(data[m])
        BY <1>13, <1>16, <2>2
      <3>2. e \in Stored
        BY <1>13, <3>1
      <3> QED
        BY <1>1, <3>1, <3>2, OnlyAt
    <2> QED
      BY <2>1, <2>2
  <1>17. Rising
    <2>1. 1 \in 1 .. Len(s)
      BY <1>2
    <2>2. r[1].key = s[1].key
      BY <1>7, <2>1
    <2> QED
      BY <1>10, <2>2 DEF Rising
  <1> QED
    BY <1>14, <1>15, <1>16, <1>17 DEF b

\* What a remove takes out is the entry it has found.
LEMMA DeleteStores ==
  ASSUME LInv, NEW at, NEW on, Shape(at, on), NEW t \in Thread, op[t].name = "remove",
         DeleteEntry(t) \/ DeleteNode(t)
  PROVE  /\ Stored' \subseteq Stored /\ At(t) \in Stored /\ At(t).key = op[t].key
         /\ \A e \in Stored : e \in Stored' \/ e = At(t)
         /\ At(t).down = Null => \A e \in Stored' : e.key = op[t].key => e.down # Null
         /\ Rising
  <1> DEFINE c == cur[t]
             k == op[t].key
             s == data[c]
             i == Passed(s, k)
             r == data'[c]
  <1>1. pc[t] = "hit"
    BY DEF DeleteEntry, DeleteNode
  <1>2. /\ c \in on /\ c \in Node /\ k \in Key /\ k \in Int /\ i + 1 \in 1 .. Len(s)
        /\ At(t) \in EntriesOf(s) /\ At(t).key = k
    <2>1. pc[t] \in {"hit", "tower", "merged", "settle"}
      BY <1>1
    <2>2. /\ c \in on \ Lasts /\ c \in Node /\ k \in Key /\ i + 1 \in 1 .. Len(s)
          /\ At(t) \in EntriesOf(s) /\ At(t).key = k
      BY <2>1, FoundEntry
    <2> QED
      BY <2>2, CallAssumption
  <1>3. Listed(data, Right, at, on) /\ data \in [Node -> Seq(EntryType)]
    BY DEF Shape, Listed
  <1>4. s \in Seq(EntryType) /\ Ascending(s) /\ s # <<>> /\ Hit(s, k)
    <2>1. Hit(s, k)
      BY <1>1 DEF Shape, ThreadInv, CurInv
    <2>2. At(t) \in EntriesOf(s)
      BY <1>2
    <2> QED
      BY <1>2, <1>3, <2>1, <2>2, NodeFacts, EntrySeq
  <1>5. \A e \in EntriesOf(s) : e.key = k => e = At(t)
    BY <1>2, <1>4, EntryOrder
  <1>6. i \in 0 .. Len(s) /\ Len(s) \in Nat
    BY <1>2, <1>4, PassedSplits, EntrySeq
  <1>7. /\ \A m \in Node : m # c => data'[m] = data[m]
        /\ EntriesOf(r) = {e \in EntriesOf(s) : e.key # k}
        /\ r # <<>> /\ s[1].key \in Int => s[1].key <= r[1].key
    <2>1. CASE DeleteEntry(t)
      <3> DEFINE rest == Without(s, i)
      <3>1. data' = [data EXCEPT ![c] = rest]
        BY <2>1 DEF DeleteEntry
      <3>2. /\ rest \in Seq(EntryType) /\ Ascending(rest)
            /\ EntriesOf(rest) = {e \in EntriesOf(s) : e.key # k}
        BY <1>2, <1>4, EntryRemoved
      <3>3. rest # <<>> => rest[1] \in EntriesOf(rest)
        BY <3>2, EntryOrder
      <3> HIDE DEF rest
      <3>4. r = rest /\ \A m \in Node : m # c => data'[m] = data[m]
        BY <1>2, <1>3, <3>1
      <3>5. rest # <<>> /\ s[1].key \in Int => s[1].key <= rest[1].key
        <4> SUFFICES ASSUME rest # <<>>, s[1].key \in Int PROVE s[1].key <= rest[1].key
          OBVIOUS
        <4>1. rest[1] \in EntriesOf(s)
          BY <3>2, <3>3
        <4>2. rest[1] = s[1] \/ (rest[1].key # NoKey /\ (s[1].key = NoKey \/ s[1].key < rest[1].key))
          BY <1>4, <4>1, EntryOrder
        <4>3. rest[1].key # NoKey => rest[1].key \in Int
          BY <1>2, <1>3, <4>1, NodeFacts
        <4> QED
          BY <4>2, <4>3, CallAssumption
      <3> QED
        BY <3>2, <3>4, <3>5
    <2>2. CASE DeleteNode(t)
      <3>1. Len(s) = 1
        BY <2>2 DEF DeleteNode
      <3>2. i = 0
        BY <1>2, <1>6, <3>1
      <3>3. prev[t] # Null
        BY <1>1, <3>2, FirstHit DEF Exclusive
      <3>4. data' = [data EXCEPT ![c] = <<>>]
        BY <2>2, <3>3 DEF DeleteNode
      <3>5. r = <<>> /\ \A m \in Node : m # c => data'[m] = data[m]
        BY <1>2, <1>3, <3>4
      <3>6. EntriesOf(r) = {}
        BY <3>5, EntrySeq, EmptySeq
      <3>7. ASSUME NEW e \in EntriesOf(s) PROVE e.key = k
        <4>1. PICK j \in 1 .. Len(s) : s[j] = e
          BY <1>4, EntrySeq
        <4>2. j = 1 /\ s[1] = At(t)
          BY <3>1, <3>2, <4>1 DEF At
        <4> QED
          BY <1>2, <4>1, <4>2
      <3> QED
        BY <3>5, <3>6, <3>7
    <2> QED
      BY <2>1, <2>2
  <1>8. \A e : /\ e \in Stored <=> e \in EntriesOf(s) \/ \E m \in Node : m # c /\ e \in EntriesOf(data[m])
               /\ e \in Stored' <=> e \in EntriesOf(r) \/ \E m \in Node : m # c /\ e \in EntriesOf(data[m])
    BY <1>2, <1>7, StoredSplit
  <1>9. Stored' \subseteq Stored /\ At(t) \in Stored /\ \A e \in Stored : e \in Stored' \/ e = At(t)
    <2> HIDE DEF r
    <2>1. At(t) \in Stored
      BY <1>2, <1>8
    <2>2. \A e \in Stored : e \in Stored' \/ e = At(t)
      BY <1>5, <1>7, <1>8
    <2>3. \A e : e \in EntriesOf(r) => e \in EntriesOf(s)
      BY <1>7
    <2> QED
      BY <1>8, <2>1, <2>2, <2>3
  <1>10. ASSUME At(t).down = Null, NEW e \in Stored', e.key = k PROVE e.down # Null
    <2>1. e \notin EntriesOf(r)
      BY <1>7, <1>10
    <2>2. PICK m \in Node : m # c /\ e \in EntriesOf(data[m])
      BY <1>8, <1>10, <2>1
    <2> QED
      BY <1>1, <1>10, <2>2, OnlyAt
  <1>11. Rising
    BY <1>7 DEF Rising
  <1> QED
    BY <1>2, <1>9, <1>10, <1>11

-----------------------------------------------------------------------------
(* The invariant of the map.                                               *)

\* An answer is given once, when the call ends.
ReplyInv(t) ==
  /\ pc[t] = "idle" => op[t] = IdleOp
  /\ pc[t] # "idle" /\ op[t].name = "insert" => op[t].val \in Value
  /\ pc[t] # "ret" /\ op[t].name # "range" => reply[t] = NoReply

\* A remove that has taken its key off the bottom level does nothing more to
\* the map: what is to its right stays past the key.
RemovedInv(t) ==
  removed[t] =>
    /\ op[t].name = "remove"
    /\ \/ pc[t] = "ret"
       \/ pc[t] \in {"next", "below"} /\ height[t] = 0 /\ Past(data, next[cur[t]], op[t].key)

\* A range starts in a node that has a key for it, and is never at a null key.
RangeInv(t) ==
  /\ op[t].name = "range" /\ pc[t] = "below" /\ height[t] = 0 =>
       Passed(data[cur[t]], op[t].key) < Len(data[cur[t]])
  /\ pc[t] = "emit" /\ index[t] <= Len(data[cur[t]]) => data[cur[t]][index[t]].key # NoKey
  /\ pc[t] = "step" => data[cur[t]][index[t] - 1].key # NoKey

\* What the map needs beside Inv.
MapInv == ValuesInv /\ \A t \in Thread : ReplyInv(t) /\ RemovedInv(t) /\ RangeInv(t)

\* A step of t neither moves another thread nor answers for it.
Private(t) ==
  Others(t) /\ \A u \in Thread \ {t} : removed'[u] = removed[u] /\ reply'[u] = reply[u]

\* No step moves or answers for another thread.
LEMMA StepIsPrivate ==
  ASSUME LInv, NEW t \in Thread, Step(t) \/ \E o \in Ops(GenLevels) : Call(t, o)
  PROVE  Private(t)
  <1>0. LocalTypes
    BY TypeParts DEF LInv
  <1> USE <1>0 DEF Private, Others, Goto, Answer, Stand, heap, fresh, scan, LocalTypes
  <1>1. ASSUME NEW m, NEW l, \/ Enter(t, m) \/ StopShort(t, m) \/ MoveRight(t) \/ Trail(t)
                             \/ GoDown(t, m, l) \/ DescendTower(t, m, l)
        PROVE  Private(t)
    BY <1>1 DEF Enter, StopShort, MoveRight, Trail, GoDown, DescendTower
  <1>2. ASSUME NEW m, NEW r, OffTheBottom(t, m, r) \/ ReadValue(t) \/ RangeDone(t) \/ WriteValue(t)
        PROVE  Private(t)
    BY <1>2 DEF OffTheBottom, ReadValue, RangeDone, WriteValue, Leave
  <1>3. ASSUME Allocate(t) \/ Place(t) \/ MoveOver(t) \/ Relink(t) \/ Settle(t) PROVE Private(t)
    BY <1>3 DEF Allocate, Place, MoveOver, Relink, Settle
  <1>4. ASSUME DeleteEntry(t) \/ DeleteNode(t) PROVE Private(t)
    BY <1>4 DEF DeleteEntry, DeleteNode
  <1>5. ASSUME \/ StartHere(t) \/ StartNext(t) \/ Emit(t) \/ StepInNode(t) \/ StepRight(t)
        PROVE  Private(t)
    BY <1>5 DEF StartHere, StartNext, Emit, StepInNode, StepRight
  <1>6. ASSUME NEW o, Return(t) \/ Call(t, o) PROVE Private(t)
    BY <1>6 DEF Return, Call
  <1> HIDE <1>0 DEF Private
  <1>7. CASE Get(t)
    BY <1>1, <1>2, <1>7 DEF Get
  <1>8. CASE Insert(t)
    BY <1>1, <1>2, <1>3, <1>8 DEF Insert, Search, Work
  <1>9. CASE Remove(t)
    BY <1>1, <1>2, <1>4, <1>9 DEF Remove
  <1>10. CASE RangeCall(t)
    BY <1>1, <1>2, <1>5, <1>10 DEF RangeCall
  <1> QED
    BY <1>6, <1>7, <1>8, <1>9, <1>10 DEF Step

\* The steps that change what the nodes hold.
Writes(t) ==
  \/ op[t].name = "insert" /\ Working(t, height[t]) /\ (Place(t) \/ MoveOver(t))
  \/ op[t].name = "insert" /\ WriteValue(t)
  \/ op[t].name = "remove" /\ (DeleteEntry(t) \/ DeleteNode(t))

\* The others leave the entries alone.
LEMMA StepWrites ==
  ASSUME LInv, NEW at, NEW on, Shape(at, on), NEW t \in Thread,
         Step(t) \/ \E o \in Ops(GenLevels) : Call(t, o)
  PROVE  data' = data \/ Writes(t)
  <1>1. ASSUME NEW m, NEW l, \/ Enter(t, m) \/ StopShort(t, m) \/ MoveRight(t) \/ Trail(t)
                             \/ GoDown(t, m, l) \/ DescendTower(t, m, l)
        PROVE  data' = data
    BY <1>1 DEF Enter, StopShort, MoveRight, Trail, GoDown, DescendTower, heap
  <1>2. CASE Get(t)
    BY <1>1, <1>2 DEF Get, OffTheBottom, ReadValue, heap
  <1>3. CASE Insert(t)
    <2>1. ASSUME op[t].name = "insert", Working(t, height[t]), Allocate(t) \/ Relink(t) \/ Settle(t)
          PROVE  data' = data
      BY <2>1 DEF Allocate, Relink, Settle, heap
    <2> QED
      BY <1>1, <1>3, <2>1 DEF Insert, Search, Work, Writes
  <1>4. CASE Remove(t)
    BY <1>1, <1>4 DEF Remove, OffTheBottom, heap, Writes
  <1>5. CASE RangeCall(t)
    BY <1>1, <1>5
       DEF RangeCall, StartHere, StartNext, Emit, StepInNode, StepRight, RangeDone, heap
  <1>6. CASE Return(t) \/ \E o \in Ops(GenLevels) : Call(t, o)
    BY <1>6 DEF Return, Call, heap
  <1> QED
    BY <1>2, <1>3, <1>4, <1>5, <1>6 DEF Step

\* No node comes to start lower, whatever t does.
LEMMA StepRises ==
  ASSUME LInv, NEW at, NEW on, Shape(at, on), NEW t \in Thread, data' = data \/ Writes(t)
  PROVE  Rising
  <1>1. CASE data' = data
    BY <1>1 DEF Rising
  <1>2. CASE Writes(t)
    BY <1>2, PlaceStores, MoveOverStores, WriteStores, DeleteStores DEF Writes
  <1> QED
    BY <1>1, <1>2

\* The node to the right of one a thread searches has its keys, if it is not
\* the last.
RightStarts(t) ==
  pc[t] \in {"next", "below"} =>
    LET n == next[cur[t]]
    IN n \in Lasts \/ (n \in Node \ Firsts /\ data[n] # <<>> /\ data[n][1].key \in Int)

\* The lists and the labels say so.
LEMMA RightHasStart == Inv => \A t \in Thread : RightStarts(t)
  <1> SUFFICES ASSUME Inv, NEW t \in Thread, pc[t] \in {"next", "below"}, next[cur[t]] \notin Lasts
               PROVE  LET n == next[cur[t]]
                      IN n \in Node \ Firsts /\ data[n] # <<>> /\ data[n][1].key \in Int
    BY DEF RightStarts
  <1>1. PICK at, on : Shape(at, on)
    BY DEF Inv
  <1>2. next[cur[t]] \in on /\ next[cur[t]] \in Node /\ next[cur[t]] \notin Firsts
    BY <1>1, NextOf DEF Inv, OnLevel
  <1>3. Listed(data, Right, at, on)
    BY <1>1 DEF Shape
  <1> QED
    BY <1>2, <1>3, NodeFacts DEF Start

\* After a step, too.
LEMMA RightHasStartThen == Inv' => (\A t \in Thread : RightStarts(t))'
  BY RightHasStart, PTL

\* The node another thread is in stays as it is: that thread has it locked.
LEMMA CurKept ==
  ASSUME LInv, NEW at, NEW on, Shape(at, on), NEW t \in Thread, Guarded(t),
         NEW u \in Thread \ {t}, cur[u] # Null
  PROVE  data'[cur[u]] = data[cur[u]] /\ next'[cur[u]] = next[cur[u]]
  <1>1. cur[u] \in on /\ cur[u] \in alive
    BY HeldAlive
  <1>2. cur[u] \notin HeldExclusive(t)
    BY OwnPointers, HeldApart
  <1>3. pc[t] = "relink" => cur[u] # Leftover(t)
    BY <1>1 DEF Shape, ThreadInv, PrevInv
  <1> QED
    BY <1>1, <1>2, <1>3 DEF Guarded

\* So the facts about the map hold of the other threads after a step.
LEMMA OthersMap ==
  ASSUME Inv, Inv', MapInv, NEW t \in Thread, Guarded(t), Private(t), Rising,
         NEW u \in Thread \ {t}
  PROVE  ReplyInv(u)' /\ RemovedInv(u)' /\ RangeInv(u)'
  <1>1. PICK at, on : Shape(at, on)
    BY DEF Inv
  <1>2. LInv /\ CurInv(at, on, u)
    BY <1>1 DEF Inv, Shape, ThreadInv
  <1>3. /\ pc'[u] = pc[u] /\ op'[u] = op[u] /\ height'[u] = height[u] /\ cur'[u] = cur[u]
        /\ index'[u] = index[u] /\ removed'[u] = removed[u] /\ reply'[u] = reply[u]
    BY DEF Private, Others
  <1>4. cur[u] # Null => data'[cur[u]] = data[cur[u]] /\ next'[cur[u]] = next[cur[u]]
    BY <1>1, <1>2, CurKept
  <1>5. ReplyInv(u)'
    BY <1>3 DEF MapInv, ReplyInv
  <1>6. RangeInv(u)'
    <2>1. pc[u] \in {"below", "emit", "step"} => cur[u] # Null
      BY <1>2 DEF CurInv, OnLevel
    <2> QED
      BY <1>3, <1>4, <2>1 DEF MapInv, RangeInv
  <1>7. RemovedInv(u)'
    <2> SUFFICES ASSUME removed[u], pc[u] \in {"next", "below"}, Past(data, next[cur[u]], op[u].key)
                 PROVE  Past(data', next[cur[u]], op[u].key)
      <3>1. removed[u] => /\ op[u].name = "remove"
                          /\ \/ pc[u] = "ret"
                             \/ /\ pc[u] \in {"next", "below"} /\ height[u] = 0
                                /\ Past(data, next[cur[u]], op[u].key)
        BY DEF MapInv, RemovedInv
      <3>2. pc[u] \in {"next", "below"} => next'[cur[u]] = next[cur[u]]
        BY <1>2, <1>4 DEF CurInv, OnLevel
      <3> QED
        BY <1>3, <3>1, <3>2 DEF RemovedInv, Past, Start
    <2>1. next'[cur'[u]] = next[cur[u]]
      BY <1>2, <1>3, <1>4 DEF CurInv, OnLevel
    <2>2. RightStarts(u) /\ RightStarts(u)'
      BY RightHasStart, RightHasStartThen
    <2>3. CASE next[cur[u]] \notin Lasts
      <3> DEFINE n == next[cur[u]]
      <3>1. n \in Node \ Firsts /\ data[n] # <<>> /\ data[n][1].key \in Int
        BY <2>2, <2>3 DEF RightStarts
      <3>2. data'[n] # <<>> /\ data'[n][1].key \in Int
        BY <1>3, <2>1, <2>2, <2>3 DEF RightStarts
      <3>3. data[n][1].key <= data'[n][1].key
        BY <3>1, <3>2 DEF Rising
      <3>4. data[n][1].key > op[u].key
        BY <2>3, <3>1 DEF Past, Start
      <3>5. op[u].key \in Int
        BY <1>2, <1>1, SeekStart, CallAssumption DEF Seeking, Waiting
      <3> QED
        BY <3>1, <3>2, <3>3, <3>4, <3>5 DEF Past, Start
    <2>4. CASE next[cur[u]] \in Lasts
      BY <2>4 DEF Past
    <2> QED
      BY <2>3, <2>4
  <1> QED
    BY <1>5, <1>6, <1>7

\* What is stored with a value is on the bottom level, after a step, too.
LEMMA StepValues ==
  ASSUME LInv, NEW at, NEW on, Shape(at, on), MapInv, NEW t \in Thread,
         data' = data \/ Writes(t)
  PROVE  ValuesInv'
  <1>1. CASE Stored' \subseteq Stored
    BY <1>1 DEF MapInv, ValuesInv
  <1>2. CASE data' = data
    BY <1>1, <1>2 DEF Stored
  <1>3. NoValue \notin Value /\ NoKey \notin Int /\ Key \subseteq Int
    BY CallAssumption
  <1>4. CASE op[t].name = "insert" /\ Working(t, height[t]) /\ Place(t)
    <2> DEFINE e == Entry(op[t].key, IF height[t] = 0 THEN op[t].val ELSE NoValue, nextNode[t])
    <2>1. Stored' = Stored \cup {e}
      BY <1>4, PlaceStores
    <2>2. pc[t] = "below"
      BY <1>4 DEF Place
    <2>3. op[t].val \in Value /\ op[t].key \in Key
      BY <1>4, <2>2, SeekStart DEF MapInv, ReplyInv, Waiting
    <2>4. nextNode[t] = Null <=> height[t] = 0
      <3>1. NewInv(on, t) /\ height[t] \in Level
        BY Types DEF Shape, ThreadInv, LInv
      <3> QED
        BY <1>4, <2>2, <3>1 DEF NewInv, Level
    <2>5. e.val # NoValue <=> e.down = Null /\ e.key # NoKey
      BY <1>3, <2>3, <2>4 DEF Entry
    <2> QED
      BY <2>1, <2>5 DEF MapInv, ValuesInv
  <1>5. CASE op[t].name = "insert" /\ WriteValue(t)
    <2> DEFINE b == [At(t) EXCEPT !.val = op[t].val]
    <2>1. \A e \in Stored' : e = b \/ e \in Stored
      BY <1>5, WriteStores
    <2>2. pc[t] \in {"tower", "merged"} /\ At(t).down = Null
      BY <1>5 DEF WriteValue
    <2>3. op[t].val \in Value /\ At(t) \in EntryType /\ At(t).key = op[t].key /\ op[t].key \in Key
      BY <1>5, <2>2, FoundEntry DEF MapInv, ReplyInv
    <2>4. b.val = op[t].val /\ b.down = Null /\ b.key = op[t].key
      BY <2>2, <2>3 DEF EntryType
    <2>5. b.val # NoValue <=> b.down = Null /\ b.key # NoKey
      BY <1>3, <2>3, <2>4
    <2> QED
      BY <2>1, <2>5 DEF MapInv, ValuesInv
  <1>6. CASE MoveOver(t)
    BY <1>1, <1>6, MoveOverStores
  <1>7. CASE op[t].name = "remove" /\ (DeleteEntry(t) \/ DeleteNode(t))
    BY <1>1, <1>7, DeleteStores
  <1> QED
    BY <1>2, <1>4, <1>5, <1>6, <1>7 DEF Writes

\* The steps within a call keep the call and answer at the end.
Within(t) ==
  /\ pc[t] \notin {"idle", "ret"} /\ pc'[t] # "idle"
  /\ op'[t].name = op[t].name /\ op'[t].key = op[t].key /\ op'[t].val = op[t].val
  /\ op[t].name # "range" => op'[t] = op[t]
  /\ op[t].name # "range" /\ pc'[t] # "ret" => reply'[t] = reply[t]

\* Every step between the start of a call and its return is one of them.
LEMMA StepWithin ==
  ASSUME LInv, NEW t \in Thread, Get(t) \/ Insert(t) \/ Remove(t) \/ RangeCall(t)
  PROVE  Within(t)
  <1>0. LocalTypes
    BY TypeParts DEF LInv
  <1>1. \A s, nx, k : Look(s, nx, k) # "idle"
    BY LookLabels
  <1>2. \A n, h : Begin(t, n, h) # "idle"
    BY <1>1 DEF Begin
  <1>3. \A n, k, l : l # "idle" => InTower(n, k, l) # "idle"
    BY DEF InTower
  <1> USE <1>0 DEF Within, Goto, Answer, Stand, heap, fresh, scan, LocalTypes
  <1>4. ASSUME NEW m, NEW l, \/ Enter(t, m) \/ StopShort(t, m) \/ MoveRight(t) \/ Trail(t)
                             \/ GoDown(t, m, l)
        PROVE  Within(t)
    BY <1>1, <1>2, <1>4 DEF Enter, StopShort, MoveRight, Trail, GoDown
  <1>5. ASSUME NEW m, NEW l, pc[t] \in {"hit", "tower", "merged"}, DescendTower(t, m, l)
        PROVE  Within(t)
    BY <1>3, <1>5 DEF DescendTower
  <1>6. ASSUME NEW m, NEW r, OffTheBottom(t, m, r) \/ ReadValue(t) \/ RangeDone(t) \/ WriteValue(t)
        PROVE  Within(t)
    BY <1>6 DEF OffTheBottom, ReadValue, RangeDone, WriteValue, Leave, AtTowerFoot
  <1>7. ASSUME Allocate(t) \/ Place(t) \/ MoveOver(t) \/ Relink(t) \/ Settle(t) PROVE Within(t)
    BY <1>1, <1>7 DEF Allocate, Place, MoveOver, Relink, Settle
  <1>8. ASSUME DeleteEntry(t) \/ DeleteNode(t) PROVE Within(t)
    BY <1>1, <1>8 DEF DeleteEntry, DeleteNode
  <1>9. ASSUME op[t].name = "range",
               \/ StartHere(t) \/ StartNext(t) \/ StepInNode(t) \/ StepRight(t)
        PROVE  Within(t)
    BY <1>9 DEF StartHere, StartNext, StepInNode, StepRight, AtTowerFoot
  <1>10. ASSUME op[t].name = "range", Emit(t) PROVE Within(t)
    BY <1>10 DEF Emit, OpType
  <1> HIDE <1>0 DEF Within
  <1>11. CASE Get(t)
    BY <1>4, <1>5, <1>6, <1>11 DEF Get
  <1>12. CASE Insert(t)
    BY <1>4, <1>5, <1>6, <1>7, <1>12 DEF Insert, Search, Work
  <1>13. CASE Remove(t)
    BY <1>4, <1>6, <1>8, <1>13 DEF Remove
  <1>14. CASE RangeCall(t)
    BY <1>4, <1>5, <1>6, <1>9, <1>10, <1>14 DEF RangeCall
  <1> QED
    BY <1>11, <1>12, <1>13, <1>14

\* What is true of the answer of a call stays true as the call goes on.
LEMMA OwnReply ==
  ASSUME NEW t \in Thread, ReplyInv(t), Within(t)
  PROVE  ReplyInv(t)'
  BY DEF Within, ReplyInv

\* A remove that takes its key off the bottom level stands where the key was.
LEMMA TakesOff ==
  ASSUME Inv, Inv', NEW at, NEW on, Shape(at, on), NEW t \in Thread, Guarded(t),
         op[t].name = "remove", DeleteEntry(t) \/ DeleteNode(t), removed'[t]
  PROVE  RemovedInv(t)'
  <1> DEFINE c == cur[t]
             p == prev[t]
             k == op[t].key
  <1>1. LInv /\ LocalTypes /\ HeapTypes
    BY TypeParts DEF Inv, LInv
  <1>2. pc[t] = "hit" /\ Exclusive(t) /\ Listed(data, Right, at, on) /\ ThreadInv(at, on, t)
    BY DEF DeleteEntry, DeleteNode, Exclusive, Shape
  <1>3. /\ c \in on \ Lasts /\ c \in Node /\ k \in Key /\ c # Null
        /\ At(t) \in EntriesOf(data[c]) /\ At(t).key = k
        /\ Passed(data[c], k) + 1 \in 1 .. Len(data[c])
    BY <1>1, <1>2, FoundEntry, BAssumption
  <1>4. next[c] \in on /\ next[c] # c /\ next[c] \notin Firsts
        /\ (next[c] \notin Lasts => Before(data[c], Start(data, next[c])))
    BY <1>1, <1>2, NextOf DEF OnLevel
  <1>5. k \in Int /\ k # NoKey
    BY <1>3, CallAssumption
  <1>6. Past(data, next[c], k)
    BY <1>3, <1>4, <1>5 DEF Past, Before
  <1>7. c \in HeldExclusive(t) /\ c \in alive
    BY <1>1, <1>2, <1>3, HeldAlive, ModeOf DEF HeldExclusive
  <1>8. p # c /\ (p # Null => p \in Node)
    BY <1>2, <1>3, Types, <1>1 DEF ThreadInv, PrevInv, LInv, Pointer
  <1>9. pc'[t] # "crash"
    BY DEF Inv, Shape, ThreadInv, CallInv
  <1>10. op'[t] = op[t] /\ height'[t] = height[t]
    BY DEF DeleteEntry, DeleteNode
  <1>11. data[c] \in Seq(EntryType) /\ Ascending(data[c]) /\ data[c] # <<>> /\ Len(data[c]) \in Nat
    BY <1>2, <1>3, NodeFacts, EntrySeq
  <1>12. Hit(data[c], k) /\ Passed(data[c], k) \in 0 .. Len(data[c])
    BY <1>2, <1>3, <1>11, PassedSplits DEF ThreadInv, CurInv
  <1>13. data \in [Node -> Seq(EntryType)] /\ next \in [Node -> Pointer]
    BY <1>1 DEF HeapTypes
  <1>14. CASE DeleteEntry(t)
    <2> DEFINE rest == Without(data[c], Passed(data[c], k))
    <2>1. data'[c] = rest /\ \A n \in Node : n # c => data'[n] = data[n]
      BY <1>3, <1>13, <1>14 DEF DeleteEntry
    <2>2. next' = next /\ alive' = alive
      BY <1>14 DEF DeleteEntry
    <2>3. /\ rest \in Seq(EntryType) /\ Ascending(rest) /\ Len(rest) = Len(data[c]) - 1
          /\ EntriesOf(rest) = {e \in EntriesOf(data[c]) : e.key # k}
      BY <1>3, <1>11, <1>12, EntryRemoved
    <2>4. At(t).down = Null
      BY <1>1, <1>14 DEF DeleteEntry, LocalTypes
    <2>5. height[t] = 0
      BY <1>1, <1>2, <2>4, AtTheFoot
    <2>6. pc'[t] # "hit"
      BY <1>2, <1>7, <1>11, <2>1, <2>3 DEF Guarded, Leftover
    <2> HIDE DEF rest
    <2>7. CASE Passed(data[c], k) # 0
      <3>1. cur'[t] = c /\ pc'[t] = Look(rest, next[c], k)
        BY <1>1, <1>3, <1>14, <2>7, <2>2 DEF DeleteEntry, Stand, Goto, LocalTypes, rest
      <3>2. Past(data', next'[cur'[t]], k)
        <4>1. next[c] \in Node
          BY <1>2, <1>4 DEF Listed
        <4> QED
          BY <1>4, <1>6, <2>1, <2>2, <3>1, <4>1 DEF Past, Start
      <3>3. pc'[t] \in {"next", "below"}
        BY <1>9, <2>6, <3>1, LookLabels
      <3> QED
        BY <1>2, <1>10, <2>5, <3>2, <3>3 DEF RemovedInv
    <2>8. CASE Passed(data[c], k) = 0
      <3>1. c \notin Firsts /\ Start(data, c) = k /\ p # Null /\ p \in Node /\ next[p] = c
        BY <1>1, <1>2, <2>8, FirstHit
      <3>2. cur'[t] = p /\ pc'[t] = Look(data[p], next[p], k)
        BY <1>1, <1>3, <1>14, <2>8, <2>2, <3>1 DEF DeleteEntry, Stand, Goto, LocalTypes
      <3>3. Past(data', c, k)
        <4>1. Len(rest) > 0
          BY <1>11, <1>14, <2>3 DEF DeleteEntry
        <4>2. rest[1] \in EntriesOf(rest)
          BY <2>3, <4>1, EntrySeq
        <4>3. rest[1] \in EntriesOf(data[c]) /\ rest[1].key # k
          BY <2>3, <4>2
        <4>4. data[c][1].key = k
          BY <3>1 DEF Start
        <4>5. rest[1].key # NoKey /\ data[c][1].key < rest[1].key
          BY <1>5, <1>11, <4>3, <4>4, EntryOrder
        <4>6. rest[1].key \in Int
          BY <1>2, <1>3, <4>3, <4>5, NodeFacts
        <4> QED
          BY <1>5, <2>1, <3>1, <4>4, <4>5, <4>6 DEF Past, Start
      <3>4. pc'[t] \in {"next", "below"}
        BY <1>9, <2>6, <3>2, LookLabels
      <3> QED
        BY <1>2, <1>10, <2>2, <2>5, <3>1, <3>2, <3>3, <3>4 DEF RemovedInv
    <2> QED
      BY <2>7, <2>8
  <1>15. CASE DeleteNode(t)
    <2>1. p # Null
      BY <1>1, <1>9, <1>15 DEF DeleteNode, Goto, LocalTypes
    <2>2. /\ data' = [data EXCEPT ![c] = <<>>] /\ next' = Skip(p, c)
          /\ cur'[t] = p /\ pc'[t] = Look(data[p], next[c], k)
          /\ removed'[t] = (At(t).down = Null)
      BY <1>1, <1>15, <2>1 DEF DeleteNode, Stand, Goto, LocalTypes
    <2>3. data'[c] = <<>> /\ (\A n \in Node : n # c => data'[n] = data[n]) /\ next'[p] = next[c]
      BY <1>3, <1>8, <1>13, <2>1, <2>2 DEF Skip
    <2>4. height[t] = 0
      BY <1>1, <1>2, <2>2, AtTheFoot
    <2>5. pc'[t] # "hit"
      BY <1>2, <1>7, <1>11, <2>3 DEF Guarded, Leftover
    <2>6. Past(data', next'[cur'[t]], k)
      <3>1. next[c] \in Node
        BY <1>2, <1>4 DEF Listed
      <3> QED
        BY <1>4, <1>6, <2>2, <2>3, <3>1 DEF Past, Start
    <2>7. pc'[t] \in {"next", "below"}
      BY <1>9, <2>2, <2>5, LookLabels
    <2> QED
      BY <1>2, <1>10, <2>4, <2>6, <2>7 DEF RemovedInv
  <1> QED
    BY <1>14, <1>15

\* A remove that has taken its key off the bottom level finds the end of its
\* way there.
LEMMA OwnRemoved ==
  ASSUME Inv, Inv', NEW at, NEW on, Shape(at, on), NEW t \in Thread, Guarded(t),
         RemovedInv(t), Get(t) \/ Insert(t) \/ Remove(t) \/ RangeCall(t)
  PROVE  RemovedInv(t)'
  <1>1. LInv /\ LocalTypes /\ HeapTypes
    BY TypeParts DEF Inv, LInv
  <1>2. ThreadInv(at, on, t) /\ Listed(data, Right, at, on) /\ DownInv(at, on)
    BY DEF Shape
  <1>3. CASE op[t].name # "remove"
    <2>1. ~removed[t]
      BY <1>3 DEF RemovedInv
    <2>2. removed' = removed
      <3>1. ASSUME NEW m, NEW l, \/ Enter(t, m) \/ StopShort(t, m) \/ MoveRight(t) \/ Trail(t)
                                 \/ GoDown(t, m, l) \/ DescendTower(t, m, l)
            PROVE  removed' = removed
        BY <3>1 DEF Enter, StopShort, MoveRight, Trail, GoDown, DescendTower, scan
      <3>2. ASSUME NEW m, NEW r,
                   OffTheBottom(t, m, r) \/ ReadValue(t) \/ RangeDone(t) \/ WriteValue(t)
            PROVE  removed' = removed
        BY <3>2 DEF OffTheBottom, ReadValue, RangeDone, WriteValue, Leave, scan
      <3>3. CASE Get(t)
        BY <3>1, <3>2, <3>3 DEF Get
      <3>4. CASE Insert(t)
        <4>1. ASSUME Allocate(t) \/ Place(t) \/ MoveOver(t) \/ Relink(t) \/ Settle(t)
              PROVE  removed' = removed
          BY <4>1 DEF Allocate, Place, MoveOver, Relink, Settle, scan
        <4> QED
          BY <3>1, <3>2, <3>4, <4>1 DEF Insert, Search, Work
      <3>5. CASE RangeCall(t)
        BY <3>1, <3>2, <3>5
           DEF RangeCall, StartHere, StartNext, Emit, StepInNode, StepRight, scan
      <3> QED
        BY <1>3, <3>3, <3>4, <3>5 DEF Remove
    <2> QED
      BY <2>1, <2>2 DEF RemovedInv
  <1>4. CASE Remove(t) /\ ~(DeleteEntry(t) \/ DeleteNode(t))
    <2> SUFFICES ASSUME removed'[t] PROVE RemovedInv(t)'
      BY DEF RemovedInv
    <2>1. removed' = removed /\ op' = op /\ data' = data /\ next' = next /\ op[t].name = "remove"
      BY <1>4 DEF Remove, Enter, StopShort, Trail, GoDown, OffTheBottom, Leave, heap, scan
    <2>2. \/ pc[t] = "ret"
          \/ pc[t] \in {"next", "below"} /\ height[t] = 0 /\ Past(data, next[cur[t]], op[t].key)
      BY <2>1 DEF RemovedInv
    <2>3. CASE Enter(t, "exclusive")
      BY <2>2, <2>3 DEF Enter
    <2>4. CASE StopShort(t, "exclusive")
      <3>1. pc[t] = "next" /\ pc'[t] = "below" /\ cur' = cur /\ height' = height
        BY <1>1, <2>4 DEF StopShort, Goto, LocalTypes
      <3> QED
        BY <2>1, <2>2, <3>1 DEF RemovedInv, Past, Start
    <2>5. CASE Trail(t)
      <3> DEFINE n == next[cur[t]]
      <3>1. pc[t] = "next" /\ ~StartsAfter(n, op[t].key)
        BY <2>5 DEF Trail
      <3>2. n \in on /\ n \notin Firsts /\ n \in Node
        BY <1>1, <3>1, NextOf DEF OnLevel
      <3>3. op[t].key \in Key /\ op[t].key \in Int
        BY <1>1, <3>1, SeekStart, CallAssumption DEF Waiting
      <3>4. n \notin Lasts /\ Start(data, n) <= op[t].key
        BY <1>1, <3>1, <3>2, <3>3, Beyond
      <3>5. Start(data, n) \in Int
        BY <1>2, <3>2, <3>4, NodeFacts
      <3> QED
        BY <2>2, <3>1, <3>2, <3>3, <3>4, <3>5 DEF Past
    <2>6. CASE GoDown(t, "exclusive", "exclusive")
      <3>1. pc[t] \in {"below", "sink"} /\ Above(t).down # Null
        BY <2>6 DEF GoDown
      <3>2. Link(data, at, on, height[t], Above(t).key, Above(t).down)
        BY <1>1, <3>1, WayDown
      <3>3. height[t] # 0
        BY <1>2, <3>1, <3>2 DEF DownInv
      <3> QED
        BY <2>2, <3>1, <3>3
    <2>7. CASE OffTheBottom(t, "exclusive", NoReply)
      <3>1. pc'[t] = "ret"
        BY <1>1, <2>7 DEF OffTheBottom, Leave, Stand, Goto, LocalTypes
      <3> QED
        BY <2>1, <3>1 DEF RemovedInv
    <2> QED
      BY <1>4, <2>3, <2>4, <2>5, <2>6, <2>7 DEF Remove
  <1>5. CASE Remove(t) /\ (DeleteEntry(t) \/ DeleteNode(t))
    <2>1. CASE removed'[t]
      BY <1>5, <2>1, TakesOff DEF Remove
    <2> QED
      BY <2>1 DEF RemovedInv
  <1> QED
    BY <1>3, <1>4, <1>5 DEF Get, Insert, Remove, RangeCall

\* The end of a level where a search has passed all entries is the last node.
LEMMA BelowShort ==
  ASSUME NEW s \in Seq(EntryType), Ascending(s), NEW k \in Key, NEW nx, nx # Null,
         Look(s, nx, k) = "below"
  PROVE  Passed(s, k) < Len(s)
  BY PassedSplits, EntrySeq DEF Look

\* What is true of a range of the pairs to come stays true as it goes on.
LEMMA OwnRange ==
  ASSUME Inv, Inv', NEW at, NEW on, Shape(at, on), NEW t \in Thread,
         RangeInv(t), Get(t) \/ Insert(t) \/ Remove(t) \/ RangeCall(t)
  PROVE  RangeInv(t)'
  <1>1. LInv /\ LocalTypes /\ HeapTypes
    BY TypeParts DEF Inv, LInv
  <1>2. ThreadInv(at, on, t) /\ Listed(data, Right, at, on) /\ CallInv(t)'
    BY DEF Shape, Inv, ThreadInv
  <1>3. CASE op[t].name # "range"
    <2>1. op'[t].name # "range"
      BY <1>1, <1>3, StepWithin DEF Within
    <2>2. pc'[t] \notin {"emit", "step"}
      BY <1>2, <2>1 DEF CallInv
    <2> QED
      BY <2>1, <2>2 DEF RangeInv
  <1>4. CASE RangeCall(t)
    <2> SUFFICES ASSUME pc'[t] \in {"below", "emit", "step"}
                 PROVE  RangeInv(t)'
      BY DEF RangeInv
    <2>1. \A h : ~Working(t, h)
      BY <1>4 DEF RangeCall, Working
    <2>2. \A s, nx : Look(s, nx, op[t].key) \in {"hit", "next", "below", "crash"}
      BY LookLabels
    <2>3. \A n, h : Begin(t, n, h) = Look(data[n], next[n], op[t].key)
      BY <2>1 DEF Begin
    <2>4. CASE Enter(t, "shared")
      <3>1. pc'[t] \notin {"emit", "step"} /\ height'[t] = MaxHeight - 1
        BY <1>1, <1>2, <2>2, <2>3, <2>4 DEF Enter, Stand, Goto, LocalTypes, ThreadInv, CallInv
      <3>2. MaxHeight - 1 # 0
        BY CallAssumption
      <3> QED
        BY <3>1, <3>2 DEF RangeInv
    <2>5. CASE height[t] > 0 /\ StopShort(t, "shared")
      BY <1>1, <2>5 DEF StopShort, Goto, LocalTypes, RangeInv
    <2>6. CASE MoveRight(t)
      <3> DEFINE n == next[cur[t]]
      <3>1. ToRight(t, "shared")
        <4>1. prev'[t] = Null /\ Null \in Pointer
          BY <1>1, <2>6 DEF MoveRight, Stand, LocalTypes, Pointer
        <4> QED
          BY <2>6, <4>1 DEF MoveRight, ToRight, Stand, Goto
      <3>2. /\ op'[t] = op[t] /\ cur'[t] = n /\ pc'[t] = Look(data[n], Right[n], op[t].key)
            /\ n \in on \ Lasts
        BY <1>1, <3>1, RightwardSets DEF Modes
      <3>3. pc'[t] = "below" /\ data' = data /\ op[t].key \in Key
        BY <1>1, <2>2, <2>6, <3>2, SeekStart DEF MoveRight, heap, Waiting
      <3>4. n \in Node /\ Right[n] # Null /\ data[n] \in Seq(EntryType) /\ Ascending(data[n])
        <4>1. n \in Node /\ Right[n] \in Node
          BY <1>2, <3>2 DEF Listed
        <4> QED
          BY <1>2, <4>1, NodeFacts, Ends
      <3>5. Passed(data[n], op[t].key) < Len(data[n])
        BY <3>2, <3>3, <3>4, BelowShort
      <3> QED
        BY <3>2, <3>3, <3>5 DEF RangeInv
    <2>7. CASE GoDown(t, "shared", "shared")
      <3> DEFINE n == Above(t).down
      <3>1. pc[t] \in {"below", "sink"} /\ n # Null /\ CanLock(n, "shared") /\ data' = data
            /\ cur'[t] = n /\ op'[t] = op[t] /\ pc'[t] = Begin(t, n, height[t] - 1)
        BY <1>1, <2>7 DEF GoDown, Goto, LocalTypes, heap
      <3>2. Link(data, at, on, height[t], Above(t).key, n) /\ op[t].key \in Key
        BY <1>1, <3>1, WayDown
      <3>3. n \in Node /\ n \in alive /\ n \in on \ Lasts
        BY <1>1, <3>1, <3>2, DownStands DEF LocalTypes, Stands
      <3>4. Right[n] = next[n]
        BY <1>1, <3>1, <3>3, RightIsNext DEF CanLock
      <3>5. next[n] # Null /\ data[n] \in Seq(EntryType) /\ Ascending(data[n])
        <4>1. Right[n] \in Node
          BY <1>2, <3>3 DEF Listed
        <4> QED
          BY <1>2, <3>3, <3>4, <4>1, NodeFacts, Ends
      <3>6. pc'[t] = Look(data[n], next[n], op[t].key) /\ pc'[t] = "below"
        BY <2>2, <2>3, <3>1
      <3>7. Passed(data[n], op[t].key) < Len(data[n])
        BY <3>2, <3>5, <3>6, BelowShort
      <3> QED
        BY <3>1, <3>6, <3>7 DEF RangeInv
    <2>8. CASE pc[t] \in {"hit", "tower"} /\ DescendTower(t, "shared", "shared")
      <3>1. pc'[t] \in {"tower", "crash"}
        BY <1>1, <2>8 DEF DescendTower, Goto, InTower, LocalTypes
      <3> QED
        BY <3>1
    <2>9. CASE StartHere(t)
      <3> DEFINE s == data[cur[t]]
      <3>1. /\ pc[t] \in {"below", "hit", "tower"} /\ pc'[t] = "emit" /\ data' = data /\ cur' = cur
            /\ index'[t] = Passed(s, op[t].key) + 1
        BY <1>1, <2>9 DEF StartHere, AtTowerFoot, Goto, LocalTypes, heap
      <3>2. cur[t] \in on \ Lasts /\ cur[t] \in Node /\ op[t].key \in Key
        BY <1>2, <3>1 DEF ThreadInv, CurInv, CallInv, OnLevel, Listed
      <3>3. s \in Seq(EntryType) /\ Ascending(s) /\ Len(s) \in Nat
        BY <1>2, <3>2, NodeFacts, EntrySeq
      <3>4. Passed(s, op[t].key) \in 0 .. Len(s)
        BY <3>2, <3>3, PassedSplits
      <3>5. \A j \in 1 .. Len(s) :
              j <= Passed(s, op[t].key) <=> s[j].key = NoKey \/ s[j].key < op[t].key
        BY <3>2, <3>3, PassedSplits
      <3>6. ASSUME Passed(s, op[t].key) + 1 <= Len(s)
            PROVE  s[Passed(s, op[t].key) + 1].key # NoKey
        BY <3>3, <3>4, <3>5, <3>6
      <3> QED
        BY <3>1, <3>6 DEF RangeInv
    <2>10. CASE StartNext(t) \/ StepRight(t)
      <3> DEFINE n == next[cur[t]]
      <3>1. /\ pc[t] \in {"next", "step"} /\ pc'[t] = "emit" /\ data' = data /\ cur'[t] = n
            /\ index'[t] = 1
        BY <1>1, <2>10 DEF StartNext, StepRight, FirstIndex, Goto, LocalTypes, heap
      <3>2. n \in Node /\ n \notin Firsts
        BY <1>1, <3>1, NextOf DEF OnLevel
      <3>3. data[n] \in Seq(EntryType) /\ \A e \in EntriesOf(data[n]) : e.key # NoKey
        BY <1>2, <3>2, NodeFacts
      <3>4. ASSUME 1 <= Len(data[n]) PROVE data[n][1].key # NoKey
        BY <3>3, <3>4, EntrySeq
      <3> QED
        BY <3>1, <3>4 DEF RangeInv
    <2>11. CASE Emit(t)
      <3>1. /\ pc[t] = "emit" /\ pc'[t] = "step" /\ data' = data /\ cur' = cur
            /\ index'[t] = index[t] + 1 /\ index[t] <= Len(data[cur[t]]) /\ index[t] \in Int
        BY <1>1, <2>11 DEF Emit, Goto, LocalTypes, heap
      <3>2. index'[t] - 1 = index[t]
        BY <3>1
      <3> QED
        BY <3>1, <3>2 DEF RangeInv
    <2>12. CASE StepInNode(t)
      <3> DEFINE s == data[cur[t]]
      <3>1. /\ pc[t] = "step" /\ pc'[t] = "emit" /\ data' = data /\ cur' = cur
            /\ index' = index /\ index[t] <= Len(s)
        BY <1>1, <2>12 DEF StepInNode, Goto, LocalTypes, heap, scan
      <3>2. cur[t] \in Node /\ index[t] \in 2 .. Len(s) + 1
        BY <1>2, <3>1 DEF ThreadInv, CurInv, OnLevel, Listed
      <3>3. Ascending(s) /\ DOMAIN s = 1 .. Len(s) /\ Len(s) \in Nat
        BY <1>2, <3>2, NodeFacts, EntrySeq
      <3>4. s[index[t]].key # NoKey
        <4>1. index[t] - 1 \in DOMAIN s /\ index[t] \in DOMAIN s /\ index[t] - 1 < index[t]
          BY <3>1, <3>2, <3>3
        <4> QED
          BY <3>3, <4>1 DEF Ascending
      <3> QED
        BY <3>1, <3>4 DEF RangeInv
    <2>13. CASE RangeDone(t)
      <3>1. pc'[t] = "ret"
        BY <1>1, <2>13 DEF RangeDone, Leave, Stand, Goto, LocalTypes
      <3> QED
        BY <3>1
    <2> QED
      BY <1>4, <2>4, <2>5, <2>6, <2>7, <2>8, <2>9, <2>10, <2>11, <2>12, <2>13 DEF RangeCall
  <1> QED
    BY <1>3, <1>4 DEF Get, Insert, Remove

\* A call starts with nothing done and nothing answered, and leaves nothing behind.
LEMMA CallReturnMap ==
  ASSUME LInv, NEW t \in Thread, ReplyInv(t), RemovedInv(t),
         Return(t) \/ \E o \in Ops(GenLevels) : Call(t, o)
  PROVE  ReplyInv(t)' /\ RemovedInv(t)' /\ RangeInv(t)'
  <1>1. LocalTypes
    BY TypeParts DEF LInv
  <1>2. CASE Return(t)
    <2>1. pc'[t] = "idle" /\ op'[t] = IdleOp /\ removed'[t] = FALSE /\ reply'[t] = NoReply
      BY <1>1, <1>2 DEF Return, Goto, Answer, LocalTypes
    <2> QED
      BY <2>1 DEF ReplyInv, RemovedInv, RangeInv
  <1>3. ASSUME NEW o \in Ops(GenLevels), Call(t, o)
        PROVE  ReplyInv(t)' /\ RemovedInv(t)' /\ RangeInv(t)'
    <2>1. pc[t] = "idle" /\ pc'[t] = "top" /\ op'[t] = o /\ removed' = removed /\ reply' = reply
      BY <1>1, <1>3 DEF Call, Goto, LocalTypes, scan
    <2>2. op[t].name # "range" /\ reply[t] = NoReply /\ ~removed[t]
      BY <2>1 DEF ReplyInv, RemovedInv, IdleOp
    <2>3. o.name = "insert" => o.val \in Value
      BY DEF Ops
    <2> QED
      BY <2>1, <2>2, <2>3 DEF ReplyInv, RemovedInv, RangeInv
  <1> QED
    BY <1>2, <1>3

\* Every step keeps the facts about the map.
LEMMA StepKeepsMap ==
  ASSUME Inv, Inv', MapInv, NEW t \in Thread, Step(t) \/ \E o \in Ops(GenLevels) : Call(t, o)
  PROVE  MapInv'
  <1>1. LInv
    BY DEF Inv
  <1>2. PICK at, on : Shape(at, on)
    BY DEF Inv
  <1>3. Guarded(t) /\ Private(t) /\ (data' = data \/ Writes(t))
    BY <1>1, <1>2, StepGuarded, StepIsPrivate, StepWrites
  <1>4. Rising /\ ValuesInv'
    BY <1>1, <1>2, <1>3, StepRises, StepValues
  <1>5. \A u \in Thread \ {t} : ReplyInv(u)' /\ RemovedInv(u)' /\ RangeInv(u)'
    BY <1>3, <1>4, OthersMap
  <1>6. ReplyInv(t) /\ RemovedInv(t) /\ RangeInv(t)
    BY DEF MapInv
  <1>7. CASE Get(t) \/ Insert(t) \/ Remove(t) \/ RangeCall(t)
    <2>1. ReplyInv(t)'
      BY <1>1, <1>6, <1>7, StepWithin, OwnReply
    <2>2. RemovedInv(t)'
      BY <1>2, <1>3, <1>6, <1>7, OwnRemoved
    <2>3. RangeInv(t)'
      BY <1>2, <1>6, <1>7, OwnRange
    <2> QED
      BY <1>4, <1>5, <2>1, <2>2, <2>3 DEF MapInv
  <1>8. CASE Return(t) \/ \E o \in Ops(GenLevels) : Call(t, o)
    <2>1. ReplyInv(t)' /\ RemovedInv(t)' /\ RangeInv(t)'
      BY <1>1, <1>6, <1>8, CallReturnMap
    <2> QED
      BY <1>4, <1>5, <2>1 DEF MapInv
  <1> QED
    BY <1>7, <1>8 DEF Step

\* At first nothing is stored but the null keys of the first nodes.
LEMMA InitStored == Init => \A e \in Stored : e.val = NoValue /\ e.key = NoKey
  <1> SUFFICES ASSUME Init, NEW n \in Node, NEW e \in EntriesOf(data[n])
               PROVE  e.val = NoValue /\ e.key = NoKey
    BY DEF Stored
  <1>1. CASE \E i \in Level : n = First[i]
    <2> DEFINE j == CHOOSE i \in Level : n = First[i]
               d == IF j > 0 THEN First[j - 1] ELSE Null
    <2>1. data[n] = <<Entry(NoKey, NoValue, d)>>
      BY <1>1 DEF Init
    <2> HIDE DEF d
    <2>2. e = Entry(NoKey, NoValue, d)
      BY <2>1 DEF EntriesOf
    <2> QED
      BY <2>2 DEF Entry
  <1>2. CASE ~\E i \in Level : n = First[i]
    <2>1. data[n] = <<>>
      BY <1>2 DEF Init
    <2> QED
      BY <2>1 DEF EntriesOf
  <1> QED
    BY <1>1, <1>2

\* That is as the map wants it.
LEMMA InitMap == Init => MapInv
  <1> SUFFICES ASSUME Init PROVE MapInv
    OBVIOUS
  <1>1. \A t \in Thread : ReplyInv(t) /\ RemovedInv(t) /\ RangeInv(t)
    BY DEF Init, ReplyInv, RemovedInv, RangeInv
  <1>2. ValuesInv
    BY InitStored DEF ValuesInv
  <1> QED
    BY <1>1, <1>2 DEF MapInv

\* A step that changes nothing does, too.
LEMMA StutterKeepsMap == MapInv /\ UNCHANGED vars => MapInv'
  BY DEF MapInv, ValuesInv, Stored, ReplyInv, RemovedInv, RangeInv, Past, Start, vars, heap, fresh, scan

-----------------------------------------------------------------------------
(* What the map sees of a step.                                            *)

\* What is known of a step of t, whatever it does.
Known(t) == Inv /\ Inv' /\ MapInv /\ Guarded(t) /\ Private(t)

\* The entries stay, and the map stays.
LEMMA SameContents ==
  ASSUME Inv, Inv', \A k \in Key, v \in Value : Binds(k, v)' <=> Binds(k, v)
  PROVE  Contents' = Contents
  BY ContentsSame

\* In particular when what is stored does not change.
LEMMA SameStored ==
  ASSUME Inv, Inv', data' = data \/ Stored' = Stored
  PROVE  Contents' = Contents
  <1>1. Stored' = Stored
    BY DEF Stored
  <1>2. \A k \in Key, v \in Value : Binds(k, v)' <=> Binds(k, v)
    BY <1>1 DEF Binds
  <1> QED
    BY <1>2, SameContents

\* Other threads have asked for what they had asked for, and their ranges
\* are where they were.
LEMMA OthersAsk ==
  ASSUME NEW t \in Thread, Known(t), NEW u \in Thread \ {t}
  PROVE  Asked(u)' = Asked(u) /\ Cursor(u)' = Cursor(u)
  <1>1. /\ pc'[u] = pc[u] /\ op'[u] = op[u] /\ cur'[u] = cur[u] /\ index'[u] = index[u]
        /\ removed'[u] = removed[u]
    BY DEF Known, Private, Others
  <1>2. Asked(u)' = Asked(u)
    BY <1>1 DEF Asked, Request
  <1>3. PICK at, on : Shape(at, on)
    BY DEF Known, Inv
  <1>4. pc[u] \in {"emit", "step"} => data'[cur[u]] = data[cur[u]]
    <2>1. pc[u] \in {"emit", "step"} => cur[u] # Null
      BY <1>3 DEF Shape, ThreadInv, CurInv, OnLevel
    <2> QED
      BY <1>3, <2>1, CurKept DEF Known, Inv
  <1>5. Cursor(u)' = Cursor(u)
    BY <1>1, <1>4 DEF Cursor
  <1> QED
    BY <1>2, <1>5

\* So the abstract request and cursor change for t only.
LEMMA OwnAsk ==
  ASSUME NEW t \in Thread, Known(t)
  PROVE  /\ [u \in Thread |-> Asked(u)]' = [[u \in Thread |-> Asked(u)] EXCEPT ![t] = Asked(t)']
         /\ [u \in Thread |-> Cursor(u)]' = [[u \in Thread |-> Cursor(u)] EXCEPT ![t] = Cursor(t)']
  <1>1. \A u \in Thread \ {t} : Asked(u)' = Asked(u) /\ Cursor(u)' = Cursor(u)
    BY OthersAsk
  <1> QED
    BY <1>1

\* Nothing a caller can see.
LEMMA Unseen ==
  ASSUME NEW t \in Thread, Known(t), Asked(t)' = Asked(t), Cursor(t)' = Cursor(t),
         Contents' = Contents, reply' = reply
  PROVE  UNCHANGED Abstract!vars
  <1>1. \A u \in Thread : Asked(u)' = Asked(u) /\ Cursor(u)' = Cursor(u)
    BY OthersAsk
  <1>2. /\ [u \in Thread |-> Asked(u)]' = [u \in Thread |-> Asked(u)]
        /\ [u \in Thread |-> Cursor(u)]' = [u \in Thread |-> Cursor(u)]
    BY <1>1
  <1> QED
    BY <1>2 DEF Abstract!vars

\* A call on its way to the place where it takes effect, or back from there.
LEMMA Searching ==
  ASSUME NEW t \in Thread, Known(t), Contents' = Contents, reply' = reply, op'[t] = op[t],
         removed'[t] = removed[t],
         pc[t] \notin {"ret", "emit", "step"}, pc'[t] \notin {"ret", "emit", "step"}
  PROVE  UNCHANGED Abstract!vars
  <1>1. Asked(t)' = Asked(t) /\ Cursor(t)' = Cursor(t)
    BY DEF Asked, Request, Cursor
  <1> QED
    BY <1>1, Unseen

\* The steps that look for the key, and those that make and clear away nodes.
LEMMA SearchUnseen ==
  ASSUME NEW t \in Thread, Known(t), NEW m, NEW l,
         \/ Enter(t, m) \/ StopShort(t, m) \/ MoveRight(t) \/ Trail(t) \/ GoDown(t, m, l)
         \/ pc[t] \in {"hit", "tower", "merged"} /\ DescendTower(t, m, l)
         \/ Allocate(t) \/ Relink(t) \/ Settle(t)
  PROVE  UNCHANGED Abstract!vars
  <1>1. LocalTypes
    BY TypeParts DEF Known, Inv, LInv
  <1>2. data' = data /\ reply' = reply /\ op'[t] = op[t] /\ removed'[t] = removed[t]
    BY DEF Enter, StopShort, MoveRight, Trail, GoDown, DescendTower, Allocate, Relink, Settle,
       heap, scan
  <1>3. \A s, nx, k : Look(s, nx, k) \in {"hit", "next", "below", "crash"}
    BY LookLabels
  <1>4. \A n, h : Begin(t, n, h) \in {"level", "hit", "next", "below", "crash"}
    BY <1>3 DEF Begin
  <1>5. pc[t] \notin {"ret", "emit", "step"}
    BY DEF Enter, StopShort, MoveRight, Trail, GoDown, Allocate, Relink, Settle
  <1>6. pc'[t] \notin {"ret", "emit", "step"}
    <2>1. CASE \/ Enter(t, m) \/ StopShort(t, m) \/ MoveRight(t) \/ Trail(t) \/ GoDown(t, m, l)
      BY <1>1, <1>3, <1>4, <2>1 DEF Enter, StopShort, MoveRight, Trail, GoDown, Stand, Goto, LocalTypes
    <2>2. CASE pc[t] \in {"hit", "tower", "merged"} /\ DescendTower(t, m, l)
      BY <1>1, <2>2 DEF DescendTower, InTower, Goto, LocalTypes
    <2>3. CASE Allocate(t) \/ Relink(t) \/ Settle(t)
      BY <1>1, <1>3, <2>3 DEF Allocate, Relink, Settle, Goto, LocalTypes
    <2> QED
      BY <2>1, <2>2, <2>3
  <1>7. Contents' = Contents
    BY <1>2, SameStored DEF Known
  <1> QED
    BY <1>2, <1>5, <1>6, <1>7, Searching

\* A call that takes effect, or has taken it, is finished for the map.
LEMMA Effective ==
  ASSUME NEW t
  PROVE  /\ pc[t] = "ret" \/ removed[t] => Asked(t) = Abstract!Finished
         /\ ~(pc[t] = "ret" \/ removed[t]) =>
              /\ Asked(t).name = op[t].name /\ Asked(t).key = op[t].key
              /\ Asked(t).val = op[t].val /\ Asked(t).len = op[t].len
         /\ pc[t] \notin {"emit", "step"} => Cursor(t) = Abstract!Nowhere
  BY DEF Asked, Request, Cursor, Abstract!Finished, Abstract!Nowhere

\* Only a remove on its way to the end of the bottom level has taken effect
\* before it returns.
LEMMA NotYet ==
  ASSUME MapInv, NEW t \in Thread,
         op[t].name # "remove" \/ pc[t] \notin {"ret", "next", "below"}
  PROVE  ~removed[t]
  BY DEF MapInv, RemovedInv

\* The step at which a get, an insert or a remove takes effect.
LEMMA Finishing ==
  ASSUME NEW t \in Thread, Known(t), pc[t] \notin {"ret", "emit", "step"}, ~removed[t],
         pc'[t] = "ret" \/ removed'[t], pc'[t] \notin {"emit", "step"}
  PROVE  /\ Asked(t).name = op[t].name /\ Asked(t).key = op[t].key /\ Asked(t).val = op[t].val
         /\ Cursor(t) = Abstract!Nowhere
         /\ [u \in Thread |-> Asked(u)]' = [[u \in Thread |-> Asked(u)] EXCEPT ![t] = Abstract!Finished]
         /\ [u \in Thread |-> Cursor(u)]' = [u \in Thread |-> Cursor(u)]
  <1>1. Asked(t)' = Abstract!Finished /\ Cursor(t)' = Abstract!Nowhere
    BY DEF Asked, Request, Cursor, Abstract!Finished, Abstract!Nowhere
  <1>2. Cursor(t) = Abstract!Nowhere
    BY DEF Cursor, Abstract!Nowhere
  <1>3. /\ Asked(t).name = op[t].name /\ Asked(t).key = op[t].key /\ Asked(t).val = op[t].val
    BY Effective
  <1>4. Cursor(t)' = Cursor(t)
    BY <1>1, <1>2 DEF Abstract!Nowhere
  <1>5. /\ [u \in Thread |-> Asked(u)]'
             = [[u \in Thread |-> Asked(u)] EXCEPT ![t] = Abstract!Finished]
        /\ [u \in Thread |-> Cursor(u)]' = [u \in Thread |-> Cursor(u)]
    BY <1>1, <1>4, OwnAsk
  <1> QED
    BY <1>2, <1>3, <1>5

-----------------------------------------------------------------------------
(* get, insert_or_modify and remove.                                       *)

\* The end of a search is on the bottom level, where the key is not.
LEMMA NotBound ==
  ASSUME Inv, ValuesInv, NEW t \in Thread, pc[t] = "below",
         height[t] = 0 \/ Above(t).down = Null
  PROVE  /\ op[t].key \in Key /\ Contents[op[t].key] = NoValue
         /\ \A v \in Value : ~Binds(op[t].key, v)
  <1>1. LInv
    BY DEF Inv
  <1>2. PICK at, on : Shape(at, on)
    BY DEF Inv
  <1>3. height[t] = 0
    <2> SUFFICES ASSUME Above(t).down = Null PROVE height[t] = 0
      OBVIOUS
    <2>1. Link(data, at, on, height[t], Above(t).key, Null)
      BY <1>1, <1>2, WayDown
    <2>2. DownInv(at, on) /\ Null \notin on
      BY <1>2, Ends DEF Shape, Listed
    <2>3. ~(height[t] > 0)
      BY <2>1, <2>2 DEF DownInv, Stands, Waits
    <2> QED
      BY <1>1, <2>3, Types DEF LInv
  <1>4. CurInv(at, on, t) /\ op[t].key \in Key
    BY <1>1, <1>2, SeekStart DEF Shape, ThreadInv, Waiting
  <1>5. /\ cur[t] \in on /\ at[cur[t]] = 0 /\ Short(data, cur[t], op[t].key)
        /\ Past(data, Right[cur[t]], op[t].key) /\ ~Hit(data[cur[t]], op[t].key)
    BY <1>3, <1>4 DEF CurInv, OnLevel
  <1>6. \A v \in Value : ~Binds(op[t].key, v)
    BY <1>1, <1>2, <1>4, <1>5, NothingThere
  <1> QED
    BY <1>4, <1>6, Unbound

\* The entry a call has found at the foot of a tower has the value of its key.
LEMMA FoundValue ==
  ASSUME Inv, ValuesInv, NEW t \in Thread, pc[t] \in {"hit", "tower", "merged"}, At(t).down = Null
  PROVE  /\ op[t].key \in Key /\ At(t) \in Stored /\ At(t).key = op[t].key
         /\ Contents[op[t].key] = At(t).val /\ At(t).val # NoValue
  <1>1. LInv
    BY DEF Inv
  <1>2. PICK at, on : Shape(at, on)
    BY DEF Inv
  <1>3. /\ op[t].key \in Key /\ cur[t] \in Node /\ At(t) \in EntriesOf(data[cur[t]])
        /\ At(t).key = op[t].key
    BY <1>1, <1>2, FoundEntry
  <1>4. At(t) \in Stored
    BY <1>3 DEF Stored
  <1>5. At(t).val # NoValue
    BY <1>3, <1>4, CallAssumption DEF ValuesInv
  <1> QED
    BY <1>3, <1>4, <1>5, BoundValue

\* get reads the value at the foot of the tower ...
LEMMA ReadValueRefines ==
  ASSUME NEW t \in Thread, Known(t), op[t].name = "get", ReadValue(t)
  PROVE  Abstract!Get(t)
  <1>1. LocalTypes
    BY TypeParts DEF Known, Inv, LInv
  <1>2. /\ pc[t] \in {"hit", "tower"} /\ At(t).down = Null /\ pc'[t] = "ret" /\ data' = data
        /\ reply' = [reply EXCEPT ![t] = <<"get", op[t].key, At(t).val>>]
    BY <1>1 DEF ReadValue, AtTowerFoot, Leave, Stand, Goto, Answer, heap, LocalTypes
  <1>3. At(t).val = Contents[op[t].key]
    BY <1>2, FoundValue DEF Known, MapInv
  <1>4. Contents' = Contents
    BY <1>2, SameStored DEF Known
  <1>5. ~removed[t]
    BY NotYet DEF Known
  <1> QED
    BY <1>2, <1>3, <1>4, <1>5, Finishing DEF Abstract!Get

\* ... or finds that there is none.
LEMMA GetAbsentRefines ==
  ASSUME NEW t \in Thread, Known(t), op[t].name = "get",
         OffTheBottom(t, "shared", <<"get", op[t].key, NoValue>>)
  PROVE  Abstract!Get(t)
  <1>1. LocalTypes
    BY TypeParts DEF Known, Inv, LInv
  <1>2. /\ pc[t] = "below" /\ Above(t).down = Null /\ pc'[t] = "ret" /\ data' = data
        /\ reply' = [reply EXCEPT ![t] = <<"get", op[t].key, NoValue>>]
    BY <1>1 DEF OffTheBottom, Leave, Stand, Goto, Answer, heap, LocalTypes
  <1>3. Contents[op[t].key] = NoValue
    BY <1>2, NotBound DEF Known, MapInv
  <1>4. Contents' = Contents
    BY <1>2, SameStored DEF Known
  <1>5. ~removed[t]
    BY NotYet DEF Known
  <1> QED
    BY <1>2, <1>3, <1>4, <1>5, Finishing DEF Abstract!Get

\* remove of a key that is not there, and the end of one that has taken it out.
LEMMA RemoveEndRefines ==
  ASSUME NEW t \in Thread, Known(t), op[t].name = "remove",
         OffTheBottom(t, "exclusive", NoReply)
  PROVE  Abstract!Remove(t) \/ UNCHANGED Abstract!vars
  <1>1. LocalTypes
    BY TypeParts DEF Known, Inv, LInv
  <1>2. /\ pc[t] = "below" /\ Above(t).down = Null /\ pc'[t] = "ret" /\ data' = data
        /\ reply' = [reply EXCEPT ![t] = NoReply]
    BY <1>1 DEF OffTheBottom, Leave, Stand, Goto, Answer, heap, LocalTypes
  <1>3. reply' = reply
    <2>1. reply[t] = NoReply
      BY <1>2 DEF Known, MapInv, ReplyInv
    <2> QED
      BY <1>1, <1>2, <2>1 DEF LocalTypes
  <1>4. Contents' = Contents
    BY <1>2, SameStored DEF Known
  <1>5. CASE removed[t]
    <2>1. Asked(t)' = Asked(t) /\ Cursor(t)' = Cursor(t)
      BY <1>2, <1>5 DEF Asked, Request, Cursor
    <2> QED
      BY <1>3, <1>4, <2>1, Unseen
  <1>6. CASE ~removed[t]
    <2>1. op[t].key \in Key /\ Contents[op[t].key] = NoValue
      BY <1>2, NotBound DEF Known, MapInv
    <2>2. Contents' = [Contents EXCEPT ![op[t].key] = NoValue]
      <3>1. Contents = [j \in Key |-> Contents[j]]
        BY DEF Contents
      <3> QED
        BY <1>4, <2>1, <3>1
    <2>3. Abstract!Remove(t)
      BY <1>2, <1>3, <1>6, <2>2, Finishing DEF Abstract!Remove
    <2> QED
      BY <2>3
  <1> QED
    BY <1>5, <1>6

\* Where a remove goes on when it has taken an entry out.
LEMMA DeleteSets ==
  ASSUME NEW t \in Thread, Known(t), op[t].name = "remove", DeleteEntry(t) \/ DeleteNode(t)
  PROVE  /\ pc[t] = "hit" /\ op' = op /\ reply' = reply
         /\ removed'[t] = (At(t).down = Null)
         /\ pc'[t] \in {"hit", "next", "below"}
  <1>1. LInv /\ LocalTypes
    BY TypeParts DEF Known, Inv, LInv
  <1>2. PICK at, on : Shape(at, on)
    BY DEF Known, Inv
  <1>3. pc[t] = "hit" /\ op' = op /\ reply' = reply
    BY DEF DeleteEntry, DeleteNode
  <1>4. pc'[t] # "crash"
    BY DEF Known, Inv, Shape, ThreadInv, CallInv
  <1>5. \A s, nx, k : Look(s, nx, k) \in {"hit", "next", "below", "crash"}
    BY LookLabels
  <1>6. CASE DeleteEntry(t)
    <2> DEFINE i == Passed(data[cur[t]], op[t].key)
    <2>1. i = 0 => prev[t] # Null
      BY <1>1, <1>2, <1>3, FirstHit DEF Exclusive
    <2>2. cur[t] # Null
      BY <1>1, <1>2, <1>3, FoundEntry, BAssumption
    <2>3. removed'[t] = (At(t).down = Null)
      BY <1>1, <1>6 DEF DeleteEntry, LocalTypes
    <2>4. (IF i = 0 THEN prev[t] ELSE cur[t]) # Null
      BY <2>1, <2>2
    <2>5. \E s, nx : pc'[t] = Look(s, nx, op[t].key)
      BY <1>1, <1>6, <2>4 DEF DeleteEntry, Stand, Goto, LocalTypes
    <2> QED
      BY <1>3, <1>4, <1>5, <2>3, <2>5
  <1>7. CASE DeleteNode(t)
    <2>1. prev[t] # Null
      BY <1>1, <1>4, <1>7 DEF DeleteNode, Goto, LocalTypes
    <2>2. removed'[t] = (At(t).down = Null) /\ \E s, nx : pc'[t] = Look(s, nx, op[t].key)
      BY <1>1, <1>7, <2>1 DEF DeleteNode, Stand, Goto, LocalTypes
    <2> QED
      BY <1>3, <1>4, <1>5, <2>2
  <1> QED
    BY <1>6, <1>7

\* remove takes effect where it takes its key off the bottom level; what it does
\* above is not seen.
LEMMA DeleteRefines ==
  ASSUME NEW t \in Thread, Known(t), op[t].name = "remove", DeleteEntry(t) \/ DeleteNode(t)
  PROVE  Abstract!Remove(t) \/ UNCHANGED Abstract!vars
  <1>1. LInv /\ LocalTypes
    BY TypeParts DEF Known, Inv, LInv
  <1>2. PICK at, on : Shape(at, on)
    BY DEF Known, Inv
  <1>0. PICK k : k = op[t].key
    OBVIOUS
  <1>3. /\ pc[t] = "hit" /\ op' = op /\ reply' = reply
        /\ removed'[t] = (At(t).down = Null)
        /\ pc'[t] \in {"hit", "next", "below"}
    BY DeleteSets
  <1>4. /\ Stored' \subseteq Stored /\ At(t) \in Stored /\ At(t).key = k
        /\ \A e \in Stored : e \in Stored' \/ e = At(t)
        /\ At(t).down = Null => \A e \in Stored' : e.key = k => e.down # Null
    BY <1>1, <1>2, <1>0, DeleteStores
  <1>5. ~removed[t]
    BY <1>3, NotYet DEF Known
  <1>6. ValuesInv /\ k \in Key /\ k # NoKey /\ NoValue \notin Value
    BY <1>1, <1>2, <1>3, <1>0, SeekStart, CallAssumption DEF Known, MapInv, Seeking
  <1>7. CASE At(t).down = Null
    <2>1. \A j \in Key \ {k}, v \in Value : Binds(j, v)' <=> Binds(j, v)
      BY <1>4 DEF Binds
    <2>2. \A v \in Value : Binds(k, v)' <=> v = NoValue
      BY <1>4, <1>6, <1>7 DEF Binds, ValuesInv
    <2>3. Contents' = [Contents EXCEPT ![k] = NoValue]
      BY <1>6, <2>1, <2>2, ContentsChange DEF Known
    <2>4. Abstract!Remove(t)
      BY <1>3, <1>5, <1>7, <1>0, <2>3, Finishing DEF Abstract!Remove
    <2> QED
      BY <2>4
  <1>8. CASE At(t).down # Null
    <2>1. At(t).val = NoValue
      BY <1>4, <1>6, <1>8 DEF ValuesInv
    <2>2. \A j \in Key, v \in Value : Binds(j, v)' <=> Binds(j, v)
      BY <1>4, <1>6, <2>1 DEF Binds
    <2>3. Contents' = Contents
      BY <2>2, SameContents DEF Known
    <2>4. removed'[t] = removed[t]
      BY <1>1, <1>3, <1>5, <1>8 DEF LocalTypes
    <2>5. UNCHANGED Abstract!vars
      BY <1>3, <2>3, <2>4, Searching
    <2> QED
      BY <2>5
  <1> QED
    BY <1>7, <1>8

\* insert_or_modify changes the value at the foot of the tower ...
LEMMA WriteValueRefines ==
  ASSUME NEW t \in Thread, Known(t), op[t].name = "insert", WriteValue(t)
  PROVE  Abstract!Insert(t)
  <1>0. PICK k, w : k = op[t].key /\ w = op[t].val
    OBVIOUS
  <1> DEFINE b == [At(t) EXCEPT !.val = w]
  <1>1. LInv /\ LocalTypes
    BY TypeParts DEF Known, Inv, LInv
  <1>2. PICK at, on : Shape(at, on)
    BY DEF Known, Inv
  <1>3. /\ pc[t] \in {"tower", "merged"} /\ At(t).down = Null /\ pc'[t] = "ret"
        /\ reply' = [reply EXCEPT ![t] = NoReply]
    BY <1>1 DEF WriteValue, Leave, Stand, Goto, Answer, LocalTypes
  <1>4. reply' = reply /\ w \in Value
    <2>1. reply[t] = NoReply /\ w \in Value
      BY <1>3, <1>0 DEF Known, MapInv, ReplyInv
    <2> QED
      BY <1>1, <1>3, <2>1 DEF LocalTypes
  <1>5. k \in Key /\ At(t).key = k /\ At(t) \in EntryType
    BY <1>1, <1>2, <1>3, <1>0, FoundEntry
  <1>6. /\ b \in Stored'
        /\ \A e \in Stored : e \in Stored' \/ e = At(t)
        /\ \A e \in Stored' : e = b \/ (e \in Stored /\ (e.down = Null => e.key # k))
    BY <1>1, <1>2, <1>0, WriteStores
  <1>7. b.key = k /\ b.val = w
    BY <1>5 DEF EntryType
  <1>8. ValuesInv /\ NoValue \notin Value
    BY CallAssumption DEF Known, MapInv
  <1> HIDE DEF b
  <1>9. \A j \in Key \ {k}, v \in Value : Binds(j, v)' <=> Binds(j, v)
    BY <1>5, <1>6, <1>7 DEF Binds
  <1>10. \A v \in Value : Binds(k, v)' <=> v = w
    <2>1. \A e \in Stored' : e.key = k /\ e.val # NoValue => e = b
      BY <1>6, <1>8 DEF ValuesInv
    <2> QED
      BY <1>4, <1>6, <1>7, <1>8, <2>1 DEF Binds
  <1>11. Contents' = [Contents EXCEPT ![k] = w]
    BY <1>4, <1>5, <1>9, <1>10, ContentsChange DEF Known
  <1>12. ~removed[t]
    BY NotYet DEF Known
  <1> QED
    BY <1>3, <1>4, <1>11, <1>12, <1>0, Finishing DEF Abstract!Insert

\* ... or puts its key on the bottom level; where it puts it above is not seen.
LEMMA PlaceRefines ==
  ASSUME NEW t \in Thread, Known(t), op[t].name = "insert", Working(t, height[t]), Place(t)
  PROVE  Abstract!Insert(t) \/ UNCHANGED Abstract!vars
  <1>0. PICK k, w : k = op[t].key /\ w = op[t].val
    OBVIOUS
  <1> DEFINE e == Entry(k, IF height[t] = 0 THEN w ELSE NoValue, nextNode[t])
  <1>1. LInv /\ LocalTypes
    BY TypeParts DEF Known, Inv, LInv
  <1>2. PICK at, on : Shape(at, on)
    BY DEF Known, Inv
  <1>3. /\ pc[t] = "below" /\ reply' = reply /\ op' = op /\ removed' = removed
        /\ pc'[t] = IF height[t] = 0 THEN "ret" ELSE "sink"
    BY <1>1 DEF Place, Stand, Goto, LocalTypes, scan
  <1>4. w \in Value /\ k \in Key /\ NoValue \notin Value
    BY <1>1, <1>2, <1>3, <1>0, SeekStart, CallAssumption DEF Known, MapInv, ReplyInv, Waiting
  <1>5. Stored' = Stored \cup {e}
    BY <1>1, <1>2, <1>0, PlaceStores
  <1>6. e.key = k /\ e.val = IF height[t] = 0 THEN w ELSE NoValue
    BY DEF Entry
  <1>7. ~removed[t]
    BY NotYet DEF Known
  <1> HIDE DEF e
  <1>8. CASE height[t] = 0
    <2>1. \A v \in Value : ~Binds(k, v)
      BY <1>3, <1>8, <1>0, NotBound DEF Known, MapInv
    <2>2. \A j \in Key \ {k}, v \in Value : Binds(j, v)' <=> Binds(j, v)
      BY <1>5, <1>6 DEF Binds
    <2>3. \A v \in Value : Binds(k, v)' <=> v = w
      BY <1>4, <1>5, <1>6, <1>8, <2>1 DEF Binds
    <2>4. Contents' = [Contents EXCEPT ![k] = w]
      BY <1>4, <2>2, <2>3, ContentsChange DEF Known
    <2>5. Abstract!Insert(t)
      BY <1>3, <1>7, <1>8, <1>0, <2>4, Finishing DEF Abstract!Insert
    <2> QED
      BY <2>5
  <1>9. CASE height[t] # 0
    <2>1. \A j \in Key, v \in Value : Binds(j, v)' <=> Binds(j, v)
      BY <1>4, <1>5, <1>6, <1>9 DEF Binds
    <2>2. Contents' = Contents
      BY <2>1, SameContents DEF Known
    <2>3. UNCHANGED Abstract!vars
      BY <1>3, <1>9, <2>2, Searching
    <2> QED
      BY <2>3
  <1> QED
    BY <1>8, <1>9

\* A merge is not seen.
LEMMA MoveOverUnseen ==
  ASSUME NEW t \in Thread, Known(t), MoveOver(t)
  PROVE  UNCHANGED Abstract!vars
  <1>1. LInv /\ LocalTypes
    BY TypeParts DEF Known, Inv, LInv
  <1>2. PICK at, on : Shape(at, on)
    BY DEF Known, Inv
  <1>3. /\ pc[t] = "hit" /\ pc'[t] \in {"relink", "settle"} /\ op' = op /\ reply' = reply
        /\ removed' = removed
    BY <1>1 DEF MoveOver, Goto, LocalTypes, scan
  <1>4. Contents' = Contents
    BY <1>1, <1>2, MoveOverStores, SameStored DEF Known
  <1> QED
    BY <1>3, <1>4, Searching

-----------------------------------------------------------------------------
(* Ranges.                                                                 *)

\* The keys of the map: those that have an entry on the bottom level.
LEMMA BoundEntry ==
  ASSUME Inv, ValuesInv, NEW at, NEW on, Shape(at, on)
  PROVE  /\ Abstract!Bound \subseteq Key
         /\ \A j \in Abstract!Bound :
              \E n \in on : at[n] = 0 /\ n \in Node /\ \E e \in EntriesOf(data[n]) : e.key = j
         /\ \A n \in Node : at[n] = 0 =>
              \A e \in EntriesOf(data[n]) : e.key # NoKey =>
                 e.key \in Abstract!Bound /\ e.val = Contents[e.key]
  <1>0. Abstract!Bound = {k \in Key : Contents[k] # NoValue}
    BY DEF Abstract!Bound
  <1>1. LInv
    BY DEF Inv
  <1>2. ASSUME NEW j \in Abstract!Bound
        PROVE  \E n \in on : at[n] = 0 /\ n \in Node /\ \E e \in EntriesOf(data[n]) : e.key = j
    <2>1. j \in Key /\ Contents[j] # NoValue
      BY <1>0
    <2>2. PICK v \in Value : Binds(j, v)
      BY <2>1, Unbound
    <2>3. PICK e \in Stored : e.key = j /\ e.val = v
      BY <2>2 DEF Binds
    <2>4. e.down = Null
      BY <2>3, CallAssumption DEF ValuesInv
    <2>5. PICK n \in on : e \in EntriesOf(data[n])
      BY <1>1, StoredAt
    <2>6. n \in Node
      BY DEF Shape, Listed
    <2>7. at[n] = 0
      BY <1>1, <2>4, <2>5, <2>6, StoredAt
    <2> QED
      BY <2>3, <2>5, <2>6, <2>7
  <1>3. ASSUME NEW n \in Node, at[n] = 0, NEW e \in EntriesOf(data[n]), e.key # NoKey
        PROVE  e.key \in Abstract!Bound /\ e.val = Contents[e.key]
    <2>1. e \in Stored /\ e.down = Null
      BY <1>1, <1>3, StoredAt
    <2>2. e.val # NoValue
      BY <1>3, <2>1 DEF ValuesInv
    <2>3. e.key \in Key /\ Contents[e.key] = e.val
      BY <2>1, <2>2, BoundValue
    <2> QED
      BY <1>0, <2>2, <2>3
  <1> QED
    BY <1>0, <1>2, <1>3

\* A key that is bound and below the entry i of a node is not above the one
\* before it.
LEMMA NoneInNode ==
  ASSUME Inv, ValuesInv, NEW at, NEW on, Shape(at, on), NEW n \in on, at[n] = 0,
         NEW i \in 2 .. Len(data[n]), NEW j \in Abstract!Bound, j < data[n][i].key
  PROVE  data[n][i-1].key # NoKey /\ j <= data[n][i-1].key
  <1> DEFINE s == data[n]
             a == s[i-1]
  <1>1. Listed(data, Right, at, on) /\ n \in Node
    BY DEF Shape, Listed
  <1>2. s \in Seq(EntryType) /\ Ascending(s) /\ DOMAIN s = 1 .. Len(s) /\ Len(s) \in Nat
    BY <1>1, NodeFacts, EntrySeq
  <1>3. i \in DOMAIN s /\ i - 1 \in DOMAIN s /\ i - 1 < i
    BY <1>2
  <1>4. a \in EntriesOf(s) /\ s[i] \in EntriesOf(s) /\ s[i].key # NoKey
    BY <1>2, <1>3 DEF EntriesOf, Ascending
  <1>5. n \in on \ Lasts
    BY <1>1, <1>4, NodeFacts
  <1>6. PICK m \in on : at[m] = 0 /\ m \in Node /\ \E e \in EntriesOf(data[m]) : e.key = j
    BY BoundEntry
  <1>7. PICK e \in EntriesOf(data[m]) : e.key = j
    BY <1>6
  <1>8. j \in Int /\ j # NoKey /\ s[i].key \in Int /\ (a.key # NoKey => a.key \in Int)
    <2>1. j \in Key
      BY BoundEntry
    <2> QED
      BY <1>1, <1>4, <2>1, NodeFacts, CallAssumption
  <1>9. CASE m = n
    <2>1. PICK l \in DOMAIN s : s[l] = e
      BY <1>9 DEF EntriesOf
    <2>2. l < i
      <3>1. l # i
        BY <1>7, <1>8, <2>1
      <3>2. ~(i < l)
        <4> SUFFICES ASSUME i < l PROVE FALSE
          OBVIOUS
        <4>1. s[i].key < s[l].key
          BY <1>2, <1>3, <1>4, <2>1 DEF Ascending
        <4> QED
          BY <1>7, <1>8, <2>1, <4>1
      <3> QED
        BY <1>2, <2>1, <3>1, <3>2
    <2>3. CASE l = i - 1
      BY <1>7, <1>8, <2>1, <2>3
    <2>4. CASE l < i - 1
      <3>1. a.key # NoKey /\ (s[l].key = NoKey \/ s[l].key < a.key)
        BY <1>2, <1>3, <2>1, <2>4 DEF Ascending
      <3> QED
        BY <1>7, <1>8, <2>1, <3>1
    <2> QED
      BY <1>2, <2>1, <2>2, <2>3, <2>4
  <1>10. CASE Left(data, m, n)
    <2>1. Before(data[m], Start(data, n)) /\ n \notin Firsts
      BY <1>1, <1>5, <1>6, <1>10, EntriesLeft DEF Left
    <2>2. j < Start(data, n)
      BY <1>7, <1>8, <2>1 DEF Before
    <2>3. a.key # NoKey /\ Start(data, n) <= a.key /\ Start(data, n) \in Int
      BY <1>1, <1>4, <1>5, <2>1, NodeFacts
    <2> QED
      BY <1>8, <2>2, <2>3
  <1>11. CASE Left(data, n, m)
    <2>1. m \notin Firsts /\ m \notin Lasts
      BY <1>1, <1>6, <1>7, <1>11, NodeFacts DEF Left
    <2>2. Before(s, Start(data, m))
      BY <1>1, <1>6, <1>11, <2>1, EntriesLeft
    <2>3. Start(data, m) <= j /\ Start(data, m) \in Int
      BY <1>1, <1>6, <1>7, <1>8, <2>1, NodeFacts
    <2>4. s[i].key < Start(data, m)
      BY <1>4, <2>2 DEF Before
    <2> QED
      BY <1>8, <2>3, <2>4
  <1> QED
    BY <1>1, <1>6, <1>9, <1>10, <1>11 DEF Listed

\* A key that is bound and below the start of the right neighbour of a node is
\* not above the last of the node.
LEMMA NoneToRight ==
  ASSUME Inv, ValuesInv, NEW at, NEW on, Shape(at, on), NEW p \in on \ Lasts, at[p] = 0,
         NEW j \in Abstract!Bound, Right[p] \in Lasts \/ j < Start(data, Right[p])
  PROVE  LET a == data[p][Len(data[p])] IN a.key # NoKey /\ j <= a.key
  <1> DEFINE s == data[p]
             a == s[Len(s)]
             n == Right[p]
  <1>1. Listed(data, Right, at, on) /\ p \in Node
    BY DEF Shape, Listed
  <1>2. s \in Seq(EntryType) /\ Ascending(s) /\ DOMAIN s = 1 .. Len(s) /\ Len(s) \in Nat /\ Len(s) > 0
    BY <1>1, NodeFacts, EntrySeq
  <1>3. Len(s) \in DOMAIN s /\ a \in EntriesOf(s)
    BY <1>2 DEF EntriesOf
  <1>4. n \in on /\ n \in Node /\ at[n] = 0 /\ Left(data, p, n)
    BY <1>1 DEF Listed
  <1>5. PICK m \in on : at[m] = 0 /\ m \in Node /\ \E e \in EntriesOf(data[m]) : e.key = j
    BY BoundEntry
  <1>6. PICK e \in EntriesOf(data[m]) : e.key = j
    BY <1>5
  <1>7. j \in Int /\ j # NoKey /\ (a.key # NoKey => a.key \in Int)
    <2>1. j \in Key
      BY BoundEntry
    <2> QED
      BY <1>1, <1>3, <2>1, NodeFacts, CallAssumption
  <1>8. m \notin Lasts
    BY <1>1, <1>5, <1>6, NodeFacts
  <1>9. CASE m = p
    <2>1. PICK l \in DOMAIN s : s[l] = e
      BY <1>9 DEF EntriesOf
    <2>2. CASE l = Len(s)
      BY <1>6, <1>7, <2>1, <2>2
    <2>3. CASE l < Len(s)
      <3>1. a.key # NoKey /\ (s[l].key = NoKey \/ s[l].key < a.key)
        BY <1>2, <1>3, <2>1, <2>3 DEF Ascending
      <3> QED
        BY <1>6, <1>7, <2>1, <3>1
    <2> QED
      BY <1>2, <2>1, <2>2, <2>3
  <1>10. CASE Left(data, m, p)
    <2>1. Before(data[m], Start(data, p)) /\ p \notin Firsts
      BY <1>1, <1>5, <1>10, EntriesLeft DEF Left
    <2>2. j < Start(data, p)
      BY <1>6, <1>7, <2>1 DEF Before
    <2>3. a.key # NoKey /\ Start(data, p) <= a.key /\ Start(data, p) \in Int
      BY <1>1, <1>3, <2>1, NodeFacts
    <2> QED
      BY <1>7, <2>2, <2>3
  <1>11. CASE Left(data, p, m)
    <2>1. m = n \/ Left(data, n, m)
      BY <1>1, <1>5, <1>11 DEF Listed
    <2>2. m \notin Firsts
      BY <1>11 DEF Left
    <2>3. n \notin Lasts /\ Start(data, n) <= Start(data, m)
      BY <1>1, <1>5, <1>8, <1>11, <1>7, PastRight, BoundEntry
    <2>4. Start(data, m) <= j /\ Start(data, m) \in Int
      BY <1>1, <1>5, <1>6, <1>7, <1>8, <2>2, NodeFacts
    <2>5. Start(data, n) \in Int
      BY <1>1, <1>4, <2>3, StartInt DEF Left
    <2> QED
      BY <1>7, <2>3, <2>4, <2>5
  <1> QED
    BY <1>1, <1>5, <1>9, <1>10, <1>11 DEF Listed

\* The least element of a set of keys.
LEMMA LeastIs ==
  ASSUME NEW S, S \subseteq Int, NEW m \in S, \A j \in S : m <= j
  PROVE  Abstract!Least(S) = m
  <1>1. \A j \in S : (\A l \in S : j <= l) => j = m
    BY SMT
  <1> QED
    BY <1>1 DEF Abstract!Least

\* What a range step changes.
LEMMA Ranging ==
  ASSUME NEW t \in Thread, Known(t), Asked(t)' = Asked(t)
  PROVE  /\ [u \in Thread |-> Asked(u)]' = [u \in Thread |-> Asked(u)]
         /\ [u \in Thread |-> Cursor(u)]' = [[u \in Thread |-> Cursor(u)] EXCEPT ![t] = Cursor(t)']
  BY OwnAsk

\* A range seeks the first key from its start on, where it says it is.
LEMMA SeekRefines ==
  ASSUME NEW t \in Thread, Known(t), op[t].name = "range", data' = data, reply' = reply,
         op'[t] = op[t], removed' = removed,
         pc[t] \in {"below", "hit", "tower", "next"}, pc'[t] = "emit",
         Cursor(t)' = <<"at", Abstract!Least({j \in Abstract!Bound : j >= op[t].key})>>
  PROVE  Abstract!RangeSeek(t)
  <1>1. ~removed[t] /\ removed'[t] = removed[t]
    BY NotYet DEF Known
  <1>2. Asked(t)' = Asked(t) /\ Asked(t).name = "range" /\ Asked(t).key = op[t].key
    BY <1>1 DEF Asked, Request
  <1>3. Cursor(t) = Abstract!Nowhere
    BY DEF Cursor, Abstract!Nowhere
  <1>4. Contents' = Contents
    BY SameStored DEF Known
  <1> QED
    BY <1>2, <1>3, <1>4, Ranging DEF Abstract!RangeSeek

\* range finds its start in the node it is in ...
LEMMA StartHereRefines ==
  ASSUME NEW t \in Thread, Known(t), op[t].name = "range", StartHere(t)
  PROVE  Abstract!RangeSeek(t)
  <1> DEFINE n == cur[t]
             s == data[n]
             k == op[t].key
             p == Passed(s, k)
             S == {j \in Abstract!Bound : j >= k}
  <1>1. LInv /\ LocalTypes
    BY TypeParts DEF Known, Inv, LInv
  <1>2. PICK at, on : Shape(at, on)
    BY DEF Known, Inv
  <1>3. Listed(data, Right, at, on) /\ CurInv(at, on, t) /\ ValuesInv /\ RangeInv(t)
    BY <1>2 DEF Shape, ThreadInv, Known, MapInv
  <1>4. /\ pc[t] \in {"below", "hit", "tower"} /\ pc'[t] = "emit" /\ data' = data /\ cur' = cur
        /\ reply' = reply /\ op' = op /\ removed' = removed /\ index'[t] = p + 1
        /\ pc[t] = "below" => height[t] = 0
        /\ pc[t] # "below" => At(t).down = Null
    BY <1>1 DEF StartHere, AtTowerFoot, Goto, LocalTypes, heap
  <1>5. height[t] = 0
    BY <1>1, <1>2, <1>4, AtTheFoot
  <1>6. n \in on \ Lasts /\ n \in Node /\ at[n] = 0
    BY <1>3, <1>4, <1>5 DEF CurInv, OnLevel, Listed
  <1>7. k \in Key /\ k \in Int
    BY <1>2, <1>4, CallAssumption DEF Shape, ThreadInv, CallInv
  <1>8. s \in Seq(EntryType) /\ Ascending(s) /\ DOMAIN s = 1 .. Len(s) /\ Len(s) \in Nat
    BY <1>3, <1>6, NodeFacts, EntrySeq
  <1>9. /\ p \in 0 .. Len(s)
        /\ \A j \in 1 .. Len(s) : j <= p <=> s[j].key = NoKey \/ s[j].key < k
    BY <1>7, <1>8, PassedSplits
  <1>10. p + 1 \in 1 .. Len(s)
    <2>1. CASE pc[t] = "below"
      BY <1>3, <1>4, <1>8, <1>9, <2>1 DEF RangeInv
    <2>2. CASE pc[t] # "below"
      BY <1>1, <1>2, <1>4, <2>2, FoundEntry
    <2> QED
      BY <2>1, <2>2
  <1> DEFINE m == s[p + 1].key
  <1>11. s[p + 1] \in EntriesOf(s)
    BY <1>8, <1>10 DEF EntriesOf
  <1>12. m # NoKey /\ m >= k /\ m \in Int
    <2>1. ~(p + 1 <= p)
      BY <1>9
    <2>2. m # NoKey /\ ~(m < k)
      BY <1>9, <1>10, <2>1
    <2>3. m \in Int
      BY <1>3, <1>6, <1>11, <2>2, NodeFacts
    <2> QED
      BY <1>7, <2>2, <2>3
  <1>13. m \in S
    BY <1>2, <1>3, <1>6, <1>11, <1>12, BoundEntry DEF Known
  <1>14. \A j \in S : m <= j
    <2> SUFFICES ASSUME NEW j \in S, ~(m <= j) PROVE FALSE
      OBVIOUS
    <2>1. j \in Abstract!Bound /\ j >= k /\ j \in Int
      BY <1>2, <1>3, BoundEntry, CallAssumption DEF Known
    <2>2. CASE p = 0
      <3>1. pc[t] # "below"
        <4> SUFFICES ASSUME pc[t] = "below" PROVE FALSE
          OBVIOUS
        <4>1. s # <<>> /\ (s[1].key = NoKey \/ s[1].key < k)
          BY <1>3, <1>6, <1>7, NodeFacts DEF CurInv, Short, Start
        <4> QED
          BY <1>8, <1>9, <2>2, <4>1, EntrySeq
      <3>2. m = k
        BY <1>1, <1>2, <1>4, <3>1, FoundEntry DEF At
      <3> QED
        BY <1>7, <2>1, <3>2
    <2>3. CASE p # 0
      <3>1. p + 1 \in 2 .. Len(s) /\ (p + 1) - 1 = p /\ p \in 1 .. Len(s)
        BY <1>9, <1>10, <2>3
      <3>2. j < m
        BY <1>12, <2>1
      <3>3. s[p].key # NoKey /\ j <= s[p].key
        <4>1. s[(p + 1) - 1].key # NoKey /\ j <= s[(p + 1) - 1].key
          BY <1>2, <1>3, <1>6, <2>1, <3>1, <3>2, NoneInNode DEF Known
        <4> QED
          BY <3>1, <4>1
      <3>4. s[p].key < k /\ s[p].key \in Int
        <4>1. p <= p /\ s[p] \in EntriesOf(s)
          BY <1>8, <3>1 DEF EntriesOf
        <4> QED
          BY <1>3, <1>6, <1>9, <3>1, <3>3, <4>1, NodeFacts
      <3> QED
        BY <1>7, <2>1, <3>3, <3>4
    <2> QED
      BY <2>2, <2>3
  <1>15. S \subseteq Int
    BY <1>2, <1>3, BoundEntry, CallAssumption DEF Known
  <1>16. Abstract!Least(S) = m
    <2> HIDE DEF S, m
    <2> QED
      BY <1>13, <1>14, <1>15, LeastIs
  <1>17. Cursor(t)' = <<"at", m>>
    BY <1>4, <1>10 DEF Cursor
  <1> QED
    BY <1>4, <1>16, <1>17, SeekRefines

\* ... or at the start of the next one, or finds that there is none.
LEMMA StartNextRefines ==
  ASSUME NEW t \in Thread, Known(t), op[t].name = "range", StartNext(t)
  PROVE  Abstract!RangeSeek(t)
  <1> DEFINE p == cur[t]
             n == next[p]
             k == op[t].key
             S == {j \in Abstract!Bound : j >= k}
  <1>1. LInv /\ LocalTypes
    BY TypeParts DEF Known, Inv, LInv
  <1>2. PICK at, on : Shape(at, on)
    BY DEF Known, Inv
  <1>3. Listed(data, Right, at, on) /\ CurInv(at, on, t) /\ ValuesInv
    BY <1>2 DEF Shape, ThreadInv, Known, MapInv
  <1>4. /\ pc[t] = "next" /\ pc'[t] = "emit" /\ data' = data /\ cur'[t] = n /\ index'[t] = 1
        /\ reply' = reply /\ op' = op /\ removed' = removed /\ height[t] = 0
        /\ StartsAfter(n, k)
    BY <1>1 DEF StartNext, Goto, LocalTypes, heap
  <1>5. /\ p \in on \ Lasts /\ p \in Node /\ at[p] = 0 /\ n = Right[p]
        /\ n \in on /\ n \in Node /\ n \notin Firsts /\ at[n] = 0
    BY <1>1, <1>2, <1>4, NextOf DEF OnLevel
  <1>6. k \in Key /\ k \in Int
    BY <1>2, <1>4, CallAssumption DEF Shape, ThreadInv, CallInv
  <1>7. Past(data, n, k)
    BY <1>1, <1>2, <1>4, <1>5, <1>6, Beyond
  <1>8. ASSUME NEW j \in S, n \in Lasts \/ j < Start(data, n) PROVE FALSE
    <2> DEFINE a == data[p][Len(data[p])]
    <2>1. j \in Abstract!Bound /\ j >= k /\ j \in Int
      BY <1>2, <1>3, BoundEntry, CallAssumption DEF Known
    <2>2. a.key # NoKey /\ j <= a.key
      BY <1>2, <1>3, <1>5, <1>8, <2>1, NoneToRight DEF Known
    <2>3. a \in EntriesOf(data[p])
      BY <1>3, <1>5, NodeFacts, EntrySeq
    <2>4. a.key < k /\ a.key \in Int
      BY <1>3, <1>4, <1>5, <2>2, <2>3, NodeFacts DEF CurInv, Before
    <2> QED
      BY <1>6, <2>1, <2>2, <2>4
  <1>9. Cursor(t)' = <<"at", Abstract!Least(S)>>
    <2>1. CASE n \in Lasts
      <3>1. data[n] = <<>>
        BY <1>3, <1>5, <2>1 DEF Listed, NodeOK
      <3>2. Cursor(t)' = <<"at", NoKey>>
        BY <1>4, <3>1 DEF Cursor
      <3>3. S = {}
        BY <1>8, <2>1
      <3> QED
        BY <3>2, <3>3 DEF Abstract!Least
    <2>2. CASE n \notin Lasts
      <3> DEFINE m == Start(data, n)
      <3>1. /\ data[n] # <<>> /\ data[n][1] \in EntriesOf(data[n]) /\ data[n] \in Seq(EntryType)
            /\ m \in Int /\ m # NoKey /\ m > k
        BY <1>3, <1>5, <1>7, <2>2, NodeFacts DEF Past
      <3>2. Len(data[n]) >= 1
        BY <3>1, EntrySeq
      <3>3. Cursor(t)' = <<"at", m>>
        BY <1>4, <3>2 DEF Cursor, Start
      <3>4. m \in S
        <4>1. m \in Abstract!Bound
          BY <1>2, <1>3, <1>5, <3>1, BoundEntry DEF Known, Start
        <4> QED
          BY <1>6, <3>1, <4>1
      <3>5. S \subseteq Int
        BY <1>2, <1>3, BoundEntry, CallAssumption DEF Known
      <3>6. \A j \in S : m <= j
        BY <1>8, <3>1, <3>5
      <3>7. Abstract!Least(S) = m
        <4> HIDE DEF S, m
        <4> QED
          BY <3>4, <3>5, <3>6, LeastIs
      <3> QED
        BY <3>3, <3>7
    <2> QED
      BY <2>1, <2>2
  <1> QED
    BY <1>4, <1>9, SeekRefines

\* range hands out a pair ...
LEMMA EmitRefines ==
  ASSUME NEW t \in Thread, Known(t), op[t].name = "range", Emit(t)
  PROVE  Abstract!RangeEmit(t)
  <1>0. PICK e : e = data[cur[t]][index[t]]
    OBVIOUS
  <1>1. LInv /\ LocalTypes
    BY TypeParts DEF Known, Inv, LInv
  <1>2. PICK at, on : Shape(at, on)
    BY DEF Known, Inv
  <1>3. Listed(data, Right, at, on) /\ ThreadInv(at, on, t) /\ ValuesInv /\ RangeInv(t)
    BY <1>2 DEF Shape, Known, MapInv
  <1>4. /\ pc[t] = "emit" /\ pc'[t] = "step" /\ data' = data /\ cur' = cur /\ removed' = removed
        /\ index[t] <= Len(data[cur[t]]) /\ index'[t] = index[t] + 1 /\ index[t] \in Int
        /\ op[t].len > 0
        /\ reply' = [reply EXCEPT ![t] = <<"pair", e.key, e.val>>]
        /\ op' = [op EXCEPT ![t].len = @ - 1]
    BY <1>0, <1>1 DEF Emit, Goto, Answer, LocalTypes, heap
  <1>5. /\ cur[t] \in Node /\ at[cur[t]] = 0 /\ index[t] \in 1 .. Len(data[cur[t]]) + 1
        /\ e.key # NoKey
    BY <1>0, <1>3, <1>4 DEF ThreadInv, CurInv, CallInv, RangeInv, OnLevel, Listed
  <1>6. e \in EntriesOf(data[cur[t]])
    <2>1. data[cur[t]] \in Seq(EntryType)
      BY <1>3, <1>5, NodeFacts
    <2>2. index[t] \in 1 .. Len(data[cur[t]])
      BY <1>4, <1>5, <2>1, EntrySeq
    <2> QED
      BY <1>0, <2>1, <2>2, EntrySeq
  <1>7. Contents[e.key] = e.val
    BY <1>2, <1>3, <1>5, <1>6, BoundEntry DEF Known
  <1>8. ~removed[t]
    BY NotYet DEF Known
  <1>9. Asked(t)' = [Asked(t) EXCEPT !.len = @ - 1] /\ Asked(t).len = op[t].len
    <2>1. Asked(t) = [name |-> op[t].name, key |-> op[t].key, val |-> op[t].val, len |-> op[t].len]
      BY <1>4, <1>8 DEF Asked, Request
    <2>2. Asked(t)' = [name |-> op'[t].name, key |-> op'[t].key, val |-> op'[t].val,
                       len |-> op'[t].len]
      BY <1>4, <1>8 DEF Asked, Request
    <2>3. /\ op'[t].name = op[t].name /\ op'[t].key = op[t].key /\ op'[t].val = op[t].val
          /\ op'[t].len = op[t].len - 1
      BY <1>1, <1>4 DEF LocalTypes, OpType
    <2> QED
      BY <2>1, <2>2, <2>3
  <1>10. Cursor(t) = <<"at", e.key>> /\ Cursor(t)' = <<"past", e.key>>
    <2>1. index'[t] - 1 = index[t]
      BY <1>4
    <2> QED
      BY <1>0, <1>4, <2>1 DEF Cursor
  <1>11. Contents' = Contents
    BY <1>4, SameStored DEF Known
  <1>12. /\ [u \in Thread |-> Asked(u)]' = [[u \in Thread |-> Asked(u)] EXCEPT ![t].len = @ - 1]
         /\ [u \in Thread |-> Cursor(u)]'
              = [[u \in Thread |-> Cursor(u)] EXCEPT ![t] = <<"past", e.key>>]
    BY <1>9, <1>10, OwnAsk
  <1>13. /\ [u \in Thread |-> Cursor(u)][t][1] = "at"
         /\ [u \in Thread |-> Cursor(u)][t][2] = e.key
         /\ [u \in Thread |-> Asked(u)][t].len > 0
    BY <1>4, <1>9, <1>10
  <1> QED
    BY <1>4, <1>5, <1>7, <1>11, <1>12, <1>13 DEF Abstract!RangeEmit

\* ... and goes on to the next, where it says it is.
LEMMA NextRefines ==
  ASSUME NEW t \in Thread, Known(t), op[t].name = "range", data' = data, reply' = reply,
         op'[t] = op[t], removed' = removed, pc[t] = "step", pc'[t] = "emit",
         NEW k, k = data[cur[t]][index[t] - 1].key,
         Cursor(t)' = <<"at", Abstract!Least({j \in Abstract!Bound : j > k})>>
  PROVE  Abstract!RangeNext(t)
  <1> DEFINE S == {j \in Abstract!Bound : j > k}
  <1>1. removed'[t] = removed[t]
    OBVIOUS
  <1>2. Asked(t)' = Asked(t)
    BY <1>1 DEF Asked, Request
  <1>3. Cursor(t) = <<"past", k>>
    BY DEF Cursor
  <1>4. Contents' = Contents
    BY SameStored DEF Known
  <1>c. Cursor(t)' = <<"at", Abstract!Least(S)>>
    OBVIOUS
  <1>5. /\ [u \in Thread |-> Asked(u)]' = [u \in Thread |-> Asked(u)]
        /\ [u \in Thread |-> Cursor(u)]'
             = [[u \in Thread |-> Cursor(u)] EXCEPT ![t] = <<"at", Abstract!Least(S)>>]
    <2> HIDE DEF S
    <2> QED
      BY <1>2, <1>c, Ranging
  <1>6. [u \in Thread |-> Cursor(u)][t][1] = "past" /\ [u \in Thread |-> Cursor(u)][t][2] = k
    BY <1>3
  <1>7. S = {j \in Abstract!Bound : j > [u \in Thread |-> Cursor(u)][t][2]}
    BY <1>6
  <1> HIDE DEF S
  <1> QED
    BY <1>4, <1>5, <1>6, <1>7 DEF Abstract!RangeNext

\* The next pair is in the same node ...
LEMMA StepInNodeRefines ==
  ASSUME NEW t \in Thread, Known(t), op[t].name = "range", StepInNode(t)
  PROVE  Abstract!RangeNext(t)
  <1> DEFINE n == cur[t]
             s == data[n]
             i == index[t]
             m == s[i].key
  <1>0. PICK k : k = s[i - 1].key
    OBVIOUS
  <1> DEFINE S == {j \in Abstract!Bound : j > k}
  <1>1. LInv /\ LocalTypes
    BY TypeParts DEF Known, Inv, LInv
  <1>2. PICK at, on : Shape(at, on)
    BY DEF Known, Inv
  <1>3. Listed(data, Right, at, on) /\ ThreadInv(at, on, t) /\ ValuesInv /\ RangeInv(t)
    BY <1>2 DEF Shape, Known, MapInv
  <1>4. /\ pc[t] = "step" /\ pc'[t] = "emit" /\ data' = data /\ cur' = cur /\ removed' = removed
        /\ reply' = reply /\ op' = op /\ index' = index /\ i <= Len(s)
    BY <1>1 DEF StepInNode, Goto, LocalTypes, heap, scan
  <1>5. /\ n \in on /\ n \in Node /\ at[n] = 0 /\ i \in 2 .. Len(s) + 1 /\ k # NoKey
    BY <1>0, <1>3, <1>4 DEF ThreadInv, CurInv, CallInv, RangeInv, OnLevel, Listed
  <1>6. s \in Seq(EntryType) /\ Ascending(s) /\ DOMAIN s = 1 .. Len(s) /\ Len(s) \in Nat
    BY <1>3, <1>5, NodeFacts, EntrySeq
  <1>7. i \in 2 .. Len(s) /\ i \in DOMAIN s /\ i - 1 \in DOMAIN s /\ i - 1 < i
    BY <1>4, <1>5, <1>6
  <1>8. s[i] \in EntriesOf(s) /\ s[i-1] \in EntriesOf(s)
    BY <1>7 DEF EntriesOf
  <1>9. m # NoKey /\ k < m
    BY <1>0, <1>5, <1>6, <1>7 DEF Ascending
  <1>10. m \in Int /\ k \in Int
    BY <1>0, <1>3, <1>5, <1>8, <1>9, NodeFacts
  <1>11. m \in S
    BY <1>2, <1>3, <1>5, <1>8, <1>9, <1>10, BoundEntry DEF Known
  <1>12. S \subseteq Int
    BY <1>2, <1>3, BoundEntry, CallAssumption DEF Known
  <1>13. \A j \in S : m <= j
    <2> SUFFICES ASSUME NEW j \in S, ~(m <= j) PROVE FALSE
      OBVIOUS
    <2>1. j \in Abstract!Bound /\ j > k /\ j \in Int
      BY <1>12
    <2>2. j < m
      BY <1>10, <2>1
    <2>3. j <= k
      BY <1>0, <1>2, <1>3, <1>5, <1>7, <2>1, <2>2, NoneInNode DEF Known
    <2> QED
      BY <1>10, <2>1, <2>3
  <1>14. Abstract!Least(S) = m
    <2> HIDE DEF S, m
    <2> QED
      BY <1>11, <1>12, <1>13, LeastIs
  <1>15. Cursor(t)' = <<"at", m>>
    BY <1>4 DEF Cursor
  <1> QED
    BY <1>0, <1>4, <1>14, <1>15, NextRefines

\* ... or starts the next one, if there is one.
LEMMA StepRightRefines ==
  ASSUME NEW t \in Thread, Known(t), op[t].name = "range", StepRight(t)
  PROVE  Abstract!RangeNext(t)
  <1> DEFINE p == cur[t]
             n == next[p]
             s == data[p]
  <1>0. PICK k : k = s[index[t] - 1].key
    OBVIOUS
  <1> DEFINE S == {j \in Abstract!Bound : j > k}
  <1>1. LInv /\ LocalTypes
    BY TypeParts DEF Known, Inv, LInv
  <1>2. PICK at, on : Shape(at, on)
    BY DEF Known, Inv
  <1>3. Listed(data, Right, at, on) /\ ThreadInv(at, on, t) /\ ValuesInv /\ RangeInv(t)
    BY <1>2 DEF Shape, Known, MapInv
  <1>4. /\ pc[t] = "step" /\ pc'[t] = "emit" /\ data' = data /\ cur'[t] = n /\ index'[t] = 1
        /\ reply' = reply /\ op' = op /\ removed' = removed /\ index[t] > Len(s)
    BY <1>1 DEF StepRight, FirstIndex, Goto, LocalTypes, heap
  <1>5. /\ p \in on \ Lasts /\ p \in Node /\ n = Right[p]
        /\ n \in on /\ n \in Node /\ n \notin Firsts
        /\ n \notin Lasts => Before(s, Start(data, n))
    BY <1>1, <1>2, <1>4, NextOf DEF OnLevel
  <1>6. at[p] = 0 /\ at[n] = 0 /\ index[t] \in 2 .. Len(s) + 1 /\ k # NoKey
    BY <1>0, <1>3, <1>4, <1>5 DEF ThreadInv, CurInv, CallInv, RangeInv, OnLevel, Listed
  <1>7. s \in Seq(EntryType) /\ Len(s) \in Nat /\ Len(s) > 0
    BY <1>3, <1>5, NodeFacts, EntrySeq
  <1>8. index[t] - 1 = Len(s)
    BY <1>4, <1>6, <1>7
  <1>9. k = s[Len(s)].key /\ s[Len(s)] \in EntriesOf(s)
    BY <1>0, <1>7, <1>8, EntrySeq
  <1>10. k \in Int
    BY <1>3, <1>5, <1>6, <1>9, NodeFacts
  <1>11. S \subseteq Int
    BY <1>2, <1>3, BoundEntry, CallAssumption DEF Known
  <1>12. ASSUME NEW j \in S, n \in Lasts \/ j < Start(data, n) PROVE FALSE
    <2>1. j \in Abstract!Bound /\ j > k /\ j \in Int
      BY <1>11
    <2>2. j <= k
      BY <1>2, <1>3, <1>5, <1>6, <1>9, <1>12, <2>1, NoneToRight DEF Known
    <2> QED
      BY <1>10, <2>1, <2>2
  <1>13. Cursor(t)' = <<"at", Abstract!Least(S)>>
    <2>1. CASE n \in Lasts
      <3>1. data[n] = <<>>
        BY <1>3, <1>5, <2>1 DEF Listed, NodeOK
      <3>2. Cursor(t)' = <<"at", NoKey>>
        BY <1>4, <3>1 DEF Cursor
      <3>3. S = {}
        BY <1>12, <2>1
      <3> QED
        BY <3>2, <3>3 DEF Abstract!Least
    <2>2. CASE n \notin Lasts
      <3> DEFINE m == Start(data, n)
      <3>1. /\ data[n] # <<>> /\ data[n][1] \in EntriesOf(data[n]) /\ data[n] \in Seq(EntryType)
            /\ m \in Int /\ m # NoKey
        BY <1>3, <1>5, <2>2, NodeFacts
      <3>2. Len(data[n]) >= 1
        BY <3>1, EntrySeq
      <3>3. Cursor(t)' = <<"at", m>>
        BY <1>4, <3>2 DEF Cursor, Start
      <3>4. m \in S
        <4>1. m \in Abstract!Bound
          BY <1>2, <1>3, <1>5, <1>6, <3>1, BoundEntry DEF Known, Start
        <4>2. k < m
          BY <1>5, <1>6, <1>9, <2>2 DEF Before
        <4> QED
          BY <1>10, <3>1, <4>1, <4>2
      <3>5. \A j \in S : m <= j
        BY <1>11, <1>12, <3>1
      <3>6. Abstract!Least(S) = m
        <4> HIDE DEF S, m
        <4> QED
          BY <1>11, <3>4, <3>5, LeastIs
      <3> QED
        BY <3>3, <3>6
    <2> QED
      BY <2>1, <2>2
  <1> QED
    BY <1>0, <1>4, <1>13, NextRefines

\* range ends when it has handed out all pairs, or length of them.
LEMMA RangeDoneRefines ==
  ASSUME NEW t \in Thread, Known(t), op[t].name = "range", RangeDone(t)
  PROVE  Abstract!RangeEnd(t)
  <1>1. LocalTypes
    BY TypeParts DEF Known, Inv, LInv
  <1>2. /\ data' = data /\ reply' = reply /\ pc[t] \in {"emit", "step"} /\ pc'[t] = "ret"
        /\ (pc[t] = "emit" /\ index[t] > Len(data[cur[t]])) \/ op[t].len = 0
    BY <1>1 DEF RangeDone, Leave, Stand, Goto, Answer, LocalTypes, heap
  <1>3. ~removed[t]
    BY NotYet DEF Known
  <1>4. Asked(t).name = "range" /\ Asked(t).len = op[t].len
    BY <1>2, <1>3 DEF Asked, Request
  <1>5. Asked(t)' = Abstract!Finished /\ Cursor(t)' = Abstract!Nowhere
    BY <1>2 DEF Asked, Request, Cursor, Abstract!Finished, Abstract!Nowhere
  <1>6. Contents' = Contents
    BY <1>2, SameStored DEF Known
  <1>7. op[t].len = 0 \/ Cursor(t) = <<"at", NoKey>>
    <2> SUFFICES ASSUME pc[t] = "emit", index[t] > Len(data[cur[t]])
                 PROVE  Cursor(t) = <<"at", NoKey>>
      BY <1>2
    <2>1. PICK at, on : Shape(at, on)
      BY DEF Known, Inv
    <2>2. cur[t] \in Node /\ Listed(data, Right, at, on)
      BY <2>1 DEF Shape, ThreadInv, CurInv, OnLevel, Listed
    <2>3. Len(data[cur[t]]) \in Nat
      BY <2>2, NodeFacts, EntrySeq
    <2>4. ~(index[t] <= Len(data[cur[t]]))
      BY <1>1, <2>3 DEF LocalTypes
    <2> QED
      BY <2>4 DEF Cursor
  <1> QED
    BY <1>2, <1>4, <1>5, <1>6, <1>7, OwnAsk DEF Abstract!RangeEnd

-----------------------------------------------------------------------------
(* Every step is a step of the map.                                        *)

\* A call is the same call of the map ...
LEMMA CallRefines ==
  ASSUME NEW t \in Thread, Known(t), NEW o \in Ops(GenLevels), Call(t, o)
  PROVE  \E r \in Abstract!Request : Abstract!Call(t, r)
  <1> DEFINE r == [name |-> o.name, key |-> o.key, val |-> o.val, len |-> o.len]
  <1>1. LocalTypes
    BY TypeParts DEF Known, Inv, LInv
  <1>2. /\ pc[t] = "idle" /\ pc'[t] = "top" /\ op'[t] = o
        /\ data' = data /\ removed' = removed /\ reply' = reply
    BY <1>1 DEF Call, Goto, LocalTypes, heap, scan
  <1>3. op[t] = IdleOp /\ ~removed[t]
    BY <1>2, NotYet DEF Known, MapInv, ReplyInv
  <1>4. Asked(t) = Abstract!Idle
    BY <1>2, <1>3 DEF Asked, Request, IdleOp, Abstract!Idle
  <1>5. Asked(t)' = r
    BY <1>2, <1>3 DEF Asked, Request
  <1>6. r \in Abstract!Request
    BY DEF Ops, Abstract!Request
  <1>7. Cursor(t)' = Cursor(t)
    BY <1>2 DEF Cursor
  <1>8. Contents' = Contents
    BY <1>2, SameStored DEF Known
  <1>9. /\ [u \in Thread |-> Asked(u)]' = [[u \in Thread |-> Asked(u)] EXCEPT ![t] = r]
        /\ [u \in Thread |-> Cursor(u)]' = [u \in Thread |-> Cursor(u)]
    <2> HIDE DEF r
    <2>1. [u \in Thread |-> Cursor(u)]' = [[u \in Thread |-> Cursor(u)] EXCEPT ![t] = Cursor(t)]
      BY <1>7, OwnAsk
    <2> QED
      BY <1>5, <2>1, OwnAsk
  <1> HIDE DEF r
  <1>10. Abstract!Call(t, r)
    BY <1>2, <1>4, <1>8, <1>9 DEF Abstract!Call
  <1> QED
    BY <1>6, <1>10

\* ... and returns when it does.
LEMMA ReturnRefines ==
  ASSUME NEW t \in Thread, Known(t), Return(t)
  PROVE  Abstract!Return(t)
  <1>1. LocalTypes
    BY TypeParts DEF Known, Inv, LInv
  <1>2. /\ pc[t] = "ret" /\ pc'[t] = "idle" /\ op'[t] = IdleOp
        /\ data' = data /\ removed'[t] = FALSE
        /\ reply' = [reply EXCEPT ![t] = NoReply]
    BY <1>1 DEF Return, Answer, Goto, LocalTypes, heap
  <1>3. Asked(t) = Abstract!Finished
    BY <1>2, Effective
  <1>4. Asked(t)' = Abstract!Idle
    BY <1>2 DEF Asked, Request, IdleOp, Abstract!Idle
  <1>5. Cursor(t)' = Cursor(t)
    BY <1>2 DEF Cursor
  <1>6. Contents' = Contents
    BY <1>2, SameStored DEF Known
  <1>7. /\ [u \in Thread |-> Asked(u)]'
             = [[u \in Thread |-> Asked(u)] EXCEPT ![t] = Abstract!Idle]
        /\ [u \in Thread |-> Cursor(u)]' = [u \in Thread |-> Cursor(u)]
    BY <1>4, <1>5, OwnAsk
  <1> QED
    BY <1>2, <1>3, <1>6, <1>7 DEF Abstract!Return, NoReply, Abstract!NoReply

\* The steps of a get ...
LEMMA GetRefines ==
  ASSUME NEW t \in Thread, Known(t), Get(t)
  PROVE  Abstract!Get(t) \/ UNCHANGED Abstract!vars
  <1>1. op[t].name = "get"
    BY DEF Get
  <1>2. CASE Enter(t, "shared") \/ StopShort(t, "shared") \/ MoveRight(t)
             \/ GoDown(t, "shared", "shared")
             \/ (pc[t] \in {"hit", "tower"} /\ DescendTower(t, "shared", "shared"))
    BY <1>2, SearchUnseen
  <1>3. CASE OffTheBottom(t, "shared", <<"get", op[t].key, NoValue>>)
    BY <1>1, <1>3, GetAbsentRefines
  <1>4. CASE ReadValue(t)
    BY <1>1, <1>4, ReadValueRefines
  <1> QED
    BY <1>2, <1>3, <1>4 DEF Get

\* ... of an insert_or_modify ...
LEMMA InsertRefines ==
  ASSUME NEW t \in Thread, Known(t), Insert(t)
  PROVE  Abstract!Insert(t) \/ UNCHANGED Abstract!vars
  <1>1. op[t].name = "insert"
    BY DEF Insert
  <1>2. CASE Search(t)
    <2>1. \/ Enter(t, "shared") \/ StopShort(t, "shared") \/ MoveRight(t)
          \/ GoDown(t, DownMode(t), "shared")
          \/ pc[t] = "hit" /\ DescendTower(t, TowerMode(t), "shared")
      BY <1>2 DEF Search
    <2> QED
      BY <2>1, SearchUnseen
  <1>3. CASE Working(t, height[t]) /\ Work(t)
    <2>1. CASE Place(t)
      BY <1>1, <1>3, <2>1, PlaceRefines
    <2>2. CASE MoveOver(t)
      BY <2>2, MoveOverUnseen
    <2>3. CASE Enter(t, "exclusive") \/ StopShort(t, "exclusive") \/ Trail(t)
               \/ GoDown(t, "exclusive", "exclusive")
               \/ Allocate(t) \/ Relink(t) \/ Settle(t)
      BY <2>3, SearchUnseen
    <2> QED
      BY <1>3, <2>1, <2>2, <2>3 DEF Work
  <1>4. CASE \/ pc[t] = "tower" /\ DescendTower(t, TowerMode(t), "shared")
             \/ pc[t] = "merged" /\ DescendTower(t, "exclusive", "exclusive")
    BY <1>4, SearchUnseen
  <1>5. CASE WriteValue(t)
    BY <1>1, <1>5, WriteValueRefines
  <1> QED
    BY <1>2, <1>3, <1>4, <1>5 DEF Insert

\* ... of a remove ...
LEMMA RemoveRefines ==
  ASSUME NEW t \in Thread, Known(t), Remove(t)
  PROVE  Abstract!Remove(t) \/ UNCHANGED Abstract!vars
  <1>1. op[t].name = "remove"
    BY DEF Remove
  <1>2. CASE Enter(t, "exclusive") \/ StopShort(t, "exclusive") \/ Trail(t)
             \/ GoDown(t, "exclusive", "exclusive")
    BY <1>2, SearchUnseen
  <1>3. CASE DeleteEntry(t) \/ DeleteNode(t)
    BY <1>1, <1>3, DeleteRefines
  <1>4. CASE OffTheBottom(t, "exclusive", NoReply)
    BY <1>1, <1>4, RemoveEndRefines
  <1> QED
    BY <1>2, <1>3, <1>4 DEF Remove

\* ... and of a range.
LEMMA RangeRefines ==
  ASSUME NEW t \in Thread, Known(t), RangeCall(t)
  PROVE  Abstract!RangeSeek(t) \/ Abstract!RangeEmit(t) \/ Abstract!RangeNext(t)
           \/ Abstract!RangeEnd(t) \/ UNCHANGED Abstract!vars
  <1>1. op[t].name = "range"
    BY DEF RangeCall
  <1>2. CASE Enter(t, "shared") \/ StopShort(t, "shared") \/ MoveRight(t)
             \/ GoDown(t, "shared", "shared")
             \/ (pc[t] \in {"hit", "tower"} /\ DescendTower(t, "shared", "shared"))
    BY <1>2, SearchUnseen
  <1>3. CASE StartHere(t) \/ StartNext(t)
    BY <1>1, <1>3, StartHereRefines, StartNextRefines
  <1>4. CASE Emit(t)
    BY <1>1, <1>4, EmitRefines
  <1>5. CASE StepInNode(t) \/ StepRight(t)
    BY <1>1, <1>5, StepInNodeRefines, StepRightRefines
  <1>6. CASE RangeDone(t)
    BY <1>1, <1>6, RangeDoneRefines
  <1> QED
    BY <1>2, <1>3, <1>4, <1>5, <1>6 DEF RangeCall

\* Whatever a thread does, the map does, or nothing.
LEMMA StepRefines ==
  ASSUME Inv, Inv', MapInv, NEW t \in Thread, Step(t) \/ \E o \in Ops(GenLevels) : Call(t, o)
  PROVE  Abstract!Next \/ UNCHANGED Abstract!vars
  <1>1. PICK at, on : Shape(at, on)
    BY DEF Inv
  <1>2. LInv
    BY DEF Inv
  <1>3. Known(t)
    BY <1>1, <1>2, StepGuarded, StepIsPrivate DEF Known
  <1>4. CASE \E o \in Ops(GenLevels) : Call(t, o)
    BY <1>3, <1>4, CallRefines DEF Abstract!Next
  <1>5. CASE Return(t)
    BY <1>3, <1>5, ReturnRefines DEF Abstract!Next
  <1>6. CASE Get(t)
    BY <1>3, <1>6, GetRefines DEF Abstract!Next
  <1>7. CASE Insert(t)
    BY <1>3, <1>7, InsertRefines DEF Abstract!Next
  <1>8. CASE Remove(t)
    BY <1>3, <1>8, RemoveRefines DEF Abstract!Next
  <1>9. CASE RangeCall(t)
    BY <1>3, <1>9, RangeRefines DEF Abstract!Next
  <1> QED
    BY <1>4, <1>5, <1>6, <1>7, <1>8, <1>9 DEF Step

\* At first nothing is bound, asked or answered.
LEMMA InitRefines == Init => Abstract!Init
  <1> SUFFICES ASSUME Init PROVE Abstract!Init
    OBVIOUS
  <1>1. Inv /\ ValuesInv
    BY InitKeeps, InitMap DEF MapInv
  <1>2. ASSUME NEW k \in Key PROVE Contents[k] = NoValue
    <2>1. \A v \in Value : ~Binds(k, v)
      BY InitStored, CallAssumption DEF Binds
    <2> QED
      BY <1>1, <2>1, Unbound
  <1>3. Contents = [k \in Key |-> NoValue]
    <2>1. Contents = [k \in Key |-> Contents[k]]
      BY DEF Contents
    <2> QED
      BY <1>2, <2>1
  <1>4. \A t \in Thread : pc[t] = "idle" /\ op[t] = IdleOp /\ ~removed[t]
    BY DEF Init
  <1>5. ASSUME NEW t \in Thread PROVE Asked(t) = Abstract!Idle /\ Cursor(t) = Abstract!Nowhere
    BY <1>4 DEF Asked, Request, IdleOp, Abstract!Idle, Cursor, Abstract!Nowhere
  <1>6. /\ [t \in Thread |-> Asked(t)] = [t \in Thread |-> Abstract!Idle]
        /\ [t \in Thread |-> Cursor(t)] = [t \in Thread |-> Abstract!Nowhere]
    BY <1>5
  <1>7. reply = [t \in Thread |-> Abstract!NoReply]
    BY DEF Init, NoReply, Abstract!NoReply
  <1> QED
    BY <1>3, <1>6, <1>7 DEF Abstract!Init

\* Nothing moves, nothing is seen.
LEMMA StutterRefines ==
  ASSUME Inv, Inv', UNCHANGED vars
  PROVE  UNCHANGED Abstract!vars
  <1>1. /\ \A t \in Thread : Asked(t)' = Asked(t) /\ Cursor(t)' = Cursor(t)
        /\ reply' = reply
    BY DEF vars, heap, scan, Asked, Request, Cursor
  <1>2. Contents' = Contents
    BY SameStored DEF vars, heap
  <1>3. /\ [t \in Thread |-> Asked(t)]' = [t \in Thread |-> Asked(t)]
        /\ [t \in Thread |-> Cursor(t)]' = [t \in Thread |-> Cursor(t)]
    BY <1>1
  <1> QED
    BY <1>1, <1>2, <1>3 DEF Abstract!vars

\* The facts about the map are always true.
LEMMA AlwaysMap == Spec => []MapInv
  <1>1. Inv /\ Inv' /\ MapInv /\ [Next]_vars => MapInv'
    <2> SUFFICES ASSUME Inv, Inv', MapInv, [Next]_vars PROVE MapInv'
      OBVIOUS
    <2>1. CASE Next
      BY <2>1, StepKeepsMap DEF Next
    <2>2. CASE UNCHANGED vars
      BY <2>2, StutterKeepsMap
    <2> QED
      BY <2>1, <2>2
  <1> QED
    BY <1>1, InitMap, Invariant, PTL DEF Spec

-----------------------------------------------------------------------------
\* The cache-friendly skiplist is a map: however the steps of concurrent calls
\* interleave, with the splits and merges of their nodes, every get,
\* insert_or_modify and remove takes effect at one step of its own, where get
\* gives the answer of the map, and a range hands out, one after the other, the
\* next bound key with its value.
THEOREM SkiplistIsAMap == Spec => Linearizable
  <1>1. Inv /\ Inv' /\ MapInv /\ [Next]_vars => [Abstract!Next]_(Abstract!vars)
    <2> SUFFICES ASSUME Inv, Inv', MapInv, [Next]_vars
                 PROVE  Abstract!Next \/ UNCHANGED Abstract!vars
      OBVIOUS
    <2>1. CASE Next
      BY <2>1, StepRefines DEF Next
    <2>2. CASE UNCHANGED vars
      BY <2>2, StutterRefines
    <2> QED
      BY <2>1, <2>2
  <1> QED
    BY <1>1, InitRefines, Invariant, AlwaysMap, PTL DEF Spec, Linearizable, Abstract!Spec

-----------------------------------------------------------------------------
(* The benchmark: its destructor.                                          *)

\* When no call runs, the lists have everything that is in use.
LEMMA AllOnLists ==
  ASSUME Inv, \A t \in Thread : pc[t] = "idle"
  PROVE  alive \subseteq UNION {{Walk(i)[j] : j \in DOMAIN Walk(i)} : i \in Level}
  <1>1. LInv
    BY DEF Inv
  <1>2. PICK at, on : Shape(at, on)
    BY DEF Inv
  <1>3. Listed(data, Right, at, on) /\ Accounted(on) /\ alive \subseteq Node /\ Null \notin Node
    BY <1>1, <1>2, OnLists
  <1>4. \A t \in Thread : NewInv(on, t)
    BY <1>2 DEF Shape, ThreadInv
  <1>5. ASSUME NEW n \in alive PROVE n \in on
    <2>1. \A t \in Thread : nextNode[t] = Null /\ insertNode[t] = Null /\ pc[t] # "relink"
      BY <1>4 DEF NewInv, Waiting
    <2>2. n # Null
      BY <1>3
    <2> QED
      BY <1>3, <2>1, <2>2 DEF Accounted
  <1>6. ASSUME NEW n \in alive
        PROVE  \E i \in Level : \E j \in DOMAIN Walk(i) : Walk(i)[j] = n
    <2>1. n \in on /\ at[n] \in Level
      BY <1>3, <1>5 DEF Listed
    <2>2. \E b \in DOMAIN Walk(at[n]) : Walk(at[n])[b] = n
      BY <1>1, <1>2, <2>1, LevelWalk
    <2> QED
      BY <2>1, <2>2
  <1> QED
    BY <1>6

\* The invariant of the skiplist while it is there; afterwards there is nothing.
BenchInv ==
  /\ phase # "over" => Inv /\ MapInv
  /\ phase = "over" => alive = {} /\ \A t \in Thread : pc[t] = "idle" /\ op[t] = IdleOp

\* Who is out of a call does not step.
LEMMA IdleRests ==
  ASSUME NEW t \in Thread, pc[t] = "idle", op[t] = IdleOp
  PROVE  ~Step(t)
  BY DEF Step, Get, Insert, Remove, RangeCall, Return, IdleOp

\* A thread of the benchmark does what a thread of the skiplist may do.
LEMMA RunThreadSteps ==
  ASSUME BenchInv, NEW t \in Thread, RunThread(t)
  PROVE  /\ phase # "over" /\ UNCHANGED <<phase, workload, loadKeys>>
         /\ Step(t) \/ \E o \in Ops(GenLevels) : Call(t, o)
         /\ Inv /\ MapInv /\ Inv' /\ MapInv'
  <1>1. /\ UNCHANGED <<phase, workload, loadKeys>>
        /\ Step(t) \/ \E o \in Ops(GenLevels) : Call(t, o)
    BY DEF RunThread, StartOperation, Operation
  <1>2. phase # "over"
    BY IdleRests DEF BenchInv, RunThread, StartOperation
  <1>3. Inv /\ MapInv
    BY <1>2 DEF BenchInv
  <1>4. Inv'
    BY <1>1, <1>3, NextKeeps DEF Next
  <1>5. MapInv'
    BY <1>1, <1>3, <1>4, StepKeepsMap
  <1> QED
    BY <1>1, <1>2, <1>3, <1>4, <1>5

\* The join changes nothing in the skiplist.
LEMMA SameInv == Inv /\ UNCHANGED vars => Inv'
  BY NextKeeps

\* Every step of the benchmark keeps that.
LEMMA BenchStep == BenchInv /\ [BenchNext]_benchVars => BenchInv'
  <1> SUFFICES ASSUME BenchInv, [BenchNext]_benchVars PROVE BenchInv'
    OBVIOUS
  <1>1. ASSUME NEW t \in Thread, RunThread(t) PROVE BenchInv'
    BY <1>1, RunThreadSteps DEF BenchInv
  <1>2. CASE UNCHANGED vars /\ (phase # "over" \/ phase' = phase) /\ phase' # "over"
    <2>1. Inv /\ MapInv
      BY <1>2 DEF BenchInv
    <2>2. Inv' /\ MapInv'
      BY <1>2, <2>1, SameInv, StutterKeepsMap
    <2> QED
      BY <1>2, <2>2 DEF BenchInv
  <1>3. CASE Join
    BY <1>2, <1>3 DEF Join
  <1>4. CASE Destructor
    <2>1. /\ phase = "run" /\ phase' = "over" /\ \A t \in Thread : pc[t] = "idle"
          /\ pc' = pc /\ op' = op
          /\ alive' = alive \ UNION {{Walk(i)[j] : j \in DOMAIN Walk(i)} : i \in Level}
      BY <1>4 DEF Destructor, Finished
    <2>2. Inv /\ MapInv
      BY <2>1 DEF BenchInv
    <2>3. alive' = {}
      BY <2>1, <2>2, AllOnLists
    <2>4. \A t \in Thread : op[t] = IdleOp
      BY <2>1, <2>2 DEF MapInv, ReplyInv
    <2> QED
      BY <2>1, <2>3, <2>4 DEF BenchInv
  <1>5. CASE UNCHANGED benchVars
    <2>1. UNCHANGED vars /\ phase' = phase
      BY <1>5 DEF benchVars
    <2>2. CASE phase # "over"
      BY <1>2, <2>1, <2>2
    <2>3. CASE phase = "over"
      BY <2>1, <2>3 DEF BenchInv, vars, heap
    <2> QED
      BY <2>2, <2>3
  <1> QED
    BY <1>1, <1>3, <1>4, <1>5 DEF BenchNext

\* It is an invariant.
LEMMA AlwaysBench == BenchSpec => []BenchInv
  <1>1. BenchInit => BenchInv
    BY InitKeeps, InitMap DEF BenchInit, BenchInv
  <1> QED
    BY <1>1, BenchStep, PTL DEF BenchSpec

\* ~SimpleSkiplist, which deletes what it finds along next on each level, deletes every
\* node that is in use when the threads of the benchmark have been joined, whatever
\* they did: only the nodes that merges have emptied are left.
THEOREM DestructorFindsAll == BenchSpec => []OnlyEmptiedNodesLeak
  <1>1. BenchInv => OnlyEmptiedNodesLeak
    BY DEF BenchInv, OnlyEmptiedNodesLeak
  <1> QED
    BY <1>1, AlwaysBench, PTL

-----------------------------------------------------------------------------
(* The benchmark: the keys it loads.  What a step does to them is said of   *)
(* the steps of the map.                                                    *)

\* What a call that has not taken effect has asked for.
LEMMA Asking ==
  ASSUME Inv, MapInv, NEW t \in Thread
  PROVE  /\ Asked(t).name = op[t].name \/ Asked(t).name = "return"
         /\ Asked(t).name = "insert" =>
              /\ Asked(t).key \in Key /\ Asked(t).val \in Value /\ Cursor(t)[1] = "nowhere"
  <1>1. PICK at, on : Shape(at, on)
    BY DEF Inv
  <1>2. CallInv(t)
    BY <1>1 DEF Shape, ThreadInv
  <1>3. ReplyInv(t)
    BY DEF MapInv
  <1>4. CASE pc[t] = "ret" \/ removed[t]
    BY <1>4 DEF Asked, Request
  <1>5. CASE ~(pc[t] = "ret" \/ removed[t])
    <2>1. Asked(t).name = op[t].name /\ Asked(t).key = op[t].key /\ Asked(t).val = op[t].val
      BY <1>5, Effective
    <2>2. pc[t] = "idle" => op[t].name # "insert"
      BY <1>3 DEF ReplyInv, IdleOp
    <2>3. op[t].name = "insert" => pc[t] \notin {"emit", "step"}
      BY <1>2 DEF CallInv
    <2> QED
      BY <1>2, <1>3, <2>1, <2>2, <2>3 DEF CallInv, ReplyInv, Cursor
  <1> QED
    BY <1>4, <1>5

\* A step of the map binds and unbinds no key but that of an insert or a remove.
LEMMA MapMoves ==
  ASSUME Abstract!Next \/ UNCHANGED Abstract!vars, \A u \in Thread : Asked(u).name # "remove"
  PROVE  \/ Contents' = Contents
         \/ \E u \in Thread : /\ Asked(u).name = "insert"
                              /\ Contents' = [Contents EXCEPT ![Asked(u).key] = Asked(u).val]
  <1>1. \A u \in Thread : [w \in Thread |-> Asked(w)][u] = Asked(u)
    OBVIOUS
  <1>2. CASE UNCHANGED Abstract!vars
    BY <1>2 DEF Abstract!vars
  <1>3. ASSUME NEW u \in Thread, Abstract!Insert(u)
        PROVE  /\ Asked(u).name = "insert"
               /\ Contents' = [Contents EXCEPT ![Asked(u).key] = Asked(u).val]
    BY <1>1, <1>3 DEF Abstract!Insert
  <1>4. ASSUME NEW u \in Thread,
               \/ \E r \in Abstract!Request : Abstract!Call(u, r)
               \/ Abstract!Get(u) \/ Abstract!RangeSeek(u) \/ Abstract!RangeEmit(u)
               \/ Abstract!RangeNext(u) \/ Abstract!RangeEnd(u) \/ Abstract!Return(u)
        PROVE  Contents' = Contents
    BY <1>4 DEF Abstract!Call, Abstract!Get, Abstract!RangeSeek, Abstract!RangeEmit,
                Abstract!RangeNext, Abstract!RangeEnd, Abstract!Return
  <1>5. ASSUME NEW u \in Thread PROVE ~Abstract!Remove(u)
    BY <1>1 DEF Abstract!Remove
  <1> QED
    BY <1>2, <1>3, <1>4, <1>5 DEF Abstract!Next

\* Where nobody removes, a key that is bound stays so.
LEMMA KeepsBound ==
  ASSUME Inv, MapInv, Abstract!Next \/ UNCHANGED Abstract!vars,
         \A u \in Thread : op[u].name # "remove", NEW k \in Key, Contents[k] # NoValue
  PROVE  Contents'[k] # NoValue
  <1>1. \A u \in Thread : Asked(u).name # "remove"
    BY Asking
  <1>2. \A u \in Thread : Asked(u).name = "insert" => Asked(u).val # NoValue
    BY Asking, CallAssumption
  <1>3. DOMAIN Contents = Key
    BY DEF Contents
  <1> QED
    BY <1>1, <1>2, <1>3, MapMoves

\* The key of an insert is bound when it has taken effect.
LEMMA InsertBinds ==
  ASSUME Inv, MapInv, Abstract!Next \/ UNCHANGED Abstract!vars,
         NEW t \in Thread, Asked(t).name = "insert"
  PROVE  Asked(t)' = Asked(t) \/ Contents'[Asked(t).key] # NoValue
  <1> DEFINE asked == [w \in Thread |-> Asked(w)]
  <1>1. /\ \A u \in Thread : asked[u] = Asked(u)
        /\ \A u \in Thread : asked'[u] = Asked(u)'
        /\ [w \in Thread |-> Cursor(w)][t] = Cursor(t)
    OBVIOUS
  <1>2. /\ Asked(t).key \in Key /\ Asked(t).val \in Value /\ Cursor(t)[1] = "nowhere"
        /\ Asked(t).val # NoValue
    BY Asking, CallAssumption
  <1>3. asked' = asked => Asked(t)' = Asked(t)
    BY <1>1
  <1>4. ASSUME NEW u \in Thread, u # t, NEW r, asked' = [asked EXCEPT ![u] = r]
        PROVE  Asked(t)' = Asked(t)
    <2>1. asked'[t] = asked[t]
      BY <1>4
    <2> QED
      BY <1>1, <2>1
  <1>5. DOMAIN Contents = Key
    BY DEF Contents
  <1>6. CASE UNCHANGED Abstract!vars
    BY <1>3, <1>6 DEF Abstract!vars
  <1>7. ASSUME NEW u \in Thread, \E r \in Abstract!Request : Abstract!Call(u, r)
        PROVE  Asked(t)' = Asked(t)
    BY <1>1, <1>4, <1>7 DEF Abstract!Call, Abstract!Idle
  <1>8. ASSUME NEW u \in Thread,
               Abstract!Get(u) \/ Abstract!Remove(u) \/ Abstract!RangeEnd(u) \/ Abstract!Return(u)
        PROVE  Asked(t)' = Asked(t)
    <2>1. asked[u].name # "insert"
      BY <1>8 DEF Abstract!Get, Abstract!Remove, Abstract!RangeEnd, Abstract!Return, Abstract!Finished
    <2>2. u # t
      BY <1>1, <2>1
    <2> QED
      BY <1>4, <1>8, <2>2 DEF Abstract!Get, Abstract!Remove, Abstract!RangeEnd, Abstract!Return
  <1>9. ASSUME NEW u \in Thread, Abstract!RangeEmit(u) PROVE Asked(t)' = Asked(t)
    <2>1. u # t
      BY <1>1, <1>2, <1>9 DEF Abstract!RangeEmit
    <2>2. asked' = [asked EXCEPT ![u] = [asked[u] EXCEPT !.len = @ - 1]]
      BY <1>9 DEF Abstract!RangeEmit
    <2> QED
      BY <1>4, <2>1, <2>2
  <1>10. ASSUME NEW u \in Thread, Abstract!RangeSeek(u) \/ Abstract!RangeNext(u)
         PROVE  Asked(t)' = Asked(t)
    BY <1>3, <1>10 DEF Abstract!RangeSeek, Abstract!RangeNext
  <1>11. ASSUME NEW u \in Thread, Abstract!Insert(u)
         PROVE  Asked(t)' = Asked(t) \/ Contents'[Asked(t).key] # NoValue
    <2>1. CASE u = t
      BY <1>1, <1>2, <1>5, <1>11, <2>1 DEF Abstract!Insert
    <2>2. CASE u # t
      BY <1>4, <1>11, <2>2 DEF Abstract!Insert
    <2> QED
      BY <2>1, <2>2
  <1> QED
    BY <1>6, <1>7, <1>8, <1>9, <1>10, <1>11 DEF Abstract!Next

\* A get says that a key is not there only when it is not.
LEMMA NoneMissed ==
  ASSUME Inv, Abstract!Next \/ UNCHANGED Abstract!vars,
         NEW t \in Thread, NEW k, reply'[t] = <<"get", k, NoValue>>
  PROVE  reply[t] = <<"get", k, NoValue>> \/ Contents[k] = NoValue
  <1> SUFFICES ASSUME reply'[t] # reply[t] PROVE Contents[k] = NoValue
    OBVIOUS
  <1>1. CASE UNCHANGED Abstract!vars
    BY <1>1 DEF Abstract!vars
  <1>2. reply \in [Thread -> ReplyType]
    BY DEF Inv, LInv, TypeOK
  <1>3. ASSUME NEW u \in Thread, Abstract!Get(u) PROVE Contents[k] = NoValue
    <2>1. PICK j : reply' = [reply EXCEPT ![u] = <<"get", j, Contents[j]>>]
      BY <1>3 DEF Abstract!Get
    <2>2. u = t /\ reply'[t] = <<"get", j, Contents[j]>>
      BY <1>2, <2>1
    <2> QED
      BY <2>2
  <1>4. ASSUME NEW u \in Thread, Abstract!RangeEmit(u) PROVE FALSE
    <2>1. PICK j : reply' = [reply EXCEPT ![u] = <<"pair", j, Contents[j]>>]
      BY <1>4 DEF Abstract!RangeEmit
    <2>2. u = t /\ reply'[t] = <<"pair", j, Contents[j]>>
      BY <1>2, <2>1
    <2> QED
      BY <2>2
  <1>5. ASSUME NEW u \in Thread, Abstract!Return(u) PROVE FALSE
    <2>1. reply' = [reply EXCEPT ![u] = <<"none", NoKey, NoValue>>]
      BY <1>5 DEF Abstract!Return, Abstract!NoReply
    <2>2. u = t /\ reply'[t] = <<"none", NoKey, NoValue>>
      BY <1>2, <2>1
    <2> QED
      BY <2>2
  <1>6. ASSUME NEW u \in Thread,
               \/ \E r \in Abstract!Request : Abstract!Call(u, r)
               \/ Abstract!Insert(u) \/ Abstract!Remove(u) \/ Abstract!RangeSeek(u)
               \/ Abstract!RangeNext(u) \/ Abstract!RangeEnd(u)
        PROVE  FALSE
    BY <1>6 DEF Abstract!Call, Abstract!Insert, Abstract!Remove, Abstract!RangeSeek,
                Abstract!RangeNext, Abstract!RangeEnd
  <1> QED
    BY <1>1, <1>3, <1>4, <1>5, <1>6 DEF Abstract!Next

\* What the threads load is all of load_keys, whatever is left over by the division.
LEMMA AllCovered ==
  ASSUME NEW i \in 0 .. LoadSize - 1
  PROVE  \E t \in Thread : Lo(t, LoadSize) <= i /\ i < Hi(t, LoadSize)
  <1> DEFINE c == Cardinality(Thread)
  <1>0. PICK q : q = LoadSize \div c
    OBVIOUS
  <1>1. c \in Nat \ {0} /\ Thread = 0 .. c - 1 /\ LoadSize \in Nat /\ q \in Int
    BY <1>0, BenchAssumption
  <1>2. \A t \in Thread : /\ Lo(t, LoadSize) = t * q
                          /\ Hi(t, LoadSize) = IF t = c - 1 THEN LoadSize ELSE t * q + q
    BY <1>0 DEF Lo, Hi
  <1> HIDE DEF c
  <1> SUFFICES ASSUME \A t \in Thread : ~(Lo(t, LoadSize) <= i /\ i < Hi(t, LoadSize))
               PROVE  FALSE
    OBVIOUS
  <1> DEFINE S == {m \in Nat : m <= c - 1 => m * q <= i}
  <1>3. 0 \in S
    BY <1>1
  <1>4. ASSUME NEW m \in Nat, m \in S PROVE m + 1 \in S
    <2> SUFFICES ASSUME m + 1 <= c - 1 PROVE (m + 1) * q <= i
      OBVIOUS
    <2>1. m \in Thread /\ m # c - 1 /\ m * q <= i
      BY <1>1, <1>4
    <2>2. ~(i < m * q + q)
      BY <1>2, <2>1
    <2>3. m * q \in Int /\ (m + 1) * q = m * q + q
      BY <1>1
    <2> QED
      BY <1>1, <2>2, <2>3
  <1>5. Nat \subseteq S
    <2> HIDE DEF S
    <2> QED
      BY <1>3, <1>4, AllNumbers
  <1>6. c - 1 \in Nat /\ c - 1 \in Thread
    BY <1>1
  <1>7. (c - 1) * q <= i
    BY <1>5, <1>6
  <1>8. i < LoadSize
    BY <1>1
  <1> QED
    BY <1>2, <1>6, <1>7, <1>8

\* In the load phase a thread has put in the keys before its turn, but for the one it is
\* at.
Loading(t) ==
  \A i \in 0 .. LoadSize - 1 : Lo(t, LoadSize) <= i /\ i < turn[t] =>
    \/ Contents[loadKeys[i]] # NoValue
    \/ turn[t] = i + 1 /\ Asked(t).name = "insert" /\ Asked(t).key = loadKeys[i]

\* And nothing that was loaded is lost.
LoadInv ==
  /\ loadKeys \in LoadKeys /\ turn \in [Thread -> Int] /\ workload \in Workload
  /\ phase = "load" => workload = "write" /\ \A t \in Thread : Loading(t)
  /\ phase # "over" /\ workload # "chaos" => \A t \in Thread : op[t].name # "remove"
  /\ LoadedKeysAreFound

\* Without a remove, the keys a thread has put in stay there.
LEMMA LoadingStays ==
  ASSUME Inv, MapInv, Abstract!Next \/ UNCHANGED Abstract!vars,
         \A u \in Thread : op[u].name # "remove", loadKeys \in LoadKeys,
         NEW t \in Thread, Loading(t), turn'[t] = turn[t], loadKeys' = loadKeys
  PROVE  Loading(t)'
  <1>1. ASSUME NEW i \in 0 .. LoadSize - 1, Lo(t, LoadSize) <= i, i < turn[t]
        PROVE  \/ Contents'[loadKeys[i]] # NoValue
               \/ turn[t] = i + 1 /\ Asked(t)'.name = "insert" /\ Asked(t)'.key = loadKeys[i]
    <2>1. loadKeys[i] \in Key
      BY BenchAssumption
    <2>2. CASE Contents[loadKeys[i]] # NoValue
      BY <2>1, <2>2, KeepsBound
    <2>3. CASE turn[t] = i + 1 /\ Asked(t).name = "insert" /\ Asked(t).key = loadKeys[i]
      BY <2>3, InsertBinds
    <2> QED
      BY <1>1, <2>2, <2>3 DEF Loading
  <1>2. Lo(t, LoadSize)' = Lo(t, LoadSize)
    BY DEF Lo
  <1> QED
    BY <1>1, <1>2 DEF Loading

\* A thread that starts to put in its next key has put in those before.
LEMMA LoadingStarts ==
  ASSUME Inv, MapInv, Abstract!Next \/ UNCHANGED Abstract!vars,
         \A u \in Thread : op[u].name # "remove", loadKeys \in LoadKeys, turn \in [Thread -> Int],
         NEW t \in Thread, Loading(t), phase = "load", StartOperation(t)
  PROVE  Loading(t)'
  <1>1. PICK o \in Operation(turn[t]) : Call(t, o)
    BY DEF StartOperation
  <1>2. o.name = "insert" /\ o.key = loadKeys[turn[t]]
    BY DEF Operation
  <1>3. pc[t] = "idle" /\ pc'[t] = "top" /\ op'[t] = o /\ removed' = removed /\ ~removed[t]
    <2>1. LocalTypes
      BY TypeParts DEF Inv, LInv
    <2>2. pc[t] = "idle" /\ pc'[t] = "top" /\ op'[t] = o /\ removed' = removed
      BY <1>1, <2>1 DEF Call, Goto, LocalTypes, scan
    <2> QED
      BY <2>2, NotYet
  <1>4. Asked(t)'.name = "insert" /\ Asked(t)'.key = loadKeys[turn[t]]
    BY <1>2, <1>3 DEF Asked, Request
  <1>5. Asked(t).name # "insert"
    BY <1>3 DEF Asked, Request, MapInv, ReplyInv, IdleOp
  <1>6. turn'[t] = turn[t] + 1 /\ loadKeys' = loadKeys /\ turn[t] \in Int
    BY DEF StartOperation
  <1>7. ASSUME NEW i \in 0 .. LoadSize - 1, Lo(t, LoadSize) <= i, i < turn[t] + 1
        PROVE  \/ Contents'[loadKeys[i]] # NoValue
               \/ /\ turn'[t] = i + 1 /\ Asked(t)'.name = "insert"
                  /\ Asked(t)'.key = loadKeys[i]
    <2>1. CASE i = turn[t]
      BY <1>4, <1>6, <2>1
    <2>2. CASE i # turn[t]
      <3>1. i < turn[t]
        BY <1>6, <1>7, <2>2
      <3>2. Contents[loadKeys[i]] # NoValue
        BY <1>5, <1>7, <3>1 DEF Loading
      <3>3. loadKeys[i] \in Key
        BY BenchAssumption
      <3> QED
        BY <3>2, <3>3, KeepsBound
    <2> QED
      BY <2>1, <2>2
  <1>8. Lo(t, LoadSize)' = Lo(t, LoadSize)
    BY DEF Lo
  <1> QED
    BY <1>6, <1>7, <1>8 DEF Loading

\* The workloads but chaos never remove.
LEMMA NoRemove ==
  ASSUME LInv, NEW t \in Thread, RunThread(t), workload \in Workload \ {"chaos"},
         phase # "over", \A u \in Thread : op[u].name # "remove"
  PROVE  \A u \in Thread : op'[u].name # "remove"
  <1>1. LocalTypes
    BY TypeParts DEF LInv
  <1>2. CASE StartOperation(t)
    <2>1. PICK o \in Operation(turn[t]) : Call(t, o)
      BY <1>2 DEF StartOperation
    <2>2. o.name # "remove"
      <3>1. o.name = "insert" \/ o.name \in Named(workload, turn[t])
        BY DEF Operation
      <3>2. "remove" \notin Named(workload, turn[t])
        BY DEF Workload, Named
      <3> QED
        BY <3>1, <3>2
    <2> QED
      BY <1>1, <2>1, <2>2 DEF Call, LocalTypes
  <1>3. CASE Step(t)
    <2>1. Private(t)
      BY <1>3, StepIsPrivate
    <2>2. op'[t].name # "remove"
      <3>1. CASE Return(t)
        BY <1>1, <3>1 DEF Return, LocalTypes, IdleOp
      <3>2. CASE Get(t) \/ Insert(t) \/ Remove(t) \/ RangeCall(t)
        BY <3>2, StepWithin DEF Within
      <3> QED
        BY <1>3, <3>1, <3>2 DEF Step
    <2> QED
      BY <2>1, <2>2 DEF Private, Others
  <1> QED
    BY <1>2, <1>3 DEF RunThread

\* No step loses a key that has been loaded, or misses it.
LEMMA FoundStays ==
  ASSUME Inv, MapInv, Abstract!Next \/ UNCHANGED Abstract!vars,
         workload # "chaos" => \A u \in Thread : op[u].name # "remove",
         loadKeys \in LoadKeys, LoadedKeysAreFound, UNCHANGED <<phase, workload, loadKeys>>
  PROVE  LoadedKeysAreFound'
  <1> SUFFICES ASSUME phase = "run", workload # "chaos", NEW i \in 0 .. LoadSize - 1
               PROVE  /\ Contents'[loadKeys[i]] # NoValue
                      /\ \A t \in Thread : reply'[t] # <<"get", loadKeys[i], NoValue>>
    BY DEF LoadedKeysAreFound
  <1>1. loadKeys[i] \in Key
    BY BenchAssumption
  <1>2. /\ Contents[loadKeys[i]] # NoValue
        /\ \A t \in Thread : reply[t] # <<"get", loadKeys[i], NoValue>>
    BY DEF LoadedKeysAreFound
  <1> QED
    BY <1>1, <1>2, KeepsBound, NoneMissed

\* When the load phase has been joined all keys are there.
LEMMA JoinFound ==
  ASSUME Inv, MapInv, Inv', LoadInv, Join
  PROVE  LoadedKeysAreFound'
  <1>1. /\ phase = "load" /\ loadKeys' = loadKeys /\ UNCHANGED vars
        /\ \A t \in Thread : pc[t] = "idle" /\ turn[t] = Hi(t, LoadSize)
    BY DEF Join, Finished, Total
  <1>2. Contents' = Contents /\ reply' = reply
    BY <1>1, SameStored DEF vars, heap
  <1>3. ASSUME NEW t \in Thread
        PROVE  Asked(t).name # "insert" /\ reply[t][1] = "none"
    BY <1>1 DEF MapInv, ReplyInv, Asked, Request, IdleOp, NoReply
  <1>4. ASSUME NEW i \in 0 .. LoadSize - 1 PROVE Contents[loadKeys[i]] # NoValue
    <2>1. PICK t \in Thread : Lo(t, LoadSize) <= i /\ i < Hi(t, LoadSize)
      BY AllCovered
    <2>2. Loading(t)
      BY <1>1 DEF LoadInv
    <2> QED
      BY <1>1, <1>3, <2>1, <2>2 DEF Loading
  <1> QED
    BY <1>1, <1>2, <1>3, <1>4 DEF LoadedKeysAreFound

\* Every step of the benchmark keeps that.
LEMMA LoadStep == BenchInv /\ BenchInv' /\ LoadInv /\ [BenchNext]_benchVars => LoadInv'
  <1> SUFFICES ASSUME BenchInv, BenchInv', LoadInv, [BenchNext]_benchVars PROVE LoadInv'
    OBVIOUS
  <1>1. ASSUME NEW t \in Thread, RunThread(t) PROVE LoadInv'
    <2>1. /\ phase # "over" /\ UNCHANGED <<phase, workload, loadKeys>>
          /\ Step(t) \/ \E o \in Ops(GenLevels) : Call(t, o)
          /\ Inv /\ MapInv /\ Inv'
      BY <1>1, RunThreadSteps
    <2>2. Abstract!Next \/ UNCHANGED Abstract!vars
      BY <2>1, StepRefines
    <2>3. /\ turn' \in [Thread -> Int]
          /\ \A u \in Thread \ {t} : turn'[u] = turn[u]
          /\ ~StartOperation(t) => turn' = turn
      BY <1>1 DEF LoadInv, RunThread, StartOperation
    <2>4. workload # "chaos" => \A u \in Thread : op[u].name # "remove" /\ op'[u].name # "remove"
      BY <1>1, <2>1, NoRemove DEF LoadInv, Inv
    <2>5. ASSUME phase = "load", NEW u \in Thread PROVE Loading(u)'
      <3>1. Loading(u) /\ \A w \in Thread : op[w].name # "remove"
        BY <2>4, <2>5 DEF LoadInv
      <3>2. CASE turn'[u] = turn[u]
        BY <2>1, <2>2, <3>1, <3>2, LoadingStays DEF LoadInv
      <3>3. CASE u = t /\ StartOperation(t)
        BY <2>1, <2>2, <2>5, <3>1, <3>3, LoadingStarts DEF LoadInv
      <3> QED
        BY <2>3, <3>2, <3>3
    <2>6. LoadedKeysAreFound'
      BY <2>1, <2>2, <2>4, FoundStays DEF LoadInv
    <2> QED
      BY <2>1, <2>3, <2>4, <2>5, <2>6 DEF LoadInv
  <1>2. CASE Join
    <2>1. phase = "load" /\ phase' = "run" /\ UNCHANGED <<vars, loadKeys>> /\ workload' \in Workload
      BY <1>2 DEF Join
    <2>2. Inv /\ MapInv /\ Inv'
      BY <2>1 DEF BenchInv
    <2>3. LoadedKeysAreFound'
      BY <1>2, <2>2, JoinFound
    <2>4. turn' \in [Thread -> Int]
      <3>1. \A t \in Thread : Lo(t, Operations) \in Int
        BY BenchAssumption DEF Lo
      <3> QED
        BY <1>2, <3>1 DEF Join
    <2>5. \A t \in Thread : op'[t].name # "remove"
      BY <2>1 DEF LoadInv, vars
    <2> QED
      BY <2>1, <2>3, <2>4, <2>5 DEF LoadInv
  <1>3. CASE Destructor
    <2>1. phase' = "over" /\ UNCHANGED <<workload, loadKeys, turn>>
      BY <1>3 DEF Destructor
    <2> QED
      BY <2>1 DEF LoadInv, LoadedKeysAreFound
  <1>4. CASE UNCHANGED benchVars
    <2>1. UNCHANGED vars /\ UNCHANGED <<phase, workload, loadKeys, turn>>
      BY <1>4 DEF benchVars
    <2>2. CASE phase = "over"
      BY <2>1, <2>2 DEF LoadInv, LoadedKeysAreFound
    <2>3. CASE phase # "over"
      <3>1. Inv /\ MapInv /\ Inv'
        BY <2>1, <2>3 DEF BenchInv
      <3>2. UNCHANGED Abstract!vars
        BY <2>1, <3>1, StutterRefines
      <3>3. \A t \in Thread : Loading(t) /\ phase = "load" => Loading(t)'
        BY <2>1, <2>3, <3>1, <3>2, LoadingStays DEF LoadInv
      <3>4. LoadedKeysAreFound'
        BY <2>1, <2>3, <3>1, <3>2, FoundStays DEF LoadInv
      <3> QED
        BY <2>1, <3>3, <3>4 DEF LoadInv, vars
    <2> QED
      BY <2>2, <2>3
  <1> QED
    BY <1>1, <1>2, <1>3, <1>4 DEF BenchNext

\* At first nothing is loaded and nothing has to be.
LEMMA InitLoad == BenchInit => LoadInv
  <1> SUFFICES ASSUME BenchInit PROVE LoadInv
    OBVIOUS
  <1>1. \A t \in Thread : Lo(t, LoadSize) \in Int
    BY BenchAssumption DEF Lo
  <1>2. turn \in [Thread -> Int] /\ \A t \in Thread : turn[t] = Lo(t, LoadSize)
    BY <1>1 DEF BenchInit
  <1>3. \A t \in Thread : Loading(t)
    BY <1>1, <1>2 DEF Loading
  <1>4. \A t \in Thread : op[t].name # "remove"
    BY DEF BenchInit, Init, IdleOp
  <1> QED
    BY <1>2, <1>3, <1>4 DEF BenchInit, LoadInv, LoadedKeysAreFound, Workload

\* Every key of load_keys has been put in when the threads of the load phase have been
\* joined, however the division splits them over the threads; and as long as nothing
\* is removed no get of one misses it, whatever splits and merges go on meanwhile.
THEOREM LoadedKeysStay == BenchSpec => []LoadedKeysAreFound
  <1>1. LoadInv => LoadedKeysAreFound
    BY DEF LoadInv
  <1> QED
    BY <1>1, AlwaysBench, InitLoad, LoadStep, PTL DEF BenchSpec
==============================================================================
