--------------------------- MODULE NodeArrayProofs ---------------------------
(***************************************************************************)
(* What NodeArray's properties rest on: each key and value that is         *)
(* allocated has one owner, however the slots are cleared, moved and       *)
(* shifted, and the slots hold what the sequences of BSkiplist say.  A     *)
(* list of move assignments is followed once and for all, given that it    *)
(* moves nothing from a slot it has put something into (Clean); the shifts *)
(* of an array and the moves from one node to another are such lists.      *)
(***************************************************************************)
EXTENDS NodeArray, SequenceTheorems, FiniteSetTheorems, TLAPS

-----------------------------------------------------------------------------
(* Least and greatest numbers, in place of induction.                      *)

\* A set of natural numbers has a least element.
LEMMA LeastNumber ==
  ASSUME NEW S \in SUBSET Nat, S # {}
  PROVE  \E m \in S : \A n \in S : m <= n
  <1> DEFINE R == {ss \in Nat \X Nat : ss[1] < ss[2]}
  <1>1. IsWellFoundedOn(R, Nat)
    BY NatLessThanWellFounded DEF OpToRel
  <1>2. PICK m \in S : \A n \in S : <<n, m>> \notin R
    <2> HIDE DEF R
    <2> QED
      BY <1>1, WFMin
  <1>3. ASSUME NEW n \in S PROVE m <= n
    <2>1. <<n, m>> \in Nat \X Nat /\ <<n, m>>[1] = n /\ <<n, m>>[2] = m
      OBVIOUS
    <2>2. ~(n < m)
      BY <1>2, <2>1
    <2>3. n \in Int /\ m \in Int
      OBVIOUS
    <2> QED
      BY <2>2, <2>3
  <1> QED
    BY <1>3

\* What holds for 0, and after each number up to n that it holds for, holds
\* up to n: S is the set of the numbers it holds for.
LEMMA NumbersUpTo ==
  ASSUME NEW n \in Nat, NEW S, 0 \in S, \A l \in 1 .. n : l - 1 \in S => l \in S
  PROVE  \A l \in 0 .. n : l \in S
  <1> SUFFICES ASSUME (0 .. n) \ S # {} PROVE FALSE
    OBVIOUS
  <1>1. PICK m \in (0 .. n) \ S : \A l \in (0 .. n) \ S : m <= l
    <2>1. (0 .. n) \ S \in SUBSET Nat
      OBVIOUS
    <2> QED
      BY <2>1, LeastNumber
  <1>2. m \in 1 .. n /\ m - 1 \in 0 .. n /\ ~(m <= m - 1)
    BY <1>1
  <1>3. m - 1 \in S
    BY <1>1, <1>2
  <1> QED
    BY <1>1, <1>2, <1>3

\* Of finitely many things with integers one has the greatest.
LEMMA GreatestOf ==
  ASSUME NEW S, IsFiniteSet(S), S # {}, NEW f, \A x \in S : f[x] \in Int
  PROVE  \E x \in S : \A y \in S : f[y] <= f[x]
  <1> DEFINE Above(x) == {y \in S : f[x] < f[y]}
             Sizes == {Cardinality(Above(x)) : x \in S}
  <1>1. ASSUME NEW x \in S
        PROVE  IsFiniteSet(Above(x)) /\ Cardinality(Above(x)) \in Nat
    <2>1. Above(x) \in SUBSET S
      OBVIOUS
    <2> HIDE DEF Above
    <2>2. IsFiniteSet(Above(x))
      BY <2>1, FS_Subset
    <2> QED
      BY <2>2, FS_CardinalityType
  <1> HIDE DEF Above
  <1>2. PICK m \in Sizes : \A n \in Sizes : m <= n
    <2>1. Sizes \in SUBSET Nat /\ Sizes # {}
      BY <1>1
    <2> HIDE DEF Sizes
    <2> QED
      BY <2>1, LeastNumber
  <1>3. PICK x \in S : m = Cardinality(Above(x))
    BY <1>2
  <1>4. ASSUME NEW y \in S, f[x] < f[y] PROVE FALSE
    <2>1. Above(y) \in SUBSET Above(x) /\ Above(y) # Above(x)
      <3>1. \A z \in Above(y) : z \in Above(x)
        BY <1>4 DEF Above
      <3>2. y \in Above(x) /\ y \notin Above(y)
        BY <1>4 DEF Above
      <3> QED
        BY <3>1, <3>2
    <2>2. /\ Cardinality(Above(y)) <= Cardinality(Above(x))
          /\ Cardinality(Above(y)) # Cardinality(Above(x))
      BY <1>1, <2>1, FS_Subset
    <2>3. Cardinality(Above(y)) \in Sizes
      OBVIOUS
    <2>4. Cardinality(Above(x)) <= Cardinality(Above(y))
      BY <1>2, <1>3, <2>3
    <2>5. Cardinality(Above(x)) \in Int /\ Cardinality(Above(y)) \in Int
      BY <1>1
    <2> QED
      BY <2>2, <2>4, <2>5
  <1>5. \A y \in S : f[y] <= f[x]
    BY <1>4
  <1> QED
    BY <1>5

-----------------------------------------------------------------------------
(* What is stored, and the entries of a node as sequences.                 *)

KeyObject == Key \X Copy
ValObject == Value \X Copy
Down == {Null} \cup {<<k>> : k \in Key \cup {NoKey}}
SlotType == [val : ValObject \cup {Null}, key : KeyObject \cup {Null}, down : Down]
MemoryType == [slot : [Slot -> SlotType], live : SUBSET (KeyObject \cup ValObject),
               sound : BOOLEAN]
EntryType == [key : Key \cup {NoKey}, val : Value \cup {NoValue}, down : Down]

\* The entry that slot s holds.
Held(s) == Entry(IF s.key = Null THEN NoKey ELSE s.key[1],
                 IF s.val = Null THEN NoValue ELSE s.val[1], s.down)

\* A slot holds an entry; its key is null where the slot's is.
LEMMA HeldEntry ==
  ASSUME NEW s \in SlotType
  PROVE  /\ Held(s) \in EntryType /\ Held(s).down = s.down
         /\ s.key = Null <=> Held(s).key = NoKey
         /\ s.key # Null => Held(s).key \in Key /\ Held(s).key = s.key[1]
         /\ s.val = Null => Held(s).val = NoValue
         /\ s.val # Null => Held(s).val = s.val[1]
  <1>1. /\ s.key # Null => s.key \in KeyObject /\ s.key[1] \in Key
        /\ s.val # Null => s.val \in ValObject /\ s.val[1] \in Value
        /\ s.down \in Down
    BY DEF SlotType, KeyObject, ValObject
  <1>2. NoKey \notin Key
    BY CallAssumption
  <1> QED
    BY <1>1, <1>2 DEF Held, Entry, EntryType

\* What UpTo and After leave of a sequence.
LEMMA Pieces ==
  ASSUME NEW s \in Seq(EntryType), NEW i \in 0 .. Len(s)
  PROVE  /\ UpTo(s, i) \in Seq(EntryType) /\ Len(UpTo(s, i)) = i
         /\ \A j \in 1 .. i : UpTo(s, i)[j] = s[j]
         /\ After(s, i) \in Seq(EntryType) /\ Len(After(s, i)) = Len(s) - i
         /\ \A j \in 1 .. Len(s) - i : After(s, i)[j] = s[i + j]
  <1>1. Len(s) \in Nat /\ \A j \in 1 .. Len(s) : s[j] \in EntryType
    BY LenProperties
  <1>2. \A j \in 1 .. i : s[j] \in EntryType
    BY <1>1
  <1>3. \A j \in i + 1 .. Len(s) : s[j] \in EntryType
    BY <1>1
  <1>4. /\ SubSeq(s, 1, i) \in Seq(EntryType)
        /\ Len(SubSeq(s, 1, i)) = IF 1 <= i THEN i - 1 + 1 ELSE 0
        /\ \A j \in 1 .. i - 1 + 1 : SubSeq(s, 1, i)[j] = s[1 + j - 1]
    BY <1>1, <1>2, SubSeqProperties
  <1>5. /\ SubSeq(s, i + 1, Len(s)) \in Seq(EntryType)
        /\ Len(SubSeq(s, i + 1, Len(s))) = IF i + 1 <= Len(s) THEN Len(s) - (i + 1) + 1 ELSE 0
        /\ \A j \in 1 .. Len(s) - (i + 1) + 1 : SubSeq(s, i + 1, Len(s))[j] = s[i + 1 + j - 1]
    BY <1>1, <1>3, SubSeqProperties
  <1>6. /\ i \in Int
        /\ Len(UpTo(s, i)) = i
        /\ \A j \in 1 .. i : UpTo(s, i)[j] = s[j]
    BY <1>1, <1>4 DEF UpTo
  <1>7. /\ Len(After(s, i)) = Len(s) - i
        /\ \A j \in 1 .. Len(s) - i : After(s, i)[j] = s[i + j]
    BY <1>1, <1>5 DEF After
  <1> QED
    BY <1>4, <1>5, <1>6, <1>7 DEF UpTo, After

\* Passed stays within the sequence, and stops before the first entry only for
\* a key that is not below the one sought.
LEMMA PassedStops ==
  ASSUME NEW s \in Seq(EntryType), NEW k
  PROVE  /\ Passed(s, k) \in 0 .. Len(s)
         /\ Len(s) > 0 /\ Passed(s, k) = 0 => s[1].key # NoKey /\ s[1].key >= k
  <1> DEFINE stops == {i \in DOMAIN s : s[i].key # NoKey /\ s[i].key >= k}
  <1>1. Len(s) \in Nat /\ DOMAIN s = 1 .. Len(s)
    BY LenProperties
  <1>2. CASE stops = {}
    <2>1. Passed(s, k) = Len(s)
      BY <1>2 DEF Passed
    <2> QED
      BY <1>1, <2>1
  <1>3. CASE stops # {}
    <2>1. PICK m \in stops : \A j \in stops : m <= j
      <3>1. stops \in SUBSET Nat
        BY <1>1
      <3> QED
        BY <1>3, <3>1, LeastNumber
    <2> DEFINE l == CHOOSE i \in stops : \A j \in stops : i <= j
    <2>2. l \in stops
      <3> HIDE DEF stops
      <3> QED
        BY <2>1
    <2>3. Passed(s, k) = l - 1
      BY <1>3 DEF Passed
    <2>4. l \in 1 .. Len(s) /\ s[l].key # NoKey /\ s[l].key >= k
      BY <1>1, <2>2
    <2> HIDE DEF l
    <2>5. l - 1 = 0 => l = 1
      BY <1>1, <2>4
    <2> QED
      BY <1>1, <2>3, <2>4, <2>5
  <1> QED
    BY <1>2, <1>3

-----------------------------------------------------------------------------
(* Ownership.                                                              *)

\* The allocated objects are those of L, which no slot has, and those of the
\* slots, each of which one slot has, as its key or as its value.
Once(m, L) ==
  /\ m \in MemoryType /\ m.sound
  /\ m.live = L \cup UNION {Owned(m, s) : s \in Slot}
  /\ \A s \in Slot : Owned(m, s) \cap L = {}
  /\ \A s, r \in Slot : s # r => Owned(m, s) \cap Owned(m, r) = {}
  /\ \A s \in Slot : m.slot[s].key = m.slot[s].val => m.slot[s].key = Null

\* Null is no object and no node, and a slot of a node is not the local.
LEMMA NullIsNone ==
  /\ Null \notin KeyObject /\ Null \notin ValObject
  /\ NullSlot \in SlotType
  /\ NewVal \in Slot
  /\ \A n \in Node, j \in 0 .. ArraySize - 1 : <<n, j>> \in Slot /\ <<n, j>> # NewVal
  /\ \A s \in Slot : s = NewVal \/ (s[1] \in Node /\ s[2] \in 0 .. ArraySize - 1 /\ s = <<s[1], s[2]>>)
  /\ ArraySize \in Nat /\ ArraySize > 0
  <1>1. /\ Null \notin (Key \cup Value) \X Copy /\ Null \notin Node
        /\ ArraySize \in Nat /\ ArraySize > 0
    BY ArrayAssumption
  <1>2. Null \notin KeyObject /\ Null \notin ValObject
    BY <1>1 DEF KeyObject, ValObject
  <1>3. NullSlot \in SlotType
    BY DEF NullSlot, SlotType, Down
  <1>4. \A n \in Node, j \in 0 .. ArraySize - 1 : <<n, j>> \in Slot /\ <<n, j>> # NewVal
    BY <1>1 DEF Slot, NewVal
  <1>5. \A s \in Slot : s = NewVal \/ (s[1] \in Node /\ s[2] \in 0 .. ArraySize - 1 /\ s = <<s[1], s[2]>>)
    BY DEF Slot
  <1>6. NewVal \in Slot
    BY DEF Slot
  <1> QED
    BY <1>1, <1>2, <1>3, <1>4, <1>5, <1>6

\* The parts of a memory.
LEMMA MemoryParts ==
  ASSUME NEW m \in MemoryType
  PROVE  /\ m = [slot |-> m.slot, live |-> m.live, sound |-> m.sound]
         /\ m.slot \in [Slot -> SlotType]
         /\ m.live \subseteq KeyObject \cup ValObject
         /\ m.sound \in BOOLEAN
         /\ \A s \in Slot : Owned(m, s) \subseteq KeyObject \cup ValObject
  BY DEF MemoryType, SlotType, Owned

\* clear leaves the other slots alone.
LEMMA ClearIs ==
  ASSUME NEW m \in MemoryType, NEW s \in Slot, NEW L, Once(m, L)
  PROVE  /\ Once(Clear(m, s), L)
         /\ Clear(m, s).slot = [m.slot EXCEPT ![s] = NullSlot]
  <1> DEFINE c == Clear(m, s)
  <1>1. /\ c.slot = [m.slot EXCEPT ![s] = NullSlot]
        /\ c.live = m.live \ Owned(m, s)
        /\ c.sound = (m.sound /\ Owned(m, s) \subseteq m.live)
        /\ c = [slot |-> c.slot, live |-> c.live, sound |-> c.sound]
    BY DEF Clear
  <1> HIDE DEF c
  <1>2. /\ c.slot[s] = NullSlot
        /\ \A r \in Slot \ {s} : c.slot[r] = m.slot[r]
        /\ c.slot \in [Slot -> SlotType]
    BY <1>1, MemoryParts, NullIsNone
  <1>3. Owned(c, s) = {} /\ \A r \in Slot \ {s} : Owned(c, r) = Owned(m, r)
    BY <1>2 DEF Owned, NullSlot
  <1>4. c.sound
    BY <1>1 DEF Once
  <1>5. c \in MemoryType
    BY <1>1, <1>2, MemoryParts DEF MemoryType
  <1>6. c.live = L \cup UNION {Owned(c, r) : r \in Slot}
    <2>1. ASSUME NEW o \in c.live PROVE o \in L \cup UNION {Owned(c, r) : r \in Slot}
      <3>1. o \in m.live /\ o \notin Owned(m, s)
        BY <1>1, <2>1
      <3>2. o \in L \/ \E r \in Slot : o \in Owned(m, r)
        BY <3>1 DEF Once
      <3> QED
        BY <1>3, <3>1, <3>2
    <2>2. ASSUME NEW o \in L \cup UNION {Owned(c, r) : r \in Slot} PROVE o \in c.live
      <3>1. CASE o \in L
        BY <1>1, <3>1 DEF Once
      <3>2. CASE o \notin L
        <4>1. PICK r \in Slot : o \in Owned(c, r)
          BY <2>2, <3>2
        <4>2. r # s /\ o \in Owned(m, r)
          BY <1>3, <4>1
        <4>3. o \in m.live /\ o \notin Owned(m, s)
          BY <4>1, <4>2 DEF Once
        <4> QED
          BY <1>1, <4>3
      <3> QED
        BY <3>1, <3>2
    <2> QED
      BY <2>1, <2>2
  <1>7. /\ \A r \in Slot : Owned(c, r) \cap L = {}
        /\ \A r, q \in Slot : r # q => Owned(c, r) \cap Owned(c, q) = {}
    BY <1>3 DEF Once
  <1>8. \A r \in Slot : c.slot[r].key = c.slot[r].val => c.slot[r].key = Null
    BY <1>2 DEF Once, NullSlot
  <1> QED
    BY <1>1, <1>4, <1>5, <1>6, <1>7, <1>8 DEF Once, c

\* A move assignment keeps each object with one slot, deletes what the slot
\* assigned to had, and leaves the other one null.
LEMMA MoveIs ==
  ASSUME NEW m \in MemoryType, NEW to \in Slot, NEW other \in Slot, to # other,
         NEW L, Once(m, L)
  PROVE  LET r == MoveAssign(m, to, other) IN
         /\ r \in MemoryType /\ Once(r, L)
         /\ r.slot[to] = m.slot[other] /\ r.slot[other] = NullSlot
         /\ \A s \in Slot \ {to, other} : r.slot[s] = m.slot[s]
  <1> DEFINE c == Clear(m, to)
             r == MoveAssign(m, to, other)
  <1>1. /\ Once(c, L) /\ c \in MemoryType
        /\ c.slot[to] = NullSlot /\ \A s \in Slot \ {to} : c.slot[s] = m.slot[s]
    <2>1. Once(c, L) /\ c.slot = [m.slot EXCEPT ![to] = NullSlot]
      BY ClearIs
    <2> HIDE DEF c
    <2> QED
      BY <2>1, MemoryParts DEF Once
  <1>2. r = [c EXCEPT !.slot = [@ EXCEPT ![to] = m.slot[other], ![other] = NullSlot]]
    BY DEF MoveAssign
  <1> HIDE DEF c
  <1>3. /\ r.slot = [c.slot EXCEPT ![to] = m.slot[other], ![other] = NullSlot]
        /\ r.live = c.live /\ r.sound = c.sound
        /\ r = [slot |-> r.slot, live |-> r.live, sound |-> r.sound]
    <2> HIDE DEF r
    <2>1. c = [slot |-> c.slot, live |-> c.live, sound |-> c.sound]
      BY <1>1, MemoryParts
    <2> QED
      BY <1>2, <2>1
  <1> HIDE DEF r
  <1>4. /\ r.slot[to] = m.slot[other] /\ r.slot[other] = NullSlot
        /\ \A s \in Slot \ {to, other} : r.slot[s] = m.slot[s]
        /\ r.slot \in [Slot -> SlotType]
    <2>1. m.slot[other] \in SlotType /\ NullSlot \in SlotType /\ c.slot \in [Slot -> SlotType]
      BY <1>1, MemoryParts, NullIsNone
    <2> QED
      BY <1>1, <1>3, <2>1
  <1>5. r \in MemoryType
    BY <1>1, <1>3, <1>4, MemoryParts DEF MemoryType
  <1>6. /\ Owned(r, to) = Owned(c, other)
        /\ Owned(r, other) = {} /\ Owned(c, to) = {}
        /\ \A s \in Slot \ {to, other} : Owned(r, s) = Owned(c, s)
    BY <1>1, <1>4 DEF Owned, NullSlot
  <1>7. r.live = L \cup UNION {Owned(r, s) : s \in Slot}
    <2>1. \A o : (\E s \in Slot : o \in Owned(r, s)) <=> (\E s \in Slot : o \in Owned(c, s))
      BY <1>6
    <2>2. UNION {Owned(r, s) : s \in Slot} = UNION {Owned(c, s) : s \in Slot}
      BY <2>1
    <2> QED
      BY <1>1, <1>3, <2>2 DEF Once
  <1>8. /\ \A s \in Slot : Owned(r, s) \cap L = {}
        /\ \A s, q \in Slot : s # q => Owned(r, s) \cap Owned(r, q) = {}
    <2>1. \A s \in Slot : Owned(r, s) \cap L = {}
      BY <1>1, <1>6 DEF Once
    <2>2. ASSUME NEW s \in Slot, NEW q \in Slot, s # q PROVE Owned(r, s) \cap Owned(r, q) = {}
      <3>1. \A a, b \in Slot : a # b => Owned(c, a) \cap Owned(c, b) = {}
        BY <1>1 DEF Once
      <3>2. CASE s = other \/ q = other
        BY <1>6, <3>2
      <3>3. CASE s # other /\ q # other
        BY <1>6, <2>2, <3>1, <3>3
      <3> QED
        BY <3>2, <3>3
    <2> QED
      BY <2>1, <2>2
  <1>9. \A s \in Slot : r.slot[s].key = r.slot[s].val => r.slot[s].key = Null
    BY <1>1, <1>4 DEF Once, NullSlot
  <1>10. r.sound
    BY <1>1, <1>3 DEF Once
  <1> QED
    BY <1>4, <1>5, <1>7, <1>8, <1>9, <1>10 DEF Once, r

\* new makes an object that is not allocated yet.
LEMMA ObjectIsNew ==
  ASSUME NEW m, NEW x, Unmade(m, x) # {}
  PROVE  Object(m, x) \in {x} \X Copy /\ Object(m, x) \notin m.live
  BY DEF Object, Unmade

\* A slot without a key gets a new one.
LEMMA KeyMade ==
  ASSUME NEW m \in MemoryType, NEW s \in Slot, NEW k \in Key, Unmade(m, k) # {},
         NEW L, Once(m, L), m.slot[s].key = Null
  PROVE  LET r == WithKey(m, s, k) IN
         /\ r \in MemoryType /\ Once(r, L)
         /\ r.slot[s].key # Null /\ r.slot[s].key[1] = k
         /\ r.slot[s].val = m.slot[s].val /\ r.slot[s].down = m.slot[s].down
         /\ \A q \in Slot \ {s} : r.slot[q] = m.slot[q]
  <1> DEFINE r == WithKey(m, s, k)
             o == Object(m, k)
  <1>1. o \in KeyObject /\ o[1] = k /\ o \notin m.live /\ o # Null
    BY ObjectIsNew, NullIsNone DEF KeyObject
  <1>2. r = [m EXCEPT !.slot = [@ EXCEPT ![s].key = o], !.live = @ \cup {o}]
    BY DEF WithKey
  <1> HIDE DEF o
  <1>3. /\ r.slot = [m.slot EXCEPT ![s] = [@ EXCEPT !.key = o]]
        /\ r.live = m.live \cup {o} /\ r.sound = m.sound
        /\ r = [slot |-> r.slot, live |-> r.live, sound |-> r.sound]
    <2> HIDE DEF r
    <2>1. m = [slot |-> m.slot, live |-> m.live, sound |-> m.sound]
      BY MemoryParts
    <2> QED
      BY <1>2, <2>1
  <1> HIDE DEF r
  <1>4. /\ r.slot[s].key = o /\ r.slot[s].val = m.slot[s].val /\ r.slot[s].down = m.slot[s].down
        /\ \A q \in Slot \ {s} : r.slot[q] = m.slot[q]
        /\ r.slot \in [Slot -> SlotType]
    <2>1. m.slot \in [Slot -> SlotType] /\ m.slot[s] \in SlotType
      BY MemoryParts
    <2>2. [m.slot[s] EXCEPT !.key = o] \in SlotType
      BY <1>1, <2>1 DEF SlotType
    <2> QED
      BY <1>3, <2>1, <2>2 DEF SlotType
  <1>5. r \in MemoryType
    BY <1>1, <1>3, <1>4, MemoryParts DEF MemoryType
  <1>6. /\ Owned(r, s) = Owned(m, s) \cup {o}
        /\ \A q \in Slot \ {s} : Owned(r, q) = Owned(m, q)
    BY <1>1, <1>4 DEF Owned
  <1>7. r.live = L \cup UNION {Owned(r, q) : q \in Slot}
    <2>1. \A p : (\E q \in Slot : p \in Owned(r, q)) <=> p = o \/ \E q \in Slot : p \in Owned(m, q)
      BY <1>6
    <2>2. UNION {Owned(r, q) : q \in Slot} = {o} \cup UNION {Owned(m, q) : q \in Slot}
      BY <2>1
    <2> QED
      BY <1>3, <2>2 DEF Once
  <1>8. o \notin L /\ \A q \in Slot : o \notin Owned(m, q)
    BY <1>1 DEF Once
  <1>9. /\ \A q \in Slot : Owned(r, q) \cap L = {}
        /\ \A p, q \in Slot : p # q => Owned(r, p) \cap Owned(r, q) = {}
    BY <1>6, <1>8 DEF Once
  <1>10. \A q \in Slot : r.slot[q].key = r.slot[q].val => r.slot[q].key = Null
    <2>1. m.slot[s].val # o
      BY <1>1, <1>8 DEF Owned
    <2> QED
      BY <1>4, <2>1 DEF Once
  <1> QED
    BY <1>1, <1>3, <1>4, <1>5, <1>7, <1>9, <1>10 DEF Once, r

\* A slot gets a new value.  The one it had, if it had one, is nobody's now.
LEMMA ValMade ==
  ASSUME NEW m \in MemoryType, NEW s \in Slot, NEW v \in Value, Unmade(m, v) # {},
         NEW L, Once(m, L)
  PROVE  LET r == WithVal(m, s, v) IN
         /\ r \in MemoryType /\ Once(r, L \cup ({m.slot[s].val} \ {Null}))
         /\ r.slot[s].val # Null /\ r.slot[s].val[1] = v
         /\ r.slot[s].key = m.slot[s].key /\ r.slot[s].down = m.slot[s].down
         /\ \A q \in Slot \ {s} : r.slot[q] = m.slot[q]
  <1> DEFINE r == WithVal(m, s, v)
             o == Object(m, v)
             old == {m.slot[s].val} \ {Null}
  <1>1. o \in ValObject /\ o[1] = v /\ o \notin m.live /\ o # Null
    BY ObjectIsNew, NullIsNone DEF ValObject
  <1>2. r = [m EXCEPT !.slot = [@ EXCEPT ![s].val = o], !.live = @ \cup {o}]
    BY DEF WithVal
  <1> HIDE DEF o
  <1>3. /\ r.slot = [m.slot EXCEPT ![s] = [@ EXCEPT !.val = o]]
        /\ r.live = m.live \cup {o} /\ r.sound = m.sound
        /\ r = [slot |-> r.slot, live |-> r.live, sound |-> r.sound]
    <2> HIDE DEF r
    <2>1. m = [slot |-> m.slot, live |-> m.live, sound |-> m.sound]
      BY MemoryParts
    <2> QED
      BY <1>2, <2>1
  <1> HIDE DEF r
  <1>4. /\ r.slot[s].val = o /\ r.slot[s].key = m.slot[s].key /\ r.slot[s].down = m.slot[s].down
        /\ \A q \in Slot \ {s} : r.slot[q] = m.slot[q]
        /\ r.slot \in [Slot -> SlotType]
    <2>1. m.slot \in [Slot -> SlotType] /\ m.slot[s] \in SlotType
      BY MemoryParts
    <2>2. [m.slot[s] EXCEPT !.val = o] \in SlotType
      BY <1>1, <2>1 DEF SlotType
    <2> QED
      BY <1>3, <2>1, <2>2 DEF SlotType
  <1>5. r \in MemoryType
    BY <1>1, <1>3, <1>4, MemoryParts DEF MemoryType
  <1>6. /\ m.slot[s].key = m.slot[s].val => m.slot[s].key = Null
        /\ Owned(r, s) = (Owned(m, s) \ old) \cup {o}
        /\ old \subseteq Owned(m, s)
        /\ \A q \in Slot \ {s} : Owned(r, q) = Owned(m, q)
    BY <1>1, <1>4 DEF Owned, Once
  <1> HIDE DEF old
  <1>7. r.live = (L \cup old) \cup UNION {Owned(r, q) : q \in Slot}
    <2>1. \A p : (p \in old \/ \E q \in Slot : p \in Owned(r, q))
                   <=> p = o \/ \E q \in Slot : p \in Owned(m, q)
      BY <1>6
    <2>2. old \cup UNION {Owned(r, q) : q \in Slot} = {o} \cup UNION {Owned(m, q) : q \in Slot}
      BY <2>1
    <2>3. m.live = L \cup UNION {Owned(m, q) : q \in Slot}
      BY DEF Once
    <2> QED
      BY <1>3, <2>2, <2>3
  <1>8. o \notin L /\ o \notin old /\ \A q \in Slot : o \notin Owned(m, q)
    BY <1>1, <1>6 DEF Once
  <1>9. /\ \A q \in Slot : Owned(r, q) \cap (L \cup old) = {}
        /\ \A p, q \in Slot : p # q => Owned(r, p) \cap Owned(r, q) = {}
    BY <1>6, <1>8 DEF Once
  <1>10. \A q \in Slot : r.slot[q].key = r.slot[q].val => r.slot[q].key = Null
    <2>1. m.slot[s].key # o
      BY <1>1, <1>8 DEF Owned
    <2> QED
      BY <1>4, <2>1 DEF Once
  <1> QED
    BY <1>1, <1>3, <1>4, <1>5, <1>7, <1>9, <1>10 DEF Once, r, old

-----------------------------------------------------------------------------
(* Moves, one after the other.                                             *)

\* The states of the memory between the moves: p[0] is the first, and p[l]
\* comes of p[l - 1] by the move pairs[l].
Run(p, m, pairs, n) ==
  /\ p = [l \in 0 .. n |-> p[l]] /\ p[0] = m
  /\ \A l \in 1 .. n : p[l] = MoveAssign(p[l - 1], pairs[l][1], pairs[l][2])

\* There are such states, and Moves leads to the last of them.
LEMMA MovesRun ==
  ASSUME NEW m, NEW pairs, Len(pairs) \in Nat
  PROVE  \E p : Run(p, m, pairs, Len(pairs)) /\ Moves(m, pairs) = p[Len(pairs)]
  <1> DEFINE n == Len(pairs)
             S == {l \in Nat : \E p : Run(p, m, pairs, l)}
             Body(f) == [l \in 0 .. n |->
                           IF l = 0 THEN m
                           ELSE MoveAssign(f[l - 1], pairs[l][1], pairs[l][2])]
             done == CHOOSE done : done = Body(done)
  <1>1. 0 \in S
    <2>1. Run([l \in 0 .. 0 |-> m], m, pairs, 0)
      BY DEF Run
    <2> QED
      BY <2>1
  <1>2. ASSUME NEW l \in 1 .. n, l - 1 \in S PROVE l \in S
    <2>1. PICK p : Run(p, m, pairs, l - 1)
      BY <1>2
    <2> DEFINE q == [j \in 0 .. l |-> IF j < l THEN p[j]
                                      ELSE MoveAssign(p[l - 1], pairs[l][1], pairs[l][2])]
    <2>2. q = [j \in 0 .. l |-> q[j]] /\ q[0] = m
      BY <2>1 DEF Run
    <2>3. ASSUME NEW j \in 1 .. l PROVE q[j] = MoveAssign(q[j - 1], pairs[j][1], pairs[j][2])
      <3>1. j - 1 \in 0 .. l /\ j - 1 < l /\ q[j - 1] = p[j - 1]
        OBVIOUS
      <3>2. CASE j = l
        BY <3>1, <3>2
      <3>3. CASE j # l
        <4>1. j \in 1 .. l - 1 /\ j < l /\ q[j] = p[j]
          BY <3>3
        <4>2. p[j] = MoveAssign(p[j - 1], pairs[j][1], pairs[j][2])
          BY <2>1, <4>1 DEF Run
        <4> HIDE DEF q
        <4> QED
          BY <3>1, <4>1, <4>2
      <3> QED
        BY <3>2, <3>3
    <2> HIDE DEF q
    <2>4. Run(q, m, pairs, l)
      BY <2>2, <2>3 DEF Run
    <2> QED
      BY <2>4
  <1>3. n \in S
    <2> HIDE DEF S, n
    <2>1. n \in Nat /\ n \in 0 .. n
      BY DEF n
    <2> QED
      BY <1>1, <1>2, <2>1, NumbersUpTo
  <1>4. PICK p : Run(p, m, pairs, n)
    BY <1>3
  <1> HIDE DEF n
  <1>5. n \in Nat
    BY DEF n
  <1>6. p = Body(p)
    <2> DEFINE b == Body(p)
    <2>1. p = [l \in 0 .. n |-> p[l]]
      BY <1>4 DEF Run
    <2>2. ASSUME NEW l \in 0 .. n PROVE b[l] = p[l]
      <3>1. CASE l = 0
        BY <1>4, <3>1 DEF Run
      <3>2. CASE l # 0
        <4>1. l \in 1 .. n
          BY <1>5, <3>2
        <4>2. p[l] = MoveAssign(p[l - 1], pairs[l][1], pairs[l][2])
          BY <1>4, <4>1 DEF Run
        <4> QED
          BY <3>2, <4>2
      <3> QED
        BY <3>1, <3>2
    <2>3. b = [l \in 0 .. n |-> b[l]]
      OBVIOUS
    <2> HIDE DEF b
    <2>4. [l \in 0 .. n |-> p[l]] = [l \in 0 .. n |-> b[l]]
      BY <2>2
    <2>5. p = b
      BY <2>1, <2>3, <2>4
    <2> QED
      BY <2>5 DEF b
  <1>7. done = Body(done)
    <2> HIDE DEF Body
    <2> QED
      BY <1>6
  <1>8. Moves(m, pairs) = done[n]
    BY DEF Moves, n
  <1> HIDE DEF done
  <1>9. Run(done, m, pairs, n)
    <2>1. done = [l \in 0 .. n |-> done[l]] /\ done[0] = m
      BY <1>5, <1>7
    <2>2. ASSUME NEW l \in 1 .. n
          PROVE  done[l] = MoveAssign(done[l - 1], pairs[l][1], pairs[l][2])
      <3>1. l \in 0 .. n /\ l # 0
        BY <1>5
      <3> QED
        BY <1>7, <3>1
    <2> QED
      BY <2>1, <2>2 DEF Run
  <1> QED
    BY <1>8, <1>9 DEF n

\* The moves pairs take nothing twice, nothing from where one has put
\* something before, and put nothing to the same place twice.
Clean(pairs) ==
  /\ pairs \in Seq(Slot \X Slot)
  /\ \A a, b \in DOMAIN pairs : a # b => pairs[a][1] # pairs[b][1] /\ pairs[a][2] # pairs[b][2]
  /\ \A a, b \in DOMAIN pairs : a <= b => pairs[b][2] # pairs[a][1]

\* r has come of m by the first l of the moves.
Moved(r, m, pairs, l) ==
  /\ \A a \in 1 .. l : r.slot[pairs[a][1]] = m.slot[pairs[a][2]]
  /\ \A a \in 1 .. l : (\A b \in 1 .. l : pairs[b][1] # pairs[a][2]) => r.slot[pairs[a][2]] = NullSlot
  /\ \A s \in Slot : (\A a \in 1 .. l : s # pairs[a][1] /\ s # pairs[a][2]) => r.slot[s] = m.slot[s]

\* Such moves keep each object with one slot and take each slot's contents as
\* it was at first.
LEMMA MovesAre ==
  ASSUME NEW m \in MemoryType, NEW L, Once(m, L), NEW pairs, Clean(pairs)
  PROVE  LET r == Moves(m, pairs) IN
         r \in MemoryType /\ Once(r, L) /\ Moved(r, m, pairs, Len(pairs))
  <1> DEFINE n == Len(pairs)
  <1>1. /\ n \in Nat /\ DOMAIN pairs = 1 .. n
        /\ \A a \in 1 .. n : pairs[a] \in Slot \X Slot /\ pairs[a][1] \in Slot /\ pairs[a][2] \in Slot
    BY LenProperties DEF Clean
  <1>2. PICK p : Run(p, m, pairs, n) /\ Moves(m, pairs) = p[n]
    BY <1>1, MovesRun
  <1> HIDE DEF n
  <1> DEFINE S == {l \in 0 .. n : p[l] \in MemoryType /\ Once(p[l], L) /\ Moved(p[l], m, pairs, l)}
  <1>3. 0 \in S
    BY <1>1, <1>2 DEF Run, Moved
  <1>4. ASSUME NEW l \in 1 .. n, l - 1 \in S PROVE l \in S
    <2> DEFINE q == p[l - 1]
               r == p[l]
               to == pairs[l][1]
               other == pairs[l][2]
    <2>1. q \in MemoryType /\ Once(q, L) /\ Moved(q, m, pairs, l - 1)
      BY <1>4
    <2>2. r = MoveAssign(q, to, other)
      BY <1>2 DEF Run
    <2>3. to \in Slot /\ other \in Slot
      BY <1>1
    <2>4. to # other
      BY <1>1 DEF Clean
    <2> HIDE DEF q, r
    <2>5. /\ r \in MemoryType /\ Once(r, L)
          /\ r.slot[to] = q.slot[other] /\ r.slot[other] = NullSlot
          /\ \A s \in Slot \ {to, other} : r.slot[s] = q.slot[s]
      <3> HIDE DEF to, other
      <3> QED
        BY <2>1, <2>2, <2>3, <2>4, MoveIs
    <2>6. \A a \in 1 .. l - 1 : /\ pairs[a][1] \in Slot \ {to, other}
                                /\ pairs[a][2] \in Slot \ {other}
      BY <1>1 DEF Clean
    <2>7. q.slot[other] = m.slot[other]
      <3>1. \A a \in 1 .. l - 1 : other # pairs[a][1] /\ other # pairs[a][2]
        BY <2>6
      <3> QED
        BY <2>1, <2>3, <3>1 DEF Moved
    <2>8. \A a \in 1 .. l : a = l \/ a \in 1 .. l - 1
      BY <1>1
    <2>9. l \in 1 .. l /\ 1 .. l - 1 \subseteq 1 .. l
      BY <1>1
    <2>10. \A a \in 1 .. l : r.slot[pairs[a][1]] = m.slot[pairs[a][2]]
      <3>1. ASSUME NEW a \in 1 .. l - 1 PROVE r.slot[pairs[a][1]] = m.slot[pairs[a][2]]
        <4>1. q.slot[pairs[a][1]] = m.slot[pairs[a][2]]
          BY <2>1 DEF Moved
        <4> QED
          BY <2>5, <2>6, <4>1
      <3>2. r.slot[pairs[l][1]] = m.slot[pairs[l][2]]
        BY <2>5, <2>7
      <3> QED
        BY <2>8, <3>1, <3>2
    <2>11. ASSUME NEW a \in 1 .. l, \A b \in 1 .. l : pairs[b][1] # pairs[a][2]
           PROVE  r.slot[pairs[a][2]] = NullSlot
      <3>1. CASE a = l
        BY <2>5, <3>1
      <3>2. CASE a \in 1 .. l - 1
        <4>1. q.slot[pairs[a][2]] = NullSlot
          BY <2>1, <2>9, <2>11, <3>2 DEF Moved
        <4>2. pairs[a][2] \in Slot \ {to, other}
          BY <2>6, <2>9, <2>11, <3>2
        <4> QED
          BY <2>5, <4>1, <4>2
      <3> QED
        BY <2>8, <3>1, <3>2
    <2>12. ASSUME NEW s \in Slot, \A a \in 1 .. l : s # pairs[a][1] /\ s # pairs[a][2]
           PROVE  r.slot[s] = m.slot[s]
      <3>1. q.slot[s] = m.slot[s]
        BY <2>1, <2>9, <2>12 DEF Moved
      <3>2. s # to /\ s # other
        BY <2>9, <2>12
      <3> QED
        BY <2>5, <3>1, <3>2
    <2>13. Moved(r, m, pairs, l)
      BY <2>10, <2>11, <2>12 DEF Moved
    <2>14. l \in 0 .. n
      BY <1>1
    <2> QED
      BY <2>5, <2>13, <2>14 DEF r
  <1>5. n \in S
    <2> HIDE DEF S
    <2>1. n \in 0 .. n
      BY <1>1
    <2> QED
      BY <1>1, <1>3, <1>4, <2>1, NumbersUpTo
  <1> QED
    BY <1>2, <1>5 DEF n

\* shift_right moves the slots from i on up by one.
LEMMA ShiftRightIs ==
  ASSUME NEW m \in MemoryType, NEW L, Once(m, L), NEW n \in Node, NEW i \in 0 .. ArraySize - 1
  PROVE  LET r == ShiftRight(m, n, i) IN
         /\ r \in MemoryType /\ Once(r, L)
         /\ \A j \in i + 1 .. ArraySize - 1 : r.slot[<<n, j>>] = m.slot[<<n, j - 1>>]
         /\ \A s \in Slot : (\A j \in i .. ArraySize - 1 : s # <<n, j>>) => r.slot[s] = m.slot[s]
  <1> DEFINE N == ArraySize - 1 - i
             pairs == [j \in 1 .. N |-> <<<<n, ArraySize - j>>, <<n, ArraySize - 1 - j>>>>]
             r == Moves(m, pairs)
  <1>1. ArraySize \in Nat /\ N \in Nat
    BY NullIsNone
  <1>2. \A j \in 1 .. N : /\ pairs[j][1] = <<n, ArraySize - j>>
                          /\ pairs[j][2] = <<n, ArraySize - 1 - j>>
                          /\ ArraySize - j \in i + 1 .. ArraySize - 1
                          /\ ArraySize - 1 - j \in i .. ArraySize - 1
    BY <1>1
  <1>3. pairs \in Seq(Slot \X Slot) /\ DOMAIN pairs = 1 .. N /\ Len(pairs) = N
    <2>1. \A j \in 1 .. N : pairs[j] \in Slot \X Slot
      <3> TAKE j \in 1 .. N
      <3>1. ArraySize - j \in 0 .. ArraySize - 1 /\ ArraySize - 1 - j \in 0 .. ArraySize - 1
        BY <1>1
      <3> QED
        BY <3>1, NullIsNone
    <2> HIDE DEF N
    <2> QED
      BY <1>1, <2>1
  <1>4. Clean(pairs)
    <2>1. ASSUME NEW a \in 1 .. N, NEW b \in 1 .. N
          PROVE  /\ a # b => pairs[a][1] # pairs[b][1] /\ pairs[a][2] # pairs[b][2]
                 /\ a <= b => pairs[b][2] # pairs[a][1]
      BY <1>1
    <2> HIDE DEF pairs, N
    <2> QED
      BY <1>3, <2>1 DEF Clean
  <1>5. ShiftRight(m, n, i) = r
    BY DEF ShiftRight
  <1> HIDE DEF pairs
  <1>6. r \in MemoryType /\ Once(r, L) /\ Moved(r, m, pairs, N)
    BY <1>3, <1>4, MovesAre
  <1> HIDE DEF r
  <1>7. ASSUME NEW j \in i + 1 .. ArraySize - 1
        PROVE  r.slot[<<n, j>>] = m.slot[<<n, j - 1>>]
    <2>1. /\ ArraySize - j \in 1 .. N
          /\ ArraySize - (ArraySize - j) = j /\ ArraySize - 1 - (ArraySize - j) = j - 1
      BY <1>1
    <2> QED
      BY <1>2, <1>6, <2>1 DEF Moved
  <1>8. ASSUME NEW s \in Slot, \A j \in i .. ArraySize - 1 : s # <<n, j>>
        PROVE  r.slot[s] = m.slot[s]
    <2>1. \A a \in 1 .. N : s # pairs[a][1] /\ s # pairs[a][2]
      <3> TAKE a \in 1 .. N
      <3>1. ArraySize - a \in i .. ArraySize - 1
        BY <1>1
      <3> QED
        BY <1>2, <1>8, <3>1
    <2> QED
      BY <1>6, <2>1 DEF Moved
  <1> QED
    BY <1>5, <1>6, <1>7, <1>8

\* shift_left moves the slots behind i down by one.
LEMMA ShiftLeftIs ==
  ASSUME NEW m \in MemoryType, NEW L, Once(m, L), NEW n \in Node, NEW i \in 0 .. ArraySize - 1,
         m.slot[<<n, i>>] = NullSlot
  PROVE  LET r == ShiftLeft(m, n, i) IN
         /\ r \in MemoryType /\ Once(r, L)
         /\ \A j \in i .. ArraySize - 2 : r.slot[<<n, j>>] = m.slot[<<n, j + 1>>]
         /\ r.slot[<<n, ArraySize - 1>>] = NullSlot
         /\ \A s \in Slot : (\A j \in i .. ArraySize - 1 : s # <<n, j>>) => r.slot[s] = m.slot[s]
  <1> DEFINE N == ArraySize - 1 - i
             pairs == [j \in 1 .. N |-> <<<<n, i + j - 1>>, <<n, i + j>>>>]
             r == Moves(m, pairs)
  <1>1. ArraySize \in Nat /\ N \in Nat
    BY NullIsNone
  <1>2. \A j \in 1 .. N : /\ pairs[j][1] = <<n, i + j - 1>>
                          /\ pairs[j][2] = <<n, i + j>>
                          /\ i + j - 1 \in i .. ArraySize - 2
                          /\ i + j \in i .. ArraySize - 1
    BY <1>1
  <1>3. pairs \in Seq(Slot \X Slot) /\ DOMAIN pairs = 1 .. N /\ Len(pairs) = N
    <2>1. \A j \in 1 .. N : pairs[j] \in Slot \X Slot
      <3> TAKE j \in 1 .. N
      <3>1. i + j - 1 \in 0 .. ArraySize - 1 /\ i + j \in 0 .. ArraySize - 1
        BY <1>1
      <3> QED
        BY <3>1, NullIsNone
    <2> HIDE DEF N
    <2> QED
      BY <1>1, <2>1
  <1>4. Clean(pairs)
    <2>1. ASSUME NEW a \in 1 .. N, NEW b \in 1 .. N
          PROVE  /\ a # b => pairs[a][1] # pairs[b][1] /\ pairs[a][2] # pairs[b][2]
                 /\ a <= b => pairs[b][2] # pairs[a][1]
      BY <1>1
    <2> HIDE DEF pairs, N
    <2> QED
      BY <1>3, <2>1 DEF Clean
  <1>5. ShiftLeft(m, n, i) = r
    BY DEF ShiftLeft
  <1> HIDE DEF pairs
  <1>6. r \in MemoryType /\ Once(r, L) /\ Moved(r, m, pairs, N)
    BY <1>3, <1>4, MovesAre
  <1> HIDE DEF r
  <1>7. ASSUME NEW j \in i .. ArraySize - 2
        PROVE  r.slot[<<n, j>>] = m.slot[<<n, j + 1>>]
    <2>1. /\ j - i + 1 \in 1 .. N
          /\ i + (j - i + 1) - 1 = j /\ i + (j - i + 1) = j + 1
      BY <1>1
    <2> QED
      BY <1>2, <1>6, <2>1 DEF Moved
  <1>8. ASSUME NEW s \in Slot, \A j \in i .. ArraySize - 1 : s # <<n, j>>
        PROVE  r.slot[s] = m.slot[s]
    <2>1. \A a \in 1 .. N : s # pairs[a][1] /\ s # pairs[a][2]
      <3> TAKE a \in 1 .. N
      <3>1. i + a - 1 \in i .. ArraySize - 1
        BY <1>1
      <3> QED
        BY <1>2, <1>8, <3>1
    <2> QED
      BY <1>6, <2>1 DEF Moved
  <1>9. r.slot[<<n, ArraySize - 1>>] = NullSlot
    <2>1. CASE N = 0
      <3>1. <<n, ArraySize - 1>> \in Slot /\ i = ArraySize - 1
        BY <1>1, <2>1, NullIsNone
      <3>2. r.slot[<<n, ArraySize - 1>>] = m.slot[<<n, ArraySize - 1>>]
        <4>1. \A a \in 1 .. N : FALSE
          BY <2>1
        <4> QED
          BY <1>6, <3>1, <4>1 DEF Moved
      <3> QED
        BY <3>1, <3>2
    <2>2. CASE N # 0
      <3>1. N \in 1 .. N /\ i + N = ArraySize - 1
        BY <1>1, <2>2
      <3>2. \A b \in 1 .. N : pairs[b][1] # pairs[N][2]
        <4> TAKE b \in 1 .. N
        <4>1. i + b - 1 # ArraySize - 1
          BY <1>1
        <4> QED
          BY <1>2, <3>1, <4>1
      <3> QED
        BY <1>2, <1>6, <3>1, <3>2 DEF Moved
    <2> QED
      BY <2>1, <2>2
  <1> QED
    BY <1>5, <1>6, <1>7, <1>8, <1>9

\* The moves of a split and of a merge bring the tail of one node to another.
LEMMA MoveTailIs ==
  ASSUME NEW m \in MemoryType, NEW L, Once(m, L), NEW to \in Node, NEW from \in Node, to # from,
         size[from] \in 0 .. ArraySize, NEW i \in 0 .. size[from], NEW j \in Nat,
         j + size[from] - i <= ArraySize
  PROVE  LET r == MoveTail(m, to, j, from, i) IN
         /\ r \in MemoryType /\ Once(r, L)
         /\ \A l \in 0 .. size[from] - i - 1 : r.slot[<<to, j + l>>] = m.slot[<<from, i + l>>]
         /\ \A l \in i .. size[from] - 1 : r.slot[<<from, l>>] = NullSlot
         /\ \A s \in Slot : /\ \A l \in 0 .. size[from] - i - 1 : s # <<to, j + l>>
                            /\ \A l \in i .. size[from] - 1 : s # <<from, l>>
                            => r.slot[s] = m.slot[s]
  <1> DEFINE N == size[from] - i
             pairs == [l \in 1 .. N |-> <<<<to, j + l - 1>>, <<from, i + l - 1>>>>]
             r == Moves(m, pairs)
  <1>1. ArraySize \in Nat /\ N \in Nat /\ size[from] \in Nat /\ j + N <= ArraySize
        /\ size[from] <= ArraySize /\ N + i = size[from]
    BY NullIsNone
  <1> HIDE DEF N
  <1>2. \A l \in 1 .. N : /\ pairs[l][1] = <<to, j + l - 1>>
                          /\ pairs[l][2] = <<from, i + l - 1>>
    BY <1>1
  <1>3. pairs \in Seq(Slot \X Slot) /\ DOMAIN pairs = 1 .. N /\ Len(pairs) = N
    <2>1. \A l \in 1 .. N : pairs[l] \in Slot \X Slot
      <3> TAKE l \in 1 .. N
      <3>1. j + l - 1 \in 0 .. ArraySize - 1 /\ i + l - 1 \in 0 .. ArraySize - 1
        BY <1>1
      <3> QED
        BY <3>1, NullIsNone
    <2> QED
      BY <1>1, <2>1
  <1>4. Clean(pairs)
    <2>1. ASSUME NEW a \in 1 .. N, NEW b \in 1 .. N
          PROVE  /\ a # b => pairs[a][1] # pairs[b][1] /\ pairs[a][2] # pairs[b][2]
                 /\ a <= b => pairs[b][2] # pairs[a][1]
      BY <1>1
    <2> HIDE DEF pairs
    <2> QED
      BY <1>3, <2>1 DEF Clean
  <1>5. MoveTail(m, to, j, from, i) = r
    BY DEF MoveTail, N
  <1> HIDE DEF pairs
  <1>6. r \in MemoryType /\ Once(r, L) /\ Moved(r, m, pairs, N)
    BY <1>3, <1>4, MovesAre
  <1> HIDE DEF r
  <1>7. ASSUME NEW l \in 0 .. N - 1
        PROVE  r.slot[<<to, j + l>>] = m.slot[<<from, i + l>>]
    <2>1. l + 1 \in 1 .. N /\ j + (l + 1) - 1 = j + l /\ i + (l + 1) - 1 = i + l
      BY <1>1
    <2> QED
      BY <1>2, <1>6, <2>1 DEF Moved
  <1>8. ASSUME NEW l \in i .. size[from] - 1 PROVE r.slot[<<from, l>>] = NullSlot
    <2>1. l - i + 1 \in 1 .. N /\ i + (l - i + 1) - 1 = l
      BY <1>1
    <2>2. \A b \in 1 .. N : pairs[b][1] # <<from, l>>
      BY <1>2
    <2> QED
      BY <1>2, <1>6, <2>1, <2>2 DEF Moved
  <1>9. ASSUME NEW s \in Slot, \A l \in 0 .. N - 1 : s # <<to, j + l>>,
               \A l \in i .. size[from] - 1 : s # <<from, l>>
        PROVE  r.slot[s] = m.slot[s]
    <2>1. \A a \in 1 .. N : s # pairs[a][1] /\ s # pairs[a][2]
      <3> TAKE a \in 1 .. N
      <3>1. a - 1 \in 0 .. N - 1 /\ j + (a - 1) = j + a - 1 /\ i + a - 1 \in i .. size[from] - 1
        BY <1>1
      <3> QED
        BY <1>2, <1>9, <3>1
    <2> QED
      BY <1>6, <2>1 DEF Moved
  <1> QED
    BY <1>5, <1>6, <1>7, <1>8, <1>9 DEF N

\* Destroying nodes deletes what their slots have.
LEMMA DeleteIs ==
  ASSUME NEW m \in MemoryType, NEW L, Once(m, L), NEW ns \in SUBSET Node
  PROVE  LET r == DeleteNodes(m, ns) IN
         /\ r \in MemoryType /\ Once(r, L)
         /\ \A n \in ns, j \in 0 .. ArraySize - 1 : r.slot[<<n, j>>] = NullSlot
         /\ \A s \in Slot : (s = NewVal \/ s[1] \notin ns) => r.slot[s] = m.slot[s]
  <1> DEFINE gone == ns \X (0 .. ArraySize - 1)
             r == DeleteNodes(m, ns)
  <1>1. gone \subseteq Slot /\ NewVal \notin gone
    BY NullIsNone DEF Slot
  <1>2. /\ r.slot = [s \in Slot |-> IF s \in gone THEN NullSlot ELSE m.slot[s]]
        /\ r.live = m.live \ UNION {Owned(m, s) : s \in gone}
        /\ r.sound <=> /\ m.sound
                       /\ \A s \in gone : Owned(m, s) \subseteq m.live
                       /\ \A s, q \in gone : s # q => Owned(m, s) \cap Owned(m, q) = {}
        /\ r = [slot |-> r.slot, live |-> r.live, sound |-> r.sound]
        /\ r.sound \in BOOLEAN
    BY DEF DeleteNodes
  <1>3. \A s \in Slot : (s = NewVal \/ s[1] \notin ns) => s \notin gone
    BY <1>1
  <1>4. \A n \in ns, j \in 0 .. ArraySize - 1 : <<n, j>> \in gone
    OBVIOUS
  <1> HIDE DEF r, gone
  <1>5. /\ \A s \in gone : r.slot[s] = NullSlot
        /\ \A s \in Slot \ gone : r.slot[s] = m.slot[s]
        /\ r.slot \in [Slot -> SlotType]
    BY <1>1, <1>2, MemoryParts, NullIsNone
  <1>6. r \in MemoryType
    BY <1>2, <1>5, MemoryParts DEF MemoryType
  <1>7. /\ \A s \in gone : Owned(r, s) = {}
        /\ \A s \in Slot \ gone : Owned(r, s) = Owned(m, s)
    BY <1>5 DEF Owned, NullSlot
  <1>8. r.sound
    <2>1. \A s \in Slot : Owned(m, s) \subseteq m.live
      BY DEF Once
    <2> QED
      BY <1>1, <1>2, <2>1 DEF Once
  <1>9. r.live = L \cup UNION {Owned(r, s) : s \in Slot}
    <2>1. ASSUME NEW o PROVE o \in r.live <=> o \in L \/ \E s \in Slot : o \in Owned(r, s)
      <3>1. o \in r.live <=> o \in m.live /\ ~\E s \in gone : o \in Owned(m, s)
        BY <1>2
      <3>2. o \in m.live <=> o \in L \/ \E s \in Slot : o \in Owned(m, s)
        BY DEF Once
      <3>3. \A s \in Slot : o \in Owned(m, s) => o \notin L
        BY DEF Once
      <3>4. \A s, q \in Slot : s # q => ~(o \in Owned(m, s) /\ o \in Owned(m, q))
        BY DEF Once
      <3> QED
        BY <1>1, <1>7, <3>1, <3>2, <3>3, <3>4
    <2> QED
      BY <2>1
  <1>10. /\ \A s \in Slot : Owned(r, s) \cap L = {}
         /\ \A s, q \in Slot : s # q => Owned(r, s) \cap Owned(r, q) = {}
    BY <1>1, <1>7 DEF Once
  <1>11. \A s \in Slot : r.slot[s].key = r.slot[s].val => r.slot[s].key = Null
    BY <1>5 DEF Once, NullSlot
  <1>12. Once(r, L)
    BY <1>6, <1>8, <1>9, <1>10, <1>11 DEF Once
  <1> QED
    BY <1>1, <1>3, <1>4, <1>5, <1>6, <1>12 DEF r

-----------------------------------------------------------------------------
(* The invariant.                                                          *)

\* The slots of a node that count hold the entries d, the others nothing.
Filled(mem, sz, d) ==
  /\ \A n \in Node : /\ Len(d[n]) = sz[n]
                     /\ \A j \in 1 .. sz[n] : d[n][j] = Held(mem.slot[<<n, j - 1>>])
                     /\ \A j \in sz[n] .. ArraySize - 1 : mem.slot[<<n, j>>] = NullSlot
  /\ mem.slot[NewVal] = NullSlot

\* The nodes of the list are those with entries.  The first one starts with an
\* entry without a key, all other entries have one, and at the bottom a value.
Keyed(sz, u, b, d) ==
  /\ \A n \in Node : n \in u <=> sz[n] > 0
  /\ u # {} => First \in u
  /\ \A n \in u : \A j \in 1 .. sz[n] :
       IF n = First /\ j = 1 THEN d[n][j].key = NoKey
       ELSE d[n][j].key # NoKey /\ (b => d[n][j].val # NoValue)

\* The invariant, of any values, so that lemmas can speak of one state.
Inv(mem, sz, u, b, l, d) ==
  /\ mem \in MemoryType /\ Once(mem, l)
  /\ sz \in [Node -> 0 .. ArraySize] /\ u \in SUBSET Node /\ b \in BOOLEAN
  /\ d \in [Node -> Seq(EntryType)]
  /\ Filled(mem, sz, d)
  /\ Keyed(sz, u, b, d)

IInv == Inv(memory, size, used, bottom, lost, data)

\* Under the invariant what is read from the slots is data.
LEMMA ReadIs ==
  ASSUME NEW mem, NEW sz, NEW u, NEW b, NEW l, NEW d, Inv(mem, sz, u, b, l, d), NEW n \in Node
  PROVE  [i \in 1 .. sz[n] |-> Held(mem.slot[<<n, i - 1>>])] = d[n]
  <1>1. /\ d[n] \in Seq(EntryType) /\ Len(d[n]) = sz[n]
        /\ \A j \in 1 .. sz[n] : d[n][j] = Held(mem.slot[<<n, j - 1>>])
    BY DEF Inv, Filled
  <1>2. d[n] = [j \in 1 .. sz[n] |-> d[n][j]]
    BY <1>1
  <1> QED
    BY <1>1, <1>2

\* The same of the state.
LEMMA ReadData ==
  ASSUME IInv
  PROVE  \A n \in Node : Read(n) = data[n]
  <1> TAKE n \in Node
  <1>1. Read(n) = [i \in 1 .. size[n] |-> Held(memory.slot[<<n, i - 1>>])]
    BY DEF Read, Held
  <1> QED
    BY <1>1, ReadIs DEF IInv

\* The invariant says that each object has one owner.
LEMMA InvOwned ==
  ASSUME NEW mem, NEW sz, NEW u, NEW b, NEW l, NEW d, Inv(mem, sz, u, b, l, d)
  PROVE  /\ mem.sound
         /\ mem.live = l \cup UNION {Owned(mem, s) : s \in Slot}
         /\ \A s \in Slot : /\ Owned(mem, s) \cap l = {}
                            /\ \A r \in Slot \ {s} : Owned(mem, s) \cap Owned(mem, r) = {}
                            /\ s = NewVal \/ s[2] >= sz[s[1]] => mem.slot[s] = NullSlot
  <1>1. ASSUME NEW s \in Slot, s[2] >= sz[s[1]], s # NewVal PROVE mem.slot[s] = NullSlot
    <2>1. s[1] \in Node /\ s[2] \in 0 .. ArraySize - 1 /\ s = <<s[1], s[2]>>
      BY <1>1, NullIsNone
    <2>2. sz[s[1]] \in 0 .. ArraySize
      BY <2>1 DEF Inv
    <2>3. s[2] \in sz[s[1]] .. ArraySize - 1
      BY <1>1, <2>1, <2>2, NullIsNone
    <2>4. mem.slot[<<s[1], s[2]>>] = NullSlot
      BY <2>1, <2>3 DEF Inv, Filled
    <2> QED
      BY <2>1, <2>4
  <1>2. mem.slot[NewVal] = NullSlot
    BY DEF Inv, Filled
  <1>3. \A s \in Slot : s = NewVal \/ s[2] >= sz[s[1]] => mem.slot[s] = NullSlot
    BY <1>1, <1>2
  <1> QED
    BY <1>3 DEF Inv, Once

\* Where the search for a key ends: on a node of the list, behind its first
\* entry or at the key.
LEMMA HomeIs ==
  ASSUME IInv, First \in used, NEW k \in Key
  PROVE  LET c == Home(k)
             i == Passed(Read(c), k)
         IN /\ c \in used /\ c \in Node /\ Read(c) = data[c]
            /\ size[c] \in 1 .. ArraySize /\ i \in 0 .. size[c] /\ Len(data[c]) = size[c]
            /\ i = 0 => c # First /\ Hit(Read(c), k)
            /\ Hit(Read(c), k) => i < size[c] /\ data[c][i + 1].key = k
                                  /\ ~(c = First /\ i = 0)
  <1> DEFINE start(n) == Read(n)[1].key
             upTo == {n \in used : n # First /\ start(n) <= k}
             c == Home(k)
             i == Passed(Read(c), k)
  <1>1. /\ used \subseteq Node /\ \A n \in Node : Read(n) = data[n]
        /\ \A n \in used : size[n] \in 1 .. ArraySize /\ Len(data[n]) = size[n]
        /\ data \in [Node -> Seq(EntryType)]
    <2>1. used \subseteq Node /\ size \in [Node -> 0 .. ArraySize] /\ data \in [Node -> Seq(EntryType)]
      BY DEF IInv, Inv
    <2>2. \A n \in used : size[n] > 0
      BY <2>1 DEF IInv, Inv, Keyed
    <2>3. \A n \in Node : Len(data[n]) = size[n]
      BY DEF IInv, Inv, Filled
    <2>4. ArraySize \in Nat
      BY NullIsNone
    <2> QED
      BY <2>1, <2>2, <2>3, <2>4, ReadData
  <1>2. k \in Int /\ NoKey \notin Int /\ Key \subseteq Int
    BY CallAssumption
  <1>3. \A n \in used \ {First} : start(n) \in Key
    <2> TAKE n \in used \ {First}
    <2>1. 1 \in 1 .. size[n] /\ data[n][1].key # NoKey
      BY <1>1 DEF IInv, Inv, Keyed
    <2>2. data[n][1] \in EntryType
      BY <1>1, <2>1, LenProperties
    <2> QED
      BY <1>1, <2>1, <2>2 DEF EntryType
  <1>4. data[First][1].key = NoKey
    <2>1. 1 \in 1 .. size[First]
      BY <1>1
    <2> QED
      BY <2>1 DEF IInv, Inv, Keyed
  <1>5. c \in used /\ (c # First => start(c) <= k)
    <2>1. CASE upTo = {}
      <3>1. c = First
        BY <2>1 DEF Home
      <3> QED
        BY <3>1
    <2>2. CASE upTo # {}
      <3> DEFINE f == [n \in upTo |-> start(n)]
      <3>1. \A n \in upTo : f[n] \in Int
        BY <1>2, <1>3
      <3>2. IsFiniteSet(upTo)
        <4>1. upTo \in SUBSET Node
          BY <1>1
        <4> HIDE DEF upTo
        <4> QED
          BY <4>1, ArrayAssumption, FS_Subset
      <3>3. \E n \in upTo : \A m \in upTo : f[m] <= f[n]
        <4> HIDE DEF f, upTo
        <4> QED
          BY <2>2, <3>1, <3>2, GreatestOf
      <3>4. \E n \in upTo : \A m \in upTo : start(m) <= start(n)
        BY <3>3
      <3>5. c = CHOOSE n \in upTo : \A m \in upTo : start(m) <= start(n)
        BY <2>2 DEF Home
      <3>6. c \in upTo
        <4> HIDE DEF upTo, c, start
        <4> QED
          BY <3>4, <3>5
      <3> QED
        BY <3>6
    <2> QED
      BY <2>1, <2>2
  <1> HIDE DEF c
  <1>6. /\ i \in 0 .. size[c]
        /\ i = 0 => data[c][1].key # NoKey /\ data[c][1].key >= k
    <2>1. data[c] \in Seq(EntryType) /\ Len(data[c]) = size[c] /\ Read(c) = data[c] /\ size[c] > 0
      BY <1>1, <1>5
    <2> QED
      BY <2>1, PassedStops
  <1>7. Hit(Read(c), k) <=> i < size[c] /\ data[c][i + 1].key = k
    BY <1>1, <1>5 DEF Hit
  <1>8. i = 0 => c # First /\ Hit(Read(c), k)
    <2> SUFFICES ASSUME i = 0 PROVE c # First /\ Hit(Read(c), k)
      OBVIOUS
    <2>1. c # First
      BY <1>4, <1>6
    <2>2. data[c][1].key \in Int /\ data[c][1].key <= k
      BY <1>1, <1>2, <1>3, <1>5, <2>1
    <2>3. data[c][1].key = k
      BY <1>2, <1>6, <2>2
    <2>4. 0 < size[c]
      BY <1>1, <1>5
    <2> HIDE DEF i
    <2> QED
      BY <1>7, <2>1, <2>3, <2>4
  <1> QED
    BY <1>1, <1>5, <1>6, <1>7, <1>8 DEF c

-----------------------------------------------------------------------------
(* What the steps make of the entries.                                     *)

\* Placed, with and without a split.
SplitOff(d, c, n, i, e) == [d EXCEPT ![c] = UpTo(@, i), ![n] = <<e>> \o After(d[c], i)]
PutIn(d, c, i, e) == [d EXCEPT ![c] = (UpTo(@, i) \o <<e>>) \o After(@, i)]

\* Two runs of entries, one after the other.
LEMMA Joined ==
  ASSUME NEW a \in Seq(EntryType), NEW z \in Seq(EntryType)
  PROVE  /\ a \o z \in Seq(EntryType) /\ Len(a \o z) = Len(a) + Len(z)
         /\ \A j \in 1 .. Len(a) + Len(z) :
              (a \o z)[j] = IF j <= Len(a) THEN a[j] ELSE z[j - Len(a)]
  <1> HIDE DEF EntryType
  <1> QED
    BY ConcatProperties

\* The entry placed starts a new node with what was behind it.
LEMMA SplitOffIs ==
  ASSUME NEW d \in [Node -> Seq(EntryType)], NEW c \in Node, NEW n \in Node, c # n,
         NEW i \in 0 .. Len(d[c]), NEW e \in EntryType
  PROVE  LET r == SplitOff(d, c, n, i, e) IN
         /\ r \in [Node -> Seq(EntryType)]
         /\ Len(r[c]) = i /\ \A j \in 1 .. i : r[c][j] = d[c][j]
         /\ Len(r[n]) = 1 + Len(d[c]) - i /\ r[n][1] = e
         /\ \A j \in 1 .. Len(d[c]) - i : r[n][j + 1] = d[c][i + j]
         /\ \A m \in Node \ {c, n} : r[m] = d[m]
  <1> DEFINE r == SplitOff(d, c, n, i, e)
             s == <<e>> \o After(d[c], i)
  <1>1. d[c] \in Seq(EntryType) /\ Len(d[c]) \in Nat
    BY LenProperties
  <1>2. /\ UpTo(d[c], i) \in Seq(EntryType) /\ Len(UpTo(d[c], i)) = i
        /\ \A j \in 1 .. i : UpTo(d[c], i)[j] = d[c][j]
        /\ After(d[c], i) \in Seq(EntryType) /\ Len(After(d[c], i)) = Len(d[c]) - i
        /\ \A j \in 1 .. Len(d[c]) - i : After(d[c], i)[j] = d[c][i + j]
    BY <1>1, Pieces
  <1>3. <<e>> \in Seq(EntryType) /\ Len(<<e>>) = 1 /\ <<e>>[1] = e
    OBVIOUS
  <1>4. /\ s \in Seq(EntryType) /\ Len(s) = 1 + Len(d[c]) - i /\ s[1] = e
        /\ \A j \in 1 .. Len(d[c]) - i : s[j + 1] = After(d[c], i)[j]
    <2>1. /\ s \in Seq(EntryType) /\ Len(s) = 1 + (Len(d[c]) - i)
          /\ \A j \in 1 .. 1 + (Len(d[c]) - i) :
               s[j] = IF j <= 1 THEN <<e>>[j] ELSE After(d[c], i)[j - 1]
      <3> DEFINE a == <<e>>
                 z == After(d[c], i)
      <3>1. a \in Seq(EntryType) /\ z \in Seq(EntryType)
        BY <1>2, <1>3
      <3> HIDE DEF a, z
      <3>2. /\ a \o z \in Seq(EntryType) /\ Len(a \o z) = Len(a) + Len(z)
            /\ \A j \in 1 .. Len(a) + Len(z) :
                 (a \o z)[j] = IF j <= Len(a) THEN a[j] ELSE z[j - Len(a)]
        BY <3>1, Joined, Zenon
      <3> QED
        BY <1>2, <1>3, <3>2 DEF a, z
    <2> HIDE DEF s
    <2> QED
      BY <1>1, <1>3, <2>1
  <1> HIDE DEF s
  <1>5. r = [d EXCEPT ![c] = UpTo(d[c], i), ![n] = s]
    BY DEF SplitOff, s
  <1> HIDE DEF r
  <1>6. /\ r \in [Node -> Seq(EntryType)]
        /\ r[c] = UpTo(d[c], i) /\ r[n] = s /\ \A m \in Node \ {c, n} : r[m] = d[m]
    BY <1>2, <1>4, <1>5
  <1> QED
    BY <1>2, <1>4, <1>6 DEF r

\* The entry placed goes between the others of its node.
LEMMA PutInIs ==
  ASSUME NEW d \in [Node -> Seq(EntryType)], NEW c \in Node,
         NEW i \in 0 .. Len(d[c]), NEW e \in EntryType
  PROVE  LET r == PutIn(d, c, i, e) IN
         /\ r \in [Node -> Seq(EntryType)]
         /\ Len(r[c]) = Len(d[c]) + 1
         /\ \A j \in 1 .. i : r[c][j] = d[c][j]
         /\ r[c][i + 1] = e
         /\ \A j \in i + 1 .. Len(d[c]) : r[c][j + 1] = d[c][j]
         /\ \A m \in Node \ {c} : r[m] = d[m]
  <1> DEFINE r == PutIn(d, c, i, e)
             f == UpTo(d[c], i) \o <<e>>
             s == f \o After(d[c], i)
  <1>1. d[c] \in Seq(EntryType) /\ Len(d[c]) \in Nat
    BY LenProperties
  <1>2. /\ UpTo(d[c], i) \in Seq(EntryType) /\ Len(UpTo(d[c], i)) = i
        /\ \A j \in 1 .. i : UpTo(d[c], i)[j] = d[c][j]
        /\ After(d[c], i) \in Seq(EntryType) /\ Len(After(d[c], i)) = Len(d[c]) - i
        /\ \A j \in 1 .. Len(d[c]) - i : After(d[c], i)[j] = d[c][i + j]
    BY <1>1, Pieces
  <1>3. <<e>> \in Seq(EntryType) /\ Len(<<e>>) = 1 /\ <<e>>[1] = e
    OBVIOUS
  <1>4. /\ f \in Seq(EntryType) /\ Len(f) = i + 1
        /\ \A j \in 1 .. i : f[j] = d[c][j]
        /\ f[i + 1] = e
    <2>1. /\ f \in Seq(EntryType) /\ Len(f) = i + 1
          /\ \A j \in 1 .. i + 1 :
               f[j] = IF j <= i THEN UpTo(d[c], i)[j] ELSE <<e>>[j - i]
      <3> DEFINE a == UpTo(d[c], i)
                 z == <<e>>
      <3>1. a \in Seq(EntryType) /\ z \in Seq(EntryType)
        BY <1>2, <1>3
      <3> HIDE DEF a, z
      <3>2. /\ a \o z \in Seq(EntryType) /\ Len(a \o z) = Len(a) + Len(z)
            /\ \A j \in 1 .. Len(a) + Len(z) :
                 (a \o z)[j] = IF j <= Len(a) THEN a[j] ELSE z[j - Len(a)]
        BY <3>1, Joined, Zenon
      <3> QED
        BY <1>2, <1>3, <3>2 DEF a, z
    <2> HIDE DEF f
    <2>2. ASSUME NEW j \in 1 .. i PROVE f[j] = d[c][j]
      <3>1. j \in 1 .. i + 1 /\ j <= i
        OBVIOUS
      <3> QED
        BY <1>2, <2>1, <3>1
    <2>3. f[i + 1] = e
      <3>1. i + 1 - i = 1 /\ i + 1 \in 1 .. i + 1 /\ ~(i + 1 <= i)
        OBVIOUS
      <3>2. f[i + 1] = <<e>>[i + 1 - i]
        BY <2>1, <3>1
      <3> QED
        BY <1>3, <3>1, <3>2
    <2> QED
      BY <2>1, <2>2, <2>3
  <1> HIDE DEF f
  <1>5. /\ s \in Seq(EntryType) /\ Len(s) = Len(d[c]) + 1
        /\ \A j \in 1 .. i : s[j] = d[c][j]
        /\ s[i + 1] = e
        /\ \A j \in i + 1 .. Len(d[c]) : s[j + 1] = d[c][j]
    <2>1. /\ s \in Seq(EntryType) /\ Len(s) = (i + 1) + (Len(d[c]) - i)
          /\ \A j \in 1 .. (i + 1) + (Len(d[c]) - i) :
               s[j] = IF j <= i + 1 THEN f[j] ELSE After(d[c], i)[j - (i + 1)]
      <3> DEFINE z == After(d[c], i)
      <3>1. z \in Seq(EntryType)
        BY <1>2
      <3> HIDE DEF z
      <3>2. /\ f \o z \in Seq(EntryType) /\ Len(f \o z) = Len(f) + Len(z)
            /\ \A j \in 1 .. Len(f) + Len(z) :
                 (f \o z)[j] = IF j <= Len(f) THEN f[j] ELSE z[j - Len(f)]
        BY <1>4, <3>1, Joined, Zenon
      <3> QED
        BY <1>2, <1>4, <3>2 DEF z
    <2> HIDE DEF s
    <2>2. ASSUME NEW j \in 1 .. i + 1 PROVE s[j] = f[j]
      <3>1. j \in 1 .. (i + 1) + (Len(d[c]) - i) /\ j <= i + 1
        BY <1>1
      <3> QED
        BY <2>1, <3>1
    <2>3. ASSUME NEW j \in i + 1 .. Len(d[c]) PROVE s[j + 1] = d[c][j]
      <3>1. /\ j + 1 \in 1 .. (i + 1) + (Len(d[c]) - i) /\ ~(j + 1 <= i + 1)
            /\ (j + 1) - (i + 1) \in 1 .. Len(d[c]) - i /\ i + ((j + 1) - (i + 1)) = j
        BY <1>1
      <3> QED
        BY <1>2, <2>1, <3>1
    <2>4. (i + 1) + (Len(d[c]) - i) = Len(d[c]) + 1 /\ 1 .. i \subseteq 1 .. i + 1 /\ i + 1 \in 1 .. i + 1
      BY <1>1
    <2> QED
      BY <1>4, <2>1, <2>2, <2>3, <2>4
  <1>6. r = [d EXCEPT ![c] = s]
    BY DEF PutIn, s, f
  <1> HIDE DEF r, s
  <1>7. r \in [Node -> Seq(EntryType)] /\ r[c] = s /\ \A m \in Node \ {c} : r[m] = d[m]
    BY <1>5, <1>6
  <1> QED
    BY <1>5, <1>7 DEF r

\* The tail of a node goes to another.
LEMMA MovedOverIs ==
  ASSUME NEW d \in [Node -> Seq(EntryType)], NEW c \in Node, NEW n \in Node, c # n,
         NEW i \in 0 .. Len(d[c])
  PROVE  LET r == MovedOver(d, c, n, i) IN
         /\ r \in [Node -> Seq(EntryType)]
         /\ Len(r[c]) = i /\ \A j \in 1 .. i : r[c][j] = d[c][j]
         /\ Len(r[n]) = Len(d[c]) - i
         /\ \A j \in 1 .. Len(d[c]) - i : r[n][j] = d[c][i + j]
         /\ \A m \in Node \ {c, n} : r[m] = d[m]
  <1> DEFINE r == MovedOver(d, c, n, i)
  <1>1. d[c] \in Seq(EntryType) /\ Len(d[c]) \in Nat
    BY LenProperties
  <1>2. /\ UpTo(d[c], i) \in Seq(EntryType) /\ Len(UpTo(d[c], i)) = i
        /\ \A j \in 1 .. i : UpTo(d[c], i)[j] = d[c][j]
        /\ After(d[c], i) \in Seq(EntryType) /\ Len(After(d[c], i)) = Len(d[c]) - i
        /\ \A j \in 1 .. Len(d[c]) - i : After(d[c], i)[j] = d[c][i + j]
    BY <1>1, Pieces
  <1>3. r = [d EXCEPT ![c] = UpTo(d[c], i), ![n] = After(d[c], i)]
    BY DEF MovedOver
  <1> HIDE DEF r
  <1>4. /\ r \in [Node -> Seq(EntryType)]
        /\ r[c] = UpTo(d[c], i) /\ r[n] = After(d[c], i) /\ \A m \in Node \ {c, n} : r[m] = d[m]
    BY <1>2, <1>3
  <1> QED
    BY <1>2, <1>4 DEF r

\* An entry is taken out of a node.
LEMMA WithoutIs ==
  ASSUME NEW s \in Seq(EntryType), NEW i \in 0 .. Len(s), i < Len(s)
  PROVE  LET r == Without(s, i) IN
         /\ r \in Seq(EntryType) /\ Len(r) = Len(s) - 1
         /\ \A j \in 1 .. i : r[j] = s[j]
         /\ \A j \in i + 1 .. Len(s) - 1 : r[j] = s[j + 1]
  <1> DEFINE r == UpTo(s, i) \o After(s, i + 1)
  <1>1. Len(s) \in Nat /\ i + 1 \in 0 .. Len(s)
    BY LenProperties
  <1>2. /\ UpTo(s, i) \in Seq(EntryType) /\ Len(UpTo(s, i)) = i
        /\ \A j \in 1 .. i : UpTo(s, i)[j] = s[j]
    BY Pieces
  <1>3. /\ After(s, i + 1) \in Seq(EntryType) /\ Len(After(s, i + 1)) = Len(s) - (i + 1)
        /\ \A j \in 1 .. Len(s) - (i + 1) : After(s, i + 1)[j] = s[(i + 1) + j]
    BY <1>1, Pieces
  <1>4. /\ r \in Seq(EntryType) /\ Len(r) = i + (Len(s) - (i + 1))
        /\ \A j \in 1 .. i + (Len(s) - (i + 1)) :
             r[j] = IF j <= i THEN UpTo(s, i)[j] ELSE After(s, i + 1)[j - i]
    <2> DEFINE a == UpTo(s, i)
               z == After(s, i + 1)
    <2>1. a \in Seq(EntryType) /\ z \in Seq(EntryType)
      BY <1>2, <1>3
    <2> HIDE DEF a, z
    <2>2. /\ a \o z \in Seq(EntryType) /\ Len(a \o z) = Len(a) + Len(z)
          /\ \A j \in 1 .. Len(a) + Len(z) :
               (a \o z)[j] = IF j <= Len(a) THEN a[j] ELSE z[j - Len(a)]
      BY <2>1, Joined
    <2> QED
      BY <1>2, <1>3, <2>2 DEF a, z
  <1>5. Without(s, i) = r
    BY DEF Without
  <1> HIDE DEF r
  <1>6. i + (Len(s) - (i + 1)) = Len(s) - 1
    BY <1>1
  <1>7. ASSUME NEW j \in 1 .. i PROVE r[j] = s[j]
    <2>1. j \in 1 .. Len(s) - 1
      BY <1>1
    <2> QED
      BY <1>2, <1>4, <1>6, <2>1
  <1>8. ASSUME NEW j \in i + 1 .. Len(s) - 1 PROVE r[j] = s[j + 1]
    <2>1. /\ j \in 1 .. Len(s) - 1 /\ ~(j <= i)
          /\ j - i \in 1 .. Len(s) - (i + 1) /\ (i + 1) + (j - i) = j + 1
      BY <1>1
    <2> QED
      BY <1>3, <1>4, <1>6, <2>1
  <1> QED
    BY <1>4, <1>5, <1>6, <1>7, <1>8

\* The new entry as insert_into_node makes it in new_val.
LEMMA EntryMade ==
  ASSUME NEW m \in MemoryType, NEW L, Once(m, L), m.slot[NewVal] = NullSlot,
         NEW k \in Key, NEW v \in Value, NEW b \in BOOLEAN, NEW dn \in Down
  PROVE  LET keyed == WithKey([m EXCEPT !.slot[NewVal].down = dn], NewVal, k)
             made == IF b THEN WithVal(keyed, NewVal, v) ELSE keyed
         IN Unmade(m, k) # {} /\ (b => Unmade(keyed, v) # {}) =>
            /\ made \in MemoryType /\ Once(made, L)
            /\ Held(made.slot[NewVal]) = Entry(k, IF b THEN v ELSE NoValue, dn)
            /\ \A s \in Slot \ {NewVal} : made.slot[s] = m.slot[s]
  <1> DEFINE m0 == [m EXCEPT !.slot[NewVal].down = dn]
             keyed == WithKey(m0, NewVal, k)
             made == IF b THEN WithVal(keyed, NewVal, v) ELSE keyed
  <1> SUFFICES ASSUME Unmade(m, k) # {}, b => Unmade(keyed, v) # {}
               PROVE  /\ made \in MemoryType /\ Once(made, L)
                      /\ Held(made.slot[NewVal]) = Entry(k, IF b THEN v ELSE NoValue, dn)
                      /\ \A s \in Slot \ {NewVal} : made.slot[s] = m.slot[s]
    OBVIOUS
  <1>1. /\ m0.slot = [m.slot EXCEPT ![NewVal] = [@ EXCEPT !.down = dn]]
        /\ m0.live = m.live /\ m0.sound = m.sound
        /\ m0 = [slot |-> m0.slot, live |-> m0.live, sound |-> m0.sound]
    <2>1. m = [slot |-> m.slot, live |-> m.live, sound |-> m.sound]
      BY MemoryParts
    <2> QED
      BY <2>1
  <1> HIDE DEF m0
  <1>2. /\ m0.slot[NewVal].key = Null /\ m0.slot[NewVal].val = Null
        /\ m0.slot[NewVal].down = dn
        /\ \A s \in Slot \ {NewVal} : m0.slot[s] = m.slot[s]
        /\ m0.slot \in [Slot -> SlotType]
    <2>1. [m.slot[NewVal] EXCEPT !.down = dn] = [val |-> Null, key |-> Null, down |-> dn]
      BY DEF NullSlot
    <2>2. [val |-> Null, key |-> Null, down |-> dn] \in SlotType
      BY DEF SlotType
    <2> QED
      BY <1>1, <2>1, <2>2, MemoryParts, NullIsNone
  <1>3. m0 \in MemoryType
    BY <1>1, <1>2, MemoryParts DEF MemoryType
  <1>4. \A s \in Slot : Owned(m0, s) = Owned(m, s)
    BY <1>2 DEF Owned, NullSlot
  <1>5. Once(m0, L)
    <2>1. UNION {Owned(m0, s) : s \in Slot} = UNION {Owned(m, s) : s \in Slot}
      BY <1>4
    <2>2. \A s \in Slot : m0.slot[s].key = m0.slot[s].val => m0.slot[s].key = Null
      BY <1>2 DEF Once
    <2> QED
      BY <1>1, <1>3, <1>4, <2>1, <2>2 DEF Once
  <1>6. Unmade(m0, k) # {}
    BY <1>1 DEF Unmade
  <1>7. /\ keyed \in MemoryType /\ Once(keyed, L)
        /\ keyed.slot[NewVal].key # Null /\ keyed.slot[NewVal].key[1] = k
        /\ keyed.slot[NewVal].val = Null /\ keyed.slot[NewVal].down = dn
        /\ \A s \in Slot \ {NewVal} : keyed.slot[s] = m.slot[s]
    BY <1>2, <1>3, <1>5, <1>6, NullIsNone, KeyMade
  <1> HIDE DEF keyed
  <1>8. CASE ~b
    BY <1>7, <1>8 DEF Held
  <1>9. CASE b
    <2>1. /\ made \in MemoryType /\ Once(made, L \cup ({keyed.slot[NewVal].val} \ {Null}))
          /\ made.slot[NewVal].val # Null /\ made.slot[NewVal].val[1] = v
          /\ made.slot[NewVal].key = keyed.slot[NewVal].key
          /\ made.slot[NewVal].down = keyed.slot[NewVal].down
          /\ \A s \in Slot \ {NewVal} : made.slot[s] = keyed.slot[s]
      <3>1. Unmade(keyed, v) # {} /\ made = WithVal(keyed, NewVal, v)
        BY <1>9
      <3>2. NewVal \in Slot /\ keyed \in MemoryType /\ Once(keyed, L)
        BY <1>7, NullIsNone
      <3> HIDE DEF made
      <3>3. /\ WithVal(keyed, NewVal, v) \in MemoryType
            /\ Once(WithVal(keyed, NewVal, v), L \cup ({keyed.slot[NewVal].val} \ {Null}))
            /\ WithVal(keyed, NewVal, v).slot[NewVal].val # Null
            /\ WithVal(keyed, NewVal, v).slot[NewVal].val[1] = v
            /\ WithVal(keyed, NewVal, v).slot[NewVal].key = keyed.slot[NewVal].key
            /\ WithVal(keyed, NewVal, v).slot[NewVal].down = keyed.slot[NewVal].down
            /\ \A s \in Slot \ {NewVal} : WithVal(keyed, NewVal, v).slot[s] = keyed.slot[s]
        BY <3>1, <3>2, ValMade
      <3> QED
        BY <3>1, <3>3
    <2>2. L \cup ({keyed.slot[NewVal].val} \ {Null}) = L
      BY <1>7
    <2> HIDE DEF made
    <2> QED
      BY <1>7, <1>9, <2>1, <2>2 DEF Held
  <1> QED
    BY <1>8, <1>9

-----------------------------------------------------------------------------
(* The steps.                                                              *)

\* What the invariant says of the state.
LEMMA InvParts ==
  ASSUME IInv
  PROVE  /\ memory \in MemoryType /\ Once(memory, lost)
         /\ size \in [Node -> 0 .. ArraySize] /\ used \in SUBSET Node /\ bottom \in BOOLEAN
         /\ data \in [Node -> Seq(EntryType)]
         /\ Filled(memory, size, data) /\ Keyed(size, used, bottom, data)
         /\ \A n \in Node : size[n] \in Nat /\ size[n] <= ArraySize /\ Len(data[n]) = size[n]
         /\ ArraySize \in Nat /\ ArraySize > 0
         /\ NoKey \notin Key /\ NoValue \notin Value
  <1>1. /\ memory \in MemoryType /\ Once(memory, lost)
        /\ size \in [Node -> 0 .. ArraySize] /\ used \in SUBSET Node /\ bottom \in BOOLEAN
        /\ data \in [Node -> Seq(EntryType)]
        /\ Filled(memory, size, data) /\ Keyed(size, used, bottom, data)
    BY DEF IInv, Inv
  <1>2. ArraySize \in Nat /\ ArraySize > 0
    BY NullIsNone
  <1>3. \A n \in Node : size[n] \in Nat /\ size[n] <= ArraySize /\ Len(data[n]) = size[n]
    BY <1>1, <1>2 DEF Filled
  <1>4. NoKey \notin Key /\ NoValue \notin Value
    BY CallAssumption
  <1> QED
    BY <1>1, <1>2, <1>3, <1>4

\* An entry points down or, at the bottom, nowhere.
LEMMA BelowIs == \A k \in Key \cup {NoKey} : Below(k) \in Down
  BY DEF Below, Down

\* A new node is none of the list.
LEMMA FreshIs ==
  ASSUME used \in SUBSET Node, used # Node
  PROVE  Fresh \in Node /\ Fresh \notin used
  BY DEF Fresh

\* It holds of a new level.
LEMMA InitInv == Init => IInv
  <1> SUFFICES ASSUME Init PROVE IInv
    OBVIOUS
  <1> DEFINE head == [NullSlot EXCEPT !.down = Below(NoKey)]
  <1>1. /\ bottom \in BOOLEAN /\ used = {First} /\ lost = {}
        /\ memory.slot = [s \in Slot |-> IF s = <<First, 0>> THEN head ELSE NullSlot]
        /\ memory.live = {} /\ memory.sound = TRUE
        /\ memory = [slot |-> memory.slot, live |-> memory.live, sound |-> memory.sound]
        /\ size = [n \in Node |-> IF n = First THEN 1 ELSE 0]
        /\ data = [n \in Node |-> IF n = First THEN <<Entry(NoKey, NoValue, Below(NoKey))>>
                                               ELSE <<>>]
    BY DEF Init
  <1>2. /\ head = [val |-> Null, key |-> Null, down |-> Below(NoKey)]
        /\ head \in SlotType /\ Below(NoKey) \in Down
    BY BelowIs DEF NullSlot, SlotType
  <1> HIDE DEF head
  <1>3. /\ First \in Node /\ ArraySize \in Nat /\ ArraySize > 0
    BY NullIsNone, ArrayAssumption
  <1>4. /\ memory.slot \in [Slot -> SlotType]
        /\ \A s \in Slot : memory.slot[s].key = Null /\ memory.slot[s].val = Null
        /\ \A s \in Slot : s # <<First, 0>> => memory.slot[s] = NullSlot
        /\ memory.slot[<<First, 0>>] = head
    <2>1. <<First, 0>> \in Slot
      BY <1>3, NullIsNone
    <2>2. NullSlot.key = Null /\ NullSlot.val = Null /\ head.key = Null /\ head.val = Null
      BY <1>2 DEF NullSlot
    <2> QED
      BY <1>1, <1>2, <2>1, <2>2, NullIsNone
  <1>5. \A s \in Slot : Owned(memory, s) = {}
    BY <1>4 DEF Owned
  <1>6. memory \in MemoryType
    BY <1>1, <1>4 DEF MemoryType
  <1>7. Once(memory, lost)
    BY <1>1, <1>4, <1>5, <1>6 DEF Once
  <1>8. Entry(NoKey, NoValue, Below(NoKey)) \in EntryType
        /\ Entry(NoKey, NoValue, Below(NoKey)).key = NoKey
        /\ Held(head) = Entry(NoKey, NoValue, Below(NoKey))
    BY <1>2 DEF Entry, EntryType, Held
  <1>9. data \in [Node -> Seq(EntryType)]
    BY <1>1, <1>8
  <1>10. Filled(memory, size, data)
    <2>1. ASSUME NEW n \in Node
          PROVE  /\ Len(data[n]) = size[n]
                 /\ \A j \in 1 .. size[n] : data[n][j] = Held(memory.slot[<<n, j - 1>>])
                 /\ \A j \in size[n] .. ArraySize - 1 : memory.slot[<<n, j>>] = NullSlot
      <3>1. CASE n = First
        <4>1. size[n] = 1 /\ data[n] = <<Entry(NoKey, NoValue, Below(NoKey))>>
          BY <1>1, <3>1
        <4>2. \A j \in 1 .. ArraySize - 1 : <<n, j>> \in Slot /\ <<n, j>> # <<First, 0>>
          BY <1>3, NullIsNone
        <4> QED
          BY <1>4, <1>8, <3>1, <4>1, <4>2
      <3>2. CASE n # First
        <4>1. size[n] = 0 /\ data[n] = <<>>
          BY <1>1, <3>2
        <4>2. \A j \in 0 .. ArraySize - 1 : <<n, j>> \in Slot /\ <<n, j>> # <<First, 0>>
          BY <3>2, NullIsNone
        <4> QED
          BY <1>4, <4>1, <4>2
      <3> QED
        BY <3>1, <3>2
    <2>2. NewVal \in Slot /\ NewVal # <<First, 0>>
      BY <1>3, NullIsNone
    <2> QED
      BY <1>4, <2>1, <2>2 DEF Filled
  <1>11. Keyed(size, used, bottom, data)
    <2>1. \A n \in Node : n \in used <=> size[n] > 0
      BY <1>1
    <2>2. size[First] = 1 /\ data[First][1].key = NoKey
      BY <1>1, <1>3, <1>8
    <2> QED
      BY <1>1, <2>1, <2>2 DEF Keyed
  <1>12. size \in [Node -> 0 .. ArraySize]
    BY <1>1, <1>3
  <1> QED
    BY <1>1, <1>3, <1>6, <1>7, <1>9, <1>10, <1>11, <1>12 DEF IInv, Inv

\* insert_into_node with a new node.
LEMMA SplitKeeps ==
  ASSUME IInv, NEW k \in Key, NEW v \in Value, NEW waiting \in BOOLEAN,
         InsertIntoNode(k, v, waiting), size[Home(k)] = ArraySize \/ waiting
  PROVE  IInv'
  <1> DEFINE c == Home(k)
             i == Passed(Read(c), k)
             n == Fresh
             keyed == WithKey([memory EXCEPT !.slot[NewVal].down = Below(k)], NewVal, k)
             made == IF bottom THEN WithVal(keyed, NewVal, v) ELSE keyed
             e == Entry(k, IF bottom THEN v ELSE NoValue, Below(k))
             first == MoveAssign(made, <<n, 0>>, NewVal)
  <1>1. /\ First \in used /\ ~Hit(Read(c), k) /\ used # Node
        /\ Unmade(memory, k) # {} /\ (bottom => Unmade(keyed, v) # {})
        /\ memory' = MoveTail(first, n, 1, c, i)
        /\ size' = [size EXCEPT ![c] = i, ![n] = @ + 1 + size[c] - i]
        /\ used' = used \cup {n}
        /\ data' = SplitOff(data, c, n, i, e)
        /\ bottom' = bottom /\ lost' = lost
    <2>1. (size[c] = ArraySize \/ waiting) = TRUE
      BY InvParts
    <2> QED
      BY <2>1 DEF InsertIntoNode, Placed, SplitOff
  <1>2. /\ c \in used /\ c \in Node /\ i \in 1 .. size[c] /\ Len(data[c]) = size[c]
        /\ size[c] \in Nat /\ size[c] <= ArraySize /\ ArraySize \in Nat /\ ArraySize > 0
    <2> HIDE DEF c, i
    <2>1. /\ c \in used /\ c \in Node /\ i \in 0 .. size[c] /\ Len(data[c]) = size[c]
          /\ i = 0 => Hit(Read(c), k)
      BY <1>1, HomeIs DEF c, i
    <2> QED
      BY <1>1, <2>1, InvParts
  <1>3. n \in Node /\ n \notin used /\ n # c /\ size[n] = 0 /\ n # First
    <2>1. n \in Node /\ n \notin used
      BY <1>1, InvParts, FreshIs
    <2>2. size[n] \in Nat /\ ~(size[n] > 0)
      BY <2>1, InvParts DEF Keyed
    <2> QED
      BY <1>1, <1>2, <2>1, <2>2
  <1>4. /\ made \in MemoryType /\ Once(made, lost)
        /\ Held(made.slot[NewVal]) = e
        /\ \A s \in Slot \ {NewVal} : made.slot[s] = memory.slot[s]
    <2>1. /\ memory \in MemoryType /\ Once(memory, lost) /\ bottom \in BOOLEAN
          /\ memory.slot[NewVal] = NullSlot /\ Below(k) \in Down
      BY InvParts, BelowIs DEF Filled
    <2>2. Unmade(memory, k) # {} /\ (bottom => Unmade(keyed, v) # {})
      BY <1>1
    <2> QED
      BY <2>1, <2>2, EntryMade
  <1>5. e \in EntryType /\ e.key = k /\ (bottom => e.val = v)
    BY BelowIs, InvParts DEF Entry, EntryType
  <1> HIDE DEF c, i, n, made, keyed, e, first
  <1>6. /\ first \in MemoryType /\ Once(first, lost)
        /\ first.slot[<<n, 0>>] = made.slot[NewVal] /\ first.slot[NewVal] = NullSlot
        /\ \A s \in Slot \ {<<n, 0>>, NewVal} : first.slot[s] = memory.slot[s]
    <2>1. <<n, 0>> \in Slot /\ <<n, 0>> # NewVal /\ NewVal \in Slot
      BY <1>3, NullIsNone
    <2>2. made \in MemoryType /\ Once(made, lost)
      BY <1>4
    <2>3. LET r == MoveAssign(made, <<n, 0>>, NewVal) IN
          /\ r \in MemoryType /\ Once(r, lost)
          /\ r.slot[<<n, 0>>] = made.slot[NewVal] /\ r.slot[NewVal] = NullSlot
          /\ \A s \in Slot \ {<<n, 0>>, NewVal} : r.slot[s] = made.slot[s]
      BY <2>1, <2>2, MoveIs
    <2> QED
      BY <1>4, <2>3 DEF first
  <1>7. /\ memory' \in MemoryType /\ Once(memory', lost)
        /\ \A l \in 0 .. size[c] - i - 1 : memory'.slot[<<n, 1 + l>>] = first.slot[<<c, i + l>>]
        /\ \A l \in i .. size[c] - 1 : memory'.slot[<<c, l>>] = NullSlot
        /\ \A s \in Slot : /\ \A l \in 0 .. size[c] - i - 1 : s # <<n, 1 + l>>
                           /\ \A l \in i .. size[c] - 1 : s # <<c, l>>
                           => memory'.slot[s] = first.slot[s]
    <2>1. /\ size[c] \in 0 .. ArraySize /\ i \in 0 .. size[c] /\ 1 \in Nat
          /\ 1 + size[c] - i <= ArraySize
      BY <1>2, NullIsNone
    <2>2. LET r == MoveTail(first, n, 1, c, i) IN
          /\ r \in MemoryType /\ Once(r, lost)
          /\ \A l \in 0 .. size[c] - i - 1 : r.slot[<<n, 1 + l>>] = first.slot[<<c, i + l>>]
          /\ \A l \in i .. size[c] - 1 : r.slot[<<c, l>>] = NullSlot
          /\ \A s \in Slot : /\ \A l \in 0 .. size[c] - i - 1 : s # <<n, 1 + l>>
                             /\ \A l \in i .. size[c] - 1 : s # <<c, l>>
                             => r.slot[s] = first.slot[s]
      <3>1. c \in Node /\ n \in Node /\ n # c /\ first \in MemoryType /\ Once(first, lost)
        BY <1>2, <1>3, <1>6
      <3> QED
        BY <2>1, <3>1, MoveTailIs
    <2> QED
      BY <1>1, <2>2
  <1>8. /\ data' \in [Node -> Seq(EntryType)]
        /\ Len(data'[c]) = i /\ \A j \in 1 .. i : data'[c][j] = data[c][j]
        /\ Len(data'[n]) = 1 + size[c] - i /\ data'[n][1] = e
        /\ \A j \in 1 .. size[c] - i : data'[n][j + 1] = data[c][i + j]
        /\ \A m \in Node \ {c, n} : data'[m] = data[m]
    <2>1. i \in 0 .. Len(data[c])
      BY <1>2
    <2>2. LET r == SplitOff(data, c, n, i, e) IN
          /\ r \in [Node -> Seq(EntryType)]
          /\ Len(r[c]) = i /\ \A j \in 1 .. i : r[c][j] = data[c][j]
          /\ Len(r[n]) = 1 + Len(data[c]) - i /\ r[n][1] = e
          /\ \A j \in 1 .. Len(data[c]) - i : r[n][j + 1] = data[c][i + j]
          /\ \A m \in Node \ {c, n} : r[m] = data[m]
      <3>1. data \in [Node -> Seq(EntryType)] /\ c \in Node /\ n \in Node /\ c # n /\ e \in EntryType
        BY <1>2, <1>3, <1>5, InvParts
      <3> QED
        BY <2>1, <3>1, SplitOffIs
    <2> QED
      BY <1>1, <1>2, <2>2
  <1>9. /\ size' \in [Node -> 0 .. ArraySize]
        /\ size'[c] = i /\ size'[n] = 1 + size[c] - i
        /\ \A m \in Node \ {c, n} : size'[m] = size[m]
    <2>1. i \in 0 .. ArraySize /\ 1 + size[c] - i \in 0 .. ArraySize /\ 0 + 1 + size[c] - i = 1 + size[c] - i
      BY <1>2, NullIsNone
    <2> QED
      BY <1>1, <1>2, <1>3, <2>1, InvParts
  <1>10. ASSUME NEW m \in Node
         PROVE  /\ Len(data'[m]) = size'[m]
                /\ \A j \in 1 .. size'[m] : data'[m][j] = Held(memory'.slot[<<m, j - 1>>])
                /\ \A j \in size'[m] .. ArraySize - 1 : memory'.slot[<<m, j>>] = NullSlot
    <2>1. /\ \A j \in 1 .. size[m] : data[m][j] = Held(memory.slot[<<m, j - 1>>])
          /\ \A j \in size[m] .. ArraySize - 1 : memory.slot[<<m, j>>] = NullSlot
      BY InvParts DEF Filled
    <2>2. CASE m \notin {c, n}
      <3>1. \A j \in 0 .. ArraySize - 1 : memory'.slot[<<m, j>>] = memory.slot[<<m, j>>]
        <4> TAKE j \in 0 .. ArraySize - 1
        <4>1. <<m, j>> \in Slot \ {<<n, 0>>, NewVal}
          BY <2>2, NullIsNone
        <4> QED
          BY <1>6, <1>7, <2>2, <4>1
      <3>2. size'[m] = size[m] /\ data'[m] = data[m] /\ Len(data[m]) = size[m] /\ size[m] \in Nat /\ size[m] <= ArraySize
        BY <1>8, <1>9, <2>2, InvParts
      <3>3. \A j \in 1 .. size[m] : j - 1 \in 0 .. ArraySize - 1
        BY <3>2, InvParts
      <3>4. \A j \in size[m] .. ArraySize - 1 : j \in 0 .. ArraySize - 1
        BY <3>2, InvParts
      <3> QED
        BY <2>1, <3>1, <3>2, <3>3, <3>4
    <2>3. CASE m = c
      <3>1. \A j \in 0 .. ArraySize - 1 : <<c, j>> \in Slot \ {<<n, 0>>, NewVal}
        BY <1>2, <1>3, NullIsNone
      <3>2. \A j \in 1 .. i : data'[c][j] = Held(memory'.slot[<<c, j - 1>>])
        <4> TAKE j \in 1 .. i
        <4>1. j \in 1 .. size[c] /\ j - 1 \in 0 .. ArraySize - 1 /\ \A l \in i .. size[c] - 1 : l # j - 1
          BY <1>2
        <4>2. memory'.slot[<<c, j - 1>>] = memory.slot[<<c, j - 1>>]
          BY <1>3, <1>6, <1>7, <3>1, <4>1
        <4> QED
          BY <1>8, <2>1, <2>3, <4>1, <4>2
      <3>3. \A j \in i .. ArraySize - 1 : memory'.slot[<<c, j>>] = NullSlot
        <4> TAKE j \in i .. ArraySize - 1
        <4>1. CASE j \in i .. size[c] - 1
          BY <1>7, <4>1
        <4>2. CASE j \notin i .. size[c] - 1
          <5>1. j \in size[c] .. ArraySize - 1 /\ j \in 0 .. ArraySize - 1
            BY <1>2, <4>2, InvParts
          <5>2. memory'.slot[<<c, j>>] = memory.slot[<<c, j>>]
            BY <1>3, <1>6, <1>7, <3>1, <4>2, <5>1
          <5> QED
            BY <2>1, <2>3, <5>1, <5>2
        <4> QED
          BY <4>1, <4>2
      <3> QED
        BY <1>8, <1>9, <2>3, <3>2, <3>3
    <2>4. CASE m = n
      <3>1. \A j \in 0 .. ArraySize - 1 : <<n, j>> \in Slot /\ <<n, j>> # NewVal /\ <<c, j>> \in Slot \ {<<n, 0>>, NewVal}
        BY <1>2, <1>3, NullIsNone
      <3>2. ASSUME NEW j \in 1 .. 1 + size[c] - i
            PROVE  data'[n][j] = Held(memory'.slot[<<n, j - 1>>])
        <4>1. CASE j = 1
          <5>1. memory'.slot[<<n, 0>>] = first.slot[<<n, 0>>]
            <6>1. 0 \in 0 .. ArraySize - 1 /\ \A l \in 0 .. size[c] - i - 1 : 0 # 1 + l
              BY <1>2
            <6>2. <<n, 0>> \in Slot
              BY <3>1, <6>1
            <6>3. \A l \in 0 .. size[c] - i - 1 : <<n, 0>> # <<n, 1 + l>>
              BY <6>1
            <6>4. \A l \in i .. size[c] - 1 : <<n, 0>> # <<c, l>>
              BY <1>3
            <6> QED
              BY <1>7, <6>2, <6>3, <6>4
          <5> QED
            BY <1>4, <1>6, <1>8, <4>1, <5>1
        <4>2. CASE j # 1
          <5>1. /\ j - 1 \in 1 .. size[c] - i /\ j - 2 \in 0 .. size[c] - i - 1
                /\ 1 + (j - 2) = j - 1 /\ (j - 1) + 1 = j
            BY <1>2, <4>2
          <5>2. PICK l \in 1 .. size[c] : l = i + (j - 1) /\ l - 1 = i + (j - 2)
            BY <1>2, <4>2
          <5>3. l - 1 \in 0 .. ArraySize - 1
            BY <1>2
          <5>4. data'[n][j] = data[c][l]
            BY <1>8, <5>1, <5>2
          <5>5. data[c][l] = Held(memory.slot[<<c, l - 1>>])
            BY <1>2, InvParts DEF Filled
          <5>6. memory'.slot[<<n, j - 1>>] = first.slot[<<c, l - 1>>]
            BY <1>7, <5>1, <5>2
          <5>7. first.slot[<<c, l - 1>>] = memory.slot[<<c, l - 1>>]
            BY <1>6, <3>1, <5>3
          <5> QED
            BY <5>4, <5>5, <5>6, <5>7
        <4> QED
          BY <4>1, <4>2
      <3>3. ASSUME NEW j \in 1 + size[c] - i .. ArraySize - 1
            PROVE  memory'.slot[<<n, j>>] = NullSlot
        <4>1. /\ j \in 1 .. ArraySize - 1 /\ j \in size[n] .. ArraySize - 1
              /\ \A l \in 0 .. size[c] - i - 1 : 1 + l # j
          BY <1>2, <1>3
        <4>2. <<n, j>> \in Slot \ {<<n, 0>>, NewVal}
          <5>1. j \in 0 .. ArraySize - 1 /\ j # 0
            BY <1>2, <4>1
          <5>2. <<n, j>> # <<n, 0>>
            BY <5>1
          <5> QED
            BY <3>1, <5>1, <5>2
        <4>3. memory'.slot[<<n, j>>] = memory.slot[<<n, j>>]
          BY <1>3, <1>6, <1>7, <4>1, <4>2
        <4> QED
          BY <2>1, <2>4, <4>1, <4>3
      <3> QED
        BY <1>8, <1>9, <2>4, <3>2, <3>3
    <2> QED
      BY <2>2, <2>3, <2>4
  <1>11. Filled(memory', size', data')
    <2>1. NewVal \in Slot /\ \A m \in Node, j \in Nat : NewVal # <<m, j>>
      BY NullIsNone, ArrayAssumption DEF NewVal
    <2>2. memory'.slot[NewVal] = NullSlot
      <3>1. \A l \in 0 .. size[c] - i - 1 : 1 + l \in Nat
        OBVIOUS
      <3>2. \A l \in i .. size[c] - 1 : l \in Nat
        BY <1>2
      <3> QED
        BY <1>2, <1>3, <1>6, <1>7, <2>1, <3>1, <3>2
    <2> QED
      BY <1>10, <2>2 DEF Filled
  <1>12. Keyed(size', used', bottom', data')
    <2>1. \A m \in Node : m \in used' <=> size'[m] > 0
      <3>1. \A m \in Node : m \in used <=> size[m] > 0
        BY InvParts DEF Keyed
      <3>2. size'[c] > 0 /\ size'[n] > 0
        BY <1>2, <1>9
      <3> QED
        BY <1>1, <1>2, <1>9, <3>1, <3>2
    <2>2. \A m \in used : \A j \in 1 .. size[m] :
            IF m = First /\ j = 1 THEN data[m][j].key = NoKey
            ELSE data[m][j].key # NoKey /\ (bottom => data[m][j].val # NoValue)
      BY InvParts DEF Keyed
    <2>3. ASSUME NEW m \in used', NEW j \in 1 .. size'[m]
          PROVE  IF m = First /\ j = 1 THEN data'[m][j].key = NoKey
                 ELSE data'[m][j].key # NoKey /\ (bottom' => data'[m][j].val # NoValue)
      <3>1. CASE m \notin {c, n}
        <4>1. m \in used /\ m \in Node /\ size'[m] = size[m] /\ data'[m] = data[m]
          BY <1>1, <1>8, <1>9, <3>1, InvParts
        <4> QED
          BY <1>1, <2>2, <4>1
      <3>2. CASE m = c
        <4>1. j \in 1 .. size[c] /\ data'[c][j] = data[c][j]
          BY <1>2, <1>8, <1>9, <3>2
        <4> QED
          BY <1>1, <1>2, <2>2, <3>2, <4>1
      <3>3. CASE m = n
        <4>1. CASE j = 1
          BY <1>1, <1>3, <1>5, <1>8, <3>3, <4>1, InvParts
        <4>2. CASE j # 1
          <5>1. j - 1 \in 1 .. size[c] - i /\ (j - 1) + 1 = j /\ i + (j - 1) \in 2 .. size[c]
            BY <1>2, <1>9, <3>3, <4>2
          <5>2. data'[n][j] = data[c][i + (j - 1)]
            BY <1>8, <5>1
          <5>3. i + (j - 1) \in 1 .. size[c] /\ i + (j - 1) # 1
            BY <5>1
          <5> QED
            BY <1>1, <1>2, <1>3, <2>2, <3>3, <5>2, <5>3
        <4> QED
          BY <4>1, <4>2
      <3> QED
        BY <3>1, <3>2, <3>3
    <2>4. First \in used'
      BY <1>1
    <2> QED
      BY <2>1, <2>3, <2>4 DEF Keyed
  <1>13. used' \in SUBSET Node /\ bottom' \in BOOLEAN /\ lost' = lost
    BY <1>1, <1>3, InvParts
  <1> QED
    BY <1>7, <1>8, <1>9, <1>11, <1>12, <1>13 DEF IInv, Inv

\* A node whose slots stay as they are still holds its entries.
LEMMA SameNode ==
  ASSUME IInv, NEW m \in Node, NEW r,
         \A j \in 0 .. ArraySize - 1 : r.slot[<<m, j>>] = memory.slot[<<m, j>>]
  PROVE  /\ \A j \in 1 .. size[m] : data[m][j] = Held(r.slot[<<m, j - 1>>])
         /\ \A j \in size[m] .. ArraySize - 1 : r.slot[<<m, j>>] = NullSlot
  <1>1. /\ \A j \in 1 .. size[m] : data[m][j] = Held(memory.slot[<<m, j - 1>>])
        /\ \A j \in size[m] .. ArraySize - 1 : memory.slot[<<m, j>>] = NullSlot
    BY InvParts DEF Filled
  <1>2. size[m] \in Nat /\ size[m] <= ArraySize /\ ArraySize \in Nat
    BY InvParts
  <1>3. \A j \in 1 .. size[m] : j - 1 \in 0 .. ArraySize - 1
    BY <1>2
  <1>4. \A j \in size[m] .. ArraySize - 1 : j \in 0 .. ArraySize - 1
    BY <1>2
  <1> QED
    BY <1>1, <1>3, <1>4

\* insert_into_node in the node the search has come to.
LEMMA PutKeeps ==
  ASSUME IInv, NEW k \in Key, NEW v \in Value, NEW waiting \in BOOLEAN,
         InsertIntoNode(k, v, waiting), ~(size[Home(k)] = ArraySize \/ waiting)
  PROVE  IInv'
  <1> DEFINE c == Home(k)
             i == Passed(Read(c), k)
             keyed == WithKey([memory EXCEPT !.slot[NewVal].down = Below(k)], NewVal, k)
             made == IF bottom THEN WithVal(keyed, NewVal, v) ELSE keyed
             e == Entry(k, IF bottom THEN v ELSE NoValue, Below(k))
             gap == ShiftRight(made, c, i)
  <1>1. /\ First \in used /\ ~Hit(Read(c), k) /\ size[c] # ArraySize
        /\ Unmade(memory, k) # {} /\ (bottom => Unmade(keyed, v) # {})
        /\ memory' = MoveAssign(gap, <<c, i>>, NewVal)
        /\ size' = [size EXCEPT ![c] = @ + 1]
        /\ used' = used
        /\ data' = PutIn(data, c, i, e)
        /\ bottom' = bottom /\ lost' = lost
    <2>1. (size[c] = ArraySize \/ waiting) = FALSE /\ size[c] # ArraySize
      BY InvParts
    <2> QED
      BY <2>1 DEF InsertIntoNode, Placed, PutIn
  <1>2. /\ c \in used /\ c \in Node /\ i \in 1 .. size[c] /\ Len(data[c]) = size[c]
        /\ size[c] \in Nat /\ size[c] < ArraySize /\ ArraySize \in Nat /\ ArraySize > 0
    <2> HIDE DEF c, i
    <2>1. /\ c \in used /\ c \in Node /\ i \in 0 .. size[c] /\ Len(data[c]) = size[c]
          /\ i = 0 => Hit(Read(c), k)
      BY <1>1, HomeIs DEF c, i
    <2> QED
      BY <1>1, <2>1, InvParts
  <1>3. /\ made \in MemoryType /\ Once(made, lost)
        /\ Held(made.slot[NewVal]) = e
        /\ \A s \in Slot \ {NewVal} : made.slot[s] = memory.slot[s]
    <2>1. /\ memory \in MemoryType /\ Once(memory, lost) /\ bottom \in BOOLEAN
          /\ memory.slot[NewVal] = NullSlot /\ Below(k) \in Down
      BY InvParts, BelowIs DEF Filled
    <2>2. Unmade(memory, k) # {} /\ (bottom => Unmade(keyed, v) # {})
      BY <1>1
    <2> QED
      BY <2>1, <2>2, EntryMade
  <1>4. e \in EntryType /\ e.key = k /\ (bottom => e.val = v)
    BY BelowIs, InvParts DEF Entry, EntryType
  <1> HIDE DEF c, i, made, keyed, e
  <1>5. /\ \A m \in Node, j \in 0 .. ArraySize - 1 : <<m, j>> \in Slot /\ <<m, j>> # NewVal
        /\ NewVal \in Slot /\ i \in 0 .. ArraySize - 1
    BY <1>2, NullIsNone
  <1>6. /\ gap \in MemoryType /\ Once(gap, lost)
        /\ \A j \in i + 1 .. ArraySize - 1 : gap.slot[<<c, j>>] = made.slot[<<c, j - 1>>]
        /\ \A s \in Slot : (\A j \in i .. ArraySize - 1 : s # <<c, j>>) => gap.slot[s] = made.slot[s]
    BY <1>2, <1>3, <1>5, ShiftRightIs
  <1> HIDE DEF gap
  <1>7. /\ memory' \in MemoryType /\ Once(memory', lost)
        /\ memory'.slot[<<c, i>>] = gap.slot[NewVal] /\ memory'.slot[NewVal] = NullSlot
        /\ \A s \in Slot \ {<<c, i>>, NewVal} : memory'.slot[s] = gap.slot[s]
    <2>1. <<c, i>> \in Slot /\ <<c, i>> # NewVal /\ NewVal \in Slot
      BY <1>2, <1>5
    <2>2. LET r == MoveAssign(gap, <<c, i>>, NewVal) IN
          /\ r \in MemoryType /\ Once(r, lost)
          /\ r.slot[<<c, i>>] = gap.slot[NewVal] /\ r.slot[NewVal] = NullSlot
          /\ \A s \in Slot \ {<<c, i>>, NewVal} : r.slot[s] = gap.slot[s]
      BY <1>6, <2>1, MoveIs
    <2> QED
      BY <1>1, <2>2
  <1>8. /\ data' \in [Node -> Seq(EntryType)]
        /\ Len(data'[c]) = size[c] + 1
        /\ \A j \in 1 .. i : data'[c][j] = data[c][j]
        /\ data'[c][i + 1] = e
        /\ \A j \in i + 1 .. size[c] : data'[c][j + 1] = data[c][j]
        /\ \A m \in Node \ {c} : data'[m] = data[m]
    <2>1. i \in 0 .. Len(data[c]) /\ data \in [Node -> Seq(EntryType)]
      BY <1>2, InvParts
    <2>2. LET r == PutIn(data, c, i, e) IN
          /\ r \in [Node -> Seq(EntryType)]
          /\ Len(r[c]) = Len(data[c]) + 1
          /\ \A j \in 1 .. i : r[c][j] = data[c][j]
          /\ r[c][i + 1] = e
          /\ \A j \in i + 1 .. Len(data[c]) : r[c][j + 1] = data[c][j]
          /\ \A m \in Node \ {c} : r[m] = data[m]
      <3>1. c \in Node /\ e \in EntryType
        BY <1>2, <1>4
      <3> QED
        BY <2>1, <3>1, PutInIs
    <2> QED
      BY <1>1, <1>2, <2>2
  <1>9. /\ size' \in [Node -> 0 .. ArraySize]
        /\ size'[c] = size[c] + 1 /\ \A m \in Node \ {c} : size'[m] = size[m]
    <2>1. size[c] + 1 \in 0 .. ArraySize
      BY <1>2
    <2> QED
      BY <1>1, <1>2, <2>1, InvParts
  <1>10. \A j \in 0 .. i - 1 : memory'.slot[<<c, j>>] = memory.slot[<<c, j>>]
    <2> TAKE j \in 0 .. i - 1
    <2>1. j \in 0 .. ArraySize - 1 /\ \A l \in i .. ArraySize - 1 : j # l
      BY <1>2
    <2>2. j # i
      BY <1>2
    <2>3. <<c, j>> \in Slot \ {<<c, i>>, NewVal} /\ \A l \in i .. ArraySize - 1 : <<c, j>> # <<c, l>>
      BY <1>2, <1>5, <2>1, <2>2
    <2> QED
      BY <1>3, <1>6, <1>7, <2>3
  <1>11. Held(memory'.slot[<<c, i>>]) = e
    <2>1. \A l \in i .. ArraySize - 1 : NewVal # <<c, l>>
      BY <1>2, <1>5
    <2> QED
      BY <1>3, <1>5, <1>6, <1>7, <2>1
  <1>12. \A j \in i + 1 .. ArraySize - 1 : memory'.slot[<<c, j>>] = memory.slot[<<c, j - 1>>]
    <2> TAKE j \in i + 1 .. ArraySize - 1
    <2>1. j \in 0 .. ArraySize - 1 /\ j - 1 \in 0 .. ArraySize - 1 /\ j # i
      BY <1>2
    <2>2. <<c, j>> \in Slot \ {<<c, i>>, NewVal} /\ <<c, j - 1>> \in Slot \ {NewVal}
      BY <1>2, <1>5, <2>1
    <2> QED
      BY <1>3, <1>6, <1>7, <2>2
  <1>13. ASSUME NEW m \in Node
         PROVE  /\ Len(data'[m]) = size'[m]
                /\ \A j \in 1 .. size'[m] : data'[m][j] = Held(memory'.slot[<<m, j - 1>>])
                /\ \A j \in size'[m] .. ArraySize - 1 : memory'.slot[<<m, j>>] = NullSlot
    <2>1. CASE m # c
      <3>1. \A j \in 0 .. ArraySize - 1 : memory'.slot[<<m, j>>] = memory.slot[<<m, j>>]
        <4> TAKE j \in 0 .. ArraySize - 1
        <4>1. <<m, j>> \in Slot \ {<<c, i>>, NewVal} /\ \A l \in i .. ArraySize - 1 : <<m, j>> # <<c, l>>
          BY <1>5, <2>1
        <4> QED
          BY <1>3, <1>6, <1>7, <4>1
      <3>2. size'[m] = size[m] /\ data'[m] = data[m] /\ Len(data[m]) = size[m]
        BY <1>8, <1>9, <2>1, InvParts
      <3> QED
        BY <3>1, <3>2, SameNode
    <2>2. CASE m = c
      <3>1. /\ \A j \in 1 .. size[c] : data[c][j] = Held(memory.slot[<<c, j - 1>>])
            /\ \A j \in size[c] .. ArraySize - 1 : memory.slot[<<c, j>>] = NullSlot
        BY <1>2, InvParts DEF Filled
      <3>2. ASSUME NEW j \in 1 .. size[c] + 1
            PROVE  data'[c][j] = Held(memory'.slot[<<c, j - 1>>])
        <4>1. CASE j <= i
          <5>1. j \in 1 .. i /\ j \in 1 .. size[c] /\ j - 1 \in 0 .. i - 1
            BY <1>2, <4>1
          <5> QED
            BY <1>8, <1>10, <3>1, <5>1
        <4>2. CASE j = i + 1
          <5>1. j - 1 = i
            BY <1>2, <4>2
          <5>2. data'[c][j] = e
            BY <1>8, <4>2
          <5>3. Held(memory'.slot[<<c, j - 1>>]) = Held(memory'.slot[<<c, i>>])
            BY <5>1
          <5> QED
            BY <1>11, <5>2, <5>3
        <4>3. CASE j > i + 1
          <5>1. PICK l \in i + 1 .. size[c] : j = l + 1 /\ j - 1 = l
            BY <1>2, <4>3
          <5>2. l \in i + 1 .. ArraySize - 1 /\ l \in 1 .. size[c]
            BY <1>2
          <5>3. data'[c][j] = data[c][l]
            BY <1>8, <5>1
          <5>4. data[c][l] = Held(memory.slot[<<c, l - 1>>])
            BY <3>1, <5>2
          <5>5. memory'.slot[<<c, l>>] = memory.slot[<<c, l - 1>>]
            BY <1>12, <5>2
          <5>6. Held(memory'.slot[<<c, j - 1>>]) = Held(memory'.slot[<<c, l>>])
            BY <5>1
          <5> QED
            BY <5>3, <5>4, <5>5, <5>6
        <4> QED
          BY <1>2, <4>1, <4>2, <4>3
      <3>3. ASSUME NEW j \in size[c] + 1 .. ArraySize - 1
            PROVE  memory'.slot[<<c, j>>] = NullSlot
        <4>1. j \in i + 1 .. ArraySize - 1 /\ j - 1 \in size[c] .. ArraySize - 1
          BY <1>2
        <4> QED
          BY <1>12, <3>1, <4>1
      <3> QED
        BY <1>8, <1>9, <2>2, <3>2, <3>3
    <2> QED
      BY <2>1, <2>2
  <1>14. Filled(memory', size', data')
    BY <1>7, <1>13 DEF Filled
  <1>15. Keyed(size', used', bottom', data')
    <2>1. \A m \in Node : m \in used <=> size[m] > 0
      BY InvParts DEF Keyed
    <2>2. \A m \in Node : m \in used' <=> size'[m] > 0
      BY <1>1, <1>2, <1>9, <2>1
    <2>3. \A m \in used : \A j \in 1 .. size[m] :
            IF m = First /\ j = 1 THEN data[m][j].key = NoKey
            ELSE data[m][j].key # NoKey /\ (bottom => data[m][j].val # NoValue)
      BY InvParts DEF Keyed
    <2>4. ASSUME NEW m \in used', NEW j \in 1 .. size'[m]
          PROVE  IF m = First /\ j = 1 THEN data'[m][j].key = NoKey
                 ELSE data'[m][j].key # NoKey /\ (bottom' => data'[m][j].val # NoValue)
      <3>1. CASE m # c
        <4>1. m \in used /\ m \in Node /\ size'[m] = size[m] /\ data'[m] = data[m]
          BY <1>1, <1>8, <1>9, <3>1, InvParts
        <4> QED
          BY <1>1, <2>3, <4>1
      <3>2. CASE m = c /\ j <= i
        <4>1. j \in 1 .. size[c] /\ j \in 1 .. i /\ data'[c][j] = data[c][j]
          BY <1>2, <1>8, <1>9, <3>2
        <4> QED
          BY <1>1, <1>2, <2>3, <3>2, <4>1
      <3>3. CASE m = c /\ j = i + 1
        <4>1. j # 1 /\ data'[c][j] = e
          BY <1>2, <1>8, <3>3
        <4> QED
          BY <1>1, <1>4, <3>3, <4>1, InvParts
      <3>4. CASE m = c /\ j > i + 1
        <4>1. PICK l \in i + 1 .. size[c] : j = l + 1
          BY <1>2, <1>9, <3>4
        <4>2. l \in 1 .. size[c] /\ l # 1 /\ j # 1
          BY <1>2, <4>1
        <4>3. data'[c][j] = data[c][l]
          BY <1>8, <4>1
        <4> QED
          BY <1>1, <1>2, <2>3, <3>4, <4>2, <4>3
      <3>5. j <= i \/ j = i + 1 \/ j > i + 1
        BY <1>2, <1>9
      <3> QED
        BY <3>1, <3>2, <3>3, <3>4, <3>5
    <2> QED
      BY <1>1, <2>2, <2>4 DEF Keyed
  <1>16. used' \in SUBSET Node /\ bottom' \in BOOLEAN
    BY <1>1, InvParts
  <1> QED
    BY <1>1, <1>7, <1>8, <1>9, <1>14, <1>15, <1>16 DEF IInv, Inv

\* insert_or_modify hands the tail to the node that waits.
LEMMA MoveToWaitingKeeps ==
  ASSUME IInv, NEW k \in Key, MoveToWaiting(k)
  PROVE  IInv'
  <1> DEFINE c == Home(k)
             i == Passed(Read(c), k)
             n == Fresh
  <1>1. /\ First \in used /\ Hit(Read(c), k) /\ used # Node
        /\ memory' = MoveTail(memory, n, 0, c, i)
        /\ size' = [size EXCEPT ![n] = @ + size[c] - i, ![c] = i]
        /\ used' = (used \cup {n}) \ (IF i = 0 THEN {c} ELSE {})
        /\ data' = MovedOver(data, c, n, i)
        /\ bottom' = bottom /\ lost' = lost
    BY DEF MoveToWaiting
  <1>2. /\ c \in used /\ c \in Node /\ i \in 0 .. size[c] - 1 /\ Len(data[c]) = size[c]
        /\ size[c] \in Nat /\ size[c] <= ArraySize /\ ArraySize \in Nat /\ ArraySize > 0
        /\ ~(c = First /\ i = 0)
    <2> HIDE DEF c, i
    <2>1. /\ c \in used /\ c \in Node /\ i \in 0 .. size[c] /\ Len(data[c]) = size[c]
          /\ i < size[c] /\ ~(c = First /\ i = 0)
      BY <1>1, HomeIs DEF c, i
    <2> QED
      BY <2>1, InvParts
  <1>3. n \in Node /\ n \notin used /\ n # c /\ size[n] = 0 /\ n # First
    <2>1. n \in Node /\ n \notin used
      BY <1>1, InvParts, FreshIs
    <2>2. size[n] \in Nat /\ ~(size[n] > 0)
      BY <2>1, InvParts DEF Keyed
    <2> QED
      BY <1>1, <1>2, <2>1, <2>2
  <1> HIDE DEF c, i, n
  <1>4. /\ memory' \in MemoryType /\ Once(memory', lost)
        /\ \A l \in 0 .. size[c] - i - 1 : memory'.slot[<<n, 0 + l>>] = memory.slot[<<c, i + l>>]
        /\ \A l \in i .. size[c] - 1 : memory'.slot[<<c, l>>] = NullSlot
        /\ \A s \in Slot : /\ \A l \in 0 .. size[c] - i - 1 : s # <<n, 0 + l>>
                           /\ \A l \in i .. size[c] - 1 : s # <<c, l>>
                           => memory'.slot[s] = memory.slot[s]
    <2>1. /\ size[c] \in 0 .. ArraySize /\ i \in 0 .. size[c] /\ 0 \in Nat
          /\ 0 + size[c] - i <= ArraySize
      BY <1>2
    <2>2. LET r == MoveTail(memory, n, 0, c, i) IN
          /\ r \in MemoryType /\ Once(r, lost)
          /\ \A l \in 0 .. size[c] - i - 1 : r.slot[<<n, 0 + l>>] = memory.slot[<<c, i + l>>]
          /\ \A l \in i .. size[c] - 1 : r.slot[<<c, l>>] = NullSlot
          /\ \A s \in Slot : /\ \A l \in 0 .. size[c] - i - 1 : s # <<n, 0 + l>>
                             /\ \A l \in i .. size[c] - 1 : s # <<c, l>>
                             => r.slot[s] = memory.slot[s]
      <3>1. c \in Node /\ n \in Node /\ n # c /\ memory \in MemoryType /\ Once(memory, lost)
        BY <1>2, <1>3, InvParts
      <3> QED
        BY <2>1, <3>1, MoveTailIs
    <2> QED
      BY <1>1, <2>2
  <1>5. /\ data' \in [Node -> Seq(EntryType)]
        /\ Len(data'[c]) = i /\ \A j \in 1 .. i : data'[c][j] = data[c][j]
        /\ Len(data'[n]) = size[c] - i
        /\ \A j \in 1 .. size[c] - i : data'[n][j] = data[c][i + j]
        /\ \A m \in Node \ {c, n} : data'[m] = data[m]
    <2>1. i \in 0 .. Len(data[c]) /\ data \in [Node -> Seq(EntryType)]
      BY <1>2, InvParts
    <2>2. LET r == MovedOver(data, c, n, i) IN
          /\ r \in [Node -> Seq(EntryType)]
          /\ Len(r[c]) = i /\ \A j \in 1 .. i : r[c][j] = data[c][j]
          /\ Len(r[n]) = Len(data[c]) - i
          /\ \A j \in 1 .. Len(data[c]) - i : r[n][j] = data[c][i + j]
          /\ \A m \in Node \ {c, n} : r[m] = data[m]
      <3>1. c \in Node /\ n \in Node /\ c # n
        BY <1>2, <1>3
      <3> QED
        BY <2>1, <3>1, MovedOverIs
    <2> QED
      BY <1>1, <1>2, <2>2
  <1>6. /\ size' \in [Node -> 0 .. ArraySize]
        /\ size'[c] = i /\ size'[n] = size[c] - i
        /\ \A m \in Node \ {c, n} : size'[m] = size[m]
    <2>1. i \in 0 .. ArraySize /\ size[c] - i \in 0 .. ArraySize /\ 0 + size[c] - i = size[c] - i
      BY <1>2
    <2> QED
      BY <1>1, <1>2, <1>3, <2>1, InvParts
  <1>7. /\ \A m \in Node, j \in 0 .. ArraySize - 1 : <<m, j>> \in Slot /\ <<m, j>> # NewVal
        /\ NewVal \in Slot /\ \A m \in Node, j \in Nat : NewVal # <<m, j>>
    BY NullIsNone, ArrayAssumption DEF NewVal
  <1>8. ASSUME NEW m \in Node
        PROVE  /\ Len(data'[m]) = size'[m]
               /\ \A j \in 1 .. size'[m] : data'[m][j] = Held(memory'.slot[<<m, j - 1>>])
               /\ \A j \in size'[m] .. ArraySize - 1 : memory'.slot[<<m, j>>] = NullSlot
    <2>1. CASE m \notin {c, n}
      <3>1. \A j \in 0 .. ArraySize - 1 : memory'.slot[<<m, j>>] = memory.slot[<<m, j>>]
        BY <1>4, <1>7, <2>1
      <3>2. size'[m] = size[m] /\ data'[m] = data[m] /\ Len(data[m]) = size[m]
        BY <1>5, <1>6, <2>1, InvParts
      <3> QED
        BY <3>1, <3>2, SameNode
    <2>2. /\ \A j \in 1 .. size[c] : data[c][j] = Held(memory.slot[<<c, j - 1>>])
          /\ \A j \in size[c] .. ArraySize - 1 : memory.slot[<<c, j>>] = NullSlot
          /\ \A j \in 0 .. ArraySize - 1 : memory.slot[<<n, j>>] = NullSlot
      BY <1>2, <1>3, InvParts DEF Filled
    <2>3. CASE m = c
      <3>1. \A j \in 0 .. ArraySize - 1 : j \notin i .. size[c] - 1 =>
              memory'.slot[<<c, j>>] = memory.slot[<<c, j>>]
        <4> SUFFICES ASSUME NEW j \in 0 .. ArraySize - 1, j \notin i .. size[c] - 1
                     PROVE  memory'.slot[<<c, j>>] = memory.slot[<<c, j>>]
          OBVIOUS
        <4>1. \A l \in i .. size[c] - 1 : <<c, j>> # <<c, l>>
          OBVIOUS
        <4> QED
          BY <1>2, <1>3, <1>4, <1>7, <4>1
      <3>2. \A j \in 1 .. i : data'[c][j] = Held(memory'.slot[<<c, j - 1>>])
        <4> TAKE j \in 1 .. i
        <4>1. j \in 1 .. size[c] /\ j - 1 \in 0 .. ArraySize - 1 /\ j - 1 \notin i .. size[c] - 1
          BY <1>2
        <4> QED
          BY <1>5, <2>2, <3>1, <4>1
      <3>3. \A j \in i .. ArraySize - 1 : memory'.slot[<<c, j>>] = NullSlot
        <4> TAKE j \in i .. ArraySize - 1
        <4>1. CASE j \in i .. size[c] - 1
          BY <1>4, <4>1
        <4>2. CASE j \notin i .. size[c] - 1
          <5>1. j \in size[c] .. ArraySize - 1 /\ j \in 0 .. ArraySize - 1
            BY <1>2, <4>2
          <5> QED
            BY <2>2, <3>1, <4>2, <5>1
        <4> QED
          BY <4>1, <4>2
      <3> QED
        BY <1>5, <1>6, <2>3, <3>2, <3>3
    <2>4. CASE m = n
      <3>1. ASSUME NEW j \in 1 .. size[c] - i
            PROVE  data'[n][j] = Held(memory'.slot[<<n, j - 1>>])
        <4>1. PICK l \in 1 .. size[c] : l = i + j /\ l - 1 = i + (j - 1)
          BY <1>2
        <4>2. j - 1 \in 0 .. size[c] - i - 1 /\ 0 + (j - 1) = j - 1
          BY <1>2
        <4>3. memory'.slot[<<n, j - 1>>] = memory.slot[<<c, l - 1>>]
          BY <1>4, <4>1, <4>2
        <4> QED
          BY <1>5, <2>2, <4>1, <4>3
      <3>2. ASSUME NEW j \in size[c] - i .. ArraySize - 1
            PROVE  memory'.slot[<<n, j>>] = NullSlot
        <4>1. j \in 0 .. ArraySize - 1 /\ \A l \in 0 .. size[c] - i - 1 : 0 + l # j
          BY <1>2
        <4>2. \A l \in 0 .. size[c] - i - 1 : <<n, j>> # <<n, 0 + l>>
          BY <4>1
        <4>3. \A l \in i .. size[c] - 1 : <<n, j>> # <<c, l>>
          BY <1>3
        <4> QED
          BY <1>3, <1>4, <1>7, <2>2, <4>1, <4>2, <4>3
      <3> QED
        BY <1>5, <1>6, <2>4, <3>1, <3>2
    <2> QED
      BY <2>1, <2>3, <2>4
  <1>9. Filled(memory', size', data')
    <2>1. memory'.slot[NewVal] = NullSlot
      <3>1. \A l \in 0 .. size[c] - i - 1 : NewVal # <<n, 0 + l>>
        <4> TAKE l \in 0 .. size[c] - i - 1
        <4>1. 0 + l \in Nat
          OBVIOUS
        <4> QED
          BY <1>3, <1>7, <4>1
      <3>2. \A l \in i .. size[c] - 1 : NewVal # <<c, l>>
        <4> TAKE l \in i .. size[c] - 1
        <4>1. l \in Nat
          BY <1>2
        <4> QED
          BY <1>2, <1>7, <4>1
      <3>3. memory.slot[NewVal] = NullSlot
        BY InvParts DEF Filled
      <3> QED
        BY <1>4, <1>7, <3>1, <3>2, <3>3
    <2> QED
      BY <1>8, <2>1 DEF Filled
  <1>10. Keyed(size', used', bottom', data')
    <2>1. \A m \in Node : m \in used <=> size[m] > 0
      BY InvParts DEF Keyed
    <2>2. \A m \in Node : m \in used' <=> size'[m] > 0
      <3> TAKE m \in Node
      <3>1. CASE m = c
        BY <1>1, <1>2, <1>3, <1>6, <3>1
      <3>2. CASE m = n
        BY <1>1, <1>2, <1>3, <1>6, <3>2
      <3>3. CASE m \notin {c, n}
        BY <1>1, <1>6, <2>1, <3>3
      <3> QED
        BY <3>1, <3>2, <3>3
    <2>3. \A m \in used : \A j \in 1 .. size[m] :
            IF m = First /\ j = 1 THEN data[m][j].key = NoKey
            ELSE data[m][j].key # NoKey /\ (bottom => data[m][j].val # NoValue)
      BY InvParts DEF Keyed
    <2>4. ASSUME NEW m \in used', NEW j \in 1 .. size'[m]
          PROVE  IF m = First /\ j = 1 THEN data'[m][j].key = NoKey
                 ELSE data'[m][j].key # NoKey /\ (bottom' => data'[m][j].val # NoValue)
      <3>1. CASE m \notin {c, n}
        <4>1. m \in used /\ m \in Node /\ size'[m] = size[m] /\ data'[m] = data[m]
          BY <1>1, <1>5, <1>6, <3>1, InvParts
        <4> QED
          BY <1>1, <2>3, <4>1
      <3>2. CASE m = c
        <4>1. j \in 1 .. size[c] /\ j \in 1 .. i
          BY <1>2, <1>6, <3>2
        <4>2. data'[c][j] = data[c][j]
          BY <1>5, <4>1
        <4> QED
          BY <1>1, <1>2, <2>3, <3>2, <4>1, <4>2
      <3>3. CASE m = n
        <4>1. PICK l \in 1 .. size[c] : l = i + j /\ ~(c = First /\ l = 1)
          BY <1>2, <1>6, <3>3
        <4>2. data'[n][j] = data[c][l]
          BY <1>5, <1>6, <3>3, <4>1
        <4> QED
          BY <1>1, <1>2, <1>3, <2>3, <3>3, <4>1, <4>2
      <3> QED
        BY <3>1, <3>2, <3>3
    <2>5. First \in used'
      BY <1>1, <1>2
    <2> QED
      BY <2>2, <2>4, <2>5 DEF Keyed
  <1>11. used' \in SUBSET Node /\ bottom' \in BOOLEAN
    BY <1>1, <1>3, InvParts
  <1> QED
    BY <1>1, <1>4, <1>5, <1>6, <1>9, <1>10, <1>11 DEF IInv, Inv

\* A new value over the old one, which is lost.
LEMMA WriteValueKeeps ==
  ASSUME IInv, NEW k \in Key, NEW v \in Value, WriteValue(k, v)
  PROVE  IInv'
  <1> DEFINE c == Home(k)
             i == Passed(Read(c), k)
             old == memory.slot[<<c, i>>]
  <1>1. /\ First \in used /\ bottom /\ Hit(Read(c), k) /\ Unmade(memory, v) # {}
        /\ memory' = WithVal(memory, <<c, i>>, v)
        /\ lost' = lost \cup {old.val}
        /\ data' = [data EXCEPT ![c][i + 1].val = v]
        /\ size' = size /\ used' = used /\ bottom' = bottom
    BY DEF WriteValue
  <1>2. /\ c \in used /\ c \in Node /\ i \in 0 .. size[c] - 1 /\ Len(data[c]) = size[c]
        /\ size[c] \in Nat /\ size[c] <= ArraySize /\ ArraySize \in Nat
        /\ ~(c = First /\ i = 0)
    <2> HIDE DEF c, i
    <2>1. /\ c \in used /\ c \in Node /\ i \in 0 .. size[c] /\ Len(data[c]) = size[c]
          /\ i < size[c] /\ ~(c = First /\ i = 0)
      BY <1>1, HomeIs DEF c, i
    <2> QED
      BY <2>1, InvParts
  <1> HIDE DEF c, i
  <1>3. /\ \A m \in Node, j \in 0 .. ArraySize - 1 : <<m, j>> \in Slot /\ <<m, j>> # NewVal
        /\ NewVal \in Slot
    BY NullIsNone
  <1>4. /\ <<c, i>> \in Slot /\ <<c, i>> # NewVal /\ i + 1 \in 1 .. size[c]
        /\ (i + 1) - 1 = i /\ i \in 0 .. ArraySize - 1
    <2>1. i \in 0 .. ArraySize - 1 /\ i + 1 \in 1 .. size[c] /\ (i + 1) - 1 = i
      BY <1>2
    <2> QED
      BY <1>2, <1>3, <2>1
  <1>5. old \in SlotType /\ data[c][i + 1] = Held(old) /\ old.val # Null
    <2>1. old \in SlotType
      BY <1>4, InvParts, MemoryParts
    <2>2. \A j \in 1 .. size[c] : data[c][j] = Held(memory.slot[<<c, j - 1>>])
      BY <1>2, InvParts DEF Filled
    <2>3. data[c][i + 1] = Held(old)
      BY <1>4, <2>2
    <2>4. data[c][i + 1].val # NoValue
      <3>1. \A j \in 1 .. size[c] : ~(c = First /\ j = 1) => data[c][j].val # NoValue
        BY <1>1, <1>2, InvParts DEF Keyed
      <3>2. ~(c = First /\ i + 1 = 1)
        BY <1>2
      <3> QED
        BY <1>4, <3>1, <3>2
    <2> QED
      BY <2>1, <2>3, <2>4, HeldEntry
  <1>6. /\ memory' \in MemoryType /\ Once(memory', lost')
        /\ memory'.slot[<<c, i>>].val # Null /\ memory'.slot[<<c, i>>].val[1] = v
        /\ memory'.slot[<<c, i>>].key = old.key /\ memory'.slot[<<c, i>>].down = old.down
        /\ \A q \in Slot \ {<<c, i>>} : memory'.slot[q] = memory.slot[q]
    <2>1. memory \in MemoryType /\ Once(memory, lost)
      BY InvParts
    <2>2. LET r == WithVal(memory, <<c, i>>, v) IN
          /\ r \in MemoryType /\ Once(r, lost \cup ({memory.slot[<<c, i>>].val} \ {Null}))
          /\ r.slot[<<c, i>>].val # Null /\ r.slot[<<c, i>>].val[1] = v
          /\ r.slot[<<c, i>>].key = memory.slot[<<c, i>>].key
          /\ r.slot[<<c, i>>].down = memory.slot[<<c, i>>].down
          /\ \A q \in Slot \ {<<c, i>>} : r.slot[q] = memory.slot[q]
      <3> DEFINE s == <<c, i>>
      <3>1. s \in Slot /\ Unmade(memory, v) # {}
        BY <1>1, <1>4
      <3> HIDE DEF s
      <3>2. LET r == WithVal(memory, s, v) IN
            /\ r \in MemoryType /\ Once(r, lost \cup ({memory.slot[s].val} \ {Null}))
            /\ r.slot[s].val # Null /\ r.slot[s].val[1] = v
            /\ r.slot[s].key = memory.slot[s].key /\ r.slot[s].down = memory.slot[s].down
            /\ \A q \in Slot \ {s} : r.slot[q] = memory.slot[q]
        BY <2>1, <3>1, ValMade
      <3> QED
        BY <3>2 DEF s
    <2>3. lost \cup ({old.val} \ {Null}) = lost \cup {old.val}
      BY <1>5
    <2> QED
      BY <1>1, <2>2, <2>3
  <1> DEFINE e == [data[c][i + 1] EXCEPT !.val = v]
  <1>7. /\ data[c] \in Seq(EntryType) /\ data[c][i + 1] \in EntryType
        /\ e \in EntryType /\ e.key = data[c][i + 1].key /\ e.val = v
        /\ Held(memory'.slot[<<c, i>>]) = e
    <2>1. data[c] \in Seq(EntryType) /\ data[c][i + 1] \in EntryType
      BY <1>2, <1>4, InvParts, LenProperties
    <2>2. data[c][i + 1] = Entry(IF old.key = Null THEN NoKey ELSE old.key[1], old.val[1], old.down)
      BY <1>5 DEF Held
    <2>3. Held(memory'.slot[<<c, i>>])
            = Entry(IF old.key = Null THEN NoKey ELSE old.key[1], v, old.down)
      BY <1>6 DEF Held
    <2> QED
      BY <2>1, <2>2, <2>3 DEF Entry, EntryType
  <1>8. /\ data' \in [Node -> Seq(EntryType)]
        /\ Len(data'[c]) = size[c] /\ data'[c][i + 1] = e
        /\ \A j \in 1 .. size[c] : j # i + 1 => data'[c][j] = data[c][j]
        /\ \A m \in Node \ {c} : data'[m] = data[m]
    <2> DEFINE s == [data[c] EXCEPT ![i + 1] = e]
    <2>1. data' = [data EXCEPT ![c] = s]
      BY <1>1
    <2>2. DOMAIN data[c] = 1 .. size[c]
      BY <1>2, <1>7, LenProperties
    <2>3. /\ s \in Seq(EntryType) /\ Len(s) = Len(data[c]) /\ s[i + 1] = e
          /\ \A j \in 1 .. size[c] : j # i + 1 => s[j] = data[c][j]
      <3> HIDE DEF e
      <3>1. s \in Seq(EntryType) /\ Len(s) = Len(data[c])
        BY <1>2, <1>4, <1>7, ExceptSeq
      <3> QED
        BY <1>4, <2>2, <3>1
    <2> HIDE DEF s, e
    <2> QED
      BY <1>2, <2>1, <2>3, InvParts
  <1> HIDE DEF e
  <1>9. ASSUME NEW m \in Node
        PROVE  /\ Len(data'[m]) = size'[m]
               /\ \A j \in 1 .. size'[m] : data'[m][j] = Held(memory'.slot[<<m, j - 1>>])
               /\ \A j \in size'[m] .. ArraySize - 1 : memory'.slot[<<m, j>>] = NullSlot
    <2>1. CASE m # c
      <3>1. \A j \in 0 .. ArraySize - 1 : memory'.slot[<<m, j>>] = memory.slot[<<m, j>>]
        <4> TAKE j \in 0 .. ArraySize - 1
        <4>1. <<m, j>> \in Slot \ {<<c, i>>}
          BY <1>3, <2>1
        <4> QED
          BY <1>6, <4>1
      <3>2. size'[m] = size[m] /\ data'[m] = data[m] /\ Len(data[m]) = size[m]
        BY <1>1, <1>8, <2>1, InvParts
      <3> QED
        BY <3>1, <3>2, SameNode
    <2>2. CASE m = c
      <3>1. /\ \A j \in 1 .. size[c] : data[c][j] = Held(memory.slot[<<c, j - 1>>])
            /\ \A j \in size[c] .. ArraySize - 1 : memory.slot[<<c, j>>] = NullSlot
        BY <1>2, InvParts DEF Filled
      <3>2. \A j \in 0 .. ArraySize - 1 : j # i => memory'.slot[<<c, j>>] = memory.slot[<<c, j>>]
        <4> SUFFICES ASSUME NEW j \in 0 .. ArraySize - 1, j # i
                     PROVE  memory'.slot[<<c, j>>] = memory.slot[<<c, j>>]
          OBVIOUS
        <4>1. <<c, j>> \in Slot \ {<<c, i>>}
          BY <1>2, <1>3
        <4> QED
          BY <1>6, <4>1
      <3>3. ASSUME NEW j \in 1 .. size[c]
            PROVE  data'[c][j] = Held(memory'.slot[<<c, j - 1>>])
        <4>1. CASE j = i + 1
          <5>1. Held(memory'.slot[<<c, j - 1>>]) = Held(memory'.slot[<<c, i>>])
            BY <1>4, <4>1
          <5>2. data'[c][j] = e
            BY <1>8, <4>1
          <5> QED
            BY <1>7, <5>1, <5>2
        <4>2. CASE j # i + 1
          <5>1. j - 1 \in 0 .. ArraySize - 1 /\ j - 1 # i
            BY <1>2, <4>2
          <5>2. Held(memory'.slot[<<c, j - 1>>]) = Held(memory.slot[<<c, j - 1>>])
            BY <3>2, <5>1
          <5>3. data'[c][j] = data[c][j]
            BY <1>8, <4>2
          <5> QED
            BY <3>1, <5>2, <5>3
        <4> QED
          BY <4>1, <4>2
      <3>4. ASSUME NEW j \in size[c] .. ArraySize - 1
            PROVE  memory'.slot[<<c, j>>] = NullSlot
        <4>1. j \in 0 .. ArraySize - 1 /\ j # i
          BY <1>2
        <4> QED
          BY <3>1, <3>2, <4>1
      <3> QED
        BY <1>1, <1>8, <2>2, <3>3, <3>4
    <2> QED
      BY <2>1, <2>2
  <1>10. Filled(memory', size', data')
    <2>1. memory'.slot[NewVal] = NullSlot
      <3>1. memory.slot[NewVal] = NullSlot
        BY InvParts DEF Filled
      <3> QED
        BY <1>3, <1>4, <1>6, <3>1
    <2> QED
      BY <1>9, <2>1 DEF Filled
  <1>11. Keyed(size', used', bottom', data')
    <2>1. \A m \in used : \A j \in 1 .. size[m] :
            IF m = First /\ j = 1 THEN data[m][j].key = NoKey
            ELSE data[m][j].key # NoKey /\ (bottom => data[m][j].val # NoValue)
      BY InvParts DEF Keyed
    <2>2. ASSUME NEW m \in used, NEW j \in 1 .. size[m]
          PROVE  IF m = First /\ j = 1 THEN data'[m][j].key = NoKey
                 ELSE data'[m][j].key # NoKey /\ (bottom => data'[m][j].val # NoValue)
      <3>1. m \in Node /\ v # NoValue
        BY InvParts
      <3>2. CASE m = c /\ j = i + 1
        <4>1. ~(m = First /\ j = 1)
          BY <1>2, <3>2
        <4>2. data'[m][j] = e
          BY <1>8, <3>2
        <4>3. data[m][j] = data[c][i + 1]
          BY <3>2
        <4> QED
          BY <1>7, <2>1, <3>1, <4>1, <4>2, <4>3
      <3>3. CASE ~(m = c /\ j = i + 1)
        <4>1. data'[m][j] = data[m][j]
          BY <1>8, <3>1, <3>3
        <4> QED
          BY <2>1, <4>1
      <3> QED
        BY <3>2, <3>3
    <2>3. (\A m \in Node : m \in used <=> size[m] > 0) /\ First \in used
      BY <1>1, InvParts DEF Keyed
    <2> QED
      BY <1>1, <2>2, <2>3 DEF Keyed
  <1> QED
    BY <1>1, <1>6, <1>8, <1>10, <1>11, InvParts DEF IInv, Inv

\* delete_value in a node that keeps other entries.
LEMMA ShortenKeeps ==
  ASSUME IInv, NEW k \in Key, DeleteValue(k), size[Home(k)] > 1
  PROVE  IInv'
  <1> DEFINE c == Home(k)
             i == Passed(Read(c), k)
             cleared == Clear(memory, <<c, i>>)
  <1>1. /\ First \in used /\ Hit(Read(c), k) /\ size[c] > 1
        /\ memory' = ShiftLeft(cleared, c, i)
        /\ size' = [size EXCEPT ![c] = @ - 1]
        /\ data' = [data EXCEPT ![c] = Without(data[c], i)]
        /\ used' = used /\ bottom' = bottom /\ lost' = lost
    BY DEF DeleteValue
  <1>2. /\ c \in used /\ c \in Node /\ i \in 0 .. size[c] - 1 /\ Len(data[c]) = size[c]
        /\ size[c] \in Nat /\ size[c] <= ArraySize /\ ArraySize \in Nat
        /\ ~(c = First /\ i = 0)
    <2> HIDE DEF c, i
    <2>1. /\ c \in used /\ c \in Node /\ i \in 0 .. size[c] /\ Len(data[c]) = size[c]
          /\ i < size[c] /\ ~(c = First /\ i = 0)
      BY <1>1, HomeIs DEF c, i
    <2> QED
      BY <2>1, InvParts
  <1> HIDE DEF c, i
  <1>3. /\ \A m \in Node, j \in 0 .. ArraySize - 1 : <<m, j>> \in Slot /\ <<m, j>> # NewVal
        /\ NewVal \in Slot
    BY NullIsNone
  <1>4. i \in 0 .. ArraySize - 1 /\ <<c, i>> \in Slot
    <2>1. i \in 0 .. ArraySize - 1
      BY <1>2
    <2> QED
      BY <1>2, <1>3, <2>1
  <1>5. /\ cleared \in MemoryType /\ Once(cleared, lost)
        /\ cleared.slot[<<c, i>>] = NullSlot
        /\ \A s \in Slot \ {<<c, i>>} : cleared.slot[s] = memory.slot[s]
    <2>1. memory \in MemoryType /\ Once(memory, lost) /\ memory.slot \in [Slot -> SlotType]
      BY InvParts, MemoryParts
    <2>2. Once(cleared, lost) /\ cleared.slot = [memory.slot EXCEPT ![<<c, i>>] = NullSlot]
      BY <1>4, <2>1, ClearIs
    <2> HIDE DEF cleared
    <2> QED
      BY <1>4, <2>1, <2>2 DEF Once
  <1> HIDE DEF cleared
  <1>6. /\ memory' \in MemoryType /\ Once(memory', lost)
        /\ \A j \in i .. ArraySize - 2 : memory'.slot[<<c, j>>] = cleared.slot[<<c, j + 1>>]
        /\ memory'.slot[<<c, ArraySize - 1>>] = NullSlot
        /\ \A s \in Slot : (\A j \in i .. ArraySize - 1 : s # <<c, j>>)
                           => memory'.slot[s] = cleared.slot[s]
    <2>1. LET r == ShiftLeft(cleared, c, i) IN
          /\ r \in MemoryType /\ Once(r, lost)
          /\ \A j \in i .. ArraySize - 2 : r.slot[<<c, j>>] = cleared.slot[<<c, j + 1>>]
          /\ r.slot[<<c, ArraySize - 1>>] = NullSlot
          /\ \A s \in Slot : (\A j \in i .. ArraySize - 1 : s # <<c, j>>) => r.slot[s] = cleared.slot[s]
      <3>1. c \in Node
        BY <1>2
      <3> QED
        BY <1>4, <1>5, <3>1, ShiftLeftIs
    <2> QED
      BY <1>1, <2>1
  <1>7. /\ data' \in [Node -> Seq(EntryType)]
        /\ Len(data'[c]) = size[c] - 1
        /\ \A j \in 1 .. i : data'[c][j] = data[c][j]
        /\ \A j \in i + 1 .. size[c] - 1 : data'[c][j] = data[c][j + 1]
        /\ \A m \in Node \ {c} : data'[m] = data[m]
    <2> DEFINE s == data[c]
               r == Without(s, i)
    <2>1. data \in [Node -> Seq(EntryType)] /\ s \in Seq(EntryType) /\ Len(s) = size[c]
      BY <1>2, InvParts
    <2> HIDE DEF s
    <2>2. i \in 0 .. Len(s) /\ i < Len(s)
      BY <1>2, <2>1
    <2>3. /\ r \in Seq(EntryType) /\ Len(r) = Len(s) - 1
          /\ \A j \in 1 .. i : r[j] = s[j]
          /\ \A j \in i + 1 .. Len(s) - 1 : r[j] = s[j + 1]
      BY <2>1, <2>2, WithoutIs
    <2>4. data' = [data EXCEPT ![c] = r]
      BY <1>1 DEF s
    <2> HIDE DEF r
    <2>5. data' \in [Node -> Seq(EntryType)] /\ data'[c] = r /\ \A m \in Node \ {c} : data'[m] = data[m]
      BY <1>2, <2>1, <2>3, <2>4
    <2> QED
      BY <2>1, <2>3, <2>5 DEF s
  <1>8. /\ size' \in [Node -> 0 .. ArraySize]
        /\ size'[c] = size[c] - 1 /\ \A m \in Node \ {c} : size'[m] = size[m]
    <2>1. size[c] - 1 \in 0 .. ArraySize
      BY <1>1, <1>2
    <2> QED
      BY <1>1, <1>2, <2>1, InvParts
  <1>9. \A j \in 0 .. i - 1 : memory'.slot[<<c, j>>] = memory.slot[<<c, j>>]
    <2> TAKE j \in 0 .. i - 1
    <2>1. j \in 0 .. ArraySize - 1 /\ j # i /\ \A l \in i .. ArraySize - 1 : j # l
      BY <1>2
    <2>2. <<c, j>> \in Slot \ {<<c, i>>} /\ \A l \in i .. ArraySize - 1 : <<c, j>> # <<c, l>>
      BY <1>2, <1>3, <2>1
    <2> QED
      BY <1>5, <1>6, <2>2
  <1>10. \A j \in i .. ArraySize - 2 : memory'.slot[<<c, j>>] = memory.slot[<<c, j + 1>>]
    <2> TAKE j \in i .. ArraySize - 2
    <2>1. j + 1 \in 0 .. ArraySize - 1 /\ j + 1 # i
      BY <1>2
    <2>2. <<c, j + 1>> \in Slot \ {<<c, i>>}
      BY <1>2, <1>3, <2>1
    <2> QED
      BY <1>5, <1>6, <2>2
  <1>11. ASSUME NEW m \in Node
         PROVE  /\ Len(data'[m]) = size'[m]
                /\ \A j \in 1 .. size'[m] : data'[m][j] = Held(memory'.slot[<<m, j - 1>>])
                /\ \A j \in size'[m] .. ArraySize - 1 : memory'.slot[<<m, j>>] = NullSlot
    <2>1. CASE m # c
      <3>1. \A j \in 0 .. ArraySize - 1 : memory'.slot[<<m, j>>] = memory.slot[<<m, j>>]
        <4> TAKE j \in 0 .. ArraySize - 1
        <4>1. <<m, j>> \in Slot \ {<<c, i>>} /\ \A l \in i .. ArraySize - 1 : <<m, j>> # <<c, l>>
          BY <1>3, <2>1
        <4> QED
          BY <1>5, <1>6, <4>1
      <3>2. size'[m] = size[m] /\ data'[m] = data[m] /\ Len(data[m]) = size[m]
        BY <1>7, <1>8, <2>1, InvParts
      <3> QED
        BY <3>1, <3>2, SameNode
    <2>2. CASE m = c
      <3>1. /\ \A j \in 1 .. size[c] : data[c][j] = Held(memory.slot[<<c, j - 1>>])
            /\ \A j \in size[c] .. ArraySize - 1 : memory.slot[<<c, j>>] = NullSlot
        BY <1>2, InvParts DEF Filled
      <3>2. ASSUME NEW j \in 1 .. size[c] - 1
            PROVE  data'[c][j] = Held(memory'.slot[<<c, j - 1>>])
        <4>1. CASE j <= i
          <5>1. j \in 1 .. i /\ j \in 1 .. size[c] /\ j - 1 \in 0 .. i - 1
            BY <1>2, <4>1
          <5> QED
            BY <1>7, <1>9, <3>1, <5>1
        <4>2. CASE j > i
          <5>1. j \in i + 1 .. size[c] - 1
            BY <1>2, <4>2
          <5>2. j - 1 \in i .. ArraySize - 2 /\ (j - 1) + 1 = j /\ j + 1 \in 1 .. size[c] /\ (j + 1) - 1 = j
            BY <1>2, <4>2
          <5>3. data'[c][j] = data[c][j + 1]
            BY <1>7, <5>1
          <5>4. data[c][j + 1] = Held(memory.slot[<<c, j>>])
            BY <3>1, <5>2
          <5>5. memory'.slot[<<c, j - 1>>] = memory.slot[<<c, j>>]
            BY <1>10, <5>2
          <5> QED
            BY <5>3, <5>4, <5>5
        <4> QED
          BY <1>2, <4>1, <4>2
      <3>3. ASSUME NEW j \in size[c] - 1 .. ArraySize - 1
            PROVE  memory'.slot[<<c, j>>] = NullSlot
        <4>1. CASE j = ArraySize - 1
          BY <1>6, <4>1
        <4>2. CASE j # ArraySize - 1
          <5>1. j \in i .. ArraySize - 2 /\ j + 1 \in size[c] .. ArraySize - 1
            BY <1>2, <4>2
          <5> QED
            BY <1>10, <3>1, <5>1
        <4> QED
          BY <4>1, <4>2
      <3> QED
        BY <1>7, <1>8, <2>2, <3>2, <3>3
    <2> QED
      BY <2>1, <2>2
  <1>12. Filled(memory', size', data')
    <2>1. memory'.slot[NewVal] = NullSlot
      <3>1. memory.slot[NewVal] = NullSlot
        BY InvParts DEF Filled
      <3>2. \A l \in i .. ArraySize - 1 : l \in 0 .. ArraySize - 1
        BY <1>2
      <3>3. NewVal \in Slot \ {<<c, i>>} /\ \A l \in i .. ArraySize - 1 : NewVal # <<c, l>>
        BY <1>2, <1>3, <1>4, <3>2
      <3> QED
        BY <1>5, <1>6, <3>1, <3>3
    <2> QED
      BY <1>11, <2>1 DEF Filled
  <1>13. Keyed(size', used', bottom', data')
    <2>1. \A m \in Node : m \in used <=> size[m] > 0
      BY InvParts DEF Keyed
    <2>2. \A m \in Node : m \in used' <=> size'[m] > 0
      BY <1>1, <1>2, <1>8, <2>1
    <2>3. \A m \in used : \A j \in 1 .. size[m] :
            IF m = First /\ j = 1 THEN data[m][j].key = NoKey
            ELSE data[m][j].key # NoKey /\ (bottom => data[m][j].val # NoValue)
      BY InvParts DEF Keyed
    <2>4. ASSUME NEW m \in used', NEW j \in 1 .. size'[m]
          PROVE  IF m = First /\ j = 1 THEN data'[m][j].key = NoKey
                 ELSE data'[m][j].key # NoKey /\ (bottom' => data'[m][j].val # NoValue)
      <3>1. CASE m # c
        <4>1. m \in used /\ m \in Node /\ size'[m] = size[m] /\ data'[m] = data[m]
          BY <1>1, <1>7, <1>8, <3>1, InvParts
        <4> QED
          BY <1>1, <2>3, <4>1
      <3>2. CASE m = c /\ j <= i
        <4>1. j \in 1 .. size[c] /\ j \in 1 .. i
          BY <1>2, <1>8, <3>2
        <4>2. data'[c][j] = data[c][j]
          BY <1>7, <4>1
        <4> QED
          BY <1>1, <1>2, <2>3, <3>2, <4>1, <4>2
      <3>3. CASE m = c /\ j > i
        <4>1. PICK l \in 1 .. size[c] : l = j + 1 /\ l # 1 /\ j \in i + 1 .. size[c] - 1
          BY <1>2, <1>8, <3>3
        <4>2. data'[c][j] = data[c][l]
          BY <1>7, <4>1
        <4>3. ~(m = First /\ j = 1)
          BY <1>1, <1>2, <2>3, <3>3, <4>1
        <4> QED
          BY <1>1, <1>2, <2>3, <3>3, <4>1, <4>2, <4>3
      <3>4. j <= i \/ j > i
        BY <1>2, <1>8
      <3> QED
        BY <3>1, <3>2, <3>3, <3>4
    <2> QED
      BY <1>1, <2>2, <2>4 DEF Keyed
  <1> QED
    BY <1>1, <1>6, <1>7, <1>8, <1>12, <1>13, InvParts DEF IInv, Inv

\* delete_value of the only entry of a node: the node is deleted with it.
LEMMA EmptyKeeps ==
  ASSUME IInv, NEW k \in Key, DeleteValue(k), ~(size[Home(k)] > 1)
  PROVE  IInv'
  <1> DEFINE c == Home(k)
             i == Passed(Read(c), k)
             cleared == Clear(memory, <<c, i>>)
  <1>1. /\ First \in used /\ Hit(Read(c), k) /\ ~(size[c] > 1)
        /\ memory' = DeleteNodes(cleared, {c})
        /\ size' = [size EXCEPT ![c] = @ - 1]
        /\ data' = [data EXCEPT ![c] = Without(data[c], i)]
        /\ used' = used \ {c} /\ bottom' = bottom /\ lost' = lost
    BY DEF DeleteValue
  <1>2. /\ c \in used /\ c \in Node /\ i = 0 /\ Len(data[c]) = size[c]
        /\ size[c] = 1 /\ ArraySize \in Nat /\ ArraySize > 0 /\ c # First
    <2> HIDE DEF c, i
    <2>1. /\ c \in used /\ c \in Node /\ i \in 0 .. size[c] /\ Len(data[c]) = size[c]
          /\ i < size[c] /\ ~(c = First /\ i = 0)
      BY <1>1, HomeIs DEF c, i
    <2> QED
      BY <1>1, <2>1, InvParts
  <1> HIDE DEF c, i
  <1>3. /\ \A m \in Node, j \in 0 .. ArraySize - 1 : <<m, j>> \in Slot /\ <<m, j>> # NewVal
        /\ NewVal \in Slot
    BY NullIsNone
  <1>4. <<c, i>> \in Slot
    BY <1>2, <1>3
  <1>5. /\ cleared \in MemoryType /\ Once(cleared, lost)
        /\ \A s \in Slot \ {<<c, i>>} : cleared.slot[s] = memory.slot[s]
    <2>1. memory \in MemoryType /\ Once(memory, lost) /\ memory.slot \in [Slot -> SlotType]
      BY InvParts, MemoryParts
    <2>2. Once(cleared, lost) /\ cleared.slot = [memory.slot EXCEPT ![<<c, i>>] = NullSlot]
      BY <1>4, <2>1, ClearIs
    <2> HIDE DEF cleared
    <2> QED
      BY <1>4, <2>1, <2>2 DEF Once
  <1> HIDE DEF cleared
  <1>6. /\ memory' \in MemoryType /\ Once(memory', lost)
        /\ \A j \in 0 .. ArraySize - 1 : memory'.slot[<<c, j>>] = NullSlot
        /\ \A s \in Slot : (s = NewVal \/ s[1] # c) => memory'.slot[s] = cleared.slot[s]
    <2>1. {c} \in SUBSET Node
      BY <1>2
    <2>2. LET r == DeleteNodes(cleared, {c}) IN
          /\ r \in MemoryType /\ Once(r, lost)
          /\ \A n \in {c}, j \in 0 .. ArraySize - 1 : r.slot[<<n, j>>] = NullSlot
          /\ \A s \in Slot : (s = NewVal \/ s[1] \notin {c}) => r.slot[s] = cleared.slot[s]
      BY <1>5, <2>1, DeleteIs
    <2> QED
      BY <1>1, <2>2
  <1>7. /\ data' \in [Node -> Seq(EntryType)] /\ Len(data'[c]) = 0
        /\ \A m \in Node \ {c} : data'[m] = data[m]
    <2> DEFINE s == data[c]
               r == Without(s, i)
    <2>1. data \in [Node -> Seq(EntryType)] /\ s \in Seq(EntryType) /\ Len(s) = size[c]
      BY <1>2, InvParts
    <2> HIDE DEF s
    <2>2. i \in 0 .. Len(s) /\ i < Len(s)
      BY <1>2, <2>1
    <2>3. r \in Seq(EntryType) /\ Len(r) = Len(s) - 1
      BY <2>1, <2>2, WithoutIs
    <2>4. data' = [data EXCEPT ![c] = r]
      BY <1>1 DEF s
    <2> HIDE DEF r
    <2>5. data' \in [Node -> Seq(EntryType)] /\ data'[c] = r /\ \A m \in Node \ {c} : data'[m] = data[m]
      BY <1>2, <2>1, <2>3, <2>4
    <2>6. Len(r) = 0
      BY <1>2, <2>1, <2>3
    <2> QED
      BY <2>5, <2>6
  <1>8. /\ size' \in [Node -> 0 .. ArraySize]
        /\ size'[c] = 0 /\ \A m \in Node \ {c} : size'[m] = size[m]
    <2>1. size[c] - 1 \in 0 .. ArraySize /\ size[c] - 1 = 0
      BY <1>2
    <2> QED
      BY <1>1, <1>2, <2>1, InvParts
  <1>9. ASSUME NEW m \in Node
        PROVE  /\ Len(data'[m]) = size'[m]
               /\ \A j \in 1 .. size'[m] : data'[m][j] = Held(memory'.slot[<<m, j - 1>>])
               /\ \A j \in size'[m] .. ArraySize - 1 : memory'.slot[<<m, j>>] = NullSlot
    <2>1. CASE m # c
      <3>1. \A j \in 0 .. ArraySize - 1 : memory'.slot[<<m, j>>] = memory.slot[<<m, j>>]
        <4> TAKE j \in 0 .. ArraySize - 1
        <4>1. <<m, j>> \in Slot \ {<<c, i>>} /\ <<m, j>>[1] # c
          BY <1>3, <2>1
        <4> QED
          BY <1>5, <1>6, <4>1
      <3>2. size'[m] = size[m] /\ data'[m] = data[m] /\ Len(data[m]) = size[m]
        BY <1>7, <1>8, <2>1, InvParts
      <3> QED
        BY <3>1, <3>2, SameNode
    <2>2. CASE m = c
      BY <1>6, <1>7, <1>8, <2>2
    <2> QED
      BY <2>1, <2>2
  <1>10. Filled(memory', size', data')
    <2>1. memory'.slot[NewVal] = NullSlot
      <3>1. memory.slot[NewVal] = NullSlot
        BY InvParts DEF Filled
      <3>2. NewVal \in Slot \ {<<c, i>>}
        BY <1>2, <1>3
      <3> QED
        BY <1>5, <1>6, <3>1, <3>2
    <2> QED
      BY <1>9, <2>1 DEF Filled
  <1>11. Keyed(size', used', bottom', data')
    <2>1. \A m \in Node : m \in used <=> size[m] > 0
      BY InvParts DEF Keyed
    <2>2. \A m \in Node : m \in used' <=> size'[m] > 0
      BY <1>1, <1>2, <1>8, <2>1
    <2>3. \A m \in used : \A j \in 1 .. size[m] :
            IF m = First /\ j = 1 THEN data[m][j].key = NoKey
            ELSE data[m][j].key # NoKey /\ (bottom => data[m][j].val # NoValue)
      BY InvParts DEF Keyed
    <2>4. \A m \in used' : m \in used /\ size'[m] = size[m] /\ data'[m] = data[m]
      BY <1>1, <1>7, <1>8, InvParts
    <2>5. First \in used'
      BY <1>1, <1>2
    <2> QED
      BY <1>1, <2>2, <2>3, <2>4, <2>5 DEF Keyed
  <1> QED
    BY <1>1, <1>6, <1>7, <1>8, <1>10, <1>11, InvParts DEF IInv, Inv

\* The destructor leaves no node and no object but the replaced values.
LEMMA DestructorKeeps ==
  ASSUME IInv, Destructor
  PROVE  IInv'
  <1>1. /\ memory' = DeleteNodes(memory, used)
        /\ size' = [n \in Node |-> 0] /\ used' = {} /\ data' = [n \in Node |-> <<>>]
        /\ bottom' = bottom /\ lost' = lost
    BY DEF Destructor
  <1>2. ArraySize \in Nat
    BY InvParts
  <1>3. /\ memory' \in MemoryType /\ Once(memory', lost)
        /\ \A n \in used, j \in 0 .. ArraySize - 1 : memory'.slot[<<n, j>>] = NullSlot
        /\ \A s \in Slot : (s = NewVal \/ s[1] \notin used) => memory'.slot[s] = memory.slot[s]
    <2>1. memory \in MemoryType /\ Once(memory, lost) /\ used \in SUBSET Node
      BY InvParts
    <2>2. LET r == DeleteNodes(memory, used) IN
          /\ r \in MemoryType /\ Once(r, lost)
          /\ \A n \in used, j \in 0 .. ArraySize - 1 : r.slot[<<n, j>>] = NullSlot
          /\ \A s \in Slot : (s = NewVal \/ s[1] \notin used) => r.slot[s] = memory.slot[s]
      BY <2>1, DeleteIs
    <2> QED
      BY <1>1, <2>2
  <1>4. ASSUME NEW n \in Node, NEW j \in 0 .. ArraySize - 1
        PROVE  memory'.slot[<<n, j>>] = NullSlot
    <2>1. CASE n \in used
      BY <1>3, <2>1
    <2>2. CASE n \notin used
      <3>1. size[n] = 0
        BY <2>2, InvParts DEF Keyed
      <3>2. memory.slot[<<n, j>>] = NullSlot
        BY <3>1, InvParts DEF Filled
      <3>3. <<n, j>> \in Slot /\ <<n, j>>[1] \notin used
        BY <2>2, NullIsNone
      <3> QED
        BY <1>3, <3>2, <3>3
    <2> QED
      BY <2>1, <2>2
  <1>5. Filled(memory', size', data')
    <2>1. memory'.slot[NewVal] = NullSlot
      <3>1. memory.slot[NewVal] = NullSlot
        BY InvParts DEF Filled
      <3>2. NewVal \in Slot
        BY NullIsNone
      <3> QED
        BY <1>3, <3>1, <3>2
    <2>2. \A n \in Node : size'[n] = 0 /\ Len(data'[n]) = 0
      BY <1>1
    <2> QED
      BY <1>4, <2>1, <2>2 DEF Filled
  <1>6. Keyed(size', used', bottom', data')
    <2>1. \A n \in Node : ~(size'[n] > 0)
      BY <1>1
    <2> QED
      BY <1>1, <2>1 DEF Keyed
  <1>7. size' \in [Node -> 0 .. ArraySize] /\ data' \in [Node -> Seq(EntryType)]
    BY <1>1, <1>2
  <1> QED
    BY <1>1, <1>3, <1>5, <1>6, <1>7, InvParts DEF IInv, Inv

\* Every step keeps the invariant.
LEMMA NextInv == IInv /\ [Next]_vars => IInv'
  <1> SUFFICES ASSUME IInv, [Next]_vars PROVE IInv'
    OBVIOUS
  <1>1. ASSUME NEW k \in Key, NEW v \in Value, NEW waiting \in BOOLEAN,
               InsertIntoNode(k, v, waiting)
        PROVE  IInv'
    <2>1. CASE size[Home(k)] = ArraySize \/ waiting
      BY <1>1, <2>1, SplitKeeps
    <2>2. CASE ~(size[Home(k)] = ArraySize \/ waiting)
      BY <1>1, <2>2, PutKeeps
    <2> QED
      BY <2>1, <2>2
  <1>2. ASSUME NEW k \in Key, MoveToWaiting(k) PROVE IInv'
    BY <1>2, MoveToWaitingKeeps
  <1>3. ASSUME NEW k \in Key, DeleteValue(k) PROVE IInv'
    BY <1>3, ShortenKeeps, EmptyKeeps
  <1>4. ASSUME NEW k \in Key, NEW v \in Value, WriteValue(k, v) PROVE IInv'
    BY <1>4, WriteValueKeeps
  <1>5. CASE Destructor
    BY <1>5, DestructorKeeps
  <1>6. CASE UNCHANGED vars
    <2>1. /\ memory' = memory /\ size' = size /\ used' = used
          /\ bottom' = bottom /\ lost' = lost /\ data' = data
      BY <1>6 DEF vars
    <2>2. Filled(memory', size', data') /\ Keyed(size', used', bottom', data')
      BY <2>1, InvParts
    <2>3. memory' \in MemoryType /\ Once(memory', lost')
      BY <2>1, InvParts
    <2>4. Inv(memory', size', used', bottom', lost', data')
      BY <2>1, <2>2, <2>3, InvParts DEF Inv
    <2> QED
      BY <2>4 DEF IInv
  <1> QED
    BY <1>1, <1>2, <1>3, <1>4, <1>5, <1>6 DEF Next

\* The invariant holds of every reachable state.
LEMMA AlwaysInv == Spec => []IInv
  BY InitInv, NextInv, PTL DEF Spec

-----------------------------------------------------------------------------
(* What it gives.                                                          *)

\* Each allocated key and value is owned by one slot that counts or is a value
\* that WriteValue replaced, and nothing is deleted twice, whatever splits,
\* shifts, moves and deletes of nodes come before.
THEOREM EachObjectOwnedOnce == Spec => []OwnedOnce
  <1>1. IInv => OwnedOnce
    <2> SUFFICES ASSUME IInv PROVE OwnedOnce
      OBVIOUS
    <2>1. Inv(memory, size, used, bottom, lost, data)
      BY DEF IInv
    <2> QED
      BY <2>1, InvOwned DEF OwnedOnce
  <1> QED
    BY <1>1, AlwaysInv, PTL

\* The slots hold, in order, exactly the entries that BSkiplist's UpTo, After,
\* Placed, MovedOver and Without leave in the node.
THEOREM ArraysRepresent == Spec => []Represents
  <1>1. IInv => Represents
    BY ReadData DEF Represents
  <1> QED
    BY <1>1, AlwaysInv, PTL
==============================================================================
