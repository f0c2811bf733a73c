--------------------------- MODULE BSkiplistProofs ---------------------------
(******************************************************************************)
(* The cache-friendly skiplist: types, locks and memory, for any number of    *)
(* threads, keys, levels and entries in a node.                               *)
(*                                                                            *)
(* What a proof needs of the sequences of entries in a node comes first, then *)
(* the lists the levels are.  Listed says that the nodes of a set are, level  *)
(* by level, lists from First to Last in the order of their first keys, each  *)
(* one's keys before the next one's; ListChange, ListUnlink and ListSplit are *)
(* what the code does to them: it changes a node's entries, takes a node off  *)
(* its list, and hands a node's tail to another node.                         *)
(*                                                                            *)
(* The invariant Inv has two halves.  LInv says which mutexes a thread has at *)
(* each point.  Shape says that there are a level at[n] for each node and a   *)
(* set on of the nodes on the lists such that the lists are lists (Listed),   *)
(* an entry points down to the node that starts with its key or to the one an *)
(* insert waits to put there (DownInv), everything in use is on a list or in  *)
(* somebody's hands (Accounted), and each thread is where its search has to   *)
(* be (ThreadInv) and has overtaken nobody it must not overtake (InFront).    *)
(* Neither half is inductive alone.                                           *)
(*                                                                            *)
(* The steps which write to no node keep the invariant, and so do those that  *)
(* write: those of an insert that allocate, merge, place an entry and split a *)
(* node, and those of a remove that take an entry or a node away.  With the   *)
(* initial states that makes Inv an invariant.  WritesGuarded is shown step   *)
(* by step.                                                                   *)
(******************************************************************************)
EXTENDS BSkiplist, SequenceTheorems, FiniteSetTheorems, TLAPS

-----------------------------------------------------------------------------
(* Sequences of entries.                                                   *)

EntriesOf(s) == {s[j] : j \in DOMAIN s}

\* The order of the entries of a node: strictly ascending keys, before which
\* there may be one null key.
Ascending(s) ==
  \A j, l \in DOMAIN s : j < l =>
     s[l].key # NoKey /\ (s[j].key = NoKey \/ s[j].key < s[l].key)

\* A set of natural numbers has a least element.
LEMMA LeastNumber ==
  ASSUME NEW S \in SUBSET Nat, S # {}
  PROVE  \E m \in S : \A n \in S : m <= n
  <1> DEFINE R == {ss \in Nat \X Nat : ss[1] < ss[2]}
  <1>1. IsWellFoundedOn(R, Nat)
    BY NatLessThanWellFounded DEF OpToRel
  <1>2. PICK m \in S : \A n \in S : <<n, m>> \notin R
    <2> HIDE DEF R
    <2> QED
      BY <1>1, WFMin
  <1>3. ASSUME NEW n \in S PROVE m <= n
    <2>1. <<n, m>> \in Nat \X Nat /\ <<n, m>>[1] = n /\ <<n, m>>[2] = m
      OBVIOUS
    <2>2. ~(n < m)
      BY <1>2, <2>1
    <2>3. n \in Int /\ m \in Int
      OBVIOUS
    <2> QED
      BY <2>2, <2>3
  <1> QED
    BY <1>3

\* What a sequence of entries is made of.
LEMMA EntrySeq ==
  ASSUME NEW s \in Seq(EntryType)
  PROVE  /\ Len(s) \in Nat /\ DOMAIN s = 1 .. Len(s)
         /\ \A j \in 1 .. Len(s) : s[j] \in EntryType /\ s[j] \in EntriesOf(s)
         /\ \A e \in EntriesOf(s) : e \in EntryType /\ \E j \in 1 .. Len(s) : s[j] = e
         /\ s # <<>> <=> Len(s) > 0
         /\ EntriesOf(<<>>) = {}
  BY LenProperties, EmptySeq DEF EntriesOf

\* The key of an entry is a key or null, and keys are integers.
LEMMA EntryKey ==
  ASSUME NEW e \in EntryType
  PROVE  /\ e.key \in Key \cup {NoKey} /\ e.down \in Pointer
         /\ e.key # NoKey => e.key \in Int
         /\ NoKey \notin Key
  BY CallAssumption DEF EntryType

\* The entries Passed counts are those below the key, all of them.
LEMMA PassedSplits ==
  ASSUME NEW s \in Seq(EntryType), NEW k \in Key, Ascending(s)
  PROVE  /\ Passed(s, k) \in 0 .. Len(s)
         /\ \A j \in 1 .. Len(s) : j <= Passed(s, k) <=> s[j].key = NoKey \/ s[j].key < k
  <1> DEFINE stops == {i \in DOMAIN s : s[i].key # NoKey /\ s[i].key >= k}
  <1>1. /\ Len(s) \in Nat /\ DOMAIN s = 1 .. Len(s) /\ k \in Int
        /\ \A j \in 1 .. Len(s) : s[j] \in EntryType
    BY EntrySeq, CallAssumption
  <1>2. \A j \in 1 .. Len(s) : s[j].key # NoKey => s[j].key \in Int
    BY <1>1, EntryKey
  <1>3. CASE stops = {}
    <2>1. Passed(s, k) = Len(s)
      BY <1>3 DEF Passed
    <2> QED
      BY <1>1, <1>2, <1>3, <2>1
  <1>4. CASE stops # {}
    <2>1. PICK m \in stops : \A j \in stops : m <= j
      <3>1. stops \in SUBSET Nat
        BY <1>1
      <3> QED
        BY <1>4, <3>1, LeastNumber
    <2>2. m \in Int /\ \A x \in stops : x \in Int
      BY <1>1
    <2>3. (CHOOSE i \in stops : \A j \in stops : i <= j) = m
      <3>1. \A x \in stops : (\A j \in stops : x <= j) => x = m
        BY <2>1, <2>2
      <3> HIDE DEF stops
      <3> QED
        BY <2>1, <3>1
    <2>4. Passed(s, k) = m - 1
      BY <1>4, <2>3 DEF Passed
    <2>5. ASSUME NEW j \in 1 .. Len(s), j < m PROVE s[j].key = NoKey \/ s[j].key < k
      <3>1. j \notin stops
        BY <1>1, <2>1, <2>2, <2>5
      <3> QED
        BY <1>1, <1>2, <3>1
    <2>6. ASSUME NEW j \in 1 .. Len(s), j >= m PROVE s[j].key # NoKey /\ ~(s[j].key < k)
      <3>1. m \in 1 .. Len(s) /\ s[m].key # NoKey /\ s[m].key >= k
        BY <1>1, <2>1
      <3>2. j = m \/ m < j
        BY <1>1, <3>1, <2>6
      <3>3. m < j => s[j].key # NoKey /\ s[m].key < s[j].key
        BY <1>1, <3>1 DEF Ascending
      <3> QED
        BY <1>1, <1>2, <3>1, <3>2, <3>3
    <2> QED
      BY <1>1, <2>1, <2>2, <2>4, <2>5, <2>6
  <1> QED
    BY <1>3, <1>4

\* Hit tells whether an entry has the key, and Passed where it is.
LEMMA HitFinds ==
  ASSUME NEW s \in Seq(EntryType), NEW k \in Key, Ascending(s)
  PROVE  /\ Hit(s, k) <=> \E e \in EntriesOf(s) : e.key = k
         /\ Hit(s, k) => /\ Passed(s, k) + 1 \in 1 .. Len(s)
                         /\ s[Passed(s, k) + 1].key = k
  <1> DEFINE i == Passed(s, k)
  <1>1. /\ Len(s) \in Nat /\ k \in Int /\ k # NoKey
        /\ \A j \in 1 .. Len(s) : s[j] \in EntriesOf(s)
        /\ \A e \in EntriesOf(s) : \E j \in 1 .. Len(s) : s[j] = e
    BY EntrySeq, CallAssumption
  <1>2. \A j \in 1 .. Len(s) : s[j].key # NoKey => s[j].key \in Int
    BY EntrySeq, EntryKey
  <1>3. /\ i \in 0 .. Len(s)
        /\ \A j \in 1 .. Len(s) : j <= i <=> s[j].key = NoKey \/ s[j].key < k
    BY PassedSplits
  <1>4. ASSUME NEW j \in 1 .. Len(s), s[j].key = k PROVE j = i + 1
    <2>1. j > i
      BY <1>1, <1>3, <1>4
    <2>2. ASSUME j > i + 1 PROVE FALSE
      <3>1. i + 1 \in 1 .. Len(s) /\ i + 1 < j
        BY <1>1, <1>3, <2>2
      <3>2. s[i + 1].key # NoKey /\ ~(s[i + 1].key < k)
        BY <1>3, <3>1
      <3>3. s[i + 1].key < k
        BY <1>4, <3>1, <3>2, EntrySeq DEF Ascending
      <3> QED
        BY <3>2, <3>3
    <2> QED
      BY <1>1, <1>3, <2>1, <2>2
  <1> HIDE DEF i
  <1>5. Hit(s, k) <=> i < Len(s) /\ s[i + 1].key = k
    BY DEF Hit, i
  <1>6. Hit(s, k) => i + 1 \in 1 .. Len(s) /\ s[i + 1].key = k
    BY <1>1, <1>3, <1>5
  <1>7. ASSUME NEW e \in EntriesOf(s), e.key = k PROVE Hit(s, k)
    <2>1. PICK j \in 1 .. Len(s) : s[j] = e
      BY <1>1
    <2>2. j = i + 1
      BY <1>4, <1>7, <2>1
    <2> QED
      BY <1>1, <1>3, <1>5, <1>7, <2>1, <2>2
  <1>8. Hit(s, k) => \E e \in EntriesOf(s) : e.key = k
    BY <1>1, <1>6
  <1> QED
    BY <1>6, <1>7, <1>8 DEF i

\* Entries are told apart by their keys, and the first is the least.
LEMMA EntryOrder ==
  ASSUME NEW s \in Seq(EntryType), Ascending(s), s # <<>>
  PROVE  /\ s[1] \in EntriesOf(s)
         /\ \A e, f \in EntriesOf(s) : e.key = f.key => e = f
         /\ \A e \in EntriesOf(s) :
              e = s[1] \/ (e.key # NoKey /\ (s[1].key = NoKey \/ s[1].key < e.key))
  <1>1. /\ Len(s) \in Nat /\ Len(s) > 0 /\ DOMAIN s = 1 .. Len(s)
        /\ \A j \in 1 .. Len(s) : s[j] \in EntriesOf(s)
        /\ \A e \in EntriesOf(s) : \E j \in 1 .. Len(s) : s[j] = e
    BY EntrySeq
  <1>2. \A j \in 1 .. Len(s) : s[j].key # NoKey => s[j].key \in Int
    BY EntrySeq, EntryKey
  <1>3. s[1] \in EntriesOf(s)
    BY <1>1
  <1>4. ASSUME NEW e \in EntriesOf(s), NEW f \in EntriesOf(s), e.key = f.key PROVE e = f
    <2>1. PICK j \in 1 .. Len(s) : s[j] = e
      BY <1>1
    <2>2. PICK l \in 1 .. Len(s) : s[l] = f
      BY <1>1
    <2>3. ASSUME NEW a \in 1 .. Len(s), NEW b \in 1 .. Len(s), a < b PROVE s[a].key # s[b].key
      <3>1. s[b].key # NoKey /\ (s[a].key = NoKey \/ s[a].key < s[b].key)
        BY <1>1, <2>3 DEF Ascending
      <3> QED
        BY <1>2, <3>1
    <2>4. ~(j < l) /\ ~(l < j)
      BY <1>4, <2>1, <2>2, <2>3
    <2>5. j = l
      BY <2>3, <2>4
    <2> QED
      BY <2>1, <2>2, <2>5
  <1>5. ASSUME NEW e \in EntriesOf(s)
        PROVE  e = s[1] \/ (e.key # NoKey /\ (s[1].key = NoKey \/ s[1].key < e.key))
    <2>1. PICK j \in 1 .. Len(s) : s[j] = e
      BY <1>1
    <2>2. 1 \in 1 .. Len(s) /\ (j = 1 \/ 1 < j)
      BY <1>1
    <2> QED
      BY <1>1, <2>1, <2>2 DEF Ascending
  <1> QED
    BY <1>3, <1>4, <1>5

\* What UpTo and After leave of a sequence.
LEMMA Pieces ==
  ASSUME NEW s \in Seq(EntryType), NEW i \in 0 .. Len(s)
  PROVE  /\ UpTo(s, i) \in Seq(EntryType) /\ Len(UpTo(s, i)) = i
         /\ \A j \in 1 .. i : UpTo(s, i)[j] = s[j]
         /\ After(s, i) \in Seq(EntryType) /\ Len(After(s, i)) = Len(s) - i
         /\ \A j \in 1 .. Len(s) - i : After(s, i)[j] = s[i + j]
  <1>1. Len(s) \in Nat /\ \A j \in 1 .. Len(s) : s[j] \in EntryType
    BY EntrySeq
  <1>2. \A j \in 1 .. i : s[j] \in EntryType
    BY <1>1
  <1>3. \A j \in i + 1 .. Len(s) : s[j] \in EntryType
    BY <1>1
  <1>4. /\ SubSeq(s, 1, i) \in Seq(EntryType)
        /\ Len(SubSeq(s, 1, i)) = IF 1 <= i THEN i - 1 + 1 ELSE 0
        /\ \A j \in 1 .. i - 1 + 1 : SubSeq(s, 1, i)[j] = s[1 + j - 1]
    BY <1>1, <1>2, SubSeqProperties
  <1>5. /\ SubSeq(s, i + 1, Len(s)) \in Seq(EntryType)
        /\ Len(SubSeq(s, i + 1, Len(s))) = IF i + 1 <= Len(s) THEN Len(s) - (i + 1) + 1 ELSE 0
        /\ \A j \in 1 .. Len(s) - (i + 1) + 1 : SubSeq(s, i + 1, Len(s))[j] = s[i + 1 + j - 1]
    BY <1>1, <1>3, SubSeqProperties
  <1>6. /\ i \in Int
        /\ Len(UpTo(s, i)) = i
        /\ \A j \in 1 .. i : UpTo(s, i)[j] = s[j]
    BY <1>1, <1>4 DEF UpTo
  <1>7. /\ Len(After(s, i)) = Len(s) - i
        /\ \A j \in 1 .. Len(s) - i : After(s, i)[j] = s[i + j]
    BY <1>1, <1>5 DEF After
  <1> QED
    BY <1>4, <1>5, <1>6, <1>7 DEF UpTo, After

\* The first part of a node's entries: those below the key.
LEMMA FrontEntries ==
  ASSUME NEW s \in Seq(EntryType), NEW k \in Key, Ascending(s)
  PROVE  LET r == UpTo(s, Passed(s, k)) IN
         /\ r \in Seq(EntryType) /\ Ascending(r) /\ Len(r) <= Len(s)
         /\ EntriesOf(r) = {e \in EntriesOf(s) : e.key = NoKey \/ e.key < k}
         /\ Passed(s, k) > 0 => r # <<>> /\ r[1] = s[1]
  <1> DEFINE i == Passed(s, k)
             r == UpTo(s, i)
  <1>1. /\ Len(s) \in Nat /\ DOMAIN s = 1 .. Len(s)
        /\ \A j \in 1 .. Len(s) : s[j] \in EntriesOf(s)
        /\ \A e \in EntriesOf(s) : \E j \in 1 .. Len(s) : s[j] = e
    BY EntrySeq
  <1>2. /\ i \in 0 .. Len(s)
        /\ \A j \in 1 .. Len(s) : j <= i <=> s[j].key = NoKey \/ s[j].key < k
    BY PassedSplits
  <1> HIDE DEF i
  <1>3. r \in Seq(EntryType) /\ Len(r) = i /\ \A j \in 1 .. i : r[j] = s[j]
    BY <1>2, Pieces
  <1> HIDE DEF r
  <1>4. /\ DOMAIN r = 1 .. i /\ (r # <<>> <=> i > 0)
        /\ \A j \in 1 .. i : r[j] \in EntriesOf(r)
        /\ \A e \in EntriesOf(r) : \E j \in 1 .. i : r[j] = e
    BY <1>3, EntrySeq
  <1>5. \A j \in 1 .. i : j \in 1 .. Len(s)
    BY <1>1, <1>2
  <1>6. Ascending(r)
    BY <1>1, <1>3, <1>4, <1>5 DEF Ascending
  <1>7. EntriesOf(r) = {e \in EntriesOf(s) : e.key = NoKey \/ e.key < k}
    <2>1. ASSUME NEW e \in EntriesOf(r) PROVE e \in EntriesOf(s) /\ (e.key = NoKey \/ e.key < k)
      <3>1. PICK j \in 1 .. i : r[j] = e
        BY <1>4
      <3> QED
        BY <1>1, <1>2, <1>3, <1>5, <3>1
    <2>2. ASSUME NEW e \in EntriesOf(s), e.key = NoKey \/ e.key < k PROVE e \in EntriesOf(r)
      <3>1. PICK j \in 1 .. Len(s) : s[j] = e
        BY <1>1
      <3>2. j \in 1 .. i
        BY <1>2, <2>2, <3>1
      <3> QED
        BY <1>3, <1>4, <3>1, <3>2
    <2> QED
      BY <2>1, <2>2
  <1>8. i > 0 => r # <<>> /\ r[1] = s[1]
    BY <1>2, <1>3, <1>4
  <1> QED
    BY <1>1, <1>2, <1>3, <1>6, <1>7, <1>8 DEF i, r

\* The rest of them.
LEMMA BackEntries ==
  ASSUME NEW s \in Seq(EntryType), NEW k \in Key, Ascending(s)
  PROVE  LET r == After(s, Passed(s, k)) IN
         /\ r \in Seq(EntryType) /\ Ascending(r) /\ Len(r) <= Len(s)
         /\ EntriesOf(r) = {e \in EntriesOf(s) : e.key # NoKey /\ e.key >= k}
         /\ Hit(s, k) => r # <<>> /\ r[1] = s[Passed(s, k) + 1]
         /\ Len(r) = Len(s) - Passed(s, k)
  <1> DEFINE i == Passed(s, k)
             r == After(s, i)
  <1>1. /\ Len(s) \in Nat /\ DOMAIN s = 1 .. Len(s) /\ k \in Int
        /\ \A j \in 1 .. Len(s) : s[j] \in EntriesOf(s)
        /\ \A e \in EntriesOf(s) : \E j \in 1 .. Len(s) : s[j] = e
    BY EntrySeq, CallAssumption
  <1>2. /\ i \in 0 .. Len(s)
        /\ \A j \in 1 .. Len(s) : j <= i <=> s[j].key = NoKey \/ s[j].key < k
        /\ Hit(s, k) => i + 1 \in 1 .. Len(s)
    BY PassedSplits, HitFinds
  <1> HIDE DEF i
  <1>3. r \in Seq(EntryType) /\ Len(r) = Len(s) - i /\ \A j \in 1 .. Len(s) - i : r[j] = s[i + j]
    BY <1>2, Pieces
  <1> HIDE DEF r
  <1>4. /\ DOMAIN r = 1 .. Len(s) - i /\ (r # <<>> <=> Len(s) > i)
        /\ \A j \in 1 .. Len(s) - i : r[j] \in EntriesOf(r)
        /\ \A e \in EntriesOf(r) : \E j \in 1 .. Len(s) - i : r[j] = e
    BY <1>1, <1>2, <1>3, EntrySeq
  <1>5. \A j \in 1 .. Len(s) - i : i + j \in 1 .. Len(s) /\ i + j > i
    BY <1>1, <1>2
  <1>6. Ascending(r)
    <2> SUFFICES ASSUME NEW j \in DOMAIN r, NEW l \in DOMAIN r, j < l
                 PROVE  r[l].key # NoKey /\ (r[j].key = NoKey \/ r[j].key < r[l].key)
      BY DEF Ascending
    <2>1. i + j \in DOMAIN s /\ i + l \in DOMAIN s /\ i + j < i + l
      <3>1. j \in 1 .. Len(s) - i /\ l \in 1 .. Len(s) - i
        BY <1>4
      <3> QED
        BY <1>1, <1>2, <1>5, <3>1
    <2>2. r[j] = s[i + j] /\ r[l] = s[i + l]
      BY <1>3, <1>4
    <2> QED
      BY <2>1, <2>2 DEF Ascending
  <1>7. EntriesOf(r) = {e \in EntriesOf(s) : e.key # NoKey /\ e.key >= k}
    <2>1. ASSUME NEW e \in EntriesOf(r) PROVE e \in EntriesOf(s) /\ e.key # NoKey /\ e.key >= k
      <3>1. PICK j \in 1 .. Len(s) - i : r[j] = e
        BY <1>4
      <3>2. /\ i + j \in 1 .. Len(s) /\ s[i + j] = e /\ ~(i + j <= i)
        BY <1>2, <1>3, <1>5, <3>1
      <3>3. e \in EntriesOf(s) /\ e.key # NoKey /\ ~(e.key < k)
        BY <1>1, <1>2, <3>2
      <3> QED
        BY <1>1, <3>3, EntrySeq, EntryKey
    <2>2. ASSUME NEW e \in EntriesOf(s), e.key # NoKey, e.key >= k PROVE e \in EntriesOf(r)
      <3>1. PICK j \in 1 .. Len(s) : s[j] = e
        BY <1>1
      <3>2. e.key \in Int
        BY <2>2, EntrySeq, EntryKey
      <3>3. ~(j <= i)
        BY <1>1, <1>2, <2>2, <3>1, <3>2
      <3>4. j - i \in 1 .. Len(s) - i /\ i + (j - i) = j
        BY <1>1, <1>2, <3>3
      <3> QED
        BY <1>3, <1>4, <3>1, <3>4
    <2> QED
      BY <2>1, <2>2
  <1>8. Hit(s, k) => r # <<>> /\ r[1] = s[i + 1]
    BY <1>1, <1>2, <1>3, <1>4
  <1> QED
    BY <1>1, <1>2, <1>3, <1>6, <1>7, <1>8 DEF i, r

\* insert_into_node puts an entry of a key that is not there in its place.
LEMMA EntryAdded ==
  ASSUME NEW s \in Seq(EntryType), NEW k \in Key, Ascending(s), ~Hit(s, k),
         NEW e \in EntryType, e.key = k
  PROVE  LET i == Passed(s, k)
             r == (UpTo(s, i) \o <<e>>) \o After(s, i) IN
         /\ r \in Seq(EntryType) /\ Ascending(r) /\ Len(r) = Len(s) + 1
         /\ EntriesOf(r) = EntriesOf(s) \cup {e}
         /\ i > 0 => r # <<>> /\ r[1] = s[1]
  <1> DEFINE i == Passed(s, k)
             a == UpTo(s, i)
             b == After(s, i)
             r == (a \o <<e>>) \o b
  <1>1. /\ a \in Seq(EntryType) /\ Ascending(a) /\ Len(s) \in Nat /\ k \in Int
        /\ EntriesOf(a) = {x \in EntriesOf(s) : x.key = NoKey \/ x.key < k}
        /\ i > 0 => a # <<>> /\ a[1] = s[1]
    BY FrontEntries, EntrySeq, CallAssumption
  <1>2. /\ b \in Seq(EntryType) /\ Ascending(b)
        /\ EntriesOf(b) = {x \in EntriesOf(s) : x.key # NoKey /\ x.key >= k}
    BY BackEntries
  <1>3. i \in 0 .. Len(s) /\ Len(a) = i /\ Len(b) = Len(s) - i
    BY PassedSplits, Pieces
  <1>4. \A x \in EntriesOf(s) : /\ x.key # NoKey => x.key \in Int
                                /\ x.key # k
    BY HitFinds, EntrySeq, EntryKey
  <1> HIDE DEF i, a, b
  <1>5. /\ a \o <<e>> \in Seq(EntryType) /\ Len(a \o <<e>>) = i + 1
        /\ \A j \in 1 .. i + 1 : (a \o <<e>>)[j] = IF j <= i THEN a[j] ELSE e
    <2>1. <<e>> \in Seq(EntryType) /\ Len(<<e>>) = 1 /\ <<e>>[1] = e
      OBVIOUS
    <2>2. /\ a \o <<e>> \in Seq(EntryType) /\ Len(a \o <<e>>) = Len(a) + 1
          /\ \A j \in 1 .. Len(a) + 1 : (a \o <<e>>)[j] = IF j <= Len(a) THEN a[j] ELSE <<e>>[j - Len(a)]
      BY <1>1, <2>1, ConcatProperties
    <2> QED
      BY <1>1, <1>3, <2>1, <2>2
  <1>6. /\ r \in Seq(EntryType) /\ Len(r) = Len(s) + 1
        /\ \A j \in 1 .. Len(s) + 1 :
             r[j] = IF j <= i THEN a[j] ELSE IF j = i + 1 THEN e ELSE b[j - (i + 1)]
    <2>1. /\ r \in Seq(EntryType) /\ Len(r) = (i + 1) + (Len(s) - i)
          /\ \A j \in 1 .. (i + 1) + (Len(s) - i) :
               r[j] = IF j <= i + 1 THEN (a \o <<e>>)[j] ELSE b[j - (i + 1)]
      <3> DEFINE u == a \o <<e>>
      <3>1. u \in Seq(EntryType) /\ Len(u) = i + 1
        BY <1>5
      <3> HIDE DEF u
      <3>2. /\ u \o b \in Seq(EntryType) /\ Len(u \o b) = Len(u) + Len(b)
            /\ \A j \in 1 .. Len(u) + Len(b) :
                 (u \o b)[j] = IF j <= Len(u) THEN u[j] ELSE b[j - Len(u)]
        BY <1>2, <3>1, ConcatProperties
      <3>3. r = u \o b
        BY DEF u
      <3>4. a \o <<e>> = u
        BY DEF u
      <3>5. Len(u) + Len(b) = (i + 1) + (Len(s) - i)
        BY <1>3, <3>1
      <3> HIDE DEF r
      <3>6. r \in Seq(EntryType) /\ Len(r) = (i + 1) + (Len(s) - i)
        BY <3>2, <3>3, <3>5
      <3>7. \A j \in 1 .. (i + 1) + (Len(s) - i) :
               r[j] = IF j <= i + 1 THEN u[j] ELSE b[j - (i + 1)]
        BY <3>1, <3>2, <3>3, <3>5
      <3> QED
        BY <3>4, <3>6, <3>7
    <2>2. (i + 1) + (Len(s) - i) = Len(s) + 1
      BY <1>1, <1>3
    <2>3. r \in Seq(EntryType) /\ Len(r) = Len(s) + 1
      BY <2>1, <2>2
    <2>4. ASSUME NEW j \in 1 .. Len(s) + 1
          PROVE  r[j] = IF j <= i THEN a[j] ELSE IF j = i + 1 THEN e ELSE b[j - (i + 1)]
      <3>1. r[j] = IF j <= i + 1 THEN (a \o <<e>>)[j] ELSE b[j - (i + 1)]
        BY <2>1, <2>2
      <3>2. CASE j <= i + 1
        <4>1. (a \o <<e>>)[j] = IF j <= i THEN a[j] ELSE e
          BY <1>3, <1>5, <3>2
        <4>2. ~(j <= i) => j = i + 1
          BY <1>3, <3>2
        <4> QED
          BY <1>3, <3>1, <3>2, <4>1, <4>2
      <3>3. CASE ~(j <= i + 1)
        <4>1. ~(j <= i) /\ j # i + 1
          BY <1>3, <3>3
        <4> QED
          BY <3>1, <3>3, <4>1
      <3> QED
        BY <3>2, <3>3
    <2> QED
      BY <2>3, <2>4
  <1> HIDE DEF r
  <1>7. /\ DOMAIN a = 1 .. i /\ DOMAIN b = 1 .. Len(s) - i /\ DOMAIN r = 1 .. Len(s) + 1
        /\ \A j \in 1 .. i : a[j] \in EntriesOf(a)
        /\ \A j \in 1 .. Len(s) - i : b[j] \in EntriesOf(b)
        /\ \A x \in EntriesOf(a) : \E j \in 1 .. i : a[j] = x
        /\ \A x \in EntriesOf(b) : \E j \in 1 .. Len(s) - i : b[j] = x
        /\ \A x \in EntriesOf(r) : \E j \in 1 .. Len(s) + 1 : r[j] = x
        /\ \A j \in 1 .. Len(s) + 1 : r[j] \in EntriesOf(r)
    <2>1. /\ DOMAIN a = 1 .. i
          /\ \A j \in 1 .. i : a[j] \in EntriesOf(a)
          /\ \A x \in EntriesOf(a) : \E j \in 1 .. i : a[j] = x
      BY <1>1, <1>3, EntrySeq
    <2>2. /\ DOMAIN b = 1 .. Len(s) - i
          /\ \A j \in 1 .. Len(s) - i : b[j] \in EntriesOf(b)
          /\ \A x \in EntriesOf(b) : \E j \in 1 .. Len(s) - i : b[j] = x
      BY <1>2, <1>3, EntrySeq
    <2>3. /\ DOMAIN r = 1 .. Len(s) + 1
          /\ \A j \in 1 .. Len(s) + 1 : r[j] \in EntriesOf(r)
          /\ \A x \in EntriesOf(r) : \E j \in 1 .. Len(s) + 1 : r[j] = x
      BY <1>6, EntrySeq
    <2> QED
      BY <2>1, <2>2, <2>3
  <1>8. \A j \in 1 .. Len(s) + 1 : /\ j <= i => j \in 1 .. i
                                   /\ j > i + 1 => j - (i + 1) \in 1 .. Len(s) - i
    BY <1>1, <1>3
  <1>9. Ascending(r)
    <2> SUFFICES ASSUME NEW j \in 1 .. Len(s) + 1, NEW l \in 1 .. Len(s) + 1, j < l
                 PROVE  r[l].key # NoKey /\ (r[j].key = NoKey \/ r[j].key < r[l].key)
      BY <1>7 DEF Ascending
    <2>1. CASE l <= i
      <3>1. j \in 1 .. i /\ l \in 1 .. i /\ r[j] = a[j] /\ r[l] = a[l]
        BY <1>3, <1>6, <2>1
      <3> QED
        BY <1>1, <1>7, <3>1 DEF Ascending
    <2>2. CASE j > i + 1
      <3>1. /\ j - (i + 1) \in 1 .. Len(s) - i /\ l - (i + 1) \in 1 .. Len(s) - i
            /\ j - (i + 1) < l - (i + 1)
            /\ ~(j <= i) /\ j # i + 1 /\ ~(l <= i) /\ l # i + 1
        BY <1>1, <1>3, <2>2
      <3>2. r[j] = b[j - (i + 1)] /\ r[l] = b[l - (i + 1)]
        BY <1>6, <3>1
      <3> QED
        BY <1>2, <1>7, <3>1, <3>2 DEF Ascending
    <2>3. CASE l >= i + 1 /\ j <= i + 1
      <3>1. r[l].key # NoKey /\ r[l].key \in Int /\ (r[l].key >= k) /\ (l > i + 1 => r[l].key > k)
        <4>1. CASE l = i + 1
          <5>1. r[l] = e
            BY <1>1, <1>3, <1>6, <4>1
          <5>2. k # NoKey
            BY <1>1, CallAssumption
          <5> QED
            BY <1>1, <1>3, <4>1, <5>1, <5>2
        <4>2. CASE l > i + 1
          <5>1. r[l] = b[l - (i + 1)] /\ l - (i + 1) \in 1 .. Len(s) - i
            BY <1>1, <1>3, <1>6, <4>2
          <5>2. r[l] \in EntriesOf(s) /\ r[l].key # NoKey /\ r[l].key >= k
            BY <1>2, <1>7, <5>1
          <5> QED
            BY <1>1, <1>4, <5>2
        <4> QED
          BY <1>3, <2>3, <4>1, <4>2
      <3>2. r[j].key = NoKey \/ (r[j].key \in Int /\ r[j].key <= k /\ (j <= i => r[j].key < k))
        <4>1. CASE j = i + 1
          <5>1. r[j] = e
            BY <1>1, <1>3, <1>6, <4>1
          <5> QED
            BY <1>1, <1>3, <4>1, <5>1
        <4>2. CASE j <= i
          <5>1. r[j] = a[j] /\ j \in 1 .. i
            BY <1>3, <1>6, <4>2
          <5>2. r[j] \in EntriesOf(s) /\ (r[j].key = NoKey \/ r[j].key < k)
            BY <1>1, <1>7, <5>1
          <5> QED
            BY <1>1, <1>4, <5>2
        <4> QED
          BY <1>3, <2>3, <4>1, <4>2
      <3>3. j <= i \/ l > i + 1
        BY <1>3, <2>3
      <3>4. CASE j <= i
        BY <1>1, <3>1, <3>2, <3>4
      <3>5. CASE l > i + 1
        BY <1>1, <3>1, <3>2, <3>5
      <3> QED
        BY <3>3, <3>4, <3>5
    <2> QED
      BY <1>3, <2>1, <2>2, <2>3
  <1>10. EntriesOf(r) = EntriesOf(s) \cup {e}
    <2>1. ASSUME NEW x \in EntriesOf(r) PROVE x \in EntriesOf(s) \cup {e}
      <3>1. PICK j \in 1 .. Len(s) + 1 : r[j] = x
        BY <1>7
      <3>2. x = e \/ x \in EntriesOf(a) \/ x \in EntriesOf(b)
        BY <1>3, <1>6, <1>7, <1>8, <3>1
      <3> QED
        BY <1>1, <1>2, <3>2
    <2>2. e \in EntriesOf(r)
      <3>1. i + 1 \in 1 .. Len(s) + 1 /\ ~(i + 1 <= i)
        BY <1>1, <1>3
      <3> QED
        BY <1>6, <1>7, <3>1
    <2>3. ASSUME NEW x \in EntriesOf(s) PROVE x \in EntriesOf(r)
      <3>1. x \in EntriesOf(a) \/ x \in EntriesOf(b)
        BY <1>1, <1>2, <1>4
      <3>2. ASSUME x \in EntriesOf(a) PROVE x \in EntriesOf(r)
        <4>1. PICK j \in 1 .. i : a[j] = x
          BY <1>7, <3>2
        <4>2. j \in 1 .. Len(s) + 1 /\ r[j] = x
          BY <1>1, <1>3, <1>6, <4>1
        <4> QED
          BY <1>7, <4>2
      <3>3. ASSUME x \in EntriesOf(b) PROVE x \in EntriesOf(r)
        <4>1. PICK j \in 1 .. Len(s) - i : b[j] = x
          BY <1>7, <3>3
        <4>2. /\ j + (i + 1) \in 1 .. Len(s) + 1 /\ ~(j + (i + 1) <= i) /\ j + (i + 1) # i + 1
              /\ (j + (i + 1)) - (i + 1) = j
          BY <1>1, <1>3
        <4>3. r[j + (i + 1)] = x
          BY <1>6, <4>1, <4>2
        <4> QED
          BY <1>7, <4>2, <4>3
      <3> QED
        BY <3>1, <3>2, <3>3
    <2> QED
      BY <2>1, <2>2, <2>3
  <1>11. i > 0 => r # <<>> /\ r[1] = s[1]
    <2>1. i > 0 => 1 \in 1 .. Len(s) + 1 /\ 1 <= i
      BY <1>1, <1>3
    <2> QED
      BY <1>1, <1>6, <2>1, EntrySeq
  <1> QED
    BY <1>6, <1>9, <1>10, <1>11 DEF i, a, b, r

\* An entry that starts a node, before the rest of the entries of another.
LEMMA EntryFirst ==
  ASSUME NEW s \in Seq(EntryType), NEW k \in Key, Ascending(s), ~Hit(s, k),
         NEW e \in EntryType, e.key = k
  PROVE  LET r == <<e>> \o After(s, Passed(s, k)) IN
         /\ r \in Seq(EntryType) /\ Ascending(r)
         /\ Len(r) = Len(s) - Passed(s, k) + 1
         /\ EntriesOf(r) = {e} \cup {x \in EntriesOf(s) : x.key # NoKey /\ x.key >= k}
         /\ r # <<>> /\ r[1] = e
  <1> DEFINE b == After(s, Passed(s, k))
             r == <<e>> \o b
  <1>1. /\ b \in Seq(EntryType) /\ Ascending(b) /\ k \in Int
        /\ EntriesOf(b) = {x \in EntriesOf(s) : x.key # NoKey /\ x.key >= k}
        /\ Len(b) = Len(s) - Passed(s, k)
    BY BackEntries, CallAssumption
  <1>2. \A x \in EntriesOf(s) : /\ x.key # NoKey => x.key \in Int
                                /\ x.key # k
    BY HitFinds, EntrySeq, EntryKey
  <1> HIDE DEF b
  <1>3. /\ r \in Seq(EntryType) /\ Len(r) = Len(b) + 1 /\ Len(b) \in Nat
        /\ \A j \in 1 .. Len(b) + 1 : r[j] = IF j = 1 THEN e ELSE b[j - 1]
    <2>1. <<e>> \in Seq(EntryType) /\ Len(<<e>>) = 1 /\ <<e>>[1] = e
      OBVIOUS
    <2>2. /\ r \in Seq(EntryType) /\ Len(r) = Len(<<e>>) + Len(b)
          /\ \A j \in 1 .. Len(<<e>>) + Len(b) : r[j] = IF j <= Len(<<e>>) THEN <<e>>[j] ELSE b[j - Len(<<e>>)]
      BY <1>1, <2>1, ConcatProperties
    <2>3. Len(b) \in Nat
      BY <1>1, EntrySeq
    <2> QED
      BY <2>1, <2>2, <2>3
  <1> HIDE DEF r
  <1>4. /\ DOMAIN b = 1 .. Len(b)
        /\ \A j \in 1 .. Len(b) : b[j] \in EntriesOf(b)
        /\ \A x \in EntriesOf(b) : \E j \in 1 .. Len(b) : b[j] = x
    BY <1>1, EntrySeq
  <1>5. /\ DOMAIN r = 1 .. Len(b) + 1 /\ (r # <<>> <=> Len(b) + 1 > 0)
        /\ \A j \in 1 .. Len(b) + 1 : r[j] \in EntriesOf(r)
        /\ \A x \in EntriesOf(r) : \E j \in 1 .. Len(b) + 1 : r[j] = x
    BY <1>3, EntrySeq
  <1>6. ASSUME NEW j \in 1 .. Len(b) + 1, j # 1
        PROVE  j - 1 \in 1 .. Len(b) /\ r[j] = b[j - 1] /\ r[j] \in EntriesOf(b)
    BY <1>3, <1>4, <1>6
  <1>7. r[1] = e /\ r # <<>>
    BY <1>3, <1>5
  <1>8. Ascending(r)
    <2> SUFFICES ASSUME NEW j \in 1 .. Len(b) + 1, NEW l \in 1 .. Len(b) + 1, j < l
                 PROVE  r[l].key # NoKey /\ (r[j].key = NoKey \/ r[j].key < r[l].key)
      BY <1>5 DEF Ascending
    <2>1. l # 1 /\ l - 1 \in 1 .. Len(b) /\ r[l] = b[l - 1] /\ r[l] \in EntriesOf(b)
      BY <1>3, <1>6
    <2>2. CASE j = 1
      <3>1. r[l].key # NoKey /\ r[l].key >= k /\ r[l].key \in Int /\ r[l].key # k
        BY <1>1, <1>2, <2>1
      <3> QED
        BY <1>1, <1>7, <2>2, <3>1
    <2>3. CASE j # 1
      <3>1. j - 1 \in DOMAIN b /\ l - 1 \in DOMAIN b /\ r[j] = b[j - 1] /\ j - 1 < l - 1
        BY <1>4, <1>6, <2>1, <2>3
      <3>2. b[l - 1].key # NoKey /\ (b[j - 1].key = NoKey \/ b[j - 1].key < b[l - 1].key)
        <4> DEFINE p == j - 1
                   q == l - 1
        <4>1. p \in DOMAIN b /\ q \in DOMAIN b /\ p < q
          BY <3>1
        <4> HIDE DEF p, q
        <4>2. b[q].key # NoKey /\ (b[p].key = NoKey \/ b[p].key < b[q].key)
          BY <1>1, <4>1 DEF Ascending
        <4> QED
          BY <4>2 DEF p, q
      <3> QED
        BY <2>1, <3>1, <3>2
    <2> QED
      BY <2>2, <2>3
  <1>9. EntriesOf(r) = {e} \cup EntriesOf(b)
    <2>1. ASSUME NEW x \in EntriesOf(r) PROVE x \in {e} \cup EntriesOf(b)
      BY <1>5, <1>6, <1>7
    <2>2. e \in EntriesOf(r)
      BY <1>3, <1>5, <1>7
    <2>3. ASSUME NEW x \in EntriesOf(b) PROVE x \in EntriesOf(r)
      <3>1. PICK j \in 1 .. Len(b) : b[j] = x
        BY <1>4
      <3>2. j + 1 \in 1 .. Len(b) + 1 /\ j + 1 # 1 /\ (j + 1) - 1 = j
        BY <1>3
      <3> QED
        BY <1>3, <1>5, <3>1, <3>2
    <2> QED
      BY <2>1, <2>2, <2>3
  <1> QED
    BY <1>1, <1>3, <1>7, <1>8, <1>9 DEF b, r

\* delete_value takes the entry of a key out.
LEMMA EntryRemoved ==
  ASSUME NEW s \in Seq(EntryType), NEW k \in Key, Ascending(s), Hit(s, k)
  PROVE  LET i == Passed(s, k)
             r == Without(s, i) IN
         /\ r \in Seq(EntryType) /\ Ascending(r) /\ Len(r) = Len(s) - 1
         /\ EntriesOf(r) = {e \in EntriesOf(s) : e.key # k}
         /\ i > 0 => r # <<>> /\ r[1] = s[1]
  <1> DEFINE i == Passed(s, k)
             a == UpTo(s, i)
             b == After(s, i + 1)
             r == a \o b
  <1>1. /\ Len(s) \in Nat /\ DOMAIN s = 1 .. Len(s)
        /\ \A j \in 1 .. Len(s) : s[j] \in EntriesOf(s)
        /\ \A e \in EntriesOf(s) : \E j \in 1 .. Len(s) : s[j] = e
    BY EntrySeq
  <1>2. /\ i \in 0 .. Len(s) /\ i + 1 \in 1 .. Len(s) /\ s[i + 1].key = k
    BY PassedSplits, HitFinds
  <1>3. \A j \in 1 .. Len(s) : s[j].key = k => j = i + 1
    <2>1. ASSUME NEW j \in 1 .. Len(s), s[j].key = k, j # i + 1 PROVE FALSE
      <3>1. j < i + 1 \/ i + 1 < j
        BY <1>1, <1>2, <2>1
      <3>2. k \in Int /\ k # NoKey
        BY CallAssumption
      <3>3. CASE j < i + 1
        <4>1. s[i + 1].key # NoKey /\ (s[j].key = NoKey \/ s[j].key < s[i + 1].key)
          BY <1>1, <1>2, <3>3 DEF Ascending
        <4> QED
          BY <1>2, <2>1, <3>2, <4>1
      <3>4. CASE i + 1 < j
        <4>1. s[j].key # NoKey /\ (s[i + 1].key = NoKey \/ s[i + 1].key < s[j].key)
          BY <1>1, <1>2, <3>4 DEF Ascending
        <4> QED
          BY <1>2, <2>1, <3>2, <4>1
      <3> QED
        BY <3>1, <3>3, <3>4
    <2> QED
      BY <2>1
  <1> HIDE DEF i
  <1>4. /\ a \in Seq(EntryType) /\ Len(a) = i /\ \A j \in 1 .. i : a[j] = s[j]
        /\ b \in Seq(EntryType) /\ Len(b) = Len(s) - (i + 1)
        /\ \A j \in 1 .. Len(s) - (i + 1) : b[j] = s[i + 1 + j]
    <2>1. i + 1 \in 0 .. Len(s)
      BY <1>1, <1>2
    <2> QED
      BY <1>2, <2>1, Pieces
  <1> HIDE DEF a, b
  <1>5. /\ r \in Seq(EntryType) /\ Len(r) = Len(s) - 1
        /\ \A j \in 1 .. Len(s) - 1 : r[j] = IF j <= i THEN s[j] ELSE s[j + 1]
    <2>1. /\ r \in Seq(EntryType) /\ Len(r) = Len(a) + Len(b)
          /\ \A j \in 1 .. Len(a) + Len(b) : r[j] = IF j <= Len(a) THEN a[j] ELSE b[j - Len(a)]
      BY <1>4, ConcatProperties
    <2>2. Len(a) + Len(b) = Len(s) - 1
      BY <1>1, <1>2, <1>4
    <2>3. ASSUME NEW j \in 1 .. Len(s) - 1 PROVE r[j] = IF j <= i THEN s[j] ELSE s[j + 1]
      <3>1. CASE j <= i
        BY <1>1, <1>2, <1>4, <2>1, <2>2, <3>1
      <3>2. CASE j > i
        <4>1. j - i \in 1 .. Len(s) - (i + 1) /\ i + 1 + (j - i) = j + 1 /\ ~(j <= i)
          BY <1>1, <1>2, <3>2
        <4>2. b[j - i] = s[j + 1]
          BY <1>4, <4>1
        <4> QED
          BY <1>4, <2>1, <2>2, <4>1, <4>2
      <3>3. j <= i \/ j > i
        BY <1>1, <1>2
      <3> QED
        BY <3>1, <3>2, <3>3
    <2> QED
      BY <2>1, <2>2, <2>3
  <1> HIDE DEF r
  <1>6. /\ DOMAIN r = 1 .. Len(s) - 1 /\ (r # <<>> <=> Len(s) - 1 > 0)
        /\ \A j \in 1 .. Len(s) - 1 : r[j] \in EntriesOf(r)
        /\ \A e \in EntriesOf(r) : \E j \in 1 .. Len(s) - 1 : r[j] = e
    BY <1>5, EntrySeq
  <1>7. \A j \in 1 .. Len(s) - 1 : j \in 1 .. Len(s) /\ j + 1 \in 1 .. Len(s)
    BY <1>1
  <1>8. Ascending(r)
    <2> SUFFICES ASSUME NEW j \in 1 .. Len(s) - 1, NEW l \in 1 .. Len(s) - 1, j < l
                 PROVE  r[l].key # NoKey /\ (r[j].key = NoKey \/ r[j].key < r[l].key)
      BY <1>6 DEF Ascending
    <2> DEFINE jj == IF j <= i THEN j ELSE j + 1
               ll == IF l <= i THEN l ELSE l + 1
    <2>1. jj < ll /\ jj \in 1 .. Len(s) /\ ll \in 1 .. Len(s)
      BY <1>1, <1>2, <1>7
    <2>2. r[j] = s[jj] /\ r[l] = s[ll]
      BY <1>5
    <2> HIDE DEF jj, ll
    <2>3. jj \in DOMAIN s /\ ll \in DOMAIN s
      BY <1>1, <2>1
    <2>4. s[ll].key # NoKey /\ (s[jj].key = NoKey \/ s[jj].key < s[ll].key)
      BY <2>1, <2>3 DEF Ascending
    <2> QED
      BY <2>2, <2>4
  <1>9. EntriesOf(r) = {e \in EntriesOf(s) : e.key # k}
    <2>1. ASSUME NEW e \in EntriesOf(r) PROVE e \in EntriesOf(s) /\ e.key # k
      <3>1. PICK j \in 1 .. Len(s) - 1 : r[j] = e
        BY <1>6
      <3>2. PICK m \in 1 .. Len(s) : m # i + 1 /\ r[j] = s[m]
        <4>1. CASE j <= i
          <5>1. j # i + 1
            BY <1>1, <1>2, <4>1
          <5> QED
            BY <1>5, <1>7, <4>1, <5>1
        <4>2. CASE ~(j <= i)
          <5>1. j + 1 # i + 1
            BY <1>1, <1>2, <4>2
          <5> QED
            BY <1>5, <1>7, <4>2, <5>1
        <4> QED
          BY <4>1, <4>2
      <3> QED
        BY <1>1, <1>3, <3>1, <3>2
    <2>2. ASSUME NEW e \in EntriesOf(s), e.key # k PROVE e \in EntriesOf(r)
      <3>1. PICK m \in 1 .. Len(s) : s[m] = e
        BY <1>1
      <3>2. m # i + 1
        BY <1>2, <2>2, <3>1
      <3>3. PICK j \in 1 .. Len(s) - 1 : r[j] = s[m]
        <4>1. CASE m <= i
          <5>1. m \in 1 .. Len(s) - 1
            BY <1>1, <1>2, <4>1
          <5> QED
            BY <1>5, <4>1, <5>1
        <4>2. CASE m > i + 1
          <5>1. m - 1 \in 1 .. Len(s) - 1 /\ ~(m - 1 <= i) /\ (m - 1) + 1 = m
            BY <1>1, <1>2, <4>2
          <5>2. r[m - 1] = s[m]
            BY <1>5, <5>1
          <5> QED
            BY <5>1, <5>2
        <4> QED
          BY <1>1, <1>2, <3>2, <4>1, <4>2
      <3> QED
        BY <1>6, <3>1, <3>3
    <2> QED
      BY <2>1, <2>2
  <1>10. i > 0 => r # <<>> /\ r[1] = s[1]
    <2>1. i > 0 => 1 \in 1 .. Len(s) - 1 /\ 1 <= i
      BY <1>1, <1>2
    <2> QED
      BY <1>5, <1>6, <2>1
  <1>11. Without(s, i) = r
    BY DEF Without, a, b, r
  <1> QED
    BY <1>5, <1>8, <1>9, <1>10, <1>11 DEF i

Written(s, i, v) == [s EXCEPT ![i].val = v]

\* A new value changes no key and no pointer.
LEMMA ValueWritten ==
  ASSUME NEW s \in Seq(EntryType), Ascending(s), NEW i \in 1 .. Len(s),
         NEW v \in Value \cup {NoValue}
  PROVE  LET r == Written(s, i, v) IN
         /\ r \in Seq(EntryType) /\ Ascending(r) /\ Len(r) = Len(s) /\ (r = <<>> <=> s = <<>>)
         /\ \A j \in 1 .. Len(s) : r[j].key = s[j].key /\ r[j].down = s[j].down
                                   /\ r[j].val = IF j = i THEN v ELSE s[j].val
  <1> DEFINE f == [s[i] EXCEPT !.val = v]
             r == [s EXCEPT ![i] = f]
  <1>1. /\ Len(s) \in Nat /\ DOMAIN s = 1 .. Len(s) /\ s[i] \in EntryType
    BY EntrySeq
  <1>2. f \in EntryType /\ f.key = s[i].key /\ f.down = s[i].down /\ f.val = v
    BY <1>1 DEF EntryType
  <1> HIDE DEF f
  <1>3. /\ r \in Seq(EntryType) /\ Len(r) = Len(s)
        /\ \A j \in 1 .. Len(s) : r[j] = IF j = i THEN f ELSE s[j]
    BY <1>2, ExceptSeq
  <1>4. r = Written(s, i, v)
    BY DEF f, Written
  <1> HIDE DEF r
  <1>5. DOMAIN r = 1 .. Len(s) /\ (r = <<>> <=> s = <<>>)
    BY <1>3, EntrySeq
  <1>6. \A j \in 1 .. Len(s) : r[j].key = s[j].key /\ r[j].down = s[j].down
                               /\ r[j].val = IF j = i THEN v ELSE s[j].val
    BY <1>2, <1>3
  <1>7. Ascending(r)
    BY <1>1, <1>5, <1>6 DEF Ascending
  <1> QED
    BY <1>3, <1>4, <1>5, <1>6, <1>7

\* Where a search goes from a node that does not start past the key.
LEMMA LookFinds ==
  ASSUME NEW s \in Seq(EntryType), NEW k \in Key, Ascending(s), s # <<>>,
         s[1].key = NoKey \/ s[1].key <= k, NEW nx
  PROVE  /\ Look(s, nx, k) \in {"hit", "next", "below"}
         /\ Look(s, nx, k) = "hit" <=> Hit(s, k)
         /\ Look(s, nx, k) = "next" => /\ nx # Null
                                       /\ \A e \in EntriesOf(s) : e.key = NoKey \/ e.key < k
         /\ Look(s, nx, k) = "below" =>
              \/ nx = Null
              \/ \E e \in EntriesOf(s) : e.key # NoKey /\ e.key > k
  <1> DEFINE i == Passed(s, k)
  <1>1. /\ Len(s) \in Nat /\ Len(s) > 0
        /\ \A j \in 1 .. Len(s) : s[j] \in EntriesOf(s)
        /\ \A e \in EntriesOf(s) : \E j \in 1 .. Len(s) : s[j] = e
        /\ k \in Int
    BY EntrySeq, CallAssumption
  <1>2. \A j \in 1 .. Len(s) : s[j].key # NoKey => s[j].key \in Int
    BY EntrySeq, EntryKey
  <1>3. /\ i \in 0 .. Len(s)
        /\ \A j \in 1 .. Len(s) : j <= i <=> s[j].key = NoKey \/ s[j].key < k
    BY PassedSplits
  <1>4. ~Hit(s, k) => i # 0
    <2>1. 1 \in 1 .. Len(s) /\ s[1] \in EntriesOf(s)
      BY <1>1
    <2>2. ~Hit(s, k) => s[1].key # k
      BY <2>1, HitFinds
    <2> QED
      BY <1>1, <1>2, <1>3, <2>1, <2>2
  <1>5. i = Len(s) => \A e \in EntriesOf(s) : e.key = NoKey \/ e.key < k
    BY <1>1, <1>3
  <1>6. ~Hit(s, k) /\ i # Len(s) => \E e \in EntriesOf(s) : e.key # NoKey /\ e.key > k
    <2> SUFFICES ASSUME ~Hit(s, k), i # Len(s)
                 PROVE  \E e \in EntriesOf(s) : e.key # NoKey /\ e.key > k
      OBVIOUS
    <2>1. i + 1 \in 1 .. Len(s) /\ ~(i + 1 <= i)
      BY <1>1, <1>3
    <2>2. s[i + 1] \in EntriesOf(s) /\ s[i + 1].key # NoKey /\ ~(s[i + 1].key < k)
      BY <1>1, <1>3, <2>1
    <2>3. s[i + 1].key # k
      BY <2>2, HitFinds
    <2> QED
      BY <1>1, <1>2, <2>1, <2>2, <2>3
  <1> HIDE DEF i
  <1>7. Look(s, nx, k) = IF Hit(s, k) THEN "hit"
                         ELSE IF i = Len(s) /\ nx # Null THEN "next"
                         ELSE IF i = 0 THEN "crash" ELSE "below"
    BY DEF Look, i
  <1> QED
    BY <1>4, <1>5, <1>6, <1>7

-----------------------------------------------------------------------------
(* The lists of the levels, for the entries D and the right neighbours X of *)
(* the nodes: at is the level of each node, on are the nodes on a list.     *)

Firsts == {First[i] : i \in Level}
Lasts  == {Last[i] : i \in Level}

\* The key a node starts with.
Start(D, n) == D[n][1].key

\* m is to the left of n.
Left(D, m, n) ==
  /\ m \notin Lasts /\ n \notin Firsts
  /\ m \in Firsts \/ n \in Lasts \/ Start(D, m) < Start(D, n)

Before(s, k) == \A e \in EntriesOf(s) : e.key = NoKey \/ e.key < k

\* A node starts below the key; it starts above it.
Short(D, n, k) == n \notin Lasts /\ (n \in Firsts \/ Start(D, n) < k)
Past(D, n, k)  == n \in Lasts \/ (n \notin Firsts /\ Start(D, n) > k)

NodeOK(D, on, n) ==
  /\ Ascending(D[n])
  /\ n \in on \ Lasts <=> D[n] # <<>>
  /\ n \in Firsts => Start(D, n) = NoKey
  /\ n \notin Firsts => \A e \in EntriesOf(D[n]) : e.key # NoKey

Listed(D, X, at, on) ==
  /\ D \in [Node -> Seq(EntryType)] /\ at \in [Node -> Level]
  /\ on \subseteq Node /\ Sentinel \subseteq on
  /\ \A i \in Level : at[First[i]] = i /\ at[Last[i]] = i
  /\ \A n \in Node : NodeOK(D, on, n)
  /\ \A n \in on \cap Lasts : X[n] = Null
  /\ \A n \in on \ Lasts : /\ X[n] \in on /\ at[X[n]] = at[n] /\ Left(D, n, X[n])
                           /\ X[n] \notin Lasts => Before(D[n], Start(D, X[n]))
  /\ \A m, n \in on : at[m] = at[n] /\ Left(D, m, n) => n = X[m] \/ Left(D, X[m], n)
  /\ \A m, n \in on : at[m] = at[n] /\ m # n => Left(D, m, n) \/ Left(D, n, m)

\* A list of level i has the entry of key k that points to d.
Link(D, at, on, i, k, d) ==
  \E n \in on : at[n] = i /\ \E e \in EntriesOf(D[n]) : e.key = k /\ e.down = d

\* The sentinels: each level has one first and one last node, and operator new
\* gives out neither.
LEMMA Ends ==
  /\ Firsts \subseteq Node /\ Lasts \subseteq Node /\ Firsts \cap Lasts = {}
  /\ Sentinel = Firsts \cup Lasts
  /\ \A i \in Level : First[i] \in Firsts /\ Last[i] \in Lasts
  /\ \A n \in Firsts : \E i \in Level : n = First[i]
  /\ \A n \in Lasts : \E i \in Level : n = Last[i]
  /\ Null \notin Node /\ Top \in Firsts
  /\ \A k \in Key : \A i \in Level : Site[k][i] \cap Sentinel = {} /\ Site[k][i] \subseteq Node
  <1>1. First \in [Level -> Node] /\ Last \in [Level -> Node] /\ Null \notin Node
    BY BAssumption
  <1>2. Firsts \cap Lasts = {}
    BY BAssumption DEF Firsts, Lasts
  <1>3. MaxHeight - 1 \in Level
    BY CallAssumption DEF Level
  <1>4. Top \in Firsts
    BY <1>3 DEF Top, Firsts
  <1>5. \A k \in Key : \A i \in Level : Site[k][i] \cap Sentinel = {} /\ Site[k][i] \subseteq Node
    BY BAssumption
  <1> QED
    BY <1>1, <1>2, <1>4, <1>5 DEF Firsts, Lasts, Sentinel

\* What the entries of a node on a list are.
LEMMA NodeFacts ==
  ASSUME NEW D, NEW X, NEW at, NEW on, Listed(D, X, at, on), NEW n \in Node
  PROVE  /\ D[n] \in Seq(EntryType) /\ Ascending(D[n])
         /\ n \in on \ Lasts => D[n] # <<>> /\ D[n][1] \in EntriesOf(D[n])
         /\ n \in on \ Lasts /\ n \notin Firsts => Start(D, n) \in Int /\ Start(D, n) # NoKey
                                                   /\ Start(D, n) \in Key
         /\ n \in Firsts => Start(D, n) = NoKey
         /\ n \notin Firsts => \A e \in EntriesOf(D[n]) : e.key # NoKey
         /\ \A e \in EntriesOf(D[n]) :
              /\ e \in EntryType /\ n \in on \ Lasts
              /\ e.key # NoKey => e.key \in Int /\ e.key \in Key
              /\ e.key # NoKey /\ n \notin Firsts => Start(D, n) <= e.key
  <1>1. /\ D[n] \in Seq(EntryType) /\ NodeOK(D, on, n) /\ Ascending(D[n])
    BY DEF Listed, NodeOK
  <1>2. \A e \in EntriesOf(D[n]) : e \in EntryType
    BY <1>1, EntrySeq
  <1>3. \A e \in EntriesOf(D[n]) : e.key # NoKey => e.key \in Int /\ e.key \in Key
    BY <1>2, EntryKey
  <1>4. D[n] # <<>> => /\ D[n][1] \in EntriesOf(D[n])
                       /\ \A e \in EntriesOf(D[n]) : e = D[n][1] \/
                            (e.key # NoKey /\ (D[n][1].key = NoKey \/ D[n][1].key < e.key))
    BY <1>1, EntryOrder
  <1>5. D[n] = <<>> => EntriesOf(D[n]) = {}
    BY EmptySeq DEF EntriesOf
  <1>6. n \in on \ Lasts => D[n] # <<>>
    BY <1>1 DEF NodeOK
  <1>7. \A e \in EntriesOf(D[n]) : n \in on \ Lasts
    BY <1>1, <1>5 DEF NodeOK
  <1>8. n \notin Firsts => \A e \in EntriesOf(D[n]) : e.key # NoKey
    BY <1>1 DEF NodeOK
  <1>9. n \in on \ Lasts /\ n \notin Firsts => D[n][1].key \in Int /\ D[n][1].key # NoKey /\ D[n][1].key \in Key
    BY <1>3, <1>4, <1>6, <1>8
  <1>10. n \notin Firsts => \A e \in EntriesOf(D[n]) : D[n][1].key <= e.key
    <2> SUFFICES ASSUME n \notin Firsts, NEW e \in EntriesOf(D[n]) PROVE D[n][1].key <= e.key
      OBVIOUS
    <2>1. e.key \in Int /\ D[n][1].key \in Int /\ D[n][1].key # NoKey
      BY <1>3, <1>7, <1>8, <1>9
    <2>2. e.key = D[n][1].key \/ D[n][1].key < e.key
      BY <1>4, <1>5, <2>1
    <2> QED
      BY <2>1, <2>2
  <1> QED
    BY <1>1, <1>2, <1>3, <1>4, <1>6, <1>7, <1>8, <1>9, <1>10 DEF Start, NodeOK

\* Left is an order.
LEMMA LeftOrder ==
  ASSUME NEW D, NEW X, NEW at, NEW on, Listed(D, X, at, on)
  PROVE  /\ \A m, n \in on : Left(D, m, n) => m # n /\ ~Left(D, n, m)
         /\ \A l, m, n \in on : Left(D, l, m) /\ Left(D, m, n) => Left(D, l, n)
  <1>0. \A n \in on : n \in Node
    BY DEF Listed
  <1>1. \A n \in on : n \in Node /\ (n \notin Lasts /\ n \notin Firsts => Start(D, n) \in Int)
    BY <1>0, NodeFacts
  <1>2. \A m, n \in on : Left(D, m, n) => m # n /\ ~Left(D, n, m)
    BY <1>1, Ends DEF Left
  <1>3. \A l, m, n \in on : Left(D, l, m) /\ Left(D, m, n) => Left(D, l, n)
    BY <1>1, Ends DEF Left
  <1> QED
    BY <1>2, <1>3

\* The entries of a node are below those of the nodes to its right.
LEMMA EntriesLeft ==
  ASSUME NEW D, NEW X, NEW at, NEW on, Listed(D, X, at, on),
         NEW m \in on, NEW n \in on, at[m] = at[n], Left(D, m, n)
  PROVE  n \notin Lasts => Before(D[m], Start(D, n))
  <1>1. m \in on \ Lasts /\ m \in Node /\ n \in Node /\ n \notin Firsts
    BY DEF Left, Listed
  <1>2. /\ X[m] \in on /\ X[m] \in Node
        /\ X[m] \notin Lasts => Before(D[m], Start(D, X[m]))
        /\ n = X[m] \/ Left(D, X[m], n)
    BY <1>1 DEF Listed
  <1>3. X[m] \notin Firsts
    BY <1>1 DEF Left, Listed
  <1>4. ASSUME n \notin Lasts, Left(D, X[m], n), NEW e \in EntriesOf(D[m])
        PROVE  e.key = NoKey \/ e.key < Start(D, n)
    <2>1. X[m] \notin Lasts /\ Start(D, X[m]) < Start(D, n)
      BY <1>3, <1>4 DEF Left
    <2>2. Start(D, X[m]) \in Int /\ Start(D, n) \in Int
      BY <1>1, <1>2, <1>3, <1>4, <2>1, NodeFacts
    <2>3. e.key = NoKey \/ (e.key \in Int /\ e.key < Start(D, X[m]))
      BY <1>1, <1>2, <2>1, NodeFacts DEF Before
    <2> QED
      BY <2>1, <2>2, <2>3
  <1> QED
    BY <1>2, <1>4 DEF Before

\* No two nodes have the same right neighbour.
LEMMA Neighbour ==
  ASSUME NEW D, NEW X, NEW at, NEW on, Listed(D, X, at, on),
         NEW m \in on \ Lasts, NEW n \in on \ Lasts, X[m] = X[n]
  PROVE  m = n
  <1>1. /\ X[m] \in on /\ at[m] = at[n] /\ Left(D, m, X[m]) /\ Left(D, n, X[m])
    BY DEF Listed
  <1>2. ASSUME NEW a \in on \ Lasts, NEW b \in on \ Lasts, X[a] = X[b], at[a] = at[b],
               X[b] \in on, Left(D, b, X[b]), Left(D, a, b)
        PROVE  FALSE
    <2>1. b = X[a] \/ Left(D, X[a], b)
      BY <1>2 DEF Listed
    <2> QED
      BY <1>2, <2>1, LeftOrder
  <1>3. m # n => Left(D, m, n) \/ Left(D, n, m)
    BY <1>1 DEF Listed
  <1> QED
    BY <1>1, <1>2, <1>3

\* What is right of a node is no lower than its right neighbour.
LEMMA PastRight ==
  ASSUME NEW D, NEW X, NEW at, NEW on, Listed(D, X, at, on), NEW k \in Key,
         NEW m \in on, NEW n \in on, at[m] = at[n], Left(D, m, n)
  PROVE  /\ X[m] \in on
         /\ Past(D, X[m], k) => Past(D, n, k)
         /\ n \notin Lasts => Start(D, X[m]) <= Start(D, n) /\ X[m] \notin Lasts
  <1>1. m \in on \ Lasts /\ n \notin Firsts
    BY DEF Left
  <1>2. /\ X[m] \in on /\ (n = X[m] \/ Left(D, X[m], n)) /\ Left(D, m, X[m])
    BY <1>1 DEF Listed
  <1>3. n \in Node /\ X[m] \in Node /\ k \in Int /\ X[m] \notin Firsts
    BY <1>2, CallAssumption DEF Listed, Left
  <1>4. n \notin Lasts => Start(D, n) \in Int
    BY <1>1, <1>3, NodeFacts
  <1>5. X[m] \notin Lasts => Start(D, X[m]) \in Int
    BY <1>2, <1>3, NodeFacts
  <1> QED
    BY <1>1, <1>2, <1>3, <1>4, <1>5 DEF Past, Left

\* A key has one place on a level.
LEMMA SamePlace ==
  ASSUME NEW D, NEW X, NEW at, NEW on, Listed(D, X, at, on), NEW k \in Key,
         NEW m \in on, Short(D, m, k), NEW n \in on, at[m] = at[n],
         NEW e \in EntriesOf(D[n])
  PROVE  /\ X[m] \in on
         /\ Past(D, X[m], k) /\ e.key = k => n = m
         /\ Past(D, X[m], k) /\ (e.key = NoKey \/ e.key < k) => n = m \/ Left(D, n, m)
         /\ Left(D, n, m) => e.key = NoKey \/ e.key < Start(D, m)
         /\ Start(D, X[m]) = k /\ X[m] \notin Lasts /\ e.key = k => n = X[m]
  <1>0. m \in Node /\ n \in Node /\ k \in Int /\ NoKey \notin Int /\ m \notin Lasts /\ X[m] \in on
    BY CallAssumption DEF Listed, Short
  <1>1. /\ n \notin Lasts
        /\ e.key # NoKey => e.key \in Int
        /\ n \notin Firsts => e.key # NoKey /\ Start(D, n) \in Int /\ Start(D, n) <= e.key
    BY <1>0, NodeFacts
  <1>2. m \notin Firsts => Start(D, m) \in Int /\ Start(D, m) < k
    BY <1>0, NodeFacts DEF Short
  <1>3. n = m \/ Left(D, m, n) \/ Left(D, n, m)
    BY DEF Listed
  <1>4. ASSUME Left(D, m, n) PROVE n \notin Firsts /\ (Past(D, X[m], k) => Start(D, n) > k)
                                   /\ X[m] \notin Lasts /\ X[m] \notin Firsts
                                   /\ Start(D, X[m]) <= Start(D, n)
                                   /\ (n = X[m] \/ Start(D, X[m]) < Start(D, n))
    <2>1. (n = X[m] \/ Left(D, X[m], n)) /\ Left(D, m, X[m])
      BY <1>0, <1>4 DEF Listed
    <2>2. Past(D, X[m], k) => Past(D, n, k)
      BY <1>4, PastRight
    <2>3. n \notin Firsts
      BY <1>4 DEF Left
    <2> QED
      BY <1>1, <2>1, <2>2, <2>3, <1>4, PastRight DEF Past, Left
  <1>5. ASSUME Left(D, n, m) PROVE e.key = NoKey \/ (e.key < Start(D, m) /\ m \notin Firsts)
    BY <1>0, <1>5, EntriesLeft DEF Before, Left
  <1>6. Past(D, X[m], k) /\ e.key = k => n = m
    BY <1>0, <1>1, <1>2, <1>3, <1>4, <1>5
  <1>7. Past(D, X[m], k) /\ (e.key = NoKey \/ e.key < k) => n = m \/ Left(D, n, m)
    BY <1>0, <1>1, <1>3, <1>4
  <1>8. Start(D, X[m]) = k /\ X[m] \notin Lasts /\ e.key = k => n = X[m]
    <2> SUFFICES ASSUME Start(D, X[m]) = k, X[m] \notin Lasts, e.key = k PROVE n = X[m]
      OBVIOUS
    <2>1. ~Left(D, n, m)
      BY <1>0, <1>1, <1>2, <1>5
    <2>2. n # m
      <3>1. X[m] \notin Lasts => Before(D[m], k)
        BY <1>0 DEF Listed
      <3> QED
        BY <1>0, <3>1 DEF Before
    <2> QED
      BY <1>0, <1>1, <1>3, <1>4, <2>1, <2>2
  <1> QED
    BY <1>0, <1>5, <1>6, <1>7, <1>8

\* The last entry passed is the greatest below the key.
LEMMA LastPassed ==
  ASSUME NEW s \in Seq(EntryType), NEW k \in Key, Ascending(s),
         s # <<>>, s[1].key = NoKey \/ s[1].key < k
  PROVE  LET a == s[Passed(s, k)] IN
         /\ Passed(s, k) \in 1 .. Len(s)
         /\ a \in EntriesOf(s) /\ (a.key = NoKey \/ a.key < k)
         /\ \A e \in EntriesOf(s) : e.key = NoKey \/ e.key < k =>
               e.key = NoKey \/ (a.key # NoKey /\ e.key <= a.key)
  <1> DEFINE i == Passed(s, k)
  <1>1. /\ Len(s) \in Nat /\ Len(s) > 0 /\ DOMAIN s = 1 .. Len(s)
        /\ \A j \in 1 .. Len(s) : s[j] \in EntriesOf(s)
        /\ \A e \in EntriesOf(s) : \E j \in 1 .. Len(s) : s[j] = e
    BY EntrySeq
  <1>2. \A j \in 1 .. Len(s) : s[j].key # NoKey => s[j].key \in Int
    BY EntrySeq, EntryKey
  <1>3. /\ i \in 0 .. Len(s)
        /\ \A j \in 1 .. Len(s) : j <= i <=> s[j].key = NoKey \/ s[j].key < k
    BY PassedSplits
  <1> HIDE DEF i
  <1>4. i \in 1 .. Len(s)
    <2>1. 1 \in 1 .. Len(s)
      BY <1>1
    <2>2. 1 <= i
      BY <1>3, <2>1
    <2> QED
      BY <1>1, <1>3, <2>2
  <1>5. s[i] \in EntriesOf(s) /\ (s[i].key = NoKey \/ s[i].key < k)
    <2>1. i <= i
      BY <1>4
    <2> QED
      BY <1>1, <1>3, <1>4, <2>1
  <1>6. ASSUME NEW e \in EntriesOf(s), e.key = NoKey \/ e.key < k
        PROVE  e.key = NoKey \/ (s[i].key # NoKey /\ e.key <= s[i].key)
    <2>1. PICK j \in 1 .. Len(s) : s[j] = e
      BY <1>1
    <2>2. j <= i
      BY <1>3, <1>6, <2>1
    <2>3. j = i \/ j < i
      BY <1>4, <2>2
    <2>4. j < i => s[i].key # NoKey /\ (s[j].key = NoKey \/ s[j].key < s[i].key)
      BY <1>1, <1>4 DEF Ascending
    <2> QED
      BY <1>2, <1>4, <2>1, <2>3, <2>4
  <1> QED
    BY <1>4, <1>5, <1>6 DEF i

\* The entry behind those passed, when the key has been hit.
LEMMA HitEntry ==
  ASSUME NEW s \in Seq(EntryType), NEW k \in Key, Ascending(s), Hit(s, k)
  PROVE  LET a == s[Passed(s, k) + 1] IN
         /\ Passed(s, k) + 1 \in 1 .. Len(s)
         /\ a \in EntriesOf(s) /\ a.key = k /\ s # <<>>
  BY HitFinds, EntrySeq, EmptySeq

\* The entries of a node change; it may start higher, but not past its
\* neighbour.
Reshaped(D, X, on, c, s, D2, X2) ==
  /\ c \in on \ Lasts /\ s \in Seq(EntryType) /\ Ascending(s) /\ s # <<>>
  /\ c \in Firsts => s[1].key = NoKey
  /\ c \notin Firsts => (\A e \in EntriesOf(s) : e.key # NoKey) /\ Start(D, c) <= s[1].key
  /\ X[c] \notin Lasts => Before(s, Start(D, X[c]))
  /\ D2 \in [Node -> Seq(EntryType)] /\ D2[c] = s
  /\ \A n \in Node : n # c => D2[n] = D[n]
  /\ \A n \in on : X2[n] = X[n]

\* Where the entries of a node of a list change but keep their order and their
\* place between its neighbours, the lists stay lists, and no start moves left.
LEMMA ListChange ==
  ASSUME NEW D, NEW X, NEW at, NEW on, Listed(D, X, at, on),
         NEW c, NEW s, NEW D2, NEW X2,
         Reshaped(D, X, on, c, s, D2, X2)
  PROVE  /\ Listed(D2, X2, at, on)
         /\ \A n \in on \ (Firsts \cup Lasts) : Start(D, n) <= Start(D2, n)
  <1>0. /\ c \in on \ Lasts /\ s \in Seq(EntryType) /\ Ascending(s) /\ s # <<>>
        /\ c \in Firsts => s[1].key = NoKey
        /\ c \notin Firsts => (\A e \in EntriesOf(s) : e.key # NoKey) /\ Start(D, c) <= s[1].key
        /\ X[c] \notin Lasts => Before(s, Start(D, X[c]))
        /\ D2 \in [Node -> Seq(EntryType)] /\ D2[c] = s
        /\ \A n \in Node : n # c => D2[n] = D[n]
        /\ \A n \in on : X2[n] = X[n]
    BY DEF Reshaped
  <1> USE <1>0
  <1>1. /\ D \in [Node -> Seq(EntryType)] /\ on \subseteq Node /\ c \in Node
        /\ D2 \in [Node -> Seq(EntryType)] /\ D2[c] = s
        /\ \A n \in Node : n # c => D2[n] = D[n]
    <2>1. D \in [Node -> Seq(EntryType)] /\ on \subseteq Node
      BY DEF Listed
    <2> QED
      BY <2>1
  <1>2. s[1] \in EntriesOf(s) /\ (c \notin Firsts => s[1].key \in Int /\ s[1].key # NoKey)
    BY EntryOrder, EntrySeq, EntryKey
  <1>3. /\ Start(D2, c) = s[1].key
        /\ \A n \in Node : n # c => Start(D2, n) = Start(D, n)
    BY <1>1 DEF Start
  <1>4. \A n \in on : n \notin Firsts /\ n \notin Lasts =>
          Start(D, n) \in Int /\ Start(D2, n) \in Int /\ Start(D, n) <= Start(D2, n)
    <2>1. \A n \in on : n \notin Firsts /\ n \notin Lasts => Start(D, n) \in Int
      BY <1>1, NodeFacts
    <2> SUFFICES ASSUME NEW n \in on, n \notin Firsts, n \notin Lasts
                 PROVE  Start(D, n) \in Int /\ Start(D2, n) \in Int /\ Start(D, n) <= Start(D2, n)
      OBVIOUS
    <2>2. Start(D, n) \in Int
      BY <2>1
    <2>3. CASE n = c
      BY <1>2, <1>3, <2>2, <2>3
    <2>4. CASE n # c
      <3>1. Start(D2, n) = Start(D, n)
        BY <1>1, <1>3, <2>4
      <3> QED
        BY <2>2, <3>1
    <2> QED
      BY <2>3, <2>4
  <1>5. ASSUME NEW m \in on, NEW n \in on, at[m] = at[n], Left(D, m, n) PROVE Left(D2, m, n)
    <2>1. m \notin Lasts /\ n \notin Firsts /\ m # n
      BY <1>5, LeftOrder DEF Left
    <2>2. CASE m \in Firsts \/ n \in Lasts
      BY <2>1, <2>2 DEF Left
    <2>3. CASE m \notin Firsts /\ n \notin Lasts /\ m = c
      <3>1. Start(D, X[c]) <= Start(D, n) /\ X[c] \notin Lasts /\ X[c] \in on
        <4>1. PICK k : k \in Key
          BY <1>1, <1>5, <2>1, <2>3, NodeFacts
        <4> QED
          BY <1>5, <2>3, <4>1, PastRight
      <3>2. X[c] \notin Firsts
        BY DEF Listed, Left
      <3>3. s[1].key < Start(D, X[c])
        BY <1>2, <2>3, <3>1 DEF Before
      <3>4. Start(D2, c) < Start(D2, n)
        <4>1. Start(D2, c) = s[1].key /\ s[1].key \in Int /\ n # c
          BY <1>2, <1>3, <2>1, <2>3
        <4>2. Start(D2, n) = Start(D, n) /\ Start(D, n) \in Int
          BY <1>1, <1>3, <1>4, <2>1, <2>3, <4>1
        <4>3. Start(D, X[c]) \in Int
          BY <1>4, <3>1, <3>2
        <4> QED
          BY <3>1, <3>3, <4>1, <4>2, <4>3
      <3> QED
        BY <2>1, <2>3, <3>4 DEF Left
    <2>4. CASE m \notin Firsts /\ n \notin Lasts /\ m # c
      <3>1. Start(D2, m) < Start(D2, n)
        <4>1. Start(D, m) < Start(D, n)
          BY <1>5, <2>4 DEF Left
        <4>2. Start(D2, m) = Start(D, m) /\ Start(D, m) \in Int
          BY <1>1, <1>3, <1>4, <2>1, <2>4
        <4>3. Start(D, n) \in Int /\ Start(D2, n) \in Int /\ Start(D, n) <= Start(D2, n)
          BY <1>4, <2>1, <2>4
        <4> QED
          BY <4>1, <4>2, <4>3
      <3> QED
        BY <2>1, <2>4, <3>1 DEF Left
    <2> QED
      BY <2>2, <2>3, <2>4
  <1>6. ASSUME NEW m \in on, NEW n \in on, at[m] = at[n], Left(D2, m, n) PROVE Left(D, m, n)
    <2>1. m # n
      BY <1>4, <1>6 DEF Left
    <2>2. ~Left(D, n, m)
      <3>1. ~Left(D2, n, m)
        <4> SUFFICES ASSUME Left(D2, n, m) PROVE FALSE
          OBVIOUS
        <4>1. m \notin Firsts /\ m \notin Lasts /\ n \notin Firsts /\ n \notin Lasts
              /\ Start(D2, m) < Start(D2, n) /\ Start(D2, n) < Start(D2, m)
          BY <1>6 DEF Left
        <4>2. Start(D2, m) \in Int /\ Start(D2, n) \in Int
          BY <1>4, <4>1
        <4> QED
          BY <4>1, <4>2
      <3> QED
        BY <1>5, <1>6, <3>1
    <2> QED
      BY <1>6, <2>1, <2>2 DEF Listed
  <1>7. \A n \in Node : NodeOK(D2, on, n)
    <2>1. \A n \in Node : NodeOK(D, on, n)
      BY DEF Listed
    <2>2. \A n \in Node : n # c => NodeOK(D2, on, n)
      BY <1>1, <2>1 DEF NodeOK, Start
    <2>3. NodeOK(D2, on, c)
      BY <1>1, <1>3 DEF NodeOK
    <2> QED
      BY <2>2, <2>3
  <1>8. ASSUME NEW n \in on \ Lasts
        PROVE  /\ X2[n] \in on /\ at[X2[n]] = at[n] /\ Left(D2, n, X2[n])
               /\ X2[n] \notin Lasts => Before(D2[n], Start(D2, X2[n]))
    <2>1. /\ X2[n] = X[n] /\ X[n] \in on /\ at[X[n]] = at[n] /\ Left(D, n, X[n])
          /\ X[n] \notin Lasts => Before(D[n], Start(D, X[n]))
      BY DEF Listed
    <2>2. Left(D2, n, X[n])
      BY <1>5, <2>1
    <2>3. X[n] # n /\ X[n] \in Node /\ X[n] \notin Firsts /\ n \in Node
      BY <1>1, <2>1, LeftOrder DEF Left
    <2>4. CASE n = c
      BY <1>1, <1>3, <2>1, <2>2, <2>3, <2>4
    <2>5. CASE n # c
      <3>1. X[n] \notin Lasts => Before(D[n], Start(D2, X[n]))
        <4> SUFFICES ASSUME X[n] \notin Lasts, NEW e \in EntriesOf(D[n])
                     PROVE  e.key = NoKey \/ e.key < Start(D2, X[n])
          BY DEF Before
        <4>1. e.key = NoKey \/ (e.key \in Int /\ e.key < Start(D, X[n]))
          BY <2>1, <2>3, NodeFacts DEF Before
        <4>2. /\ Start(D, X[n]) \in Int /\ Start(D2, X[n]) \in Int
              /\ Start(D, X[n]) <= Start(D2, X[n])
          BY <1>4, <2>1, <2>3
        <4> QED
          BY <4>1, <4>2
      <3> QED
        BY <1>1, <2>1, <2>2, <2>3, <2>5, <3>1
    <2> QED
      BY <2>4, <2>5
  <1>9. \A m, n \in on : at[m] = at[n] /\ Left(D2, m, n) => n = X2[m] \/ Left(D2, X2[m], n)
    <2> SUFFICES ASSUME NEW m \in on, NEW n \in on, at[m] = at[n], Left(D2, m, n)
                 PROVE  n = X2[m] \/ Left(D2, X2[m], n)
      OBVIOUS
    <2>1. n = X[m] \/ Left(D, X[m], n)
      BY <1>6 DEF Listed
    <2>2. m \in on \ Lasts
      BY DEF Left
    <2>3. X[m] \in on /\ at[X[m]] = at[n] /\ X2[m] = X[m]
      BY <2>2 DEF Listed
    <2> QED
      BY <1>5, <2>1, <2>3
  <1>10. \A m, n \in on : at[m] = at[n] /\ m # n => Left(D2, m, n) \/ Left(D2, n, m)
    <2>1. \A m, n \in on : at[m] = at[n] /\ m # n => Left(D, m, n) \/ Left(D, n, m)
      BY DEF Listed
    <2> QED
      BY <1>5, <2>1
  <1>11. /\ at \in [Node -> Level] /\ Sentinel \subseteq on
         /\ \A i \in Level : at[First[i]] = i /\ at[Last[i]] = i
         /\ \A n \in on \cap Lasts : X2[n] = Null
    BY DEF Listed
  <1>12. Listed(D2, X2, at, on)
    BY <1>1, <1>7, <1>8, <1>9, <1>10, <1>11 DEF Listed
  <1> QED
    BY <1>4, <1>12

\* A node leaves the list: p takes over its right neighbour.
Unlinked(D, X, on, c, p, D2, X2, on2) ==
  /\ c \in on \ Lasts /\ c \notin Firsts /\ p \in on \ Lasts /\ X[p] = c
  /\ D2 \in [Node -> Seq(EntryType)] /\ D2[c] = <<>>
  /\ \A n \in Node : n # c => D2[n] = D[n]
  /\ on2 = on \ {c}
  /\ X2[p] = X[c] /\ \A n \in on2 : n # p => X2[n] = X[n]

\* Where the empty node c leaves its list, and its neighbour on the left goes on to
\* what was right of it, the lists stay lists.
LEMMA ListUnlink ==
  ASSUME NEW D, NEW X, NEW at, NEW on, Listed(D, X, at, on),
         NEW c, NEW p, NEW D2, NEW X2, NEW on2,
         Unlinked(D, X, on, c, p, D2, X2, on2)
  PROVE  /\ Listed(D2, X2, at, on2)
         /\ p # c /\ at[p] = at[c] /\ Left(D, p, c)
         /\ \A n \in on : n # c => Start(D2, n) = Start(D, n)
         /\ \A m, n \in on2 : Left(D2, m, n) <=> Left(D, m, n)
  <1>0. /\ c \in on \ Lasts /\ c \notin Firsts /\ p \in on \ Lasts /\ X[p] = c
        /\ D2 \in [Node -> Seq(EntryType)] /\ D2[c] = <<>>
        /\ \A n \in Node : n # c => D2[n] = D[n]
        /\ on2 = on \ {c}
        /\ X2[p] = X[c] /\ \A n \in on2 : n # p => X2[n] = X[n]
    BY DEF Unlinked
  <1> USE <1>0
  <1>1. /\ D \in [Node -> Seq(EntryType)] /\ on \subseteq Node /\ c \in Node
        /\ D2 \in [Node -> Seq(EntryType)] /\ D2[c] = <<>>
        /\ \A n \in Node : n # c => D2[n] = D[n]
    <2>1. D \in [Node -> Seq(EntryType)] /\ on \subseteq Node
      BY DEF Listed
    <2>2. <<>> \in Seq(EntryType)
      BY EmptySeq
    <2> QED
      BY <2>1, <2>2
  <1>2. \A n \in on : n # c => Start(D2, n) = Start(D, n)
    BY <1>1 DEF Start
  <1>3. ASSUME NEW m \in on2, NEW n \in on2 PROVE Left(D2, m, n) <=> Left(D, m, n)
    <2>1. Start(D2, m) = Start(D, m) /\ Start(D2, n) = Start(D, n)
      BY <1>2
    <2> QED
      BY <2>1 DEF Left
  <1>4. /\ p # c /\ at[p] = at[c] /\ Left(D, p, c)
        /\ X[c] \in on /\ X[c] # c /\ at[X[c]] = at[c] /\ Left(D, c, X[c])
    <2>1. X[p] \in on /\ at[X[p]] = at[p] /\ Left(D, p, X[p])
      BY DEF Listed
    <2>2. X[c] \in on /\ at[X[c]] = at[c] /\ Left(D, c, X[c])
      BY DEF Listed
    <2> QED
      BY <2>1, <2>2, LeftOrder
  <1>5. \A n \in on2 : n \notin Lasts /\ n # p => X[n] # c
    BY Neighbour
  <1>6. \A n \in Node : NodeOK(D2, on2, n)
    <2>1. \A n \in Node : NodeOK(D, on, n)
      BY DEF Listed
    <2>2. \A n \in Node : n # c => NodeOK(D2, on2, n)
      BY <1>1, <2>1 DEF NodeOK, Start
    <2>3. NodeOK(D2, on2, c)
      BY <1>1, EntrySeq DEF NodeOK, Ascending
    <2> QED
      BY <2>2, <2>3
  <1>7. ASSUME NEW n \in on2, n \notin Lasts
        PROVE  /\ X2[n] \in on2 /\ at[X2[n]] = at[n] /\ Left(D2, n, X2[n])
               /\ X2[n] \notin Lasts => Before(D2[n], Start(D2, X2[n]))
    <2>1. CASE n = p
      <3>1. /\ X2[n] = X[c] /\ X[c] \in on2 /\ Left(D, p, X[c])
        BY <1>4, <2>1, LeftOrder
      <3>2. X[c] \notin Lasts => Before(D[p], Start(D, X[c]))
        BY <1>4, <3>1, EntriesLeft
      <3> QED
        BY <1>1, <1>2, <1>3, <1>4, <1>7, <2>1, <3>1, <3>2
    <2>2. CASE n # p
      <3>1. /\ X2[n] = X[n] /\ X[n] \in on /\ X[n] # c
            /\ at[X[n]] = at[n] /\ Left(D, n, X[n])
            /\ X[n] \notin Lasts => Before(D[n], Start(D, X[n]))
        BY <1>5, <1>7, <2>2 DEF Listed
      <3> QED
        BY <1>1, <1>2, <1>3, <1>7, <3>1
    <2> QED
      BY <2>1, <2>2
  <1>8. \A m, n \in on2 : at[m] = at[n] /\ Left(D2, m, n) => n = X2[m] \/ Left(D2, X2[m], n)
    <2> SUFFICES ASSUME NEW m \in on2, NEW n \in on2, at[m] = at[n], Left(D2, m, n)
                 PROVE  n = X2[m] \/ Left(D2, X2[m], n)
      OBVIOUS
    <2>1. Left(D, m, n) /\ m \notin Lasts
      BY <1>3 DEF Left
    <2>2. n = X[m] \/ Left(D, X[m], n)
      BY <2>1 DEF Listed
    <2>3. X2[m] \in on2
      BY <1>7, <2>1
    <2>4. CASE m = p
      <3>1. Left(D, c, n)
        BY <2>2, <2>4
      <3>2. n = X[c] \/ Left(D, X[c], n)
        BY <1>4, <2>4, <3>1 DEF Listed
      <3> QED
        BY <1>3, <2>3, <2>4, <3>2
    <2>5. CASE m # p
      BY <1>3, <2>2, <2>3, <2>5
    <2> QED
      BY <2>4, <2>5
  <1>9. \A m, n \in on2 : at[m] = at[n] /\ m # n => Left(D2, m, n) \/ Left(D2, n, m)
    <2>1. \A m, n \in on : at[m] = at[n] /\ m # n => Left(D, m, n) \/ Left(D, n, m)
      BY DEF Listed
    <2> QED
      BY <1>3, <2>1
  <1>10. /\ at \in [Node -> Level] /\ Sentinel \subseteq on2 /\ on2 \subseteq Node
         /\ \A i \in Level : at[First[i]] = i /\ at[Last[i]] = i
         /\ \A n \in on2 \cap Lasts : X2[n] = Null
    <2>1. c \notin Sentinel
      BY Ends
    <2> QED
      BY <2>1 DEF Listed
  <1>11. Listed(D2, X2, at, on2)
    BY <1>1, <1>6, <1>7, <1>8, <1>9, <1>10 DEF Listed
  <1> QED
    BY <1>2, <1>3, <1>4, <1>11

\* A node is added right of c, with the end of its entries or others that fit.
Split(D, X, at, on, c, s, n, r, D2, X2, at2, on2) ==
  /\ c \in on \ Lasts /\ n \in Node \ on
  /\ s \in Seq(EntryType) /\ Ascending(s) /\ s # <<>> /\ s[1].key = Start(D, c)
  /\ c \notin Firsts => \A e \in EntriesOf(s) : e.key # NoKey
  /\ r \in Seq(EntryType) /\ Ascending(r) /\ r # <<>>
  /\ \A e \in EntriesOf(r) : e.key # NoKey
  /\ Before(s, r[1].key) /\ (X[c] \notin Lasts => Before(r, Start(D, X[c])))
  /\ D2 \in [Node -> Seq(EntryType)] /\ D2[c] = s /\ D2[n] = r
  /\ \A m \in Node : m # c /\ m # n => D2[m] = D[m]
  /\ at2 \in [Node -> Level] /\ at2[n] = at[c] /\ \A m \in on : at2[m] = at[m]
  /\ on2 = on \cup {n}
  /\ X2[c] = n /\ X2[n] = X[c] /\ \A m \in on : m # c => X2[m] = X[m]

\* Where the entries of c from some position on go to the new right neighbour n, the
\* lists stay lists, and no other node starts with another key.
LEMMA ListSplit ==
  ASSUME NEW D, NEW X, NEW at, NEW on, Listed(D, X, at, on),
         NEW c, NEW s, NEW n, NEW r, NEW D2, NEW X2, NEW at2, NEW on2,
         Split(D, X, at, on, c, s, n, r, D2, X2, at2, on2)
  PROVE  /\ Listed(D2, X2, at2, on2)
         /\ n \notin Firsts /\ n \notin Lasts /\ Start(D2, n) = r[1].key /\ at2[n] = at[c]
         /\ \A m \in on : Start(D2, m) = Start(D, m) /\ at2[m] = at[m]
         /\ \A l, m \in on : Left(D2, l, m) <=> Left(D, l, m)
  <1>0. /\ c \in on \ Lasts /\ n \in Node \ on
        /\ s \in Seq(EntryType) /\ Ascending(s) /\ s # <<>> /\ s[1].key = Start(D, c)
        /\ c \notin Firsts => \A e \in EntriesOf(s) : e.key # NoKey
        /\ r \in Seq(EntryType) /\ Ascending(r) /\ r # <<>>
        /\ \A e \in EntriesOf(r) : e.key # NoKey
        /\ Before(s, r[1].key) /\ (X[c] \notin Lasts => Before(r, Start(D, X[c])))
        /\ D2 \in [Node -> Seq(EntryType)] /\ D2[c] = s /\ D2[n] = r
        /\ \A m \in Node : m # c /\ m # n => D2[m] = D[m]
        /\ at2 \in [Node -> Level] /\ at2[n] = at[c] /\ \A m \in on : at2[m] = at[m]
        /\ on2 = on \cup {n}
        /\ X2[c] = n /\ X2[n] = X[c] /\ \A m \in on : m # c => X2[m] = X[m]
    BY DEF Split
  <1> USE <1>0
  <1>1. /\ D \in [Node -> Seq(EntryType)] /\ on \subseteq Node /\ c \in Node /\ c # n
        /\ D2 \in [Node -> Seq(EntryType)] /\ D2[c] = s /\ D2[n] = r
        /\ \A m \in Node : m # c /\ m # n => D2[m] = D[m]
        /\ at \in [Node -> Level] /\ at2 \in [Node -> Level] /\ at2[n] = at[c]
        /\ \A m \in on : at2[m] = at[m]
    <2>1. D \in [Node -> Seq(EntryType)] /\ on \subseteq Node /\ at \in [Node -> Level]
      BY DEF Listed
    <2>2. c \in Node /\ c # n
      BY <2>1
    <2> QED
      BY <2>1, <2>2
  <1>2. n \notin Firsts /\ n \notin Lasts
    BY Ends DEF Listed
  <1>3. \A m \in on : Start(D2, m) = Start(D, m)
    BY <1>1 DEF Start
  <1>4. \A l, m \in on : Left(D2, l, m) <=> Left(D, l, m)
    BY <1>3 DEF Left
  <1>5. /\ s[1] \in EntriesOf(s) /\ r[1] \in EntriesOf(r) /\ Start(D2, n) = r[1].key
        /\ Start(D2, n) \in Int
        /\ c \notin Firsts => Start(D, c) \in Int /\ Start(D, c) < Start(D2, n)
    <2>1. s[1] \in EntriesOf(s) /\ r[1] \in EntriesOf(r) /\ Start(D2, n) = r[1].key
      BY <1>1, EntryOrder DEF Start
    <2>2. Start(D2, n) \in Int
      BY <2>1, EntrySeq, EntryKey
    <2>3. c \notin Firsts => Start(D, c) \in Int /\ Start(D, c) # NoKey
      BY <1>1, NodeFacts
    <2>4. c \notin Firsts => Start(D, c) < Start(D2, n)
      BY <2>1, <2>3 DEF Before
    <2> QED
      BY <2>1, <2>2, <2>3, <2>4
  <1>6. X[c] \in on /\ at[X[c]] = at[c] /\ Left(D, c, X[c]) /\ X[c] \notin Firsts
    BY DEF Listed, Left
  <1>7. X[c] \notin Lasts => Start(D, X[c]) \in Int /\ Start(D2, n) < Start(D, X[c])
    <2>1. X[c] \notin Lasts => Start(D, X[c]) \in Int
      BY <1>1, <1>6, NodeFacts
    <2> QED
      BY <1>5, <2>1 DEF Before
  <1>8. ASSUME NEW m \in on, at[m] = at[c], Left(D, c, m) PROVE Left(D2, n, m)
    <2>1. m \notin Firsts /\ (m = X[c] \/ Left(D, X[c], m))
      BY <1>8 DEF Left, Listed
    <2>2. CASE m \in Lasts
      BY <1>2, <2>1, <2>2 DEF Left
    <2>3. CASE m \notin Lasts
      <3>1. X[c] \notin Lasts /\ (m = X[c] \/ Start(D, X[c]) < Start(D, m))
        BY <1>6, <2>1, <2>3 DEF Left
      <3>2. Start(D, m) \in Int /\ Start(D2, m) = Start(D, m)
        BY <1>1, <1>3, <2>1, <2>3, NodeFacts
      <3>3. Start(D2, n) < Start(D2, m)
        BY <1>5, <1>7, <3>1, <3>2
      <3> QED
        BY <1>2, <2>1, <3>3 DEF Left
    <2> QED
      BY <2>2, <2>3
  <1>9. ASSUME NEW m \in on, at[m] = at[c], m = c \/ Left(D, m, c) PROVE Left(D2, m, n)
    <2>1. m \notin Lasts
      BY <1>9 DEF Left
    <2>2. CASE m \in Firsts
      BY <1>2, <2>1, <2>2 DEF Left
    <2>3. CASE m \notin Firsts
      <3>1. Start(D, m) \in Int /\ Start(D2, m) = Start(D, m)
        BY <1>1, <1>3, <2>1, <2>3, NodeFacts
      <3>2. c \notin Firsts /\ (m = c \/ Start(D, m) < Start(D, c))
        BY <1>9, <2>3 DEF Left
      <3>3. Start(D2, m) < Start(D2, n)
        BY <1>5, <3>1, <3>2
      <3> QED
        BY <1>2, <2>1, <3>3 DEF Left
    <2> QED
      BY <2>2, <2>3
  <1>10. ASSUME NEW m \in on, at[m] = at[c] PROVE m = c \/ Left(D, m, c) \/ Left(D, c, m)
    BY <1>10 DEF Listed
  <1>11. ~Left(D2, n, n) /\ \A m \in on : ~(Left(D2, m, n) /\ Left(D2, n, m))
    <2>1. ~Left(D2, n, n)
      BY <1>2, <1>5 DEF Left
    <2>2. ASSUME NEW m \in on, Left(D2, m, n), Left(D2, n, m) PROVE FALSE
      <3>1. m \notin Lasts /\ m \notin Firsts /\ Start(D2, m) < Start(D2, n) /\ Start(D2, n) < Start(D2, m)
        BY <1>2, <2>2 DEF Left
      <3>2. Start(D, m) \in Int /\ Start(D2, m) = Start(D, m)
        BY <1>1, <1>3, <3>1, NodeFacts
      <3> QED
        BY <1>5, <3>1, <3>2
    <2> QED
      BY <2>1, <2>2
  <1>12. \A m \in Node : NodeOK(D2, on2, m)
    <2>1. \A m \in Node : NodeOK(D, on, m)
      BY DEF Listed
    <2>2. \A m \in Node : m # c /\ m # n => NodeOK(D2, on2, m)
      BY <1>1, <2>1 DEF NodeOK, Start
    <2>3. NodeOK(D2, on2, c)
      BY <1>1, <1>3, <2>1 DEF NodeOK
    <2>4. NodeOK(D2, on2, n)
      BY <1>1, <1>2 DEF NodeOK
    <2> QED
      BY <2>2, <2>3, <2>4
  <1>13. ASSUME NEW m \in on2, m \notin Lasts
         PROVE  /\ X2[m] \in on2 /\ at2[X2[m]] = at2[m] /\ Left(D2, m, X2[m])
                /\ X2[m] \notin Lasts => Before(D2[m], Start(D2, X2[m]))
    <2>1. CASE m = c
      BY <1>1, <1>5, <1>9, <2>1
    <2>2. CASE m = n
      BY <1>1, <1>3, <1>6, <1>8, <2>2
    <2>3. CASE m # c /\ m # n
      <3>1. /\ X2[m] = X[m] /\ X[m] \in on
            /\ at[X[m]] = at[m] /\ Left(D, m, X[m])
            /\ X[m] \notin Lasts => Before(D[m], Start(D, X[m]))
        BY <1>13, <2>3 DEF Listed
      <3> QED
        BY <1>1, <1>3, <1>4, <1>13, <2>3, <3>1
    <2> QED
      BY <2>1, <2>2, <2>3
  <1>14. \A l, m \in on2 : at2[l] = at2[m] /\ Left(D2, l, m) => m = X2[l] \/ Left(D2, X2[l], m)
    <2> SUFFICES ASSUME NEW l \in on2, NEW m \in on2, at2[l] = at2[m], Left(D2, l, m)
                 PROVE  m = X2[l] \/ Left(D2, X2[l], m)
      OBVIOUS
    <2>0. l \notin Lasts
      BY DEF Left
    <2>1. CASE l = n
      <3>1. m \in on /\ at[m] = at[c]
        BY <1>1, <1>11, <2>1
      <3>2. Left(D, c, m)
        BY <1>9, <1>10, <1>11, <2>1, <3>1
      <3>3. m = X[c] \/ Left(D, X[c], m)
        BY <3>1, <3>2 DEF Listed
      <3> QED
        BY <1>4, <1>6, <2>1, <3>1, <3>3
    <2>2. CASE l = c /\ m # n
      <3>1. m \in on /\ at[m] = at[c] /\ Left(D, c, m)
        BY <1>1, <1>4, <2>2
      <3> QED
        BY <1>8, <2>2, <3>1
    <2>3. CASE l # n /\ l # c /\ m = n
      <3>1. l \in on /\ at[l] = at[c]
        BY <1>1, <2>3
      <3>2. Left(D, l, c)
        BY <1>8, <1>10, <1>11, <2>3, <3>1
      <3>3. /\ c = X[l] \/ Left(D, X[l], c)
            /\ X[l] \in on /\ at[X[l]] = at[c]
        BY <2>0, <3>1, <3>2 DEF Listed
      <3> QED
        BY <1>9, <2>3, <3>1, <3>3
    <2>4. CASE l # n /\ l # c /\ m # n
      <3>1. l \in on /\ m \in on /\ at[l] = at[m] /\ Left(D, l, m)
        BY <1>1, <1>4, <2>4
      <3>2. m = X[l] \/ Left(D, X[l], m)
        BY <3>1 DEF Listed
      <3>3. X[l] \in on
        BY <2>0, <3>1 DEF Listed
      <3> QED
        BY <1>4, <2>4, <3>1, <3>2, <3>3
    <2>5. CASE l = c /\ m = n
      BY <2>5
    <2> QED
      BY <2>1, <2>2, <2>3, <2>4, <2>5
  <1>15. \A l, m \in on2 : at2[l] = at2[m] /\ l # m => Left(D2, l, m) \/ Left(D2, m, l)
    <2>1. \A l, m \in on : at[l] = at[m] /\ l # m => Left(D, l, m) \/ Left(D, m, l)
      BY DEF Listed
    <2>2. \A m \in on : at[m] = at[c] => Left(D2, m, n) \/ Left(D2, n, m)
      BY <1>8, <1>9, <1>10
    <2> SUFFICES ASSUME NEW l \in on2, NEW m \in on2, at2[l] = at2[m], l # m
                 PROVE  Left(D2, l, m) \/ Left(D2, m, l)
      OBVIOUS
    <2>3. CASE l = n
      BY <1>1, <2>2, <2>3
    <2>4. CASE m = n
      BY <1>1, <2>2, <2>4
    <2>5. CASE l # n /\ m # n
      BY <1>1, <1>4, <2>1, <2>5
    <2> QED
      BY <2>3, <2>4, <2>5
  <1>16. /\ Sentinel \subseteq on2 /\ on2 \subseteq Node
         /\ \A i \in Level : at2[First[i]] = i /\ at2[Last[i]] = i
         /\ \A m \in on2 \cap Lasts : X2[m] = Null
    <2>1. \A i \in Level : First[i] \in on /\ Last[i] \in on
      BY Ends DEF Listed
    <2>2. /\ \A i \in Level : at[First[i]] = i /\ at[Last[i]] = i
          /\ Sentinel \subseteq on
      BY DEF Listed
    <2>3. /\ \A i \in Level : at2[First[i]] = i /\ at2[Last[i]] = i
          /\ Sentinel \subseteq on2 /\ on2 \subseteq Node
      BY <1>1, <2>1, <2>2
    <2>4. \A m \in on \cap Lasts : X[m] = Null
      BY DEF Listed
    <2>5. \A m \in on2 \cap Lasts : m \in on /\ m # c
      BY <1>2
    <2>6. \A m \in on2 \cap Lasts : X2[m] = Null
      BY <2>4, <2>5
    <2> QED
      BY <2>3, <2>6
  <1>17. Listed(D2, X2, at2, on2)
    BY <1>1, <1>12, <1>13, <1>14, <1>15, <1>16 DEF Listed
  <1> QED
    BY <1>1, <1>2, <1>3, <1>4, <1>5, <1>17

\* Where a search goes from a node that does not start past its key.
LEMMA Arrived ==
  ASSUME NEW D, NEW X, NEW at, NEW on, Listed(D, X, at, on), NEW k \in Key,
         NEW n \in on \ Lasts, n \in Firsts \/ Start(D, n) <= k
  PROVE  LET l == Look(D[n], X[n], k) IN
         /\ l \in {"hit", "next", "below"}
         /\ l = "hit" => Hit(D[n], k)
         /\ l = "next" => Before(D[n], k)
         /\ l = "below" => ~Hit(D[n], k) /\ Short(D, n, k) /\ Past(D, X[n], k)
         /\ ~Short(D, n, k) => l = "hit"
         /\ X[n] \in on /\ X[n] # Null
  <1>1. /\ n \in Node /\ k \in Int /\ X[n] \in on /\ X[n] \in Node /\ X[n] # Null
        /\ X[n] \notin Firsts
        /\ X[n] \notin Lasts => Before(D[n], Start(D, X[n]))
    BY Ends, CallAssumption DEF Listed, Left
  <1>2. /\ D[n] \in Seq(EntryType) /\ Ascending(D[n]) /\ D[n] # <<>>
        /\ D[n][1] \in EntriesOf(D[n]) /\ D[n][1].key = Start(D, n)
        /\ n \notin Firsts => Start(D, n) \in Int
        /\ n \in Firsts => Start(D, n) = NoKey
    BY <1>1, NodeFacts DEF Start
  <1> DEFINE l == Look(D[n], X[n], k)
  <1>3. /\ l \in {"hit", "next", "below"}
        /\ l = "hit" <=> Hit(D[n], k)
        /\ l = "next" => \A e \in EntriesOf(D[n]) : e.key = NoKey \/ e.key < k
        /\ l = "below" => X[n] = Null \/ \E e \in EntriesOf(D[n]) : e.key # NoKey /\ e.key > k
    BY <1>2, LookFinds
  <1> HIDE DEF l
  <1>4. ~Hit(D[n], k) => Short(D, n, k)
    <2>1. ~Hit(D[n], k) => Start(D, n) # k
      BY <1>2, HitFinds
    <2> QED
      BY <1>1, <1>2, <2>1 DEF Short
  <1>5. l = "below" => Past(D, X[n], k)
    <2> SUFFICES ASSUME l = "below", X[n] \notin Lasts PROVE Start(D, X[n]) > k
      BY <1>1 DEF Past
    <2>1. PICK e \in EntriesOf(D[n]) : e.key # NoKey /\ e.key > k
      BY <1>1, <1>3
    <2>2. e.key < Start(D, X[n])
      BY <1>1, <2>1 DEF Before
    <2>3. e.key \in Int /\ Start(D, X[n]) \in Int
      BY <1>1, <2>1, NodeFacts
    <2> QED
      BY <1>1, <2>1, <2>2, <2>3
  <1> QED
    BY <1>1, <1>3, <1>4, <1>5 DEF Before, l

-----------------------------------------------------------------------------
(* The invariant: the locks.                                               *)

\* The mutexes t has are those it should have.
Holds(t) ==
  \A n \in Node : /\ owner[n] = t <=> n \in HeldExclusive(t)
                  /\ t \in shared[n] <=> n \in HeldShared(t)

\* Whoever has a mutex exclusively has it alone.
Alone == \A n \in Node : owner[n] # NoThread => shared[n] = {}

LInv == TypeOK /\ Alone /\ \A t \in Thread : Holds(t)

-----------------------------------------------------------------------------
(* The invariant: the lists and the places of the threads on them.         *)

\* In a node, on its way to the place of its key on a level; the same with
\* the entry of the level above in need of a node here; and on its way there
\* or at its key.
OnLevel == {"level", "next", "below", "sink", "hit", "tower", "merged", "relink",
            "settle", "emit", "step"}
Waiting == {"level", "next", "below", "hit"}
Seeking == {"level", "next", "hit"}

\* The node a merge has emptied and is about to take off its list, and the
\* right neighbours on the lists without it.
Leftover(t) == next[prev[t]]
Right == [n \in Node |-> IF \E t \in Thread : pc[t] = "relink" /\ prev[t] = n
                         THEN next[next[n]] ELSE next[n]]

\* An insert or a remove that works on its level.
Exclusive(t) == op[t].name = "remove" \/ Working(t, height[t])

\* The node in which an entry of level i with key k ends up, and an insert
\* that still has to put it on its list.
Stands(at, on, d, i, k) == d \in on \ Lasts /\ at[d] = i /\ Start(data, d) = k
WaitLevel(t) == IF pc[t] = "sink" THEN height[t] - 1 ELSE height[t]
Waits(t, i, k, d) ==
  insertNode[t] = d /\ d # Null /\ op[t].key = k /\ i = WaitLevel(t)

DownInv(at, on) ==
  \A i, k, d : Link(data, at, on, i, k, d) =>
    /\ i = 0 => d = Null
    /\ i > 0 => \/ Stands(at, on, d, i - 1, k)
                \/ \E t \in Thread : Waits(t, i - 1, k, d)

\* What is in use is on a list or still in the hands of an insert, and what is
\* not is blank.
Accounted(on) ==
  /\ on \subseteq alive
  /\ \A n \in Node \ alive : next[n] = Null
  /\ \A n \in alive \ on : \E t \in Thread :
       n \in {nextNode[t], insertNode[t]} \/ (pc[t] = "relink" /\ n = Leftover(t))

CallInv(t) ==
  /\ pc[t] # "crash"
  /\ pc[t] # "idle" => op[t].key \in Key /\ op[t].name # "idle"
  /\ pc[t] = "top" => height[t] = MaxHeight - 1
  /\ pc[t] \in {"level", "sink", "relink", "settle"} => Working(t, height[t])
  /\ pc[t] = "merged" => op[t].name = "insert"
  /\ pc[t] \in {"level", "sink"} => height[t] > 0
  /\ pc[t] = "tower" => op[t].name \in {"get", "insert", "range"}
  /\ pc[t] \in {"emit", "step"} => op[t].name = "range" /\ height[t] = 0

\* Where cur is.
CurInv(at, on, t) ==
  /\ pc[t] \in OnLevel <=> cur[t] # Null
  /\ pc[t] \in OnLevel => /\ cur[t] \in on /\ at[cur[t]] = height[t]
                          /\ pc[t] # "emit" => cur[t] \notin Lasts
  /\ pc[t] \in {"level", "below", "sink"} => Short(data, cur[t], op[t].key)
  /\ pc[t] = "next" => Before(data[cur[t]], op[t].key)
  /\ pc[t] = "below" => ~Hit(data[cur[t]], op[t].key) /\ Past(data, Right[cur[t]], op[t].key)
  /\ pc[t] \in {"hit", "tower", "merged", "relink", "settle"} => Hit(data[cur[t]], op[t].key)
  /\ pc[t] = "emit" => index[t] \in 1 .. Len(data[cur[t]]) + 1
  /\ pc[t] = "step" => index[t] \in 2 .. Len(data[cur[t]]) + 1

\* Where prev is: behind the node, when that may have to go.
PrevInv(at, on, t) ==
  /\ prev[t] # Null =>
       /\ prev[t] \in on \ Lasts /\ prev[t] # cur[t] /\ Exclusive(t)
       /\ \/ pc[t] \in {"next", "below", "hit", "relink", "settle"}
          \/ op[t].name = "remove" /\ pc[t] \in OnLevel
  /\ pc[t] = "hit" /\ Exclusive(t) /\ ~Short(data, cur[t], op[t].key) =>
       prev[t] # Null /\ Right[prev[t]] = cur[t]
  /\ pc[t] = "relink" =>
       /\ prev[t] # Null /\ Leftover(t) \in alive \ on /\ next[Leftover(t)] = cur[t]
       /\ \A u \in Thread : /\ Leftover(t) \notin {nextNode[u], insertNode[u]}
                            /\ u # t /\ pc[u] = "relink" => Leftover(u) # Leftover(t)

\* The nodes of an insert that are not on a list yet.
NewInv(on, t) ==
  /\ nextNode[t] # Null =>
       /\ pc[t] \in {"next", "below", "hit", "relink", "settle"}
       /\ Working(t, height[t]) /\ height[t] > 0
       /\ nextNode[t] \in alive \ on /\ next[nextNode[t]] = Null
       /\ nextNode[t] # insertNode[t]
  /\ pc[t] \in {"next", "below", "hit"} /\ Working(t, height[t]) /\ height[t] > 0
       => nextNode[t] # Null
  /\ insertNode[t] # Null =>
       /\ pc[t] \in Waiting \cup {"sink"} /\ Working(t, height[t])
       /\ insertNode[t] \in alive \ on /\ next[insertNode[t]] = Null

\* Where an insert that goes down has left its key.
SinkInv(at, on, t) ==
  pc[t] = "sink" =>
    /\ insertNode[t] # Null
    /\ \A d : Link(data, at, on, height[t], op[t].key, d) => d = insertNode[t]
    /\ \/ Past(data, Right[cur[t]], op[t].key)
       \/ Right[cur[t]] \notin Lasts /\ Start(data, Right[cur[t]]) = op[t].key

\* Every node an entry of the level above leads to has been passed, but for
\* those past the key.
TowersPassed(at, on, t) ==
  pc[t] \in Seeking =>
    \A k, d : Link(data, at, on, height[t] + 1, k, d) /\ d \in on =>
      \/ k = NoKey
      \/ k > op[t].key
      \/ /\ cur[t] \notin Firsts /\ k <= Start(data, cur[t])
         /\ op[t].name = "remove" \/ insertNode[t] # Null => k < op[t].key

ThreadInv(at, on, t) ==
  /\ CallInv(t)
  /\ CurInv(at, on, t)
  /\ PrevInv(at, on, t)
  /\ NewInv(on, t)
  /\ SinkInv(at, on, t)
  /\ TowersPassed(at, on, t)

\* Nobody who has as far to go gets past an insert that has a node to put on
\* the level an entry above it already leads to.
InFront(at, on, u, t) ==
  /\ insertNode[u] # Null /\ pc[u] \in Waiting /\ pc[t] \in Seeking
  /\ height[u] = height[t] /\ op[u].key <= op[t].key
  /\ \E k : Link(data, at, on, height[u] + 1, k, insertNode[u])
  => Left(data, cur[u], cur[t])

Shape(at, on) ==
  /\ Listed(data, Right, at, on)
  /\ DownInv(at, on)
  /\ Accounted(on)
  /\ \A t \in Thread : ThreadInv(at, on, t)
  /\ \A t, u \in Thread : t # u => InFront(at, on, u, t)

Inv == LInv /\ \E at, on : Shape(at, on)

-----------------------------------------------------------------------------
(* The locks.                                                              *)

Modes == {"exclusive", "shared"}

\* A step of t leaves the locals of the other threads alone.
Others(t) ==
  \A u \in Thread \ {t} :
    /\ pc'[u] = pc[u] /\ op'[u] = op[u] /\ height'[u] = height[u]
    /\ cur'[u] = cur[u] /\ prev'[u] = prev[u] /\ index'[u] = index[u]
    /\ nextNode'[u] = nextNode[u] /\ insertNode'[u] = insertNode[u]

\* What TypeOK says of the locals of one thread.
LEMMA Types ==
  ASSUME TypeOK, NEW t \in Thread
  PROVE  /\ cur \in [Thread -> Pointer] /\ prev \in [Thread -> Pointer]
         /\ nextNode \in [Thread -> Pointer] /\ insertNode \in [Thread -> Pointer]
         /\ cur[t] \in Pointer /\ prev[t] \in Pointer
         /\ nextNode[t] \in Pointer /\ insertNode[t] \in Pointer
         /\ op[t] \in OpType /\ op[t].level \in Int /\ op[t].name # "none"
         /\ height[t] \in Level /\ height[t] \in Int /\ height[t] >= 0
         /\ height[t] <= MaxHeight - 1 /\ MaxHeight \in Int
         /\ op[t].key # NoKey => op[t].key \in Key /\ op[t].key \in Int
         /\ HeldExclusive(t) \subseteq Node /\ HeldShared(t) \subseteq Node
  <1>1. /\ cur \in [Thread -> Pointer] /\ prev \in [Thread -> Pointer]
        /\ nextNode \in [Thread -> Pointer] /\ insertNode \in [Thread -> Pointer]
    BY DEF TypeOK
  <1>2. /\ cur[t] \in Pointer /\ prev[t] \in Pointer
        /\ nextNode[t] \in Pointer /\ insertNode[t] \in Pointer
    BY <1>1
  <1>3. op[t] \in OpType /\ height[t] \in Level
    BY DEF TypeOK
  <1>4. op[t].level \in Int /\ op[t].name # "none" /\ op[t].key \in Key \cup {NoKey}
    BY <1>3 DEF OpType, Level
  <1>5. HeldExclusive(t) \subseteq Node /\ HeldShared(t) \subseteq Node
    BY <1>2 DEF HeldExclusive, HeldShared, Pointer
  <1>6. /\ height[t] \in Int /\ height[t] >= 0
        /\ height[t] <= MaxHeight - 1 /\ MaxHeight \in Int
    BY <1>3, CallAssumption DEF Level
  <1>7. op[t].key # NoKey => op[t].key \in Key /\ op[t].key \in Int
    BY <1>4, CallAssumption
  <1> QED
    BY <1>1, <1>2, <1>3, <1>4, <1>5, <1>6, <1>7

\* What one thread has exclusively no other thread has.
LEMMA HeldApart ==
  ASSUME LInv, NEW t \in Thread, NEW u \in Thread, t # u, NEW n \in HeldExclusive(t)
  PROVE  n \notin HeldExclusive(u) /\ n \notin HeldShared(u)
  <1>1. n \in Node /\ t # NoThread
    BY Types, BAssumption DEF LInv
  <1>2. owner[n] = t /\ shared[n] = {}
    BY <1>1 DEF LInv, Holds, Alone
  <1> QED
    BY <1>1, <1>2 DEF LInv, Holds

\* The nodes a thread has are in use, and what is free nobody has.
LEMMA HeldAlive ==
  ASSUME LInv, NEW at, NEW on, Shape(at, on), NEW t \in Thread
  PROVE  /\ HeldExclusive(t) \subseteq alive /\ HeldShared(t) \subseteq alive
         /\ cur[t] # Null => cur[t] \in on /\ cur[t] \in alive
         /\ prev[t] # Null => prev[t] \in on /\ prev[t] \in alive
         /\ nextNode[t] # Null => nextNode[t] \in alive \ on
         /\ insertNode[t] # Null => insertNode[t] \in alive \ on
         /\ on \subseteq alive /\ alive \subseteq Node
  <1>1. /\ on \subseteq alive /\ alive \subseteq Node /\ ThreadInv(at, on, t)
    BY DEF Shape, LInv, TypeOK, Accounted
  <1>2. cur[t] # Null => cur[t] \in on
    BY <1>1 DEF ThreadInv, CurInv
  <1>3. prev[t] # Null => prev[t] \in on
    BY <1>1 DEF ThreadInv, PrevInv
  <1>4. nextNode[t] # Null => nextNode[t] \in alive \ on
    BY <1>1 DEF ThreadInv, NewInv
  <1>5. insertNode[t] # Null => insertNode[t] \in alive \ on
    BY <1>1 DEF ThreadInv, NewInv
  <1>6. HeldExclusive(t) \subseteq alive /\ HeldShared(t) \subseteq alive
    BY <1>1, <1>2, <1>3, <1>4, <1>5 DEF HeldExclusive, HeldShared
  <1> QED
    BY <1>1, <1>2, <1>3, <1>4, <1>5, <1>6

\* A mutex is free when no thread has it.
LEMMA FreeNode ==
  ASSUME LInv, NEW n \in Node,
         \A t \in Thread : n \notin HeldExclusive(t) /\ n \notin HeldShared(t)
  PROVE  owner[n] = NoThread /\ shared[n] = {}
  <1>1. owner[n] \in Thread \cup {NoThread} /\ shared[n] \in SUBSET Thread
    BY DEF LInv, TypeOK
  <1> QED
    BY <1>1 DEF LInv, Holds

\* What the other threads should have locked depends on their own locals.
LEMMA OthersHold ==
  ASSUME NEW t \in Thread, Others(t), NEW u \in Thread, u # t
  PROVE  /\ HeldExclusive(u)' = HeldExclusive(u) /\ HeldShared(u)' = HeldShared(u)
         /\ Exclusive(u)' <=> Exclusive(u)
         /\ WaitLevel(u)' = WaitLevel(u)
  <1>1. /\ pc'[u] = pc[u] /\ op'[u] = op[u] /\ height'[u] = height[u]
        /\ cur'[u] = cur[u] /\ prev'[u] = prev[u]
        /\ nextNode'[u] = nextNode[u] /\ insertNode'[u] = insertNode[u]
    BY DEF Others
  <1>2. MayWrite(u)' <=> MayWrite(u)
    BY <1>1 DEF MayWrite, Working
  <1>3. HeldExclusive(u)' = HeldExclusive(u) /\ HeldShared(u)' = HeldShared(u)
    BY <1>1, <1>2 DEF HeldExclusive, HeldShared
  <1>4. (Exclusive(u)' <=> Exclusive(u)) /\ WaitLevel(u)' = WaitLevel(u)
    BY <1>1 DEF Exclusive, Working, WaitLevel
  <1> QED
    BY <1>3, <1>4

LockTypes ==
  /\ owner \in [Node -> Thread \cup {NoThread}] /\ shared \in [Node -> SUBSET Thread]
  /\ Alone /\ \A u \in Thread : Holds(u)

\* Locking what is free and unlocking what one has keeps the locks in order.
LEMMA RelockSound ==
  ASSUME LInv, NEW t \in Thread, Others(t), NEW got, NEW left, NEW m \in Modes, NEW l \in Modes,
         Relock(t, got, m, left, l),
         \A n \in got : n \in Node /\ owner[n] = NoThread /\ (m = "exclusive" => shared[n] = {}),
         l = "exclusive" => \A n \in left : n \in Node => n \in HeldExclusive(t),
         \A n \in Node : n \in HeldExclusive(t)' <=>
            /\ ~(l = "exclusive" /\ n \in left)
            /\ (m = "exclusive" /\ n \in got) \/ n \in HeldExclusive(t),
         \A n \in Node : n \in HeldShared(t)' <=>
            /\ ~(l = "shared" /\ n \in left)
            /\ (m = "shared" /\ n \in got) \/ n \in HeldShared(t)
  PROVE  LockTypes'
  <1>1. /\ owner \in [Node -> Thread \cup {NoThread}] /\ shared \in [Node -> SUBSET Thread]
        /\ NoThread \notin Thread /\ t # NoThread
    BY BAssumption DEF LInv, TypeOK
  <1>2. \A n \in Node : owner'[n] =
          IF l = "exclusive" /\ n \in left THEN NoThread
          ELSE IF m = "exclusive" /\ n \in got THEN t ELSE owner[n]
    BY DEF Relock
  <1>3. \A n \in Node : shared'[n] =
          IF l = "shared" /\ n \in left THEN shared[n] \ {t}
          ELSE IF m = "shared" /\ n \in got THEN shared[n] \cup {t} ELSE shared[n]
    BY DEF Relock
  <1>4. /\ owner' \in [Node -> Thread \cup {NoThread}]
        /\ shared' \in [Node -> SUBSET Thread]
    BY <1>1 DEF Relock
  <1>5. Alone'
    <2> SUFFICES ASSUME NEW n \in Node, owner'[n] # NoThread PROVE shared'[n] = {}
      BY DEF Alone
    <2>1. owner[n] # NoThread => shared[n] = {}
      BY DEF LInv, Alone
    <2> QED
      BY <1>2, <1>3, <2>1 DEF Modes
  <1>6. ASSUME NEW u \in Thread PROVE Holds(u)'
    <2> SUFFICES ASSUME NEW n \in Node
                 PROVE  /\ owner'[n] = u <=> n \in HeldExclusive(u)'
                        /\ u \in shared'[n] <=> n \in HeldShared(u)'
      BY DEF Holds
    <2>1. /\ owner[n] = u <=> n \in HeldExclusive(u)
          /\ u \in shared[n] <=> n \in HeldShared(u)
          /\ owner[n] = t <=> n \in HeldExclusive(t)
          /\ t \in shared[n] <=> n \in HeldShared(t)
      BY DEF LInv, Holds
    <2>2. CASE u = t
      <3>1. owner'[n] = t <=> n \in HeldExclusive(t)'
        BY <1>1, <1>2, <2>1
      <3>2. t \in shared'[n] <=> n \in HeldShared(t)'
        BY <1>3, <2>1
      <3> QED
        BY <2>2, <3>1, <3>2
    <2>3. CASE u # t
      <3>1. HeldExclusive(u)' = HeldExclusive(u) /\ HeldShared(u)' = HeldShared(u)
        BY <2>3, OthersHold
      <3>2. owner'[n] = u <=> owner[n] = u
        BY <1>1, <1>2, <2>1, <2>3
      <3>3. u \in shared'[n] <=> u \in shared[n]
        <4>1. shared'[n] = shared[n] \ {t} \/ shared'[n] = shared[n] \cup {t}
              \/ shared'[n] = shared[n]
          BY <1>3
        <4> QED
          BY <2>3, <4>1
      <3> QED
        BY <2>1, <3>1, <3>2, <3>3
    <2> QED
      BY <2>2, <2>3
  <1> QED
    BY <1>4, <1>5, <1>6 DEF LockTypes

\* A step that locks and unlocks nothing keeps the locks in order, if the thread still
\* should have what it has.
LEMMA LocksSame ==
  ASSUME LInv, NEW t \in Thread, Others(t), UNCHANGED locks,
         HeldExclusive(t)' = HeldExclusive(t), HeldShared(t)' = HeldShared(t)
  PROVE  LockTypes'
  <1>1. owner' = owner /\ shared' = shared
    BY DEF locks
  <1>2. Alone'
    BY <1>1 DEF LInv, Alone
  <1>3. ASSUME NEW u \in Thread PROVE Holds(u)'
    <2>1. HeldExclusive(u)' = HeldExclusive(u) /\ HeldShared(u)' = HeldShared(u)
      BY OthersHold
    <2>2. Holds(u)
      BY DEF LInv
    <2> QED
      BY <1>1, <2>1, <2>2 DEF Holds
  <1>4. /\ owner' \in [Node -> Thread \cup {NoThread}]
        /\ shared' \in [Node -> SUBSET Thread]
    BY <1>1 DEF LInv, TypeOK
  <1> QED
    BY <1>2, <1>3, <1>4 DEF LockTypes

\* The neighbour of a node on its list is next but where a merge is under way.
LEMMA RightIsNext ==
  ASSUME LInv, NEW n \in Node
  PROVE  /\ owner[n] = NoThread => Right[n] = next[n]
         /\ \A t \in Thread : n \in HeldShared(t) => Right[n] = next[n]
         /\ \A t \in Thread : n \in HeldExclusive(t) /\ (pc[t] = "relink" => prev[t] # n)
              => Right[n] = next[n]
  <1>1. ASSUME NEW u \in Thread, prev[u] = n PROVE n \in HeldExclusive(u)
    BY <1>1, BAssumption DEF HeldExclusive
  <1>2. ASSUME owner[n] = NoThread PROVE Right[n] = next[n]
    <2>1. \A u \in Thread : prev[u] # n
      BY <1>1, <1>2, BAssumption DEF LInv, Holds
    <2> QED
      BY <2>1 DEF Right
  <1>3. ASSUME NEW t \in Thread, n \in HeldShared(t) PROVE Right[n] = next[n]
    <2>1. owner[n] = NoThread
      BY <1>3 DEF LInv, Holds, Alone
    <2> QED
      BY <1>2, <2>1
  <1>4. ASSUME NEW t \in Thread, n \in HeldExclusive(t), pc[t] = "relink" => prev[t] # n
        PROVE  Right[n] = next[n]
    <2>1. \A u \in Thread : ~(pc[u] = "relink" /\ prev[u] = n)
      BY <1>1, <1>4, HeldApart
    <2> QED
      BY <2>1 DEF Right
  <1> QED
    BY <1>2, <1>3, <1>4

-----------------------------------------------------------------------------
(* What a step of one thread leaves true of the others.                    *)

\* The entry an insert adds on the level it is on.
NewLink(t, i, k, d) ==
  pc[t] = "below" /\ Working(t, height[t]) /\ i = height[t] /\ k = op[t].key /\ d = nextNode[t]

\* A step of t changes the lists at most where t has them locked: the nodes on
\* them are those of before, the one that waited and new ones, and the entries
\* those of before and the one it adds.
HeapStep(t, at, on, at2, on2) ==
  /\ Listed(data, Right, at2, on2)'
  /\ \A n \in alive \ HeldExclusive(t) :
       \/ pc[t] = "relink" /\ n = Leftover(t)
       \/ /\ data'[n] = data[n] /\ next'[n] = next[n] /\ at2[n] = at[n]
          /\ n \in on2 <=> n \in on
          /\ n \in on => Right'[n] = Right[n]
          /\ n \in alive'
  /\ \A n \in on \cap on2 :
       n \notin Firsts /\ n \notin Lasts => Start(data, n) <= Start(data', n)
  /\ \A n \in on2 : \/ n \in on \/ n \notin alive
                    \/ pc[t] \in {"below", "hit"} /\ n = insertNode[t]
  /\ \A n \in {nextNode'[t], insertNode'[t]} :
       n \in {nextNode[t], insertNode[t], Null} \/ n \notin alive
  /\ pc'[t] = "relink" => Leftover(t)' \in on
  /\ \A i, k, d : Link(data', at2, on2, i, k, d) =>
       Link(data, at, on, i, k, d) \/ NewLink(t, i, k, d)

\* What a step of t leaves alone of the nodes another thread has.
LEMMA OthersNodes ==
  ASSUME LInv, NEW at, NEW on, Shape(at, on), NEW at2, NEW on2,
         NEW t \in Thread, HeapStep(t, at, on, at2, on2),
         NEW u \in Thread, u # t, NEW n \in HeldExclusive(u) \cup HeldShared(u)
  PROVE  /\ n \in alive /\ n \notin HeldExclusive(t) /\ n \in alive'
         /\ data'[n] = data[n] /\ next'[n] = next[n] /\ at2[n] = at[n]
         /\ n \in on2 <=> n \in on
         /\ n \in on => Right'[n] = Right[n]
  <1>1. n \in alive
    BY HeldAlive
  <1>2. n \notin HeldExclusive(t)
    BY HeldApart
  <1>3. pc[t] = "relink" => n # Leftover(t)
    <2> SUFFICES ASSUME pc[t] = "relink" PROVE n # Leftover(t)
      OBVIOUS
    <2>1. Leftover(t) \notin on /\ Leftover(t) \notin {nextNode[u], insertNode[u]}
      BY DEF Shape, ThreadInv, PrevInv
    <2>2. n \in {cur[u], prev[u], nextNode[u], insertNode[u]} /\ n # Null
      BY DEF HeldExclusive, HeldShared
    <2>3. n \in {cur[u], prev[u]} => n \in on
      BY <2>2, HeldAlive
    <2> QED
      BY <2>1, <2>2, <2>3
  <1> QED
    BY <1>1, <1>2, <1>3 DEF HeapStep

\* A thread has locked what its locals point to.
LEMMA OwnPointers ==
  ASSUME LInv, NEW t \in Thread
  PROVE  /\ cur[t] # Null => cur[t] \in HeldExclusive(t) \cup HeldShared(t)
         /\ prev[t] # Null => prev[t] \in HeldExclusive(t)
         /\ nextNode[t] # Null => nextNode[t] \in HeldExclusive(t)
         /\ insertNode[t] # Null => insertNode[t] \in HeldExclusive(t)
  BY DEF HeldExclusive, HeldShared

\* Where a thread that seeks is, its key is not to the left.
LEMMA SeekStart ==
  ASSUME LInv, NEW at, NEW on, Shape(at, on), NEW u \in Thread, pc[u] \in Seeking \cup Waiting
  PROVE  /\ cur[u] \in on \ Lasts /\ cur[u] \in Node /\ op[u].key \in Key
         /\ at[cur[u]] = height[u]
         /\ cur[u] \in Firsts \/ Start(data, cur[u]) <= op[u].key
  <1>1. /\ cur[u] \in on /\ cur[u] \notin Lasts /\ at[cur[u]] = height[u] /\ op[u].key \in Key
        /\ on \subseteq Node
    BY DEF Seeking, Waiting, OnLevel, Shape, ThreadInv, CurInv, CallInv, Listed
  <1>2. /\ cur[u] \in Node /\ Listed(data, Right, at, on) /\ op[u].key \in Int
    BY <1>1, CallAssumption DEF Shape
  <1>3. /\ data[cur[u]] \in Seq(EntryType) /\ Ascending(data[cur[u]])
        /\ data[cur[u]] # <<>> /\ data[cur[u]][1] \in EntriesOf(data[cur[u]])
        /\ \A e \in EntriesOf(data[cur[u]]) : e.key # NoKey => e.key \in Int
        /\ cur[u] \notin Firsts => Start(data, cur[u]) \in Int /\ Start(data, cur[u]) # NoKey
        /\ \A e \in EntriesOf(data[cur[u]]) :
             e.key # NoKey /\ cur[u] \notin Firsts => Start(data, cur[u]) <= e.key
    BY <1>1, <1>2, NodeFacts
  <1>4. CASE pc[u] \in {"level", "below"}
    <2>1. Short(data, cur[u], op[u].key)
      BY <1>4 DEF Shape, ThreadInv, CurInv
    <2> QED
      BY <1>1, <1>2, <1>3, <2>1 DEF Short
  <1>5. CASE pc[u] = "next"
    <2>1. Before(data[cur[u]], op[u].key)
      BY <1>5 DEF Shape, ThreadInv, CurInv
    <2> QED
      BY <1>1, <1>2, <1>3, <2>1 DEF Before, Start
  <1>6. CASE pc[u] = "hit"
    <2>1. Hit(data[cur[u]], op[u].key)
      BY <1>6 DEF Shape, ThreadInv, CurInv
    <2>2. PICK e \in EntriesOf(data[cur[u]]) : e.key = op[u].key
      BY <1>1, <1>3, <2>1, HitEntry
    <2>3. op[u].key # NoKey
      BY <1>2, CallAssumption
    <2> QED
      BY <1>1, <1>3, <2>2, <2>3
  <1> QED
    BY <1>4, <1>5, <1>6 DEF Seeking, Waiting

\* Keys and starts are comparable.
LEMMA StartInt ==
  ASSUME NEW D, NEW X, NEW at, NEW on, Listed(D, X, at, on),
         NEW n \in on, n \notin Lasts, n \notin Firsts
  PROVE  Start(D, n) \in Int /\ Start(D, n) # NoKey /\ n \in Node
  <1>1. n \in Node
    BY DEF Listed
  <1> QED
    BY <1>1, NodeFacts

\* The right neighbour of a node another thread has may start higher, never
\* lower.
LEMMA OthersRight ==
  ASSUME LInv, NEW at, NEW on, Shape(at, on), NEW at2, NEW on2,
         NEW t \in Thread, HeapStep(t, at, on, at2, on2),
         NEW u \in Thread, u # t, NEW n \in HeldExclusive(u) \cup HeldShared(u),
         n \in on \ Lasts, NEW k \in Key
  PROVE  /\ Right'[n] = Right[n]
         /\ Past(data, Right[n], k) => Past(data', Right'[n], k)
         /\ Right[n] \notin Lasts /\ Start(data, Right[n]) = k =>
              \/ Past(data', Right'[n], k)
              \/ Right'[n] \notin Lasts /\ Start(data', Right'[n]) = k
  <1>1. Right'[n] = Right[n] /\ n \in on2 /\ k \in Int
    BY OthersNodes, CallAssumption
  <1> DEFINE x == Right[n]
  <1>2. x \in on /\ x \notin Firsts /\ Listed(data, Right, at, on)
    BY DEF Shape, Listed, Left
  <1>3. Listed(data', Right', at2, on2)
    BY DEF HeapStep
  <1>4. x \in on2
    BY <1>1, <1>3 DEF Listed
  <1> HIDE DEF x
  <1>5. x \notin Lasts => /\ Start(data, x) \in Int /\ Start(data', x) \in Int
                          /\ Start(data, x) <= Start(data', x)
    <2> SUFFICES ASSUME x \notin Lasts
                 PROVE  /\ Start(data, x) \in Int /\ Start(data', x) \in Int
                        /\ Start(data, x) <= Start(data', x)
      OBVIOUS
    <2>1. Start(data, x) \in Int
      BY <1>2, StartInt
    <2>2. Start(data', x) \in Int
      BY <1>2, <1>3, <1>4, StartInt
    <2>3. Start(data, x) <= Start(data', x)
      BY <1>2, <1>4 DEF HeapStep
    <2> QED
      BY <2>1, <2>2, <2>3
  <1>6. Past(data, x, k) => Past(data', x, k)
    BY <1>1, <1>2, <1>5 DEF Past
  <1>7. x \notin Lasts /\ Start(data, x) = k => Past(data', x, k) \/ Start(data', x) = k
    BY <1>1, <1>2, <1>5 DEF Past
  <1> QED
    BY <1>1, <1>6, <1>7 DEF x

\* A step of t leaves the invariant of every other thread alone, part by part: it
\* may change the heap where t has it locked, as HeapStep says.  Their calls:
LEMMA OthersCall ==
  ASSUME LInv, NEW at, NEW on, Shape(at, on), NEW t \in Thread, Others(t),
         NEW u \in Thread, u # t
  PROVE  CallInv(u)'
  <1>1. CallInv(u)
    BY DEF Shape, ThreadInv
  <1>2. pc'[u] = pc[u] /\ op'[u] = op[u] /\ height'[u] = height[u]
    BY DEF Others
  <1> QED
    BY <1>1, <1>2 DEF CallInv, Working

\* Where their cur is: they have that node locked.
LEMMA OthersCur ==
  ASSUME LInv, NEW at, NEW on, Shape(at, on), NEW at2, NEW on2,
         NEW t \in Thread, Others(t), HeapStep(t, at, on, at2, on2),
         NEW u \in Thread, u # t
  PROVE  CurInv(at2, on2, u)'
  <1>1. /\ pc'[u] = pc[u] /\ op'[u] = op[u] /\ height'[u] = height[u]
        /\ cur'[u] = cur[u] /\ index'[u] = index[u]
    BY DEF Others
  <1>2. CurInv(at, on, u) /\ CallInv(u)
    BY DEF Shape, ThreadInv
  <1>3. CASE cur[u] = Null
    BY <1>1, <1>2, <1>3 DEF CurInv, OnLevel
  <1>4. CASE cur[u] # Null
    <2>1. cur[u] \in HeldExclusive(u) \cup HeldShared(u)
      BY <1>4, OwnPointers
    <2>2. /\ data'[cur[u]] = data[cur[u]] /\ at2[cur[u]] = at[cur[u]]
          /\ cur[u] \in on2 <=> cur[u] \in on
      BY <2>1, OthersNodes
    <2>3. Start(data', cur[u]) = Start(data, cur[u])
      BY <2>2 DEF Start
    <2>4. pc[u] = "below" => Past(data', Right'[cur[u]], op[u].key)
      <3> SUFFICES ASSUME pc[u] = "below" PROVE Past(data', Right'[cur[u]], op[u].key)
        OBVIOUS
      <3>1. cur[u] \in on \ Lasts /\ op[u].key \in Key /\ Past(data, Right[cur[u]], op[u].key)
        BY <1>2 DEF CurInv, CallInv, OnLevel
      <3> QED
        BY <2>1, <3>1, OthersRight
    <2>5. \A k : Short(data, cur[u], k) => Short(data', cur[u], k)
      BY <2>3 DEF Short
    <2> QED
      BY <1>1, <1>2, <2>2, <2>4, <2>5 DEF CurInv
  <1> QED
    BY <1>3, <1>4

\* Where their prev is: they have that one locked exclusively.
LEMMA OthersPrev ==
  ASSUME LInv, NEW at, NEW on, Shape(at, on), NEW at2, NEW on2,
         NEW t \in Thread, Others(t), HeapStep(t, at, on, at2, on2),
         NEW u \in Thread, u # t
  PROVE  PrevInv(at2, on2, u)'
  <1>1. /\ pc'[u] = pc[u] /\ op'[u] = op[u] /\ height'[u] = height[u]
        /\ cur'[u] = cur[u] /\ prev'[u] = prev[u]
        /\ Exclusive(u)' <=> Exclusive(u)
    BY OthersHold DEF Others
  <1>2. PrevInv(at, on, u) /\ CurInv(at, on, u)
    BY DEF Shape, ThreadInv
  <1>3. prev[u] # Null =>
          /\ next'[prev[u]] = next[prev[u]]
          /\ prev[u] \in on => prev[u] \in on2 /\ Right'[prev[u]] = Right[prev[u]]
    BY OwnPointers, OthersNodes
  <1>4. cur[u] # Null => Start(data', cur[u]) = Start(data, cur[u])
    BY OwnPointers, OthersNodes DEF Start
  <1>5. prev'[u] # Null =>
          /\ prev'[u] \in on2 \ Lasts /\ prev'[u] # cur'[u] /\ Exclusive(u)'
          /\ \/ pc'[u] \in {"next", "below", "hit", "relink", "settle"}
             \/ op'[u].name = "remove" /\ pc'[u] \in OnLevel
    BY <1>1, <1>2, <1>3 DEF PrevInv
  <1>6. pc'[u] = "hit" /\ Exclusive(u)' /\ ~Short(data', cur'[u], op'[u].key) =>
          prev'[u] # Null /\ Right'[prev'[u]] = cur'[u]
    <2> SUFFICES ASSUME pc'[u] = "hit", Exclusive(u)', ~Short(data', cur'[u], op'[u].key)
                 PROVE  prev'[u] # Null /\ Right'[prev'[u]] = cur'[u]
      OBVIOUS
    <2>1. cur[u] # Null
      BY <1>1, <1>2 DEF CurInv, OnLevel
    <2>2. ~Short(data, cur[u], op[u].key)
      BY <1>1, <1>4, <2>1 DEF Short
    <2>3. prev[u] # Null /\ Right[prev[u]] = cur[u] /\ prev[u] \in on
      BY <1>1, <1>2, <2>2 DEF PrevInv
    <2> QED
      BY <1>1, <1>3, <2>3
  <1>7. pc'[u] = "relink" =>
          /\ prev'[u] # Null /\ Leftover(u)' \in alive' \ on2 /\ next'[Leftover(u)'] = cur'[u]
          /\ \A v \in Thread : /\ Leftover(u)' \notin {nextNode'[v], insertNode'[v]}
                               /\ v # u /\ pc'[v] = "relink" => Leftover(v)' # Leftover(u)'
    <2> SUFFICES ASSUME pc[u] = "relink"
                 PROVE  /\ prev'[u] # Null /\ Leftover(u)' \in alive' \ on2 /\ next'[Leftover(u)'] = cur'[u]
                        /\ \A v \in Thread : /\ Leftover(u)' \notin {nextNode'[v], insertNode'[v]}
                                             /\ v # u /\ pc'[v] = "relink" => Leftover(v)' # Leftover(u)'
      BY <1>1
    <2> DEFINE c == Leftover(u)
    <2>1. /\ prev[u] # Null /\ c \in alive /\ c \notin on /\ next[c] = cur[u]
          /\ \A v \in Thread : /\ c \notin {nextNode[v], insertNode[v]}
                               /\ v # u /\ pc[v] = "relink" => Leftover(v) # c
      BY <1>2 DEF PrevInv
    <2>2. Leftover(u)' = c
      BY <1>1, <1>3, <2>1 DEF Leftover
    <2> HIDE DEF c
    <2>3. c \notin HeldExclusive(t)
      <3>1. c = Null \/ (c # cur[t] /\ c # prev[t])
        BY <2>1, HeldAlive
      <3> QED
        BY <2>1, <3>1, BAssumption DEF HeldExclusive
    <2>4. next'[c] = next[c] /\ c \notin on2 /\ c \in alive'
      BY <2>1, <2>3 DEF HeapStep
    <2>5. ASSUME NEW v \in Thread
          PROVE  /\ c \notin {nextNode'[v], insertNode'[v]}
                 /\ v # u /\ pc'[v] = "relink" => Leftover(v)' # c
      <3>1. CASE v = t
        <4>1. c # Null
          BY <2>1, HeldAlive, BAssumption
        <4>2. c \notin {nextNode'[t], insertNode'[t]}
          BY <2>1, <4>1 DEF HeapStep
        <4>3. pc'[t] = "relink" => Leftover(t)' # c
          BY <2>1 DEF HeapStep
        <4> QED
          BY <3>1, <4>2, <4>3
      <3>2. CASE v # t
        <4>1. /\ nextNode'[v] = nextNode[v] /\ insertNode'[v] = insertNode[v]
              /\ pc'[v] = pc[v] /\ prev'[v] = prev[v]
          BY <3>2 DEF Others
        <4>2. pc[v] = "relink" => Leftover(v)' = Leftover(v)
          <5> SUFFICES ASSUME pc[v] = "relink" PROVE next'[prev[v]] = next[prev[v]]
            BY <4>1 DEF Leftover
          <5>1. prev[v] # Null
            BY DEF Shape, ThreadInv, PrevInv
          <5> QED
            BY <3>2, <5>1, OwnPointers, OthersNodes
        <4> QED
          BY <2>1, <4>1, <4>2
      <3> QED
        BY <3>1, <3>2
    <2> QED
      BY <1>1, <2>1, <2>2, <2>4, <2>5
  <1> QED
    BY <1>5, <1>6, <1>7 DEF PrevInv

\* Their nodes that are on no list yet.
LEMMA OthersNew ==
  ASSUME LInv, NEW at, NEW on, Shape(at, on), NEW at2, NEW on2,
         NEW t \in Thread, Others(t), HeapStep(t, at, on, at2, on2),
         NEW u \in Thread, u # t
  PROVE  NewInv(on2, u)'
  <1>1. /\ pc'[u] = pc[u] /\ op'[u] = op[u] /\ height'[u] = height[u]
        /\ nextNode'[u] = nextNode[u] /\ insertNode'[u] = insertNode[u]
    BY DEF Others
  <1>2. NewInv(on, u)
    BY DEF Shape, ThreadInv
  <1>3. Working(u, height[u])' <=> Working(u, height[u])
    BY <1>1 DEF Working
  <1>4. nextNode[u] # Null => /\ nextNode[u] \in alive' \ on2 /\ next'[nextNode[u]] = Null
    BY <1>2, OwnPointers, OthersNodes DEF NewInv
  <1>5. insertNode[u] # Null => /\ insertNode[u] \in alive' \ on2 /\ next'[insertNode[u]] = Null
    BY <1>2, OwnPointers, OthersNodes DEF NewInv
  <1> QED
    BY <1>1, <1>2, <1>3, <1>4, <1>5 DEF NewInv

\* Where an insert on its way down has left its key: it still has the entry's node
\* locked, and only that entry has the key.
LEMMA OthersSink ==
  ASSUME LInv, NEW at, NEW on, Shape(at, on), NEW at2, NEW on2,
         NEW t \in Thread, Others(t), HeapStep(t, at, on, at2, on2),
         NEW u \in Thread, u # t
  PROVE  SinkInv(at2, on2, u)'
  <1>1. /\ pc'[u] = pc[u] /\ op'[u] = op[u] /\ height'[u] = height[u]
        /\ cur'[u] = cur[u] /\ insertNode'[u] = insertNode[u]
    BY DEF Others
  <1> SUFFICES ASSUME pc[u] = "sink" PROVE SinkInv(at2, on2, u)'
    BY <1>1 DEF SinkInv
  <1>2. /\ insertNode[u] # Null
        /\ \A d : Link(data, at, on, height[u], op[u].key, d) => d = insertNode[u]
        /\ \/ Past(data, Right[cur[u]], op[u].key)
           \/ Right[cur[u]] \notin Lasts /\ Start(data, Right[cur[u]]) = op[u].key
    BY DEF Shape, ThreadInv, SinkInv
  <1>3. /\ cur[u] \in on \ Lasts /\ cur[u] # Null /\ op[u].key \in Key
        /\ Short(data, cur[u], op[u].key) /\ at[cur[u]] = height[u]
    BY DEF Shape, ThreadInv, CurInv, CallInv, OnLevel
  <1>4. \/ Past(data', Right'[cur[u]], op[u].key)
        \/ Right'[cur[u]] \notin Lasts /\ Start(data', Right'[cur[u]]) = op[u].key
    BY <1>2, <1>3, OwnPointers, OthersRight
  <1>5. ASSUME NEW d, Link(data', at2, on2, height[u], op[u].key, d) PROVE d = insertNode[u]
    <2>1. CASE Link(data, at, on, height[u], op[u].key, d)
      BY <1>2, <2>1
    <2>2. CASE NewLink(t, height[u], op[u].key, d)
      <3>1. /\ pc[t] = "below" /\ height[t] = height[u] /\ op[t].key = op[u].key
        BY <2>2 DEF NewLink
      <3>2. /\ cur[t] \in on /\ cur[t] # Null /\ at[cur[t]] = height[u]
            /\ Short(data, cur[t], op[u].key)
            /\ ~Hit(data[cur[t]], op[u].key) /\ Past(data, Right[cur[t]], op[u].key)
        BY <3>1 DEF Shape, ThreadInv, CurInv, OnLevel
      <3>3. Listed(data, Right, at, on)
        BY DEF Shape
      <3>4. cur[t] # cur[u]
        <4>1. cur[t] \in HeldExclusive(t)
          BY <2>2, <3>1, <3>2 DEF NewLink, HeldExclusive, MayWrite, Working
        <4> QED
          BY <1>3, <4>1, OwnPointers, HeldApart
      \* Whose place is whose is decided by the keys.
      <3>5. Left(data, cur[t], cur[u]) \/ Left(data, cur[u], cur[t])
        BY <1>3, <3>2, <3>3, <3>4 DEF Listed
      <3>6. op[u].key \in Int
        BY <1>3, CallAssumption
      <3>7. ~Left(data, cur[t], cur[u])
        <4> SUFFICES ASSUME Left(data, cur[t], cur[u]) PROVE FALSE
          OBVIOUS
        <4>1. Past(data, cur[u], op[u].key)
          BY <1>3, <3>2, <3>3, PastRight
        <4>2. cur[u] \notin Firsts /\ cur[u] \notin Lasts
              /\ Start(data, cur[u]) > op[u].key /\ Start(data, cur[u]) < op[u].key
          BY <1>3, <4>1 DEF Left, Short, Past
        <4>3. Start(data, cur[u]) \in Int
          BY <1>3, <3>3, <4>2, StartInt
        <4> QED
          BY <3>6, <4>2, <4>3
      <3>8. Left(data, cur[u], cur[t])
        BY <3>5, <3>7
      <3>9. ASSUME Past(data, Right[cur[u]], op[u].key) PROVE FALSE
        <4>1. Past(data, cur[t], op[u].key)
          BY <1>3, <3>2, <3>3, <3>8, <3>9, PastRight
        <4>2. cur[t] \notin Firsts /\ cur[t] \notin Lasts
              /\ Start(data, cur[t]) > op[u].key /\ Start(data, cur[t]) < op[u].key
          BY <3>2, <3>8, <4>1 DEF Left, Short, Past
        <4>3. Start(data, cur[t]) \in Int
          BY <3>2, <3>3, <4>2, StartInt
        <4> QED
          BY <3>6, <4>2, <4>3
      <3>10. ASSUME Right[cur[u]] \notin Lasts, Start(data, Right[cur[u]]) = op[u].key PROVE FALSE
        <4> DEFINE x == Right[cur[u]]
        <4>1. x \in on /\ at[x] = height[u] /\ x \notin Firsts /\ x \in Node
          BY <1>3, <3>3 DEF Listed, Left
        <4> HIDE DEF x
        <4>2. PICK e \in EntriesOf(data[x]) : e.key = op[u].key
          BY <3>3, <3>10, <4>1, NodeFacts DEF Start, x
        <4>3. x = cur[t]
          BY <1>3, <3>2, <3>3, <4>1, <4>2, SamePlace
        <4>4. data[x] \in Seq(EntryType) /\ Ascending(data[x])
          BY <3>3, <4>1, NodeFacts
        <4>5. Hit(data[x], op[u].key)
          BY <1>3, <4>2, <4>4, HitFinds
        <4> QED
          BY <3>2, <4>3, <4>5
      <3> QED
        BY <1>2, <3>9, <3>10
    <2> QED
      BY <1>5, <2>1, <2>2 DEF HeapStep
  <1> QED
    BY <1>1, <1>2, <1>4, <1>5 DEF SinkInv

\* Of the nodes that come onto a list only the one that waited is led to from
\* above.
LEMMA NewlyLinked ==
  ASSUME LInv, NEW at, NEW on, Shape(at, on), NEW at2, NEW on2,
         NEW t \in Thread, HeapStep(t, at, on, at2, on2),
         NEW i, NEW k, NEW d, i > 0, Link(data, at, on, i, k, d), d \in on2, d \notin on
  PROVE  /\ d = insertNode[t] /\ d # Null /\ pc[t] \in {"below", "hit"}
         /\ k = op[t].key /\ i - 1 = height[t]
  <1>1. PICK u \in Thread : Waits(u, i - 1, k, d)
    <2>1. ~Stands(at, on, d, i - 1, k)
      BY DEF Stands
    <2> QED
      BY <2>1 DEF Shape, DownInv
  <1>2. insertNode[u] = d /\ d # Null /\ op[u].key = k /\ i - 1 = WaitLevel(u)
    BY <1>1 DEF Waits
  <1>3. d \in alive
    BY <1>2, HeldAlive
  <1>4. d = insertNode[t] /\ pc[t] \in {"below", "hit"}
    BY <1>3 DEF HeapStep
  <1>5. u = t
    BY <1>2, <1>4, OwnPointers, HeldApart
  <1> QED
    BY <1>2, <1>4, <1>5 DEF WaitLevel

\* What they have passed: only nodes they have gone past, or past their key, can be
\* the ends of new down pointers.
LEMMA OthersTowers ==
  ASSUME LInv, NEW at, NEW on, Shape(at, on), NEW at2, NEW on2,
         NEW t \in Thread, Others(t), HeapStep(t, at, on, at2, on2),
         NEW u \in Thread, u # t
  PROVE  TowersPassed(at2, on2, u)'
  <1>1. /\ pc'[u] = pc[u] /\ op'[u] = op[u] /\ height'[u] = height[u]
        /\ cur'[u] = cur[u] /\ insertNode'[u] = insertNode[u]
    BY DEF Others
  <1> SUFFICES ASSUME pc[u] \in Seeking, NEW k, NEW d,
                      Link(data', at2, on2, height[u] + 1, k, d), d \in on2
               PROVE  \/ k = NoKey
                      \/ k > op[u].key
                      \/ /\ cur[u] \notin Firsts /\ k <= Start(data', cur[u])
                         /\ op[u].name = "remove" \/ insertNode[u] # Null => k < op[u].key
    BY <1>1 DEF TowersPassed
  <1>2. /\ cur[u] \in on \ Lasts /\ cur[u] \in Node /\ op[u].key \in Key /\ cur[u] # Null
        /\ at[cur[u]] = height[u]
        /\ cur[u] \in Firsts \/ Start(data, cur[u]) <= op[u].key
    BY SeekStart, BAssumption
  <1>3. Start(data', cur[u]) = Start(data, cur[u])
    BY <1>2, OwnPointers, OthersNodes DEF Start
  <1>4. Link(data, at, on, height[u] + 1, k, d)
    <2>1. ~NewLink(t, height[u] + 1, k, d)
      <3> SUFFICES ASSUME NewLink(t, height[u] + 1, k, d) PROVE FALSE
        OBVIOUS
      <3>1. pc[t] = "below" /\ Working(t, height[t]) /\ d = nextNode[t] /\ height[t] = height[u] + 1
        BY DEF NewLink
      <3>2. height[t] > 0
        BY <3>1, Types DEF LInv
      <3>3. NewInv(on, t)
        BY DEF Shape, ThreadInv
      <3>4. d # Null /\ d \in alive \ on /\ d # insertNode[t]
        BY <3>1, <3>2, <3>3 DEF NewInv
      <3> QED
        BY <3>4 DEF HeapStep
    <2> QED
      BY <2>1 DEF HeapStep
  <1>5. CASE d \in on
    <2>1. TowersPassed(at, on, u)
      BY DEF Shape, ThreadInv
    <2> QED
      BY <1>3, <1>4, <1>5, <2>1 DEF TowersPassed
  <1>6. CASE d \notin on
    <2>0. height[u] \in Int /\ height[u] >= 0
      BY Types DEF LInv
    <2>1. /\ d = insertNode[t] /\ d # Null /\ pc[t] \in {"below", "hit"}
          /\ k = op[t].key /\ height[u] = height[t]
      <3>1. height[u] + 1 > 0 /\ (height[u] + 1) - 1 = height[u]
        BY <2>0
      <3> QED
        BY <1>4, <1>6, <3>1, NewlyLinked
    <2>2. op[t].key \in Key /\ op[t].key \in Int /\ op[u].key \in Int /\ NoKey \notin Int
      BY <1>2, <2>1, CallAssumption DEF Shape, ThreadInv, CallInv
    <2> SUFFICES ASSUME op[t].key <= op[u].key
                 PROVE  /\ cur[u] \notin Firsts /\ op[t].key <= Start(data, cur[u])
                        /\ op[t].key < op[u].key
      BY <1>3, <2>1, <2>2
    <2>3. Left(data, cur[t], cur[u])
      <3>1. InFront(at, on, t, u)
        BY DEF Shape
      <3> QED
        BY <1>4, <2>1, <3>1 DEF InFront, Waiting
    <2>4. /\ cur[t] \in on /\ at[cur[t]] = height[t] /\ cur[t] \in Node /\ Listed(data, Right, at, on)
      BY <2>1, SeekStart DEF Shape, Waiting
    <2>5. cur[u] \notin Firsts
      BY <2>3 DEF Left
    <2>6. Start(data, cur[u]) \in Int
      BY <1>2, <2>4, <2>5, StartInt
    <2>7. op[t].key < Start(data, cur[u])
      <3>1. CASE pc[t] = "below"
        <4>1. Past(data, Right[cur[t]], op[t].key)
          BY <3>1 DEF Shape, ThreadInv, CurInv
        <4>2. Past(data, cur[u], op[t].key)
          BY <1>2, <2>1, <2>2, <2>3, <2>4, <4>1, PastRight
        <4> QED
          BY <1>2, <2>2, <2>6, <4>2 DEF Past
      <3>2. CASE pc[t] = "hit"
        <4>1. Hit(data[cur[t]], op[t].key)
          BY <3>2 DEF Shape, ThreadInv, CurInv
        <4>2. data[cur[t]] \in Seq(EntryType) /\ Ascending(data[cur[t]])
          BY <2>4, NodeFacts
        <4>3. PICK e \in EntriesOf(data[cur[t]]) : e.key = op[t].key
          BY <2>2, <4>1, <4>2, HitEntry
        <4>4. Before(data[cur[t]], Start(data, cur[u]))
          BY <1>2, <2>1, <2>3, <2>4, EntriesLeft
        <4> QED
          BY <2>2, <4>3, <4>4 DEF Before
      <3> QED
        BY <2>1, <3>1, <3>2
    <2> QED
      BY <1>2, <2>2, <2>5, <2>6, <2>7
  <1> QED
    BY <1>5, <1>6

\* The order between two others.
LEMMA OthersInFront ==
  ASSUME LInv, NEW at, NEW on, Shape(at, on), NEW at2, NEW on2,
         NEW t \in Thread, Others(t), HeapStep(t, at, on, at2, on2),
         NEW u \in Thread, u # t, NEW v \in Thread, v # t, u # v
  PROVE  InFront(at2, on2, u, v)'
  <1>1. /\ pc'[u] = pc[u] /\ op'[u] = op[u] /\ height'[u] = height[u]
        /\ cur'[u] = cur[u] /\ insertNode'[u] = insertNode[u]
        /\ pc'[v] = pc[v] /\ op'[v] = op[v] /\ height'[v] = height[v] /\ cur'[v] = cur[v]
    BY DEF Others
  <1> SUFFICES ASSUME insertNode[u] # Null, pc[u] \in Waiting, pc[v] \in Seeking,
                      height[u] = height[v], op[u].key <= op[v].key,
                      NEW k, Link(data', at2, on2, height[u] + 1, k, insertNode[u])
               PROVE  Left(data', cur[u], cur[v])
    BY <1>1 DEF InFront
  <1>2. cur[u] # Null /\ cur[v] # Null
    BY SeekStart, BAssumption
  <1>3. Start(data', cur[u]) = Start(data, cur[u]) /\ Start(data', cur[v]) = Start(data, cur[v])
    BY <1>2, OwnPointers, OthersNodes DEF Start
  <1>4. Link(data, at, on, height[u] + 1, k, insertNode[u])
    <2>1. insertNode[u] # nextNode[t]
      BY OwnPointers, HeldApart
    <2> QED
      BY <2>1 DEF HeapStep, NewLink
  <1>5. Left(data, cur[u], cur[v])
    <2>1. InFront(at, on, u, v)
      BY DEF Shape
    <2> QED
      BY <1>4, <2>1 DEF InFront
  <1> QED
    BY <1>3, <1>5 DEF Left

\* All of it.
LEMMA OthersKept ==
  ASSUME LInv, NEW at, NEW on, Shape(at, on), NEW at2, NEW on2,
         NEW t \in Thread, Others(t), HeapStep(t, at, on, at2, on2)
  PROVE  /\ \A u \in Thread : u # t => ThreadInv(at2, on2, u)'
         /\ \A u, v \in Thread : u # t /\ v # t /\ u # v => InFront(at2, on2, u, v)'
  BY OthersCall, OthersCur, OthersPrev, OthersNew, OthersSink, OthersTowers, OthersInFront
     DEF ThreadInv

-----------------------------------------------------------------------------
(* Steps.                                                                  *)

Labels == {"idle", "top", "level", "next", "below", "sink", "hit", "tower", "merged",
           "relink", "settle", "emit", "step", "ret", "crash"}

\* A step leaves the locals of the other threads alone, and gives t these.
OnlyOwn(t) ==
  /\ pc' = [pc EXCEPT ![t] = pc'[t]] /\ op' = [op EXCEPT ![t] = op'[t]]
  /\ height' = [height EXCEPT ![t] = height'[t]]
  /\ cur' = [cur EXCEPT ![t] = cur'[t]] /\ prev' = [prev EXCEPT ![t] = prev'[t]]
  /\ nextNode' = [nextNode EXCEPT ![t] = nextNode'[t]]
  /\ insertNode' = [insertNode EXCEPT ![t] = insertNode'[t]]
  /\ index' = [index EXCEPT ![t] = index'[t]]
  /\ removed' = [removed EXCEPT ![t] = removed'[t]]
  /\ reply' = [reply EXCEPT ![t] = reply'[t]]

OwnTypes(t) ==
  /\ pc[t] \in Labels /\ op[t] \in OpType /\ height[t] \in Level
  /\ cur[t] \in Pointer /\ prev[t] \in Pointer
  /\ nextNode[t] \in Pointer /\ insertNode[t] \in Pointer
  /\ index[t] \in 0 .. ArraySize + 1
  /\ removed[t] \in BOOLEAN /\ reply[t] \in ReplyType

LocalTypes ==
  /\ pc \in [Thread -> Labels] /\ op \in [Thread -> OpType] /\ height \in [Thread -> Level]
  /\ cur \in [Thread -> Pointer] /\ prev \in [Thread -> Pointer]
  /\ nextNode \in [Thread -> Pointer] /\ insertNode \in [Thread -> Pointer]
  /\ index \in [Thread -> 0 .. ArraySize + 1]
  /\ removed \in [Thread -> BOOLEAN] /\ reply \in [Thread -> ReplyType]

HeapTypes ==
  /\ data \in [Node -> Seq(EntryType)] /\ \A n \in Node : Len(data[n]) <= ArraySize
  /\ next \in [Node -> Pointer] /\ alive \subseteq Node

\* The type invariant in three parts, and LInv from them.
LEMMA TypeParts ==
  /\ TypeOK => LocalTypes /\ HeapTypes
  /\ LocalTypes' /\ HeapTypes' /\ LockTypes' => LInv'
  <1>1. TypeOK => LocalTypes /\ HeapTypes
    BY DEF TypeOK, LocalTypes, HeapTypes, Labels
  <1>2. LocalTypes' /\ HeapTypes' /\ LockTypes' => TypeOK'
    BY DEF TypeOK, LocalTypes, HeapTypes, LockTypes, Labels
  <1>3. LockTypes' => Alone' /\ \A u \in Thread : Holds(u)'
    BY DEF LockTypes
  <1> QED
    BY <1>1, <1>2, <1>3 DEF LInv

\* A local that keeps its value is changed to the value it has.
LEMMA SameLocals ==
  ASSUME LInv, NEW t \in Thread
  PROVE  /\ pc = [pc EXCEPT ![t] = pc[t]] /\ op = [op EXCEPT ![t] = op[t]]
         /\ height = [height EXCEPT ![t] = height[t]]
         /\ cur = [cur EXCEPT ![t] = cur[t]] /\ prev = [prev EXCEPT ![t] = prev[t]]
         /\ nextNode = [nextNode EXCEPT ![t] = nextNode[t]]
         /\ insertNode = [insertNode EXCEPT ![t] = insertNode[t]]
         /\ index = [index EXCEPT ![t] = index[t]]
         /\ removed = [removed EXCEPT ![t] = removed[t]]
         /\ reply = [reply EXCEPT ![t] = reply[t]]
  BY TypeParts DEF LInv, LocalTypes

\* The types of the locals of one thread.
LEMMA OwnType ==
  ASSUME LInv, NEW t \in Thread
  PROVE  OwnTypes(t)
  BY TypeParts DEF LInv, LocalTypes, OwnTypes

\* A step that changes its own locals only leaves those of the others alone.
LEMMA OwnStep ==
  ASSUME LInv, NEW t \in Thread, OnlyOwn(t), OwnTypes(t)'
  PROVE  Others(t) /\ LocalTypes'
  <1>1. LocalTypes
    BY TypeParts DEF LInv
  <1>2. LocalTypes'
    BY <1>1 DEF LocalTypes, OnlyOwn, OwnTypes
  <1>3. Others(t)
    BY <1>1 DEF LocalTypes, OnlyOwn, Others
  <1> QED
    BY <1>2, <1>3

\* What is on the lists depends on the right neighbours of the nodes on them only.
LEMMA ListedSame ==
  ASSUME NEW D, NEW X, NEW at, NEW on, Listed(D, X, at, on), NEW X2, \A n \in on : X2[n] = X[n]
  PROVE  Listed(D, X2, at, on)
  <1>1. /\ \A n \in on \cap Lasts : X2[n] = Null
        /\ \A n \in on \ Lasts : /\ X2[n] \in on /\ at[X2[n]] = at[n] /\ Left(D, n, X2[n])
                                 /\ X2[n] \notin Lasts => Before(D[n], Start(D, X2[n]))
        /\ \A m, n \in on : at[m] = at[n] /\ Left(D, m, n) => n = X2[m] \/ Left(D, X2[m], n)
    BY DEF Listed
  <1> QED
    BY <1>1 DEF Listed

\* A step of t that only changes its own locals and the locks.
Quiet(t) ==
  /\ UNCHANGED <<heap, fresh>> /\ Others(t)
  /\ pc[t] # "relink" /\ pc'[t] # "relink"
  /\ insertNode[t] # Null => op'[t] = op[t] /\ WaitLevel(t)' = WaitLevel(t)

\* A step that does not change the heap keeps the lists, and is a HeapStep.
LEMMA QuietStep ==
  ASSUME LInv, NEW at, NEW on, Shape(at, on), NEW t \in Thread, Quiet(t)
  PROVE  /\ data' = data /\ next' = next /\ alive' = alive /\ Right' = Right /\ HeapTypes'
         /\ nextNode' = nextNode /\ insertNode' = insertNode
         /\ Listed(data, Right, at, on)' /\ DownInv(at, on)' /\ Accounted(on)'
         /\ HeapStep(t, at, on, at, on)
  <1>1. /\ data' = data /\ next' = next /\ alive' = alive
        /\ nextNode' = nextNode /\ insertNode' = insertNode
    BY DEF Quiet, heap, fresh
  <1>2. ASSUME NEW n PROVE (\E u \in Thread : pc'[u] = "relink" /\ prev'[u] = n)
                             <=> \E u \in Thread : pc[u] = "relink" /\ prev[u] = n
    BY DEF Quiet, Others
  <1>3. Right' = Right
    BY <1>1, <1>2 DEF Right
  <1>4. Listed(data, Right, at, on) /\ Listed(data, Right, at, on)'
    BY <1>1, <1>3 DEF Shape
  <1>5. HeapTypes'
    BY <1>1, TypeParts DEF LInv, HeapTypes
  <1>6. DownInv(at, on)'
    <2>1. ASSUME NEW u \in Thread, NEW i, NEW k, NEW d, Waits(u, i, k, d) PROVE Waits(u, i, k, d)'
      <3>1. u # t => WaitLevel(u)' = WaitLevel(u) /\ op'[u] = op[u]
        BY OthersHold DEF Quiet, Others
      <3>2. u = t /\ insertNode[t] # Null => WaitLevel(u)' = WaitLevel(u) /\ op'[u] = op[u]
        BY DEF Quiet
      <3> QED
        BY <1>1, <2>1, <3>1, <3>2 DEF Waits
    <2> QED
      BY <1>1, <2>1 DEF Shape, DownInv, Stands
  <1>7. Accounted(on)'
    <2>1. ASSUME NEW u \in Thread, pc[u] = "relink" PROVE pc'[u] = "relink" /\ Leftover(u)' = Leftover(u)
      BY <1>1, <2>1 DEF Quiet, Others, Leftover
    <2> QED
      BY <1>1, <2>1 DEF Shape, Accounted
  <1>8. HeapStep(t, at, on, at, on)
    <2>1. \A n \in on : n \notin Firsts /\ n \notin Lasts => Start(data, n) <= Start(data', n)
      <3> SUFFICES ASSUME NEW n \in on, n \notin Firsts, n \notin Lasts
                   PROVE  Start(data, n) <= Start(data, n)
        BY <1>1
      <3>1. Start(data, n) \in Int
        BY <1>4, StartInt
      <3> QED
        BY <3>1
    <2> QED
      BY <1>1, <1>3, <1>4, <2>1 DEF HeapStep, Quiet
  <1> QED
    BY <1>1, <1>3, <1>4, <1>5, <1>6, <1>7, <1>8

\* What is left to show of a step.
LEMMA StepDone ==
  ASSUME LInv, NEW at, NEW on, Shape(at, on), NEW t \in Thread, Others(t),
         NEW at2, NEW on2, HeapStep(t, at, on, at2, on2),
         LocalTypes', HeapTypes', LockTypes', DownInv(at2, on2)', Accounted(on2)',
         ThreadInv(at2, on2, t)',
         \A u \in Thread : u # t => InFront(at2, on2, t, u)' /\ InFront(at2, on2, u, t)'
  PROVE  Inv'
  <1>1. Shape(at2, on2)'
    <2>1. Listed(data, Right, at2, on2)'
      BY DEF HeapStep
    <2>2. \A u \in Thread : ThreadInv(at2, on2, u)'
      BY OthersKept
    <2>3. \A u, v \in Thread : v # u => InFront(at2, on2, u, v)'
      BY OthersKept
    <2> QED
      BY <2>1, <2>2, <2>3 DEF Shape
  <1>2. LInv'
    BY TypeParts
  <1>3. (\E a, o : Shape(a, o))'
    BY <1>1
  <1> QED
    BY <1>2, <1>3 DEF Inv

\* The same of a step that is quiet.
LEMMA QuietDone ==
  ASSUME LInv, NEW at, NEW on, Shape(at, on), NEW t \in Thread, Quiet(t),
         LocalTypes', LockTypes', ThreadInv(at, on, t)',
         \A u \in Thread : u # t => InFront(at, on, t, u)' /\ InFront(at, on, u, t)'
  PROVE  Inv'
  <1>1. /\ HeapTypes' /\ DownInv(at, on)' /\ Accounted(on)' /\ HeapStep(t, at, on, at, on)
    BY QuietStep
  <1>2. Others(t)
    BY DEF Quiet
  <1> QED
    BY <1>1, <1>2, StepDone

-----------------------------------------------------------------------------
(* The steps that look for nothing.                                        *)

Resting == {"idle", "top", "ret"}

\* Outside a call, and as it starts and ends, a thread has nothing.
LEMMA RestHolds ==
  ASSUME LInv, NEW at, NEW on, Shape(at, on), NEW t \in Thread, pc[t] \in Resting
  PROVE  /\ cur[t] = Null /\ prev[t] = Null /\ nextNode[t] = Null /\ insertNode[t] = Null
         /\ HeldExclusive(t) = {} /\ HeldShared(t) = {}
  <1>1. CurInv(at, on, t) /\ PrevInv(at, on, t) /\ NewInv(on, t)
    BY DEF Shape, ThreadInv
  <1>2. cur[t] = Null /\ prev[t] = Null
    BY <1>1 DEF CurInv, PrevInv, OnLevel, Resting
  <1>3. nextNode[t] = Null /\ insertNode[t] = Null
    BY <1>1 DEF NewInv, Waiting, Resting
  <1> QED
    BY <1>2, <1>3 DEF HeldExclusive, HeldShared

\* A thread between two calls, or about to begin or to end one, has no place on a
\* list and no locks.
LEMMA Rests ==
  ASSUME NEW at, NEW on, NEW t \in Thread, pc'[t] \in Resting,
         cur'[t] = Null, prev'[t] = Null, nextNode'[t] = Null, insertNode'[t] = Null
  PROVE  /\ HeldExclusive(t)' = {} /\ HeldShared(t)' = {}
         /\ CurInv(at, on, t)' /\ PrevInv(at, on, t)' /\ NewInv(on, t)'
         /\ SinkInv(at, on, t)' /\ TowersPassed(at, on, t)'
  <1>1. HeldExclusive(t)' = {} /\ HeldShared(t)' = {}
    BY DEF HeldExclusive, HeldShared
  <1>2. CurInv(at, on, t)'
    BY DEF CurInv, Resting, OnLevel
  <1>3. PrevInv(at, on, t)' /\ NewInv(on, t)' /\ SinkInv(at, on, t)'
    BY DEF PrevInv, NewInv, SinkInv, Resting
  <1>4. TowersPassed(at, on, t)'
    BY DEF TowersPassed, Resting, Seeking
  <1> QED
    BY <1>1, <1>2, <1>3, <1>4

\* The order between threads is about threads on their way on a level only.
LEMMA NotInFront ==
  ASSUME NEW at, NEW on, NEW t \in Thread, pc'[t] \notin Waiting
  PROVE  \A u \in Thread : u # t => InFront(at, on, t, u)' /\ InFront(at, on, u, t)'
  BY DEF InFront, Waiting, Seeking

\* The labels there are.
LEMMA AllLabels ==
  /\ "idle" \in Labels /\ "top" \in Labels /\ "level" \in Labels /\ "next" \in Labels
  /\ "below" \in Labels /\ "sink" \in Labels /\ "hit" \in Labels /\ "tower" \in Labels
  /\ "merged" \in Labels /\ "relink" \in Labels /\ "settle" \in Labels
  /\ "emit" \in Labels /\ "step" \in Labels /\ "ret" \in Labels /\ "crash" \in Labels
  /\ TRUE \in BOOLEAN /\ FALSE \in BOOLEAN
  BY DEF Labels

\* A call a client makes has its type.
LEMMA CallTypes ==
  ASSUME NEW o \in Ops(GenLevels)
  PROVE  /\ o \in OpType /\ o.key \in Key /\ o.name # "idle"
         /\ o.name \in {"get", "remove", "insert", "range"}
  <1>1. 0 \in Level /\ 0 \in Nat /\ GenLevels = Level
    BY CallAssumption DEF GenLevels, Level
  <1>2. CASE o \in [name : {"get", "remove"}, key : Key, val : {NoValue}, level : {0}, len : {0}]
    BY <1>1, <1>2 DEF OpType
  <1>3. CASE o \in [name : {"insert"}, key : Key, val : Value, level : GenLevels, len : {0}]
    BY <1>1, <1>3 DEF OpType
  <1>4. CASE o \in [name : {"range"}, key : Key, val : {NoValue}, level : {0}, len : Length]
    BY <1>1, <1>4, CallAssumption DEF OpType
  <1> QED
    BY <1>2, <1>3, <1>4 DEF Ops

\* A client makes a call: it has no locks and no place yet.
LEMMA CallKeeps ==
  ASSUME LInv, NEW at, NEW on, Shape(at, on), NEW t \in Thread,
         NEW o \in Ops(GenLevels), Call(t, o)
  PROVE  Inv'
  <1>1. /\ o \in OpType /\ o.key \in Key /\ o.name # "idle"
        /\ o.name \in {"get", "remove", "insert", "range"}
        /\ MaxHeight - 1 \in Level
    BY CallTypes, CallAssumption DEF Level
  <1>2. pc[t] = "idle"
    BY DEF Call
  <1>3. /\ pc'[t] = "top" /\ op'[t] = o /\ height'[t] = MaxHeight - 1 /\ cur'[t] = cur[t]
        /\ prev'[t] = prev[t] /\ nextNode'[t] = nextNode[t] /\ insertNode'[t] = insertNode[t]
        /\ index'[t] = index[t] /\ removed'[t] = removed[t] /\ reply'[t] = reply[t]
        /\ OnlyOwn(t)
    BY TypeParts, SameLocals DEF LInv, LocalTypes, Call, Goto, OnlyOwn, fresh, scan
  <1>4. Others(t) /\ LocalTypes'
    <2>1. OwnTypes(t)'
      BY <1>1, <1>3, OwnType, AllLabels DEF OwnTypes
    <2> QED
      BY <1>3, <2>1, OwnStep
  <1>5. /\ cur[t] = Null /\ prev[t] = Null /\ nextNode[t] = Null /\ insertNode[t] = Null
        /\ HeldExclusive(t) = {} /\ HeldShared(t) = {}
    BY <1>2, RestHolds DEF Resting
  <1>6. Quiet(t)
    BY <1>2, <1>3, <1>4, <1>5 DEF Quiet, Call
  <1>7. /\ HeldExclusive(t)' = {} /\ HeldShared(t)' = {}
        /\ CurInv(at, on, t)' /\ PrevInv(at, on, t)' /\ NewInv(on, t)'
        /\ SinkInv(at, on, t)' /\ TowersPassed(at, on, t)'
    BY <1>3, <1>5, Rests DEF Resting
  <1>8. LockTypes'
    BY <1>4, <1>5, <1>7, LocksSame DEF Call
  <1>9. CallInv(t)'
    BY <1>1, <1>3 DEF CallInv
  <1>10. \A u \in Thread : u # t => InFront(at, on, t, u)' /\ InFront(at, on, u, t)'
    BY <1>3, NotInFront DEF Waiting
  <1> QED
    BY <1>4, <1>6, <1>7, <1>8, <1>9, <1>10, QuietDone DEF ThreadInv

\* A call returns.
LEMMA ReturnKeeps ==
  ASSUME LInv, NEW at, NEW on, Shape(at, on), NEW t \in Thread, Return(t)
  PROVE  Inv'
  <1>1. IdleOp \in OpType /\ 0 \in Level /\ 0 \in 0 .. ArraySize + 1 /\ NoReply \in ReplyType
    BY CallAssumption, BAssumption DEF IdleOp, OpType, Level, NoReply, ReplyType
  <1>2. pc[t] = "ret"
    BY DEF Return
  <1>3. /\ pc'[t] = "idle" /\ op'[t] = IdleOp /\ height'[t] = 0 /\ cur'[t] = cur[t]
        /\ prev'[t] = prev[t] /\ nextNode'[t] = nextNode[t] /\ insertNode'[t] = insertNode[t]
        /\ index'[t] = 0 /\ removed'[t] = FALSE /\ reply'[t] = NoReply
        /\ OnlyOwn(t)
    BY TypeParts, SameLocals DEF LInv, LocalTypes, Return, Goto, Answer, OnlyOwn, fresh
  <1>4. Others(t) /\ LocalTypes'
    <2>1. OwnTypes(t)'
      BY <1>1, <1>3, OwnType, AllLabels DEF OwnTypes
    <2> QED
      BY <1>3, <2>1, OwnStep
  <1>5. /\ cur[t] = Null /\ prev[t] = Null /\ nextNode[t] = Null /\ insertNode[t] = Null
        /\ HeldExclusive(t) = {} /\ HeldShared(t) = {}
    BY <1>2, RestHolds DEF Resting
  <1>6. Quiet(t)
    BY <1>2, <1>3, <1>4, <1>5 DEF Quiet, Return
  <1>7. /\ HeldExclusive(t)' = {} /\ HeldShared(t)' = {}
        /\ CurInv(at, on, t)' /\ PrevInv(at, on, t)' /\ NewInv(on, t)'
        /\ SinkInv(at, on, t)' /\ TowersPassed(at, on, t)'
    BY <1>3, <1>5, Rests DEF Resting
  <1>8. LockTypes'
    BY <1>4, <1>5, <1>7, LocksSame DEF Return
  <1>9. CallInv(t)'
    BY <1>1, <1>3 DEF CallInv
  <1>10. \A u \in Thread : u # t => InFront(at, on, t, u)' /\ InFront(at, on, u, t)'
    BY <1>3, NotInFront DEF Waiting
  <1> QED
    BY <1>4, <1>6, <1>7, <1>8, <1>9, <1>10, QuietDone DEF ThreadInv

\* In which mode a thread has the node it is in.
LEMMA ModeOf ==
  ASSUME LInv, NEW at, NEW on, Shape(at, on), NEW t \in Thread
  PROVE  /\ pc[t] \in {"level", "next", "below", "hit"} => (MayWrite(t) <=> Exclusive(t))
         /\ pc[t] \in {"sink", "relink", "settle"} => MayWrite(t) /\ Exclusive(t)
         /\ pc[t] = "merged" => MayWrite(t)
         /\ op[t].name \in {"get", "range"} => ~MayWrite(t) /\ ~Exclusive(t)
         /\ op[t].name = "remove" => MayWrite(t) /\ Exclusive(t)
         /\ pc[t] = "tower" => (MayWrite(t) <=> op[t].name = "insert" /\ height[t] = 0)
         /\ ~MayWrite(t) => prev[t] = Null /\ nextNode[t] = Null /\ insertNode[t] = Null
         /\ op[t].name # "insert" => nextNode[t] = Null /\ insertNode[t] = Null
         /\ ~Exclusive(t) => prev[t] = Null /\ nextNode[t] = Null /\ insertNode[t] = Null
  <1>1. /\ CallInv(t) /\ PrevInv(at, on, t) /\ NewInv(on, t) /\ height[t] \in Int
        /\ op[t].level \in Int /\ op[t].level >= 0
    BY Types DEF Shape, ThreadInv, LInv, OpType, Level
  <1>2. /\ pc[t] \in {"level", "next", "below", "hit"} => (MayWrite(t) <=> Exclusive(t))
        /\ pc[t] \in {"sink", "relink", "settle"} => MayWrite(t) /\ Exclusive(t)
        /\ pc[t] = "merged" => MayWrite(t)
        /\ op[t].name \in {"get", "range"} => ~MayWrite(t) /\ ~Exclusive(t)
        /\ op[t].name = "remove" => MayWrite(t) /\ Exclusive(t)
    BY <1>1 DEF CallInv, MayWrite, Exclusive, Working
  <1>3. pc[t] = "tower" => (MayWrite(t) <=> op[t].name = "insert" /\ height[t] = 0)
    BY <1>1 DEF CallInv, MayWrite
  <1>4. ~Exclusive(t) => prev[t] = Null /\ nextNode[t] = Null /\ insertNode[t] = Null
    BY <1>1 DEF PrevInv, NewInv, Exclusive
  <1>5. op[t].name # "insert" => nextNode[t] = Null /\ insertNode[t] = Null
    BY <1>1 DEF NewInv, Working
  <1>6. pc[t] = "tower" => prev[t] = Null \/ op[t].name = "remove"
    BY <1>1 DEF PrevInv
  <1>7. pc[t] = "tower" => nextNode[t] = Null /\ insertNode[t] = Null
    BY <1>1 DEF NewInv, Waiting
  <1>8. ASSUME ~MayWrite(t) PROVE prev[t] = Null /\ nextNode[t] = Null /\ insertNode[t] = Null
    <2>1. CASE pc[t] = "tower"
      BY <1>2, <1>6, <1>7, <1>8, <2>1
    <2>2. CASE pc[t] # "tower"
      <3>1. ~Exclusive(t)
        BY <1>8, <2>2 DEF MayWrite, Exclusive, Working
      <3> QED
        BY <3>1, <1>4
    <2> QED
      BY <2>1, <2>2
  <1> QED
    BY <1>2, <1>3, <1>4, <1>5, <1>8

\* The call ends and nothing is left locked.
LEMMA LeaveSets ==
  ASSUME LInv, NEW at, NEW on, Shape(at, on), NEW t \in Thread, NEW m \in Modes,
         pc[t] \in OnLevel, nextNode[t] = Null, insertNode[t] = Null,
         Unlock(t, {cur[t], prev[t]}, m), m = "exclusive" <=> MayWrite(t),
         Stand(t, "ret", Null, Null),
         reply' = [reply EXCEPT ![t] = reply'[t]], reply'[t] \in ReplyType,
         UNCHANGED <<op, height, fresh, scan>>
  PROVE  /\ pc'[t] = "ret" /\ op'[t] = op[t] /\ insertNode' = insertNode /\ nextNode' = nextNode
         /\ Others(t) /\ LocalTypes' /\ LockTypes'
         /\ \A a, o : ThreadInv(a, o, t)'
         /\ \A a, o : \A u \in Thread : u # t => InFront(a, o, t, u)' /\ InFront(a, o, u, t)'
  <1>1. /\ pc'[t] = "ret" /\ op'[t] = op[t] /\ height'[t] = height[t] /\ cur'[t] = Null
        /\ prev'[t] = Null /\ nextNode'[t] = Null /\ insertNode'[t] = Null
        /\ index'[t] = index[t] /\ removed'[t] = removed[t]
        /\ OnlyOwn(t)
    BY TypeParts, SameLocals DEF LInv, LocalTypes, Stand, Goto, OnlyOwn, fresh, scan
  <1>2. Others(t) /\ LocalTypes'
    <2>1. OwnTypes(t)'
      BY <1>1, OwnType, AllLabels DEF OwnTypes, Pointer
    <2> QED
      BY <1>1, <2>1, OwnStep
  <1>3. \A a, o : /\ HeldExclusive(t)' = {} /\ HeldShared(t)' = {}
                  /\ CurInv(a, o, t)' /\ PrevInv(a, o, t)' /\ NewInv(o, t)'
                  /\ SinkInv(a, o, t)' /\ TowersPassed(a, o, t)'
    <2> TAKE a, o
    <2> QED
      BY <1>1, Rests DEF Resting
  <1>4. CallInv(t)'
    <2>1. CallInv(t)
      BY DEF Shape, ThreadInv
    <2> QED
      BY <1>1, <2>1 DEF CallInv, OnLevel
  <1>5. /\ HeldExclusive(t) = {} \/ m = "exclusive"
        /\ \A n \in Node : n \in HeldExclusive(t) /\ m = "exclusive" => n \in {cur[t], prev[t]}
        /\ \A n \in Node : n \in {cur[t], prev[t]} /\ m = "exclusive" => n \in HeldExclusive(t)
        /\ HeldShared(t) = {} \/ m = "shared"
        /\ \A n \in Node : n \in HeldShared(t) /\ m = "shared" => n \in {cur[t], prev[t]}
    BY ModeOf, BAssumption DEF Modes, HeldExclusive, HeldShared
  <1>6. LockTypes'
    <2>1. Relock(t, {}, m, {cur[t], prev[t]}, m)
      BY DEF Unlock
    <2>2. HeldExclusive(t)' = {} /\ HeldShared(t)' = {}
      BY <1>3
    <2> HIDE DEF LockTypes
    <2> QED
      BY <1>2, <1>5, <2>1, <2>2, RelockSound
  <1>7. \A a, o : \A u \in Thread : u # t => InFront(a, o, t, u)' /\ InFront(a, o, u, t)'
    <2> TAKE a, o
    <2> QED
      BY <1>1, NotInFront DEF Waiting
  <1> QED
    BY <1>1, <1>2, <1>3, <1>4, <1>6, <1>7 DEF ThreadInv, fresh

\* A call ends and unlocks its last nodes in the mode it has them in.
LEMMA LeaveKeeps ==
  ASSUME LInv, NEW at, NEW on, Shape(at, on), NEW t \in Thread, NEW m \in Modes,
         pc[t] \in OnLevel \ {"relink"}, nextNode[t] = Null, insertNode[t] = Null,
         Unlock(t, {cur[t], prev[t]}, m), m = "exclusive" <=> MayWrite(t),
         Stand(t, "ret", Null, Null),
         reply' = [reply EXCEPT ![t] = reply'[t]], reply'[t] \in ReplyType,
         UNCHANGED <<op, height, fresh, scan>>, UNCHANGED heap
  PROVE  Inv'
  <1>1. /\ pc'[t] = "ret" /\ op'[t] = op[t] /\ insertNode' = insertNode /\ nextNode' = nextNode
        /\ Others(t) /\ LocalTypes' /\ LockTypes'
        /\ \A a, o : ThreadInv(a, o, t)'
        /\ \A a, o : \A u \in Thread : u # t => InFront(a, o, t, u)' /\ InFront(a, o, u, t)'
    BY LeaveSets
  <1>2. Quiet(t)
    BY <1>1 DEF Quiet, fresh
  <1> QED
    BY <1>1, <1>2, QuietDone

\* The bottom of a call that found nothing, of one that only reads, and of a
\* range.
LEMMA OffTheBottomKeeps ==
  ASSUME LInv, NEW at, NEW on, Shape(at, on), NEW t \in Thread,
         \/ op[t].name = "get" /\ OffTheBottom(t, "shared", <<"get", op[t].key, NoValue>>)
         \/ op[t].name = "remove" /\ OffTheBottom(t, "exclusive", NoReply)
  PROVE  Inv'
  <1>1. pc[t] = "below" /\ UNCHANGED heap /\ CallInv(t)
    BY DEF OffTheBottom, Shape, ThreadInv
  <1>2. op[t].key \in Key
    BY <1>1 DEF CallInv
  <1>3. nextNode[t] = Null /\ insertNode[t] = Null
    BY ModeOf
  <1>4. reply \in [Thread -> ReplyType]
    BY TypeParts DEF LInv, LocalTypes
  <1>5. CASE op[t].name = "get"
    <2>1. OffTheBottom(t, "shared", <<"get", op[t].key, NoValue>>)
      BY <1>5
    <2>2. /\ Unlock(t, {cur[t], prev[t]}, "shared") /\ Stand(t, "ret", Null, Null)
          /\ UNCHANGED <<op, height, fresh, scan>>
          /\ reply' = [reply EXCEPT ![t] = <<"get", op[t].key, NoValue>>]
      BY <2>1 DEF OffTheBottom, Leave, Answer
    <2>3. reply' = [reply EXCEPT ![t] = reply'[t]] /\ reply'[t] \in ReplyType
      BY <1>2, <1>4, <2>2 DEF ReplyType
    <2>4. "shared" = "exclusive" <=> MayWrite(t)
      BY <1>5, ModeOf
    <2> QED
      BY <1>1, <1>3, <2>2, <2>3, <2>4, LeaveKeeps DEF OnLevel, Modes
  <1>6. CASE op[t].name = "remove"
    <2>1. OffTheBottom(t, "exclusive", NoReply)
      BY <1>6
    <2>2. /\ Unlock(t, {cur[t], prev[t]}, "exclusive") /\ Stand(t, "ret", Null, Null)
          /\ UNCHANGED <<op, height, fresh, scan>>
          /\ reply' = [reply EXCEPT ![t] = NoReply]
      BY <2>1 DEF OffTheBottom, Leave, Answer
    <2>3. reply' = [reply EXCEPT ![t] = reply'[t]] /\ reply'[t] \in ReplyType
      BY <1>4, <2>2 DEF ReplyType, NoReply
    <2>4. "exclusive" = "exclusive" <=> MayWrite(t)
      BY <1>6, ModeOf
    <2> QED
      BY <1>1, <1>3, <2>2, <2>3, <2>4, LeaveKeeps DEF OnLevel, Modes
  <1> QED
    BY <1>5, <1>6

\* The entry at the key a call has found.
LEMMA FoundEntry ==
  ASSUME LInv, NEW at, NEW on, Shape(at, on), NEW t \in Thread,
         pc[t] \in {"hit", "tower", "merged", "settle"}
  PROVE  /\ cur[t] \in on \ Lasts /\ cur[t] \in Node /\ op[t].key \in Key
         /\ At(t) \in EntriesOf(data[cur[t]]) /\ At(t) \in EntryType /\ At(t).key = op[t].key
         /\ Passed(data[cur[t]], op[t].key) + 1 \in 1 .. Len(data[cur[t]])
         /\ Link(data, at, on, height[t], op[t].key, At(t).down)
  <1>1. /\ cur[t] \in on \ Lasts /\ op[t].key \in Key /\ Hit(data[cur[t]], op[t].key)
        /\ at[cur[t]] = height[t] /\ on \subseteq Node /\ Listed(data, Right, at, on)
    BY DEF Shape, ThreadInv, CurInv, CallInv, OnLevel, Listed
  <1>2. /\ cur[t] \in Node /\ data[cur[t]] \in Seq(EntryType) /\ Ascending(data[cur[t]])
    BY <1>1, NodeFacts
  <1>3. /\ At(t) \in EntriesOf(data[cur[t]]) /\ At(t).key = op[t].key
        /\ Passed(data[cur[t]], op[t].key) + 1 \in 1 .. Len(data[cur[t]])
    BY <1>1, <1>2, HitEntry DEF At
  <1>4. At(t) \in EntryType
    BY <1>2, <1>3, EntrySeq
  <1> QED
    BY <1>1, <1>2, <1>3, <1>4 DEF Link

\* get answers at the foot of the tower.
LEMMA ReadValueKeeps ==
  ASSUME LInv, NEW at, NEW on, Shape(at, on), NEW t \in Thread,
         op[t].name = "get", ReadValue(t)
  PROVE  Inv'
  <1>1. /\ pc[t] \in {"hit", "tower"} /\ UNCHANGED heap
        /\ Unlock(t, {cur[t], prev[t]}, "shared") /\ Stand(t, "ret", Null, Null)
        /\ UNCHANGED <<op, height, fresh, scan>>
        /\ reply' = [reply EXCEPT ![t] = <<"get", op[t].key, At(t).val>>]
    BY DEF ReadValue, AtTowerFoot, Leave, Answer
  <1>2. nextNode[t] = Null /\ insertNode[t] = Null /\ ~MayWrite(t)
    BY ModeOf
  <1>3. op[t].key \in Key /\ At(t).val \in Value \cup {NoValue}
    BY <1>1, FoundEntry DEF EntryType
  <1>4. reply' = [reply EXCEPT ![t] = reply'[t]] /\ reply'[t] \in ReplyType
    <2>1. reply \in [Thread -> ReplyType]
      BY TypeParts DEF LInv, LocalTypes
    <2> QED
      BY <1>1, <1>3, <2>1 DEF ReplyType
  <1> QED
    BY <1>1, <1>2, <1>4, LeaveKeeps DEF OnLevel, Modes

\* range ends.
LEMMA RangeDoneKeeps ==
  ASSUME LInv, NEW at, NEW on, Shape(at, on), NEW t \in Thread,
         op[t].name = "range", RangeDone(t)
  PROVE  Inv'
  <1>1. /\ pc[t] \in {"emit", "step"} /\ UNCHANGED heap
        /\ Unlock(t, {cur[t], prev[t]}, "shared") /\ Stand(t, "ret", Null, Null)
        /\ UNCHANGED <<op, height, fresh, scan>>
        /\ reply' = [reply EXCEPT ![t] = reply[t]]
    BY DEF RangeDone, Leave, Answer
  <1>2. nextNode[t] = Null /\ insertNode[t] = Null /\ ~MayWrite(t)
    BY ModeOf
  <1>3. reply' = [reply EXCEPT ![t] = reply'[t]] /\ reply'[t] \in ReplyType
    <2>1. reply \in [Thread -> ReplyType]
      BY TypeParts DEF LInv, LocalTypes
    <2> QED
      BY <1>1, <2>1
  <1> QED
    BY <1>1, <1>2, <1>3, LeaveKeeps DEF OnLevel, Modes

\* The node to the right of the one a thread is in.
LEMMA NextOf ==
  ASSUME LInv, NEW at, NEW on, Shape(at, on), NEW t \in Thread,
         pc[t] \in OnLevel \ {"emit"}
  PROVE  /\ cur[t] \in on \ Lasts /\ cur[t] \in Node /\ cur[t] \in alive /\ at[cur[t]] = height[t]
         /\ next[cur[t]] = Right[cur[t]]
         /\ next[cur[t]] \in on /\ next[cur[t]] \in alive /\ next[cur[t]] \in Node
         /\ next[cur[t]] # Null /\ next[cur[t]] # cur[t] /\ next[cur[t]] \notin Firsts
         /\ at[next[cur[t]]] = height[t] /\ Left(data, cur[t], next[cur[t]])
         /\ next[cur[t]] \notin Lasts => Before(data[cur[t]], Start(data, next[cur[t]]))
  <1>1. /\ cur[t] \in on \ Lasts /\ at[cur[t]] = height[t] /\ on \subseteq Node /\ cur[t] # Null
        /\ Listed(data, Right, at, on)
    BY DEF Shape, ThreadInv, CurInv, Listed
  <1>2. on \subseteq alive
    BY HeldAlive
  <1>3. next[cur[t]] = Right[cur[t]]
    <2>1. cur[t] \in HeldExclusive(t) \cup HeldShared(t)
      BY <1>1, OwnPointers
    <2>2. prev[t] # cur[t]
      BY <1>1 DEF Shape, ThreadInv, PrevInv
    <2> QED
      BY <1>1, <2>1, <2>2, RightIsNext
  <1>4. /\ Right[cur[t]] \in on /\ at[Right[cur[t]]] = at[cur[t]] /\ Left(data, cur[t], Right[cur[t]])
        /\ Right[cur[t]] \notin Lasts => Before(data[cur[t]], Start(data, Right[cur[t]]))
    BY <1>1 DEF Listed
  <1>5. Right[cur[t]] # cur[t] /\ Right[cur[t]] \notin Firsts
    BY <1>1, <1>4, LeftOrder DEF Left
  <1> QED
    BY <1>1, <1>2, <1>3, <1>4, <1>5, Ends

\* A call that only reads has the node it is in, and that shared.
LEMMA Reads ==
  ASSUME NEW t \in Thread
  PROVE  /\ ~MayWrite(t) /\ prev[t] = Null /\ nextNode[t] = Null /\ insertNode[t] = Null
              => HeldExclusive(t) = {} /\ HeldShared(t) = {cur[t]} \ {Null}
         /\ ~MayWrite(t)' /\ prev'[t] = Null /\ nextNode'[t] = Null /\ insertNode'[t] = Null
              => HeldExclusive(t)' = {} /\ HeldShared(t)' = {cur'[t]} \ {Null}
  BY DEF HeldExclusive, HeldShared

\* Hand over hand under shared locks.
LEMMA LockShared ==
  ASSUME LInv, NEW t \in Thread, Others(t), NEW n \in Node, n \in alive, n # cur[t],
         CanLock(n, "shared"), Relock(t, {n}, "shared", {cur[t]}, "shared"),
         HeldExclusive(t) = {}, HeldShared(t) = {cur[t]} \ {Null},
         HeldExclusive(t)' = {}, HeldShared(t)' = {n}
  PROVE  LockTypes'
  <1>1. owner[n] = NoThread
    BY DEF CanLock
  <1>2. "shared" \in Modes /\ Null \notin Node
    BY BAssumption DEF Modes
  <1> HIDE DEF LockTypes
  <1> QED
    BY <1>1, <1>2, RelockSound

\* The steps of a range among the pairs.
LEMMA RangeStep ==
  ASSUME LInv, NEW at, NEW on, Shape(at, on), NEW t \in Thread,
         op[t].name = "range", pc[t] \in OnLevel, height[t] = 0,
         UNCHANGED <<heap, fresh>>, LockTypes', OnlyOwn(t), OwnTypes(t)',
         op'[t].name = "range", op'[t].key = op[t].key, height'[t] = 0, prev'[t] = prev[t],
         pc'[t] \in {"emit", "step"}, cur'[t] \in on, at[cur'[t]] = 0,
         pc'[t] = "step" => cur'[t] \notin Lasts /\ index'[t] \in 2 .. Len(data[cur'[t]]) + 1,
         pc'[t] = "emit" => index'[t] \in 1 .. Len(data[cur'[t]]) + 1
  PROVE  Inv'
  <1>1. Others(t) /\ LocalTypes'
    BY OwnStep
  <1>2. prev[t] = Null /\ nextNode[t] = Null /\ insertNode[t] = Null
    BY ModeOf
  <1>3. /\ data' = data /\ prev'[t] = Null /\ nextNode'[t] = Null /\ insertNode'[t] = Null
    BY <1>2 DEF heap, fresh
  <1>4. Quiet(t)
    <2>1. pc[t] # "relink"
      BY DEF Shape, ThreadInv, CallInv, Working
    <2> QED
      BY <1>1, <1>2, <2>1 DEF Quiet
  <1>5. CallInv(t)'
    <2>1. CallInv(t)
      BY DEF Shape, ThreadInv
    <2> QED
      BY <2>1 DEF CallInv, OnLevel
  <1>6. CurInv(at, on, t)'
    <2>1. cur'[t] # Null
      BY Ends DEF Shape, Listed
    <2> QED
      BY <1>3, <2>1 DEF CurInv, OnLevel
  <1>7. PrevInv(at, on, t)' /\ NewInv(on, t)' /\ SinkInv(at, on, t)'
    BY <1>3 DEF PrevInv, NewInv, SinkInv
  <1>8. TowersPassed(at, on, t)'
    BY DEF TowersPassed, Seeking
  <1>9. \A u \in Thread : u # t => InFront(at, on, t, u)' /\ InFront(at, on, u, t)'
    BY NotInFront DEF Waiting
  <1> QED
    BY <1>1, <1>4, <1>5, <1>6, <1>7, <1>8, <1>9, QuietDone DEF ThreadInv

\* A range has cur shared and nothing else.
LEMMA RangeReads ==
  ASSUME LInv, NEW at, NEW on, Shape(at, on), NEW t \in Thread,
         op[t].name = "range", op'[t].name = "range", prev' = prev, UNCHANGED fresh
  PROVE  /\ HeldExclusive(t) = {} /\ HeldShared(t) = {cur[t]} \ {Null}
         /\ HeldExclusive(t)' = {} /\ HeldShared(t)' = {cur'[t]} \ {Null}
  <1>1. ~MayWrite(t) /\ prev[t] = Null /\ nextNode[t] = Null /\ insertNode[t] = Null
    BY ModeOf
  <1>2. ~MayWrite(t)'
    BY DEF MayWrite
  <1> QED
    BY <1>1, <1>2, Reads DEF fresh

\* What a range has come to when it is at the bottom.
LEMMA Index ==
  ASSUME LInv, NEW at, NEW on, Shape(at, on), NEW n \in Node
  PROVE  /\ Len(data[n]) \in Nat /\ Len(data[n]) <= ArraySize /\ ArraySize \in Nat
         /\ \A i \in 1 .. Len(data[n]) + 1 : i \in 0 .. ArraySize + 1
  <1>1. data[n] \in Seq(EntryType) /\ Len(data[n]) <= ArraySize /\ ArraySize \in Nat
    BY TypeParts, BAssumption DEF LInv, HeapTypes
  <1>2. Len(data[n]) \in Nat
    BY <1>1
  <1> QED
    BY <1>1, <1>2

\* range begins in the node it is in.
LEMMA StartHereKeeps ==
  ASSUME LInv, NEW at, NEW on, Shape(at, on), NEW t \in Thread,
         op[t].name = "range", StartHere(t)
  PROVE  Inv'
  <1> DEFINE i == Passed(data[cur[t]], op[t].key) + 1
  <1>1. /\ pc[t] \in {"below", "hit", "tower"} /\ (pc[t] = "below" => height[t] = 0)
        /\ pc[t] \in {"hit", "tower"} => At(t).down = Null
        /\ pc' = [pc EXCEPT ![t] = "emit"] /\ index' = [index EXCEPT ![t] = i]
        /\ UNCHANGED <<heap, locks, op, height, cur, prev, fresh, removed, reply>>
    BY DEF StartHere, AtTowerFoot, Goto
  <1> HIDE DEF i
  <1>2. /\ pc'[t] = "emit" /\ op'[t] = op[t] /\ height'[t] = height[t] /\ cur'[t] = cur[t]
        /\ prev'[t] = prev[t] /\ nextNode'[t] = nextNode[t] /\ insertNode'[t] = insertNode[t]
        /\ index'[t] = i /\ removed'[t] = removed[t] /\ reply'[t] = reply[t]
        /\ OnlyOwn(t)
    BY <1>1, TypeParts, SameLocals DEF LInv, LocalTypes, OnlyOwn, fresh
  <1>3. /\ cur[t] \in on /\ cur[t] \in Node /\ at[cur[t]] = height[t] /\ op[t].key \in Key
        /\ Listed(data, Right, at, on)
    <2>1. pc[t] \in OnLevel \ {"emit"} /\ pc[t] # "idle"
      BY <1>1 DEF OnLevel
    <2> QED
      BY <2>1, NextOf DEF Shape, ThreadInv, CallInv
  <1>4. i \in 1 .. Len(data[cur[t]]) + 1
    <2>1. data[cur[t]] \in Seq(EntryType) /\ Ascending(data[cur[t]])
      BY <1>3, NodeFacts
    <2>2. Passed(data[cur[t]], op[t].key) \in 0 .. Len(data[cur[t]]) /\ Len(data[cur[t]]) \in Nat
      BY <1>3, <2>1, PassedSplits
    <2> QED
      BY <2>2 DEF i
  <1>5. height[t] = 0
    <2>1. CASE pc[t] = "below"
      BY <1>1, <2>1
    <2>2. CASE pc[t] \in {"hit", "tower"}
      <3>1. Link(data, at, on, height[t], op[t].key, Null)
        BY <1>1, <2>2, FoundEntry
      <3>2. ASSUME height[t] > 0 PROVE FALSE
        <4>1. \/ Stands(at, on, Null, height[t] - 1, op[t].key)
              \/ \E u \in Thread : Waits(u, height[t] - 1, op[t].key, Null)
          BY <3>1, <3>2 DEF Shape, DownInv
        <4>2. Null \notin on
          BY <1>3, Ends DEF Listed
        <4> QED
          BY <4>1, <4>2 DEF Stands, Waits
      <3> QED
        BY <3>2, Types DEF LInv
    <2> QED
      BY <1>1, <2>1, <2>2
  <1>6. OwnTypes(t)'
    BY <1>2, <1>3, <1>4, Index, OwnType, AllLabels DEF OwnTypes
  <1>7. LockTypes'
    <2>1. OnlyOwn(t) /\ Others(t)
      BY <1>2, <1>6, OwnStep
    <2>2. prev' = prev /\ UNCHANGED fresh /\ UNCHANGED locks
      BY <1>1
    <2>3. HeldExclusive(t)' = HeldExclusive(t) /\ HeldShared(t)' = HeldShared(t)
      BY <1>2, <2>2, RangeReads
    <2> QED
      BY <2>1, <2>2, <2>3, LocksSame
  <1>8. UNCHANGED <<heap, fresh>>
    BY <1>1
  <1> QED
    BY <1>1, <1>2, <1>3, <1>4, <1>5, <1>6, <1>7, <1>8, RangeStep DEF OnLevel

\* range hands out a pair: its index stays within the array or right behind it.
LEMMA EmitKeeps ==
  ASSUME LInv, NEW at, NEW on, Shape(at, on), NEW t \in Thread,
         op[t].name = "range", Emit(t)
  PROVE  Inv'
  <1> DEFINE e == data[cur[t]][index[t]]
             o == [op[t] EXCEPT !.len = @ - 1]
             r == <<"pair", e.key, e.val>>
  <1>1. /\ pc[t] = "emit" /\ index[t] <= Len(data[cur[t]]) /\ op[t].len > 0
        /\ pc' = [pc EXCEPT ![t] = "step"] /\ index' = [index EXCEPT ![t] = index[t] + 1]
        /\ op' = [op EXCEPT ![t] = o] /\ reply' = [reply EXCEPT ![t] = r]
        /\ UNCHANGED <<heap, locks, height, cur, prev, fresh, removed>>
    BY DEF Emit, Goto, Answer
  <1>2. /\ cur[t] \in on /\ cur[t] \in Node /\ at[cur[t]] = height[t] /\ height[t] = 0
        /\ index[t] \in 1 .. Len(data[cur[t]]) + 1 /\ Listed(data, Right, at, on)
    BY <1>1 DEF Shape, ThreadInv, CallInv, CurInv, OnLevel, Listed
  <1>3. Len(data[cur[t]]) \in Nat /\ index[t] \in 1 .. Len(data[cur[t]])
    BY <1>1, <1>2, Index
  <1>4. e \in EntryType /\ cur[t] \notin Lasts
    <2>1. data[cur[t]] \in Seq(EntryType)
      BY <1>2, NodeFacts
    <2>2. e \in EntriesOf(data[cur[t]])
      BY <1>3, <2>1, EntrySeq
    <2> QED
      BY <1>2, <2>2, NodeFacts
  <1>5. o \in OpType /\ o.name = op[t].name /\ o.key = op[t].key
    <2>1. op[t] \in OpType
      BY OwnType DEF OwnTypes
    <2>2. op[t].len \in Nat /\ op[t].len - 1 \in Nat
      BY <1>1, <2>1 DEF OpType
    <2> QED
      BY <2>1, <2>2 DEF OpType
  <1>6. r \in ReplyType
    BY <1>4 DEF ReplyType, EntryType
  <1> HIDE DEF o, r
  <1>7. /\ pc'[t] = "step" /\ op'[t] = o /\ height'[t] = height[t] /\ cur'[t] = cur[t]
        /\ prev'[t] = prev[t] /\ nextNode'[t] = nextNode[t] /\ insertNode'[t] = insertNode[t]
        /\ index'[t] = index[t] + 1 /\ removed'[t] = removed[t] /\ reply'[t] = r
        /\ OnlyOwn(t)
    BY <1>1, TypeParts, SameLocals DEF LInv, LocalTypes, OnlyOwn, fresh
  <1>8. index[t] + 1 \in 2 .. Len(data[cur[t]]) + 1 /\ index[t] + 1 \in 1 .. Len(data[cur[t]]) + 1
    BY <1>3
  <1>9. OwnTypes(t)'
    BY <1>2, <1>5, <1>6, <1>7, <1>8, Index, OwnType, AllLabels DEF OwnTypes
  <1>10. LockTypes'
    <2>1. Others(t)
      BY <1>7, <1>9, OwnStep
    <2>2. prev' = prev /\ UNCHANGED fresh /\ UNCHANGED locks
      BY <1>1
    <2>3. HeldExclusive(t)' = HeldExclusive(t) /\ HeldShared(t)' = HeldShared(t)
      BY <1>5, <1>7, <2>2, RangeReads
    <2> QED
      BY <2>1, <2>2, <2>3, LocksSame
  <1>11. UNCHANGED <<heap, fresh>>
    BY <1>1
  <1> QED
    BY <1>1, <1>2, <1>4, <1>5, <1>7, <1>8, <1>9, <1>10, <1>11, RangeStep DEF OnLevel

\* range goes on in its node.
LEMMA StepInNodeKeeps ==
  ASSUME LInv, NEW at, NEW on, Shape(at, on), NEW t \in Thread,
         op[t].name = "range", StepInNode(t)
  PROVE  Inv'
  <1>1. /\ pc[t] = "step" /\ index[t] <= Len(data[cur[t]])
        /\ pc' = [pc EXCEPT ![t] = "emit"]
        /\ UNCHANGED <<heap, locks, op, height, cur, prev, fresh, scan, reply>>
    BY DEF StepInNode, Goto
  <1>2. /\ cur[t] \in on /\ cur[t] \in Node /\ at[cur[t]] = height[t] /\ height[t] = 0
        /\ index[t] \in 2 .. Len(data[cur[t]]) + 1
    BY <1>1 DEF Shape, ThreadInv, CallInv, CurInv, OnLevel, Listed
  <1>3. index[t] \in 1 .. Len(data[cur[t]]) + 1
    BY <1>2, Index
  <1>4. /\ pc'[t] = "emit" /\ op'[t] = op[t] /\ height'[t] = height[t] /\ cur'[t] = cur[t]
        /\ prev'[t] = prev[t] /\ nextNode'[t] = nextNode[t] /\ insertNode'[t] = insertNode[t]
        /\ index'[t] = index[t] /\ removed'[t] = removed[t] /\ reply'[t] = reply[t]
        /\ OnlyOwn(t)
    BY <1>1, TypeParts, SameLocals DEF LInv, LocalTypes, OnlyOwn, fresh, scan
  <1>5. OwnTypes(t)'
    BY <1>4, OwnType, AllLabels DEF OwnTypes
  <1>6. LockTypes'
    <2>1. Others(t)
      BY <1>4, <1>5, OwnStep
    <2>2. prev' = prev /\ UNCHANGED fresh /\ UNCHANGED locks
      BY <1>1
    <2>3. HeldExclusive(t)' = HeldExclusive(t) /\ HeldShared(t)' = HeldShared(t)
      BY <1>4, <2>2, RangeReads
    <2> QED
      BY <2>1, <2>2, <2>3, LocksSame
  <1>7. UNCHANGED <<heap, fresh>>
    BY <1>1
  <1> QED
    BY <1>1, <1>2, <1>3, <1>4, <1>5, <1>6, <1>7, RangeStep DEF OnLevel

\* range goes on to the next node, with its index set back.
LEMMA RangeRightKeeps ==
  ASSUME LInv, NEW at, NEW on, Shape(at, on), NEW t \in Thread,
         op[t].name = "range", StartNext(t) \/ StepRight(t)
  PROVE  Inv'
  <1> DEFINE n == next[cur[t]]
  <1>1. /\ pc[t] \in {"next", "step"} /\ height[t] = 0
        /\ CanLock(n, "shared") /\ Relock(t, {n}, "shared", {cur[t]}, "shared")
        /\ pc' = [pc EXCEPT ![t] = "emit"] /\ cur' = [cur EXCEPT ![t] = n]
        /\ index' = [index EXCEPT ![t] = 1]
        /\ UNCHANGED <<heap, op, height, prev, fresh, removed, reply>>
    <2>1. CASE StartNext(t)
      BY <2>1 DEF StartNext, Goto
    <2>2. CASE StepRight(t)
      <3>1. height[t] = 0
        BY <2>2 DEF StepRight, Shape, ThreadInv, CallInv
      <3> QED
        BY <2>2, <3>1 DEF StepRight, Goto, FirstIndex
    <2> QED
      BY <2>1, <2>2
  <1>2. /\ n \in on /\ n \in alive /\ n \in Node /\ n # Null /\ n # cur[t] /\ at[n] = 0
    BY <1>1, NextOf DEF OnLevel
  <1> HIDE DEF n
  <1>3. /\ pc'[t] = "emit" /\ op'[t] = op[t] /\ height'[t] = height[t] /\ cur'[t] = n
        /\ prev'[t] = prev[t] /\ nextNode'[t] = nextNode[t] /\ insertNode'[t] = insertNode[t]
        /\ index'[t] = 1 /\ removed'[t] = removed[t] /\ reply'[t] = reply[t]
        /\ OnlyOwn(t)
    BY <1>1, TypeParts, SameLocals DEF LInv, LocalTypes, OnlyOwn, fresh
  <1>4. 1 \in 1 .. Len(data[n]) + 1 /\ 1 \in 0 .. ArraySize + 1
    BY <1>2, Index
  <1>5. OwnTypes(t)'
    BY <1>2, <1>3, <1>4, OwnType, AllLabels DEF OwnTypes, Pointer
  <1>6. LockTypes'
    <2>1. Others(t)
      BY <1>3, <1>5, OwnStep
    <2>2. /\ HeldExclusive(t) = {} /\ HeldShared(t) = {cur[t]} \ {Null}
          /\ HeldExclusive(t)' = {} /\ HeldShared(t)' = {n}
      BY <1>1, <1>2, <1>3, RangeReads
    <2> QED
      BY <1>1, <1>2, <2>1, <2>2, LockShared
  <1>7. UNCHANGED <<heap, fresh>>
    BY <1>1
  <1> QED
    BY <1>1, <1>2, <1>3, <1>4, <1>5, <1>6, <1>7, RangeStep DEF OnLevel

-----------------------------------------------------------------------------
(* The steps from node to node.                                            *)

\* A thread locks the node it goes to and unlocks the one it was in.
LEMMA LockMove ==
  ASSUME LInv, NEW at, NEW on, Shape(at, on), NEW t \in Thread, Others(t),
         NEW n \in Node, n \in alive, n # cur[t], cur[t] # Null,
         NEW m \in Modes, NEW l \in Modes, CanLock(n, m), Relock(t, {n}, m, {cur[t]}, l),
         l = "exclusive" <=> MayWrite(t), m = "exclusive" <=> MayWrite(t)',
         cur'[t] = n, prev'[t] = prev[t], nextNode'[t] = nextNode[t],
         insertNode'[t] = insertNode[t]
  PROVE  /\ LockTypes'
         /\ n \notin {prev[t], nextNode[t], insertNode[t]}
  <1>1. owner[n] = NoThread /\ (m = "exclusive" => shared[n] = {})
    BY DEF CanLock
  <1>2. \A x \in Node : x \in HeldExclusive(t) => owner[x] = t /\ t # NoThread
    BY BAssumption DEF LInv, Holds
  <1>3. n \notin {prev[t], nextNode[t], insertNode[t]}
    BY <1>1, <1>2, OwnPointers, BAssumption
  <1>4. cur[t] \notin {prev[t], nextNode[t], insertNode[t]}
    BY DEF Shape, ThreadInv, CurInv, PrevInv, NewInv
  <1>5. \A x \in Node : x \in HeldExclusive(t)' <=>
            /\ ~(l = "exclusive" /\ x \in {cur[t]})
            /\ (m = "exclusive" /\ x \in {n}) \/ x \in HeldExclusive(t)
    BY <1>3, <1>4, BAssumption DEF HeldExclusive
  <1>6. \A x \in Node : x \in HeldShared(t)' <=>
            /\ ~(l = "shared" /\ x \in {cur[t]})
            /\ (m = "shared" /\ x \in {n}) \/ x \in HeldShared(t)
    BY BAssumption DEF HeldShared, Modes
  <1>7. l = "exclusive" => \A x \in {cur[t]} : x \in Node => x \in HeldExclusive(t)
    BY BAssumption DEF HeldExclusive
  <1>8. \A x \in {n} : x \in Node /\ owner[x] = NoThread /\ (m = "exclusive" => shared[x] = {})
    BY <1>1
  <1>9. LockTypes'
    <2> HIDE DEF LockTypes
    <2> QED
      BY <1>5, <1>6, <1>7, <1>8, RelockSound
  <1> QED
    BY <1>3, <1>9

\* A node that can be locked and that an entry leads to is on its list.
LEMMA DownStands ==
  ASSUME LInv, NEW at, NEW on, Shape(at, on), NEW i \in Level, NEW k, NEW n, n # Null,
         Link(data, at, on, i, k, n), NEW m, CanLock(n, m)
  PROVE  i > 0 /\ i - 1 \in Level /\ Stands(at, on, n, i - 1, k) /\ n \in Node /\ n \in alive
  <1>1. i \in Int /\ i >= 0 /\ (i > 0 => i - 1 \in Level)
    BY CallAssumption DEF Level
  <1>2. i > 0
    BY <1>1 DEF Shape, DownInv
  <1>3. ASSUME NEW u \in Thread, Waits(u, i - 1, k, n) PROVE FALSE
    <2>1. insertNode[u] = n
      BY <1>3 DEF Waits
    <2>2. n \in HeldExclusive(u) /\ n \in Node
      BY <2>1, OwnPointers, Types DEF LInv
    <2>3. owner[n] = u /\ n \in alive
      BY <2>2, HeldAlive DEF LInv, Holds
    <2> QED
      BY <2>3, BAssumption DEF CanLock
  <1>4. Stands(at, on, n, i - 1, k)
    BY <1>2, <1>3 DEF Shape, DownInv
  <1>5. n \in Node /\ n \in alive
    BY <1>4 DEF Stands, Shape, Accounted, Listed
  <1> QED
    BY <1>1, <1>2, <1>4, <1>5

\* The node an entry leads to starts with its key.
LEMMA StandsHit ==
  ASSUME LInv, NEW at, NEW on, Shape(at, on), NEW i, NEW k \in Key, NEW n, Stands(at, on, n, i, k)
  PROVE  Hit(data[n], k)
  <1>1. n \in on \ Lasts /\ Start(data, n) = k /\ Listed(data, Right, at, on) /\ n \in Node
    BY DEF Stands, Shape, Listed
  <1>2. data[n] \in Seq(EntryType) /\ Ascending(data[n]) /\ data[n][1] \in EntriesOf(data[n])
    BY <1>1, NodeFacts
  <1> QED
    BY <1>1, <1>2, HitFinds DEF Start

\* A call follows the entry that has its key down: the node below starts with the
\* key, since nobody who waits to put a node there lets it pass.
LEMMA DescendTowerKeeps ==
  ASSUME LInv, NEW at, NEW on, Shape(at, on), NEW t \in Thread, NEW m \in Modes, NEW l \in Modes,
         pc[t] \in {"hit", "tower", "merged"}, DescendTower(t, m, l),
         op[t].name \in {"get", "insert", "range"},
         l = "exclusive" <=> MayWrite(t),
         pc[t] = "hit" => ~Exclusive(t),
         pc[t] = "merged" => m = "exclusive",
         pc[t] # "merged" => (m = "exclusive" <=> op[t].name = "insert" /\ height[t] = 1)
  PROVE  Inv'
  <1> DEFINE n == At(t).down
             there == IF pc[t] = "hit" THEN "tower" ELSE pc[t]
  <1>1. /\ n # Null /\ CanLock(n, m) /\ Relock(t, {n}, m, {cur[t]}, l)
        /\ cur' = [cur EXCEPT ![t] = n] /\ height' = [height EXCEPT ![t] = height[t] - 1]
        /\ pc' = [pc EXCEPT ![t] = InTower(n, op[t].key, there)]
        /\ UNCHANGED <<heap, op, prev, fresh, scan, reply>>
    BY DEF DescendTower, Goto
  <1>2. /\ cur[t] \in on \ Lasts /\ cur[t] \in Node /\ op[t].key \in Key /\ at[cur[t]] = height[t]
        /\ Link(data, at, on, height[t], op[t].key, n)
    BY FoundEntry DEF Shape, ThreadInv, CurInv, OnLevel
  <1> HIDE DEF n
  <1>3. height[t] \in Level /\ height[t] \in Int
    BY Types DEF LInv
  <1>4. /\ height[t] > 0 /\ height[t] - 1 \in Level /\ Stands(at, on, n, height[t] - 1, op[t].key)
        /\ n \in Node /\ n \in alive
    BY <1>1, <1>2, <1>3, DownStands
  <1>5. Hit(data[n], op[t].key) /\ n \in on \ Lasts /\ at[n] = height[t] - 1 /\ n # cur[t]
    BY <1>2, <1>3, <1>4, StandsHit DEF Stands
  <1>6. there \in {"tower", "merged"} /\ (there = "merged" <=> pc[t] = "merged")
    OBVIOUS
  <1> HIDE DEF there
  <1>7. /\ pc'[t] = there /\ op'[t] = op[t] /\ height'[t] = height[t] - 1 /\ cur'[t] = n
        /\ prev'[t] = prev[t] /\ nextNode'[t] = nextNode[t] /\ insertNode'[t] = insertNode[t]
        /\ index'[t] = index[t] /\ removed'[t] = removed[t] /\ reply'[t] = reply[t]
        /\ OnlyOwn(t)
    <2>1. InTower(n, op[t].key, there) = there
      BY <1>5 DEF InTower
    <2> QED
      BY <1>1, <2>1, TypeParts, SameLocals DEF LInv, LocalTypes, OnlyOwn, fresh, scan
  <1>8. OwnTypes(t)'
    BY <1>4, <1>6, <1>7, OwnType, AllLabels DEF OwnTypes, Pointer
  <1>9. Others(t) /\ LocalTypes'
    BY <1>7, <1>8, OwnStep
  <1>10. prev[t] = Null /\ nextNode[t] = Null /\ insertNode[t] = Null
    <2>1. CASE pc[t] = "hit"
      BY <2>1, ModeOf
    <2>2. CASE pc[t] \in {"tower", "merged"}
      <3>1. PrevInv(at, on, t) /\ NewInv(on, t)
        BY DEF Shape, ThreadInv
      <3> QED
        BY <2>2, <3>1 DEF PrevInv, NewInv, Waiting
    <2> QED
      BY <2>1, <2>2
  <1>11. m = "exclusive" <=> MayWrite(t)'
    <2>1. CASE pc[t] = "merged"
      <3>1. op[t].name = "insert"
        BY <2>1 DEF Shape, ThreadInv, CallInv
      <3> QED
        BY <1>6, <1>7, <2>1, <3>1 DEF MayWrite
    <2>2. CASE pc[t] # "merged"
      <3>1. pc'[t] = "tower" /\ (height'[t] = 0 <=> height[t] = 1)
        BY <1>3, <1>6, <1>7, <2>2
      <3> QED
        BY <1>7, <2>2, <3>1 DEF MayWrite
    <2> QED
      BY <2>1, <2>2
  <1>12. LockTypes'
    <2>1. cur[t] # Null
      BY <1>2, Ends
    <2> HIDE DEF LockTypes
    <2> QED
      BY <1>1, <1>4, <1>5, <1>7, <1>9, <1>11, <2>1, LockMove
  <1>13. data' = data
    BY <1>1 DEF heap
  <1>14. Quiet(t)
    BY <1>1, <1>6, <1>7, <1>9, <1>10 DEF Quiet
  <1>15. CallInv(t)'
    <2>1. CallInv(t)
      BY DEF Shape, ThreadInv
    <2>2. pc[t] = "merged" => op[t].name = "insert"
      BY <2>1 DEF CallInv
    <2> QED
      BY <1>2, <1>6, <1>7, <2>2 DEF CallInv
  <1>16. CurInv(at, on, t)'
    <2>1. n # Null
      BY <1>1
    <2> QED
      BY <1>5, <1>6, <1>7, <1>13, <2>1 DEF CurInv, OnLevel
  <1>17. PrevInv(at, on, t)' /\ NewInv(on, t)' /\ SinkInv(at, on, t)' /\ TowersPassed(at, on, t)'
    BY <1>6, <1>7, <1>10 DEF PrevInv, NewInv, SinkInv, TowersPassed, Seeking
  <1>18. \A u \in Thread : u # t => InFront(at, on, t, u)' /\ InFront(at, on, u, t)'
    BY <1>6, <1>7, NotInFront DEF Waiting
  <1> QED
    BY <1>9, <1>12, <1>14, <1>15, <1>16, <1>17, <1>18, QuietDone DEF ThreadInv

\* What a node that does not start past the key is for a search.
LEMMA Beyond ==
  ASSUME LInv, NEW at, NEW on, Shape(at, on), NEW n \in on, n \notin Firsts, NEW k \in Key
  PROVE  /\ StartsAfter(n, k) => Past(data, n, k)
         /\ ~StartsAfter(n, k) => n \notin Lasts /\ Start(data, n) <= k
  <1>1. Listed(data, Right, at, on) /\ n \in Node /\ n # Null
    BY Ends DEF Shape, Listed
  <1>2. /\ n \notin Lasts => data[n] # <<>> /\ Start(data, n) \in Int /\ Start(data, n) # NoKey
        /\ n \in Lasts => data[n] = <<>>
    <2>1. NodeOK(data, on, n)
      BY <1>1 DEF Listed
    <2> QED
      BY <1>1, <2>1, NodeFacts DEF NodeOK
  <1>3. k \in Int
    BY CallAssumption
  <1> QED
    BY <1>1, <1>2, <1>3 DEF StartsAfter, Past, Start

\* A thread that looks for its key on a level keeps its mode.
LEMMA SameWrite ==
  ASSUME NEW t \in Thread, op'[t].name = op[t].name, op'[t].level = op[t].level,
         height'[t] = height[t],
         pc[t] \in {"level", "next", "below", "hit"}, pc'[t] \in {"level", "next", "below", "hit"}
  PROVE  /\ MayWrite(t)' <=> MayWrite(t)
         /\ Working(t, height[t])' <=> Working(t, height[t])
         /\ Exclusive(t)' <=> Exclusive(t)
  BY DEF MayWrite, Exclusive, Working

\* The neighbour starts above the key: it is unlocked, and the way is down.
LEMMA StopShortKeeps ==
  ASSUME LInv, NEW at, NEW on, Shape(at, on), NEW t \in Thread, NEW m, StopShort(t, m)
  PROVE  Inv'
  <1> DEFINE n == next[cur[t]]
  <1>1. /\ pc[t] = "next" /\ StartsAfter(n, op[t].key)
        /\ pc' = [pc EXCEPT ![t] = "below"]
        /\ UNCHANGED <<heap, locks, op, height, cur, prev, fresh, scan, reply>>
    BY DEF StopShort, Goto
  <1>2. /\ n \in on /\ n \notin Firsts /\ n = Right[cur[t]]
        /\ cur[t] \in on \ Lasts /\ cur[t] \in Node /\ at[cur[t]] = height[t]
    BY <1>1, NextOf DEF OnLevel
  <1> HIDE DEF n
  <1>3. op[t].key \in Key /\ Before(data[cur[t]], op[t].key) /\ cur[t] # Null
    BY <1>1, <1>2 DEF Shape, ThreadInv, CallInv, CurInv, OnLevel
  <1>4. Past(data, n, op[t].key)
    BY <1>1, <1>2, <1>3, Beyond
  <1>5. Short(data, cur[t], op[t].key) /\ ~Hit(data[cur[t]], op[t].key)
    <2>1. Listed(data, Right, at, on) /\ op[t].key \in Int /\ NoKey \notin Int
      BY <1>3, CallAssumption DEF Shape
    <2>2. /\ data[cur[t]] \in Seq(EntryType) /\ Ascending(data[cur[t]])
          /\ data[cur[t]][1] \in EntriesOf(data[cur[t]])
          /\ cur[t] \notin Firsts => Start(data, cur[t]) \in Int /\ Start(data, cur[t]) # NoKey
          /\ \A e \in EntriesOf(data[cur[t]]) : e.key # NoKey => e.key \in Int
      BY <1>2, <2>1, NodeFacts
    <2>3. ~Hit(data[cur[t]], op[t].key)
      <3>1. ASSUME NEW e \in EntriesOf(data[cur[t]]), e.key = op[t].key PROVE FALSE
        BY <1>3, <2>1, <2>2, <3>1 DEF Before
      <3> QED
        BY <1>3, <2>2, <3>1, HitFinds
    <2> QED
      BY <1>2, <1>3, <2>2, <2>3 DEF Short, Before, Start
  <1>6. /\ pc'[t] = "below" /\ op'[t] = op[t] /\ height'[t] = height[t] /\ cur'[t] = cur[t]
        /\ prev'[t] = prev[t] /\ nextNode'[t] = nextNode[t] /\ insertNode'[t] = insertNode[t]
        /\ index'[t] = index[t] /\ removed'[t] = removed[t] /\ reply'[t] = reply[t]
        /\ OnlyOwn(t)
    BY <1>1, TypeParts, SameLocals DEF LInv, LocalTypes, OnlyOwn, fresh, scan
  <1>7. Others(t) /\ LocalTypes'
    <2>1. OwnTypes(t)'
      BY <1>6, OwnType, AllLabels DEF OwnTypes
    <2> QED
      BY <1>6, <2>1, OwnStep
  <1>8. /\ MayWrite(t)' <=> MayWrite(t)
        /\ Working(t, height[t])' <=> Working(t, height[t])
        /\ Exclusive(t)' <=> Exclusive(t)
    BY <1>1, <1>6, SameWrite
  <1>9. LockTypes'
    <2>1. HeldExclusive(t)' = HeldExclusive(t) /\ HeldShared(t)' = HeldShared(t)
      BY <1>6, <1>8 DEF HeldExclusive, HeldShared
    <2> QED
      BY <1>1, <1>7, <2>1, LocksSame
  <1>10. Quiet(t)
    BY <1>1, <1>6, <1>7 DEF Quiet, WaitLevel
  <1>11. data' = data /\ next' = next /\ alive' = alive /\ Right' = Right
    BY <1>10, QuietStep
  <1>12. ThreadInv(at, on, t)
    BY DEF Shape
  <1>13. CallInv(t)'
    BY <1>1, <1>6, <1>12 DEF ThreadInv, CallInv
  <1>14. CurInv(at, on, t)'
    BY <1>2, <1>3, <1>4, <1>5, <1>6, <1>11 DEF CurInv, OnLevel
  <1>15. PrevInv(at, on, t)'
    BY <1>1, <1>6, <1>8, <1>11, <1>12 DEF ThreadInv, PrevInv
  <1>16. NewInv(on, t)' /\ SinkInv(at, on, t)' /\ TowersPassed(at, on, t)'
    BY <1>1, <1>6, <1>8, <1>11, <1>12 DEF ThreadInv, NewInv, SinkInv, TowersPassed, Seeking, Waiting
  <1>17. ASSUME NEW u \in Thread, u # t PROVE InFront(at, on, t, u)' /\ InFront(at, on, u, t)'
    <2>1. InFront(at, on, t, u)
      BY <1>17 DEF Shape
    <2>2. pc'[u] = pc[u] /\ op'[u] = op[u] /\ height'[u] = height[u] /\ cur'[u] = cur[u]
      BY <1>7, <1>17 DEF Others
    <2> QED
      BY <1>1, <1>6, <1>11, <2>1, <2>2 DEF InFront, Seeking, Waiting
  <1> QED
    BY <1>7, <1>9, <1>10, <1>13, <1>14, <1>15, <1>16, <1>17, QuietDone DEF ThreadInv

\* The neighbour does not start past the key and is where the search goes on.
ToRight(t, m) ==
  LET n == next[cur[t]] IN
  /\ pc[t] = "next" /\ CanLock(n, m) /\ ~StartsAfter(n, op[t].key)
  /\ pc' = [pc EXCEPT ![t] = Look(data[n], next[n], op[t].key)]
  /\ cur' = [cur EXCEPT ![t] = n]
  /\ prev' = [prev EXCEPT ![t] = prev'[t]] /\ prev'[t] \in Pointer
  /\ UNCHANGED <<heap, op, height, fresh, scan, reply>>

\* What a step to the right does to the locals, and that the neighbour is there.
LEMMA RightwardSets ==
  ASSUME LInv, NEW at, NEW on, Shape(at, on), NEW t \in Thread, NEW m \in Modes,
         ToRight(t, m)
  PROVE  /\ op'[t] = op[t] /\ height'[t] = height[t] /\ cur'[t] = next[cur[t]]
         /\ nextNode'[t] = nextNode[t] /\ insertNode'[t] = insertNode[t]
         /\ Others(t) /\ LocalTypes' /\ Quiet(t)
         /\ pc'[t] = Look(data[next[cur[t]]], Right[next[cur[t]]], op[t].key)
         /\ pc'[t] \in {"hit", "next", "below"}
         /\ next[cur[t]] \in on \ Lasts /\ next[cur[t]] \notin Firsts
         /\ Start(data, next[cur[t]]) <= op[t].key
         /\ owner[next[cur[t]]] = NoThread
         /\ m = "exclusive" => shared[next[cur[t]]] = {}
         /\ MayWrite(t)' <=> MayWrite(t)
         /\ Working(t, height[t])' <=> Working(t, height[t])
         /\ Exclusive(t)' <=> Exclusive(t)
  <1> DEFINE n == next[cur[t]]
  <1>0. /\ pc[t] = "next" /\ CanLock(n, m) /\ ~StartsAfter(n, op[t].key)
        /\ pc' = [pc EXCEPT ![t] = Look(data[n], next[n], op[t].key)]
        /\ cur' = [cur EXCEPT ![t] = n]
        /\ prev' = [prev EXCEPT ![t] = prev'[t]] /\ prev'[t] \in Pointer
        /\ UNCHANGED <<heap, op, height, fresh, scan, reply>>
    BY DEF ToRight
  <1>1. /\ n \in on /\ n \notin Firsts /\ n \in alive /\ n \in Node
    BY <1>0, NextOf DEF OnLevel
  <1>2. op[t].key \in Key
    BY <1>0 DEF Shape, ThreadInv, CallInv
  <1>3. owner[n] = NoThread /\ (m = "exclusive" => shared[n] = {})
    BY <1>0, <1>1 DEF CanLock
  <1>4. n \notin Lasts /\ Start(data, n) <= op[t].key
    BY <1>0, <1>1, <1>2, Beyond
  <1>5. Right[n] = next[n]
    BY <1>1, <1>3, RightIsNext
  <1>6. Look(data[n], Right[n], op[t].key) \in {"hit", "next", "below"}
    <2>1. Listed(data, Right, at, on)
      BY DEF Shape
    <2> QED
      BY <1>1, <1>2, <1>4, <2>1, Arrived
  <1> HIDE DEF n
  <1>7. /\ pc'[t] = Look(data[n], Right[n], op[t].key)
        /\ op'[t] = op[t] /\ height'[t] = height[t] /\ cur'[t] = n
        /\ nextNode'[t] = nextNode[t] /\ insertNode'[t] = insertNode[t]
        /\ index'[t] = index[t] /\ removed'[t] = removed[t] /\ reply'[t] = reply[t]
        /\ OnlyOwn(t)
    <2>1. /\ pc' = [pc EXCEPT ![t] = Look(data[n], Right[n], op[t].key)]
          /\ cur' = [cur EXCEPT ![t] = n]
      BY <1>0, <1>5 DEF n
    <2> QED
      BY <1>0, <2>1, TypeParts, SameLocals DEF LInv, LocalTypes, OnlyOwn, fresh, scan
  <1>8. Others(t) /\ LocalTypes'
    <2>1. pc'[t] \in Labels /\ cur'[t] \in Pointer
      BY <1>0, <1>1, <1>6, <1>7, AllLabels DEF Pointer
    <2>2. OwnTypes(t)'
      BY <1>0, <1>7, <2>1, OwnType DEF OwnTypes
    <2> QED
      BY <1>7, <2>2, OwnStep
  <1>9. Quiet(t)
    BY <1>0, <1>6, <1>7, <1>8 DEF Quiet, WaitLevel
  <1>10. /\ MayWrite(t)' <=> MayWrite(t)
         /\ Working(t, height[t])' <=> Working(t, height[t])
         /\ Exclusive(t)' <=> Exclusive(t)
    BY <1>0, <1>6, <1>7, SameWrite
  <1> QED
    BY <1>1, <1>3, <1>4, <1>6, <1>7, <1>8, <1>9, <1>10 DEF n

\* A step to the right keeps the order among the threads: an insert that waits has
\* its node locked, so nobody overtakes it.
LEMMA Rightward ==
  ASSUME LInv, NEW at, NEW on, Shape(at, on), NEW t \in Thread, NEW m \in Modes,
         ToRight(t, m), LockTypes',
         \/ ~Exclusive(t) /\ prev'[t] = Null
         \/ Exclusive(t) /\ m = "exclusive" /\ prev'[t] = cur[t]
  PROVE  Inv'
  <1> DEFINE n == next[cur[t]]
  <1>1. /\ op'[t] = op[t] /\ height'[t] = height[t] /\ cur'[t] = n
        /\ nextNode'[t] = nextNode[t] /\ insertNode'[t] = insertNode[t]
        /\ Others(t) /\ LocalTypes' /\ Quiet(t)
        /\ pc'[t] = Look(data[n], Right[n], op[t].key)
        /\ pc'[t] \in {"hit", "next", "below"}
        /\ n \in on \ Lasts /\ n \notin Firsts /\ Start(data, n) <= op[t].key
        /\ owner[n] = NoThread /\ (m = "exclusive" => shared[n] = {})
        /\ Working(t, height[t])' <=> Working(t, height[t])
        /\ Exclusive(t)' <=> Exclusive(t)
    BY RightwardSets
  <1>0. pc[t] = "next"
    BY DEF ToRight
  <1>2. /\ n = Right[cur[t]] /\ n # cur[t] /\ n # Null
        /\ cur[t] \in on \ Lasts /\ cur[t] \in Node /\ at[cur[t]] = height[t]
        /\ at[n] = height[t] /\ n \in Node /\ Left(data, cur[t], n)
    BY <1>0, NextOf DEF OnLevel
  <1> HIDE DEF n
  <1>3. /\ data' = data /\ next' = next /\ alive' = alive /\ Right' = Right
    BY <1>1, QuietStep
  <1>4. ThreadInv(at, on, t) /\ Listed(data, Right, at, on)
    BY DEF Shape
  <1>5. op[t].key \in Key
    BY <1>0, <1>4 DEF ThreadInv, CallInv
  <1>6. /\ pc'[t] = "hit" => Hit(data[n], op[t].key)
        /\ pc'[t] = "next" => Before(data[n], op[t].key)
        /\ pc'[t] = "below" => /\ ~Hit(data[n], op[t].key) /\ Short(data, n, op[t].key)
                               /\ Past(data, Right[n], op[t].key)
    BY <1>1, <1>4, <1>5, Arrived
  <1>7. CallInv(t)'
    BY <1>0, <1>1, <1>4 DEF ThreadInv, CallInv
  <1>8. CurInv(at, on, t)'
    BY <1>1, <1>2, <1>3, <1>6 DEF CurInv, OnLevel
  <1>9. PrevInv(at, on, t)'
    <2>1. cur[t] # Null
      BY <1>2, Ends
    <2>2. CASE ~Exclusive(t) /\ prev'[t] = Null
      BY <1>0, <1>1, <2>2 DEF PrevInv
    <2>3. CASE Exclusive(t) /\ prev'[t] = cur[t]
      BY <1>1, <1>2, <1>3, <2>1, <2>3 DEF PrevInv
    <2> QED
      BY <2>2, <2>3
  <1>10. NewInv(on, t)' /\ SinkInv(at, on, t)'
    BY <1>0, <1>1, <1>3, <1>4 DEF ThreadInv, NewInv, SinkInv, Waiting
  <1>11. TowersPassed(at, on, t)'
    <2> SUFFICES ASSUME NEW k, NEW d, Link(data, at, on, height[t] + 1, k, d), d \in on
                 PROVE  \/ k = NoKey
                        \/ k > op[t].key
                        \/ /\ n \notin Firsts /\ k <= Start(data, n)
                           /\ op[t].name = "remove" \/ insertNode[t] # Null => k < op[t].key
      BY <1>1, <1>3 DEF TowersPassed
    <2>1. \/ k = NoKey
          \/ k > op[t].key
          \/ /\ cur[t] \notin Firsts /\ k <= Start(data, cur[t])
             /\ op[t].name = "remove" \/ insertNode[t] # Null => k < op[t].key
      BY <1>0, <1>4 DEF ThreadInv, TowersPassed, Seeking
    <2>2. k # NoKey => k \in Int
      <3>1. PICK x \in on : \E e \in EntriesOf(data[x]) : e.key = k
        BY DEF Link
      <3>2. x \in Node
        BY <1>4 DEF Listed
      <3> QED
        BY <1>4, <3>1, <3>2, NodeFacts
    <2>3. cur[t] \notin Firsts => /\ Start(data, cur[t]) < Start(data, n)
                                  /\ Start(data, cur[t]) \in Int /\ Start(data, n) \in Int
      BY <1>1, <1>2, <1>4, StartInt DEF Left
    <2> QED
      BY <1>1, <2>1, <2>2, <2>3
  <1>12. ASSUME NEW u \in Thread, u # t PROVE InFront(at, on, t, u)' /\ InFront(at, on, u, t)'
    <2>1. /\ pc'[u] = pc[u] /\ op'[u] = op[u] /\ height'[u] = height[u] /\ cur'[u] = cur[u]
          /\ insertNode'[u] = insertNode[u]
      BY <1>1, <1>12 DEF Others
    <2>2. InFront(at, on, t, u) /\ InFront(at, on, u, t)
      BY <1>12 DEF Shape
    <2>3. InFront(at, on, t, u)'
      <3> SUFFICES ASSUME insertNode[t] # Null, pc[u] \in Seeking, height[t] = height[u],
                          op[t].key <= op[u].key,
                          \E k : Link(data, at, on, height[t] + 1, k, insertNode[t])
                   PROVE  Left(data, n, cur[u])
        BY <1>1, <1>3, <2>1 DEF InFront
      <3>1. Left(data, cur[t], cur[u])
        BY <1>0, <2>2 DEF InFront, Waiting
      <3>2. cur[u] \in on /\ at[cur[u]] = height[u] /\ cur[u] \in Node
        BY <1>0, SeekStart
      <3>3. cur[u] = n \/ Left(data, n, cur[u])
        BY <1>2, <1>4, <3>1, <3>2 DEF Listed
      <3>4. m = "exclusive"
        BY <1>0, ModeOf
      <3>5. cur[u] # n
        <4>1. cur[u] \in HeldExclusive(u) \cup HeldShared(u)
          BY <3>2, OwnPointers, Ends
        <4>2. owner[cur[u]] = u \/ u \in shared[cur[u]]
          BY <3>2, <4>1 DEF LInv, Holds
        <4> QED
          BY <1>1, <3>4, <4>2, BAssumption
      <3> QED
        BY <3>3, <3>5
    <2>4. InFront(at, on, u, t)'
      <3> SUFFICES ASSUME insertNode[u] # Null, pc[u] \in Waiting, height[t] = height[u],
                          op[u].key <= op[t].key,
                          \E k : Link(data, at, on, height[u] + 1, k, insertNode[u])
                   PROVE  Left(data, cur[u], n)
        BY <1>1, <1>3, <2>1 DEF InFront
      <3>1. Left(data, cur[u], cur[t])
        BY <1>0, <2>2 DEF InFront, Seeking
      <3>2. cur[u] \in on
        BY <1>0, SeekStart
      <3> QED
        BY <1>1, <1>2, <1>4, <3>1, <3>2, LeftOrder
    <2> QED
      BY <2>3, <2>4
  <1> QED
    BY <1>1, <1>7, <1>8, <1>9, <1>10, <1>11, <1>12, QuietDone DEF ThreadInv

\* To the right under shared locks.
LEMMA MoveRightKeeps ==
  ASSUME LInv, NEW at, NEW on, Shape(at, on), NEW t \in Thread, ~Exclusive(t), MoveRight(t)
  PROVE  Inv'
  <1> DEFINE n == next[cur[t]]
  <1>1. /\ pc[t] = "next" /\ CanLock(n, "shared") /\ ~StartsAfter(n, op[t].key)
        /\ Relock(t, {n}, "shared", {cur[t]}, "shared")
        /\ pc' = [pc EXCEPT ![t] = Look(data[n], next[n], op[t].key)]
        /\ prev' = [prev EXCEPT ![t] = Null] /\ cur' = [cur EXCEPT ![t] = n]
        /\ UNCHANGED <<heap, op, height, fresh, scan, reply>>
    BY DEF MoveRight, Stand, Goto
  <1>2. prev' = [prev EXCEPT ![t] = prev'[t]] /\ prev'[t] = Null
    BY <1>1, TypeParts DEF LInv, LocalTypes
  <1>3. Null \in Pointer /\ "shared" \in Modes
    BY DEF Pointer, Modes
  <1>3a. ToRight(t, "shared")
    BY <1>1, <1>2, <1>3 DEF ToRight
  <1>4. /\ op'[t] = op[t] /\ cur'[t] = n /\ nextNode'[t] = nextNode[t] /\ insertNode'[t] = insertNode[t]
        /\ Others(t) /\ (MayWrite(t)' <=> MayWrite(t))
    BY <1>3, <1>3a, RightwardSets
  <1>5. /\ n \in Node /\ n \in alive /\ n # cur[t] /\ cur[t] # Null
    BY <1>1, NextOf, Ends DEF OnLevel
  <1>6. ~MayWrite(t) /\ prev[t] = Null
    BY <1>1, ModeOf
  <1>7. LockTypes'
    <2> HIDE DEF n, LockTypes
    <2> QED
      BY <1>1, <1>2, <1>3, <1>4, <1>5, <1>6, LockMove
  <1> HIDE DEF LockTypes
  <1> QED
    BY <1>2, <1>3, <1>3a, <1>7, Rightward

\* To the right with the node left behind still locked as prev.
LEMMA TrailKeeps ==
  ASSUME LInv, NEW at, NEW on, Shape(at, on), NEW t \in Thread, Exclusive(t), Trail(t)
  PROVE  Inv'
  <1> DEFINE n == next[cur[t]]
             m == "exclusive"
  <1>1. /\ pc[t] = "next" /\ CanLock(n, m) /\ ~StartsAfter(n, op[t].key)
        /\ Relock(t, {n}, m, {prev[t]}, m)
        /\ pc' = [pc EXCEPT ![t] = Look(data[n], next[n], op[t].key)]
        /\ prev' = [prev EXCEPT ![t] = cur[t]] /\ cur' = [cur EXCEPT ![t] = n]
        /\ UNCHANGED <<heap, op, height, fresh, scan, reply>>
    BY DEF Trail, Stand, Goto, LeftBehind
  <1>2. prev' = [prev EXCEPT ![t] = prev'[t]] /\ prev'[t] = cur[t]
    BY <1>1, TypeParts DEF LInv, LocalTypes
  <1>3. cur[t] \in Pointer /\ m \in Modes
    BY Types DEF Modes, LInv
  <1>3a. ToRight(t, m)
    BY <1>1, <1>2, <1>3 DEF ToRight
  <1>4. /\ op'[t] = op[t] /\ cur'[t] = n /\ nextNode'[t] = nextNode[t] /\ insertNode'[t] = insertNode[t]
        /\ Others(t) /\ (MayWrite(t)' <=> MayWrite(t))
        /\ owner[n] = NoThread /\ shared[n] = {}
    BY <1>3, <1>3a, RightwardSets
  <1>5. /\ n \in Node /\ n \in alive /\ n # cur[t] /\ cur[t] # Null
    BY <1>1, NextOf, Ends DEF OnLevel
  <1>6. MayWrite(t)
    BY <1>1, ModeOf
  <1>7. LockTypes'
    <2> HIDE DEF n, LockTypes
    <2>1. prev[t] # Null => prev[t] \notin {cur[t], nextNode[t], insertNode[t]}
      BY DEF Shape, ThreadInv, PrevInv, NewInv
    <2>2. \A x \in Node : x \in HeldExclusive(t) => owner[x] = t /\ t # NoThread
      BY BAssumption DEF LInv, Holds
    <2>3. n \notin HeldExclusive(t)
      BY <1>4, <1>5, <2>2
    <2>4. /\ HeldExclusive(t) = {prev[t], nextNode[t], insertNode[t], cur[t]} \ {Null}
          /\ HeldExclusive(t)' = {cur[t], nextNode[t], insertNode[t], n} \ {Null}
          /\ HeldShared(t) = {} /\ HeldShared(t)' = {} /\ Null \notin Node
      BY <1>2, <1>4, <1>6, BAssumption DEF HeldExclusive, HeldShared
    <2>5. n # prev[t]
      BY <1>5, <2>3, OwnPointers, Ends
    <2>6. \A x \in Node : x \in HeldExclusive(t)' <=>
            /\ ~(m = "exclusive" /\ x \in {prev[t]})
            /\ (m = "exclusive" /\ x \in {n}) \/ x \in HeldExclusive(t)
      BY <2>1, <2>4, <2>5
    <2>7. \A x \in Node : x \in HeldShared(t)' <=>
            /\ ~(m = "shared" /\ x \in {prev[t]})
            /\ (m = "shared" /\ x \in {n}) \/ x \in HeldShared(t)
      BY <2>4
    <2>8. \A x \in {prev[t]} : x \in Node => x \in HeldExclusive(t)
      BY <2>4
    <2>9. \A x \in {n} : x \in Node /\ owner[x] = NoThread /\ shared[x] = {}
      BY <1>4, <1>5
    <2> QED
      BY <1>1, <1>3, <1>4, <2>6, <2>7, <2>8, <2>9, RelockSound
  <1> HIDE DEF LockTypes
  <1> QED
    BY <1>2, <1>3, <1>3a, <1>7, Rightward

-----------------------------------------------------------------------------
(* The steps onto a level.                                                 *)

\* A search that begins in a node that starts below the key finds it, goes on to the
\* next node, or down; it never runs off the array.
LEMMA BeginFinds ==
  ASSUME NEW D, NEW X, NEW at, NEW on, Listed(D, X, at, on), NEW k \in Key,
         NEW n \in on, Short(D, n, k)
  PROVE  LET l == Look(D[n], X[n], k) IN
         /\ l \in {"hit", "next", "below"}
         /\ l = "hit" => Hit(D[n], k)
         /\ l = "next" => Before(D[n], k)
         /\ l = "below" => ~Hit(D[n], k) /\ Past(D, X[n], k)
  <1>1. n \in on \ Lasts /\ (n \in Firsts \/ Start(D, n) < k)
    BY DEF Short
  <1>2. n \in Firsts \/ Start(D, n) <= k
    BY <1>1, StartInt, CallAssumption
  <1> QED
    BY <1>1, <1>2, Arrived

\* What holds of a thread that begins in a node that starts below its key.
LEMMA BeginInv ==
  ASSUME LInv, NEW at, NEW on, Shape(at, on), NEW t \in Thread, NEW n \in on, NEW h \in Level,
         Short(data, n, op[t].key), op[t].key \in Key, op[t].name # "idle", at[n] = h,
         next[n] = Right[n], data' = data, next' = next, Right' = Right,
         op'[t] = op[t], height'[t] = h, cur'[t] = n, pc'[t] = Begin(t, n, h)
  PROVE  /\ pc'[t] \in {"level", "hit", "next", "below"}
         /\ CallInv(t)' /\ CurInv(at, on, t)'
         /\ pc'[t] = "level" <=> Working(t, h) /\ h > 0
         /\ Working(t, height[t])' <=> Working(t, h)
         /\ Exclusive(t)' <=> op[t].name = "remove" \/ Working(t, h)
         /\ MayWrite(t)' <=> Exclusive(t)'
  <1>1. Listed(data, Right, at, on)
    BY DEF Shape
  <1>2. pc'[t] = IF Working(t, h) /\ h > 0 THEN "level" ELSE Look(data[n], Right[n], op[t].key)
    BY DEF Begin
  <1>3. LET l == Look(data[n], Right[n], op[t].key) IN
         /\ l \in {"hit", "next", "below"}
         /\ l = "hit" => Hit(data[n], op[t].key)
         /\ l = "next" => Before(data[n], op[t].key)
         /\ l = "below" => ~Hit(data[n], op[t].key) /\ Past(data, Right[n], op[t].key)
    BY <1>1, BeginFinds
  <1>4. pc'[t] \in {"level", "hit", "next", "below"} /\ (pc'[t] = "level" <=> Working(t, h) /\ h > 0)
    BY <1>2, <1>3
  <1>5. Working(t, height[t])' <=> Working(t, h)
    BY DEF Working
  <1>6. Exclusive(t)' <=> op[t].name = "remove" \/ Working(t, h)
    BY <1>5 DEF Exclusive
  <1>7. MayWrite(t)' <=> Exclusive(t)'
    BY <1>4 DEF MayWrite, Exclusive, Working
  <1>8. CallInv(t)'
    BY <1>4, <1>5 DEF CallInv
  <1>9. CurInv(at, on, t)'
    <2>1. n # Null /\ n \notin Lasts
      BY <1>1, Ends DEF Short, Listed
    <2>2. /\ pc'[t] = "hit" => Hit(data[n], op[t].key)
          /\ pc'[t] = "next" => Before(data[n], op[t].key)
          /\ pc'[t] = "below" => ~Hit(data[n], op[t].key) /\ Past(data, Right[n], op[t].key)
      BY <1>2, <1>3, <1>4
    <2> QED
      BY <1>4, <2>1, <2>2 DEF CurInv, OnLevel
  <1> QED
    BY <1>4, <1>5, <1>6, <1>7, <1>8, <1>9

\* No entry is on a level that is not there.
LEMMA NoLink ==
  ASSUME NEW D, NEW X, NEW at, NEW on, Listed(D, X, at, on)
  PROVE  \A k, d : ~Link(D, at, on, MaxHeight, k, d)
  <1>1. \A n \in on : at[n] \in Level
    BY DEF Listed
  <1>2. MaxHeight \notin Level
    BY CallAssumption DEF Level
  <1> QED
    BY <1>1, <1>2 DEF Link

\* A call locks structure[MAX_HEIGHT-1]: no entry of a level above leads here.
LEMMA EnterKeeps ==
  ASSUME LInv, NEW at, NEW on, Shape(at, on), NEW t \in Thread, NEW m \in Modes,
         Enter(t, m), m = "exclusive" <=> Exclusive(t)
  PROVE  Inv'
  <1> DEFINE l == Begin(t, Top, height[t])
  <1>1. /\ pc[t] = "top" /\ CanLock(Top, m) /\ Relock(t, {Top}, m, {}, m)
        /\ pc' = [pc EXCEPT ![t] = l]
        /\ prev' = [prev EXCEPT ![t] = Null] /\ cur' = [cur EXCEPT ![t] = Top]
        /\ UNCHANGED <<heap, op, height, fresh, scan, reply>>
    BY DEF Enter, Stand, Goto
  <1> HIDE DEF l
  <1>2. /\ cur[t] = Null /\ prev[t] = Null /\ nextNode[t] = Null /\ insertNode[t] = Null
        /\ HeldExclusive(t) = {} /\ HeldShared(t) = {}
    BY <1>1, RestHolds DEF Resting
  <1>3. /\ height[t] = MaxHeight - 1 /\ op[t].key \in Key /\ op[t].name # "idle"
        /\ Listed(data, Right, at, on) /\ MaxHeight - 1 \in Level
    BY <1>1, CallAssumption DEF Shape, ThreadInv, CallInv, Level
  <1>4. /\ Top \in on /\ Top \in Firsts /\ Top \notin Lasts /\ Top \in Node /\ Top \in alive
        /\ at[Top] = height[t]
    <2>1. Top \in Firsts /\ Top \in Sentinel /\ Top \in Node /\ Top \notin Lasts
      BY Ends
    <2>2. on \subseteq alive
      BY HeldAlive
    <2> QED
      BY <1>3, <2>1, <2>2 DEF Listed, Top
  <1>5. /\ pc'[t] = l /\ op'[t] = op[t] /\ height'[t] = height[t] /\ cur'[t] = Top
        /\ prev'[t] = Null /\ nextNode'[t] = nextNode[t] /\ insertNode'[t] = insertNode[t]
        /\ index'[t] = index[t] /\ removed'[t] = removed[t] /\ reply'[t] = reply[t]
        /\ OnlyOwn(t)
    BY <1>1, TypeParts, SameLocals DEF LInv, LocalTypes, OnlyOwn, fresh, scan
  <1>6. Short(data, Top, op[t].key)
    BY <1>4 DEF Short
  <1>7. owner[Top] = NoThread /\ (m = "exclusive" => shared[Top] = {}) /\ next[Top] = Right[Top]
    BY <1>1, <1>4, RightIsNext DEF CanLock
  <1>8. pc'[t] \in {"level", "hit", "next", "below"}
    <2>1. Look(data[Top], Right[Top], op[t].key) \in {"hit", "next", "below"}
      BY <1>3, <1>4, <1>6, BeginFinds
    <2> QED
      BY <1>5, <1>7, <2>1 DEF l, Begin
  <1>9. Others(t) /\ LocalTypes'
    <2>1. pc'[t] \in Labels /\ Top \in Pointer /\ Null \in Pointer
      BY <1>4, <1>8, AllLabels DEF Pointer
    <2>2. OwnTypes(t)'
      BY <1>5, <2>1, OwnType DEF OwnTypes
    <2> QED
      BY <1>5, <2>2, OwnStep
  <1>10. Quiet(t)
    BY <1>1, <1>2, <1>8, <1>9 DEF Quiet
  <1>11. /\ data' = data /\ next' = next /\ alive' = alive /\ Right' = Right
    BY <1>10, QuietStep
  <1>12. /\ CallInv(t)' /\ CurInv(at, on, t)'
         /\ pc'[t] = "level" <=> Working(t, height[t]) /\ height[t] > 0
         /\ Working(t, height[t])' <=> Working(t, height[t])
         /\ Exclusive(t)' <=> Exclusive(t)
         /\ MayWrite(t)' <=> Exclusive(t)
    <2>1. height[t] \in Level /\ pc'[t] = Begin(t, Top, height[t])
      BY <1>3, <1>5 DEF l
    <2>2. Exclusive(t) <=> op[t].name = "remove" \/ Working(t, height[t])
      BY DEF Exclusive
    <2> QED
      BY <1>3, <1>4, <1>5, <1>6, <1>7, <1>11, <2>1, <2>2, BeginInv
  <1>13. LockTypes'
    <2>1. /\ HeldExclusive(t)' = IF m = "exclusive" THEN {Top} ELSE {}
          /\ HeldShared(t)' = IF m = "exclusive" THEN {} ELSE {Top}
      <3>1. Top # Null
        BY <1>4, Ends
      <3> QED
        BY <1>2, <1>5, <1>12, <3>1 DEF HeldExclusive, HeldShared
    <2> HIDE DEF LockTypes
    <2> QED
      BY <1>1, <1>2, <1>4, <1>7, <1>9, <2>1, RelockSound DEF Modes
  <1>14. PrevInv(at, on, t)'
    BY <1>4, <1>5, <1>6, <1>8, <1>11 DEF PrevInv
  <1>15. NewInv(on, t)' /\ SinkInv(at, on, t)'
    BY <1>2, <1>5, <1>8, <1>12 DEF NewInv, SinkInv
  <1>16. height'[t] + 1 = MaxHeight /\ \A k, d : ~Link(data', at, on, MaxHeight, k, d)
    BY <1>3, <1>5, <1>11, NoLink, CallAssumption
  <1>17. TowersPassed(at, on, t)'
    BY <1>16 DEF TowersPassed
  <1>18. ASSUME NEW u \in Thread, u # t PROVE InFront(at, on, t, u)' /\ InFront(at, on, u, t)'
    BY <1>16 DEF InFront
  <1> QED
    BY <1>9, <1>10, <1>12, <1>13, <1>14, <1>15, <1>17, <1>18, QuietDone DEF ThreadInv

\* Entries below a key are no further right than where a search for it goes
\* down.
LEMMA BelowPlace ==
  ASSUME NEW D, NEW X, NEW at, NEW on, Listed(D, X, at, on), NEW k \in Key,
         NEW m \in on, Short(D, m, k),
         Past(D, X[m], k) \/ (X[m] \notin Lasts /\ Start(D, X[m]) = k),
         NEW n \in on, at[m] = at[n], NEW e \in EntriesOf(D[n]), e.key = NoKey \/ e.key < k
  PROVE  n = m \/ Left(D, n, m)
  <1>1. CASE Past(D, X[m], k)
    BY <1>1, SamePlace
  <1>2. CASE X[m] \notin Lasts /\ Start(D, X[m]) = k
    <2> SUFFICES ASSUME n # m, ~Left(D, n, m) PROVE FALSE
      OBVIOUS
    <2>1. Left(D, m, n)
      BY DEF Listed
    <2>2. n \in Node /\ n \notin Firsts
      BY <2>1 DEF Left, Listed
    <2>3. e.key # NoKey /\ e.key \in Int /\ Start(D, n) <= e.key /\ n \in on \ Lasts
      BY <2>2, NodeFacts
    <2>4. Start(D, n) \in Int /\ k \in Int
      BY <2>2, <2>3, StartInt, CallAssumption
    <2>5. Start(D, X[m]) <= Start(D, n)
      BY <2>1, <2>3, PastRight
    <2> QED
      BY <1>2, <2>3, <2>4, <2>5
  <1> QED
    BY <1>1, <1>2

\* The way down from a node: the entry a search takes.
LEMMA WayDown ==
  ASSUME LInv, NEW at, NEW on, Shape(at, on), NEW t \in Thread, pc[t] \in {"below", "sink"}
  PROVE  /\ cur[t] \in on \ Lasts /\ cur[t] \in Node /\ cur[t] # Null /\ op[t].key \in Key
         /\ op[t].name # "idle" /\ at[cur[t]] = height[t] /\ Short(data, cur[t], op[t].key)
         /\ Above(t) \in EntriesOf(data[cur[t]])
         /\ Link(data, at, on, height[t], Above(t).key, Above(t).down)
         /\ Above(t).key = NoKey \/ Above(t).key < op[t].key
         /\ Above(t).key # NoKey => Above(t).key \in Int
         /\ \A e \in EntriesOf(data[cur[t]]) : e.key = NoKey \/ e.key < op[t].key =>
               e.key = NoKey \/ (Above(t).key # NoKey /\ e.key <= Above(t).key)
  <1>1. /\ cur[t] \in on \ Lasts /\ op[t].key \in Key /\ op[t].name # "idle" /\ cur[t] # Null
        /\ at[cur[t]] = height[t] /\ Short(data, cur[t], op[t].key)
        /\ Listed(data, Right, at, on) /\ on \subseteq Node
    BY DEF Shape, ThreadInv, CurInv, CallInv, OnLevel, Listed
  <1>2. /\ cur[t] \in Node /\ data[cur[t]] \in Seq(EntryType) /\ Ascending(data[cur[t]])
        /\ data[cur[t]] # <<>>
        /\ cur[t] \in Firsts => Start(data, cur[t]) = NoKey
        /\ \A e \in EntriesOf(data[cur[t]]) : e.key # NoKey => e.key \in Int
    BY <1>1, NodeFacts
  <1>3. data[cur[t]][1].key = NoKey \/ data[cur[t]][1].key < op[t].key
    BY <1>1, <1>2 DEF Short, Start
  <1>4. LET a == Above(t) IN
         /\ a \in EntriesOf(data[cur[t]]) /\ (a.key = NoKey \/ a.key < op[t].key)
         /\ \A e \in EntriesOf(data[cur[t]]) : e.key = NoKey \/ e.key < op[t].key =>
               e.key = NoKey \/ (a.key # NoKey /\ e.key <= a.key)
    BY <1>1, <1>2, <1>3, LastPassed DEF Above
  <1>5. Link(data, at, on, height[t], Above(t).key, Above(t).down)
    BY <1>1, <1>4 DEF Link
  <1> QED
    BY <1>1, <1>2, <1>4, <1>5

\* All that the level a search leaves leads to is passed where it arrives.
LEMMA DownPasses ==
  ASSUME LInv, NEW at, NEW on, Shape(at, on), NEW t \in Thread, pc[t] \in {"below", "sink"},
         NEW n \in on \ Lasts, Start(data, n) = Above(t).key
  PROVE  \A k, d : Link(data, at, on, height[t], k, d) =>
           \/ k = NoKey
           \/ k > op[t].key
           \/ k < op[t].key /\ n \notin Firsts /\ k <= Start(data, n)
           \/ k = op[t].key /\ pc[t] = "sink" /\ d = insertNode[t]
  <1> SUFFICES ASSUME NEW k, NEW d, Link(data, at, on, height[t], k, d)
               PROVE  \/ k = NoKey
                      \/ k > op[t].key
                      \/ k < op[t].key /\ n \notin Firsts /\ k <= Start(data, n)
                      \/ k = op[t].key /\ pc[t] = "sink" /\ d = insertNode[t]
    OBVIOUS
  <1>1. /\ cur[t] \in on \ Lasts /\ cur[t] \in Node /\ op[t].key \in Key
        /\ at[cur[t]] = height[t] /\ Short(data, cur[t], op[t].key)
        /\ Above(t).key # NoKey => Above(t).key \in Int
        /\ \A e \in EntriesOf(data[cur[t]]) : e.key = NoKey \/ e.key < op[t].key =>
               e.key = NoKey \/ (Above(t).key # NoKey /\ e.key <= Above(t).key)
    BY WayDown
  <1>2. Listed(data, Right, at, on) /\ op[t].key \in Int /\ NoKey \notin Int
    BY <1>1, CallAssumption DEF Shape
  <1>3. PICK x \in on : at[x] = height[t] /\ \E e \in EntriesOf(data[x]) : e.key = k /\ e.down = d
    BY DEF Link
  <1>4. PICK e \in EntriesOf(data[x]) : e.key = k /\ e.down = d
    BY <1>3
  <1>5. x \in Node
    BY <1>2 DEF Listed
  <1>6. k # NoKey => k \in Int
    BY <1>2, <1>4, <1>5, NodeFacts
  <1>7. n \in Firsts => Start(data, n) = NoKey
    <2>1. n \in Node
      BY <1>2 DEF Listed
    <2> QED
      BY <1>2, <2>1, NodeFacts
  <1>8. \/ Past(data, Right[cur[t]], op[t].key)
        \/ Right[cur[t]] \notin Lasts /\ Start(data, Right[cur[t]]) = op[t].key
    BY DEF Shape, ThreadInv, CurInv, SinkInv
  <1>9. CASE k = op[t].key
    <2>1. CASE pc[t] = "sink"
      BY <1>9, <2>1 DEF Shape, ThreadInv, SinkInv
    <2>2. CASE pc[t] = "below"
      <3>1. Past(data, Right[cur[t]], op[t].key) /\ ~Hit(data[cur[t]], op[t].key)
        BY <2>2 DEF Shape, ThreadInv, CurInv
      <3>2. x = cur[t]
        BY <1>1, <1>2, <1>3, <1>4, <1>9, <3>1, SamePlace
      <3>3. data[cur[t]] \in Seq(EntryType) /\ Ascending(data[cur[t]])
        BY <1>1, <1>2, NodeFacts
      <3> QED
        BY <1>1, <1>4, <1>9, <3>1, <3>2, <3>3, HitFinds
    <2> QED
      BY <2>1, <2>2
  <1>10. CASE k # NoKey /\ k < op[t].key
    <2>1. x = cur[t] \/ Left(data, x, cur[t])
      BY <1>1, <1>2, <1>3, <1>4, <1>8, <1>10, BelowPlace
    <2>2. CASE x = cur[t]
      BY <1>1, <1>4, <1>7, <1>10, <2>2
    <2>3. CASE Left(data, x, cur[t])
      <3>1. k < Start(data, cur[t])
        BY <1>1, <1>2, <1>3, <1>4, <1>10, <2>3, SamePlace
      <3>2. cur[t] \notin Firsts
        BY <2>3 DEF Left
      <3>3. /\ Start(data, cur[t]) \in Int /\ Start(data, cur[t]) # NoKey
            /\ data[cur[t]][1] \in EntriesOf(data[cur[t]])
        BY <1>1, <1>2, <3>2, NodeFacts
      <3>4. Start(data, cur[t]) < op[t].key
        BY <1>1, <3>2 DEF Short
      <3>5. Above(t).key # NoKey /\ Start(data, cur[t]) <= Above(t).key
        BY <1>1, <3>3, <3>4 DEF Start
      <3>6. k <= Above(t).key
        BY <1>1, <1>6, <1>10, <3>1, <3>3, <3>5
      <3> QED
        BY <1>7, <1>10, <3>5, <3>6
    <2> QED
      BY <2>1, <2>2, <2>3
  <1> QED
    BY <1>2, <1>6, <1>9, <1>10

\* The entries that lead to a node in the hands of an insert are its own.
LEMMA WaitedLink ==
  ASSUME LInv, NEW at, NEW on, Shape(at, on), NEW u \in Thread, insertNode[u] # Null,
         NEW i, NEW k, i > 0, Link(data, at, on, i, k, insertNode[u])
  PROVE  k = op[u].key /\ i - 1 = WaitLevel(u)
  <1>1. insertNode[u] \notin on
    BY HeldAlive
  <1>2. PICK v \in Thread : Waits(v, i - 1, k, insertNode[u])
    BY <1>1 DEF Shape, DownInv, Stands
  <1>3. insertNode[v] = insertNode[u]
    BY <1>2 DEF Waits
  <1>4. v = u
    <2>1. insertNode[u] \in HeldExclusive(u) /\ insertNode[v] \in HeldExclusive(v)
      BY <1>3, OwnPointers
    <2> QED
      BY <1>3, <2>1, HeldApart
  <1> QED
    BY <1>2, <1>4 DEF Waits

\* A call goes down from the last entry it passed: that entry's node starts with its
\* key, which is below the call's, or is the one the insert has just put there.
LEMMA GoDownKeeps ==
  ASSUME LInv, NEW at, NEW on, Shape(at, on), NEW t \in Thread, NEW m \in Modes, NEW l \in Modes,
         GoDown(t, m, l), l = "exclusive" <=> MayWrite(t),
         pc[t] = "sink" \/ op[t].name = "remove" \/ ~Exclusive(t),
         m = "exclusive" <=> op[t].name = "remove" \/ Working(t, height[t] - 1)
  PROVE  Inv'
  <1> DEFINE n == Above(t).down
             h == height[t] - 1
             b == Begin(t, n, h)
  <1>1. /\ pc[t] \in {"below", "sink"} /\ n # Null /\ CanLock(n, m)
        /\ Relock(t, {n}, m, {cur[t]}, l)
        /\ cur' = [cur EXCEPT ![t] = n] /\ height' = [height EXCEPT ![t] = h]
        /\ pc' = [pc EXCEPT ![t] = b]
        /\ UNCHANGED <<heap, op, prev, fresh, scan, reply>>
    BY DEF GoDown, Goto
  <1>2. /\ cur[t] \in on \ Lasts /\ cur[t] \in Node /\ cur[t] # Null /\ op[t].key \in Key
        /\ op[t].name # "idle" /\ at[cur[t]] = height[t]
        /\ Link(data, at, on, height[t], Above(t).key, n)
        /\ Above(t).key = NoKey \/ Above(t).key < op[t].key
        /\ Above(t).key # NoKey => Above(t).key \in Int
    BY <1>1, WayDown
  <1> HIDE DEF n, b
  <1>3. height[t] \in Level /\ height[t] \in Int
    BY Types DEF LInv
  <1>4. /\ height[t] > 0 /\ h \in Level /\ Stands(at, on, n, h, Above(t).key)
        /\ n \in Node /\ n \in alive
    BY <1>1, <1>2, <1>3, DownStands
  <1>5. /\ Listed(data, Right, at, on) /\ n \in on \ Lasts /\ at[n] = h /\ n # cur[t]
        /\ Start(data, n) = Above(t).key /\ h \in Int /\ h + 1 = height[t]
        /\ op[t].key \in Int /\ NoKey \notin Int
    <2>1. n \in on \ Lasts /\ at[n] = h /\ Start(data, n) = Above(t).key
      BY <1>4 DEF Stands
    <2>2. h \in Int /\ h + 1 = height[t] /\ h # height[t]
      BY <1>3
    <2>3. op[t].key \in Int /\ NoKey \notin Int
      BY <1>2, CallAssumption
    <2>4. Listed(data, Right, at, on)
      BY DEF Shape
    <2> HIDE DEF h
    <2> QED
      BY <1>2, <2>1, <2>2, <2>3, <2>4
  <1>6. Short(data, n, op[t].key)
    <2>1. n \notin Firsts => Start(data, n) # NoKey
      BY <1>4, <1>5, NodeFacts
    <2> QED
      BY <1>2, <1>5, <2>1 DEF Short
  <1>7. owner[n] = NoThread /\ (m = "exclusive" => shared[n] = {}) /\ next[n] = Right[n]
    BY <1>1, <1>4, RightIsNext DEF CanLock
  <1> HIDE DEF h
  <1>8. /\ pc'[t] = b /\ op'[t] = op[t] /\ height'[t] = h /\ cur'[t] = n
        /\ prev'[t] = prev[t] /\ nextNode'[t] = nextNode[t] /\ insertNode'[t] = insertNode[t]
        /\ index'[t] = index[t] /\ removed'[t] = removed[t] /\ reply'[t] = reply[t]
        /\ OnlyOwn(t)
    BY <1>1, TypeParts, SameLocals DEF LInv, LocalTypes, OnlyOwn, fresh, scan
  <1>9. b \in {"level", "hit", "next", "below"}
    <2>1. Look(data[n], Right[n], op[t].key) \in {"hit", "next", "below"}
      BY <1>2, <1>5, <1>6, BeginFinds
    <2> QED
      BY <1>7, <2>1 DEF b, Begin
  <1>10. Others(t) /\ LocalTypes'
    <2>1. b \in Labels /\ n \in Pointer
      BY <1>4, <1>9, AllLabels DEF Pointer
    <2>2. OwnTypes(t)'
      BY <1>4, <1>8, <2>1, OwnType DEF OwnTypes
    <2> QED
      BY <1>8, <2>2, OwnStep
  <1>11. /\ nextNode[t] = Null /\ (insertNode[t] # Null => pc[t] = "sink")
         /\ pc[t] = "sink" => Working(t, height[t]) /\ op[t].name = "insert"
         /\ prev[t] # Null => op[t].name = "remove" /\ prev[t] \in on \ Lasts
         /\ insertNode[t] # Null => insertNode[t] \in alive \ on /\ next[insertNode[t]] = Null
    <2>1. CallInv(t) /\ PrevInv(at, on, t) /\ NewInv(on, t) /\ height[t] \in Int
      BY <1>3 DEF Shape, ThreadInv
    <2>2. op[t].level \in Int
      BY Types DEF LInv
    <2>3. pc[t] = "sink" => Working(t, height[t])
      BY <2>1 DEF CallInv
    <2>4. ASSUME pc[t] = "below" PROVE nextNode[t] = Null /\ insertNode[t] = Null
                                       /\ (prev[t] # Null => op[t].name = "remove")
      <3>1. op[t].name = "remove" \/ ~Exclusive(t)
        BY <2>4
      <3>2. op[t].name = "remove" => nextNode[t] = Null /\ insertNode[t] = Null
        BY ModeOf
      <3>3. ~Exclusive(t) => prev[t] = Null /\ nextNode[t] = Null /\ insertNode[t] = Null
        BY ModeOf
      <3> QED
        BY <3>1, <3>2, <3>3
    <2>5. pc[t] = "sink" => nextNode[t] = Null /\ (prev[t] # Null => op[t].name = "remove")
      BY <2>1 DEF NewInv, PrevInv
    <2> QED
      BY <1>1, <2>1, <2>3, <2>4, <2>5 DEF NewInv, PrevInv, Working
  <1>12. Working(t, height[t]) => Working(t, h)
    BY <1>3, Types DEF Working, LInv, h
  <1>13. Quiet(t)
    <2>1. insertNode[t] # Null => WaitLevel(t)' = WaitLevel(t)
      BY <1>8, <1>9, <1>11 DEF WaitLevel, h
    <2> QED
      BY <1>1, <1>8, <1>9, <1>10, <2>1 DEF Quiet
  <1>14. /\ data' = data /\ next' = next /\ alive' = alive /\ Right' = Right
    BY <1>13, QuietStep
  <1>15. /\ CallInv(t)' /\ CurInv(at, on, t)'
         /\ pc'[t] = "level" <=> Working(t, h) /\ h > 0
         /\ Working(t, height[t])' <=> Working(t, h)
         /\ Exclusive(t)' <=> op[t].name = "remove" \/ Working(t, h)
         /\ MayWrite(t)' <=> Exclusive(t)'
    <2>1. pc'[t] = Begin(t, n, h)
      BY <1>8 DEF b
    <2> QED
      BY <1>2, <1>4, <1>5, <1>6, <1>7, <1>8, <1>14, <2>1, BeginInv
  <1>16. LockTypes' /\ n \notin {prev[t], nextNode[t], insertNode[t]}
    <2>1. m = "exclusive" <=> MayWrite(t)'
      BY <1>15 DEF h
    <2> HIDE DEF LockTypes
    <2> QED
      BY <1>1, <1>2, <1>4, <1>5, <1>8, <1>10, <2>1, LockMove
  <1>17. PrevInv(at, on, t)'
    <2>1. pc'[t] \in OnLevel
      BY <1>8, <1>9 DEF OnLevel
    <2> QED
      BY <1>6, <1>8, <1>9, <1>11, <1>14, <1>15, <1>16, <2>1 DEF PrevInv
  <1>18. NewInv(on, t)' /\ SinkInv(at, on, t)'
    <2>1. pc'[t] \in Waiting
      BY <1>8, <1>9 DEF Waiting
    <2> QED
      BY <1>8, <1>9, <1>11, <1>12, <1>14, <1>15, <2>1 DEF NewInv, SinkInv
  <1>19. \A k, d : Link(data, at, on, height[t], k, d) =>
            \/ k = NoKey
            \/ k > op[t].key
            \/ k < op[t].key /\ n \notin Firsts /\ k <= Start(data, n)
            \/ k = op[t].key /\ pc[t] = "sink" /\ d = insertNode[t]
    <2>1. pc[t] \in {"below", "sink"} /\ Start(data, n) = Above(t).key /\ n \in on \ Lasts
      BY <1>1, <1>5
    <2> QED
      BY <2>1, DownPasses
  <1>20. TowersPassed(at, on, t)'
    <2> SUFFICES ASSUME NEW k, NEW d, Link(data, at, on, height[t], k, d), d \in on
                 PROVE  \/ k = NoKey
                        \/ k > op[t].key
                        \/ n \notin Firsts /\ k <= Start(data, n) /\ k < op[t].key
      BY <1>5, <1>8, <1>14 DEF TowersPassed
    <2>1. pc[t] = "sink" => insertNode[t] # Null
      BY DEF Shape, ThreadInv, SinkInv
    <2> QED
      BY <1>11, <1>19, <2>1
  <1>21. ASSUME NEW u \in Thread, u # t, pc[u] \in Seeking \cup Waiting, height[u] = h,
                cur[u] # n
         PROVE  /\ cur[u] \in on \ Lasts /\ cur[u] \in Node /\ op[u].key \in Int
                /\ Left(data, n, cur[u]) \/ Left(data, cur[u], n)
                /\ cur[u] \in Firsts \/ Start(data, cur[u]) <= op[u].key
                /\ cur[u] \notin Firsts => Start(data, cur[u]) \in Int
    <2>1. /\ cur[u] \in on \ Lasts /\ cur[u] \in Node /\ op[u].key \in Key /\ at[cur[u]] = h
          /\ cur[u] \in Firsts \/ Start(data, cur[u]) <= op[u].key
      BY <1>21, SeekStart
    <2>2. Left(data, n, cur[u]) \/ Left(data, cur[u], n)
      BY <1>5, <1>21, <2>1 DEF Listed
    <2> QED
      BY <1>5, <2>1, <2>2, StartInt, CallAssumption
  <1>22. ASSUME NEW u \in Thread, u # t, cur[u] # Null, m = "exclusive" \/ MayWrite(u)
         PROVE  cur[u] # n
    <2>1. cur[u] \in Node
      BY <1>22, Types DEF Pointer, LInv
    <2>2. owner[cur[u]] = u \/ (u \in shared[cur[u]] /\ ~MayWrite(u))
      BY <1>22, <2>1 DEF LInv, Holds, HeldExclusive, HeldShared
    <2> QED
      BY <1>7, <1>22, <2>2, BAssumption
  <1>23. ASSUME NEW u \in Thread, u # t PROVE InFront(at, on, t, u)'
    <2>1. pc'[u] = pc[u] /\ op'[u] = op[u] /\ height'[u] = height[u] /\ cur'[u] = cur[u]
      BY <1>10, <1>23 DEF Others
    <2> SUFFICES ASSUME insertNode[t] # Null, pc[u] \in Seeking, h = height[u],
                        op[t].key <= op[u].key
                 PROVE  Left(data, n, cur[u])
      BY <1>8, <1>14, <2>1 DEF InFront
    <2>2. m = "exclusive"
      BY <1>11, <1>12 DEF h
    <2>3. cur[u] # Null
      BY DEF Shape, ThreadInv, CurInv, Seeking, OnLevel
    <2>4. cur[u] # n
      BY <1>22, <1>23, <2>2, <2>3
    <2>5. /\ cur[u] \in on \ Lasts /\ op[u].key \in Int
          /\ Left(data, n, cur[u]) \/ Left(data, cur[u], n)
          /\ cur[u] \notin Firsts => Start(data, cur[u]) \in Int
      BY <1>21, <1>23, <2>4
    <2> SUFFICES ASSUME Left(data, cur[u], n) PROVE FALSE
      BY <2>5
    <2>6. n \notin Firsts /\ Start(data, n) # NoKey /\ Start(data, n) \in Int
      BY <1>5, StartInt DEF Left
    <2>7. Link(data, at, on, height[u] + 1, Above(t).key, n)
      BY <1>2, <1>5
    <2>8. \/ Above(t).key > op[u].key
          \/ cur[u] \notin Firsts /\ Above(t).key <= Start(data, cur[u])
      BY <1>5, <2>6, <2>7 DEF Shape, ThreadInv, TowersPassed
    <2>9. ~(Above(t).key > op[u].key)
      BY <1>2, <1>5, <2>5, <2>6
    <2>10. Start(data, cur[u]) < Start(data, n) /\ Start(data, cur[u]) \in Int
      BY <1>5, <2>5, <2>8, <2>9 DEF Left
    <2> QED
      BY <1>5, <2>6, <2>8, <2>9, <2>10
  <1>24. ASSUME NEW u \in Thread, u # t PROVE InFront(at, on, u, t)'
    <2>1. /\ pc'[u] = pc[u] /\ op'[u] = op[u] /\ height'[u] = height[u] /\ cur'[u] = cur[u]
          /\ insertNode'[u] = insertNode[u]
      BY <1>10, <1>24 DEF Others
    <2> SUFFICES ASSUME insertNode[u] # Null, pc[u] \in Waiting, height[u] = h,
                        op[u].key <= op[t].key,
                        NEW k, Link(data, at, on, height[t], k, insertNode[u])
                 PROVE  Left(data, cur[u], n)
      BY <1>5, <1>8, <1>14, <2>1 DEF InFront
    <2>2. k = op[u].key
      BY <1>4, WaitedLink
    <2>3. MayWrite(u) /\ cur[u] # Null
      BY ModeOf DEF Shape, ThreadInv, CurInv, Waiting, OnLevel
    <2>4. cur[u] # n
      BY <1>22, <1>24, <2>3
    <2>5. /\ cur[u] \in on \ Lasts /\ op[u].key \in Int
          /\ Left(data, n, cur[u]) \/ Left(data, cur[u], n)
          /\ cur[u] \in Firsts \/ Start(data, cur[u]) <= op[u].key
          /\ cur[u] \notin Firsts => Start(data, cur[u]) \in Int
      BY <1>21, <1>24, <2>4
    <2>6. insertNode[u] # insertNode[t]
      BY <1>24, OwnPointers, HeldApart
    <2>7. n \notin Firsts /\ op[u].key <= Start(data, n)
      BY <1>5, <1>19, <2>2, <2>5, <2>6
    <2>8. Start(data, n) \in Int
      BY <1>5, <2>7, StartInt
    <2>9. CASE cur[u] \in Firsts
      BY <2>5, <2>7, <2>9, Ends DEF Left
    <2>10. CASE cur[u] \notin Firsts
      <3>1. Start(data, cur[u]) <= Start(data, n) /\ Start(data, cur[u]) \in Int
        BY <2>5, <2>7, <2>8, <2>10
      <3>2. ~Left(data, n, cur[u])
        BY <1>5, <2>5, <2>7, <2>8, <3>1 DEF Left
      <3> QED
        BY <2>5, <3>2
    <2> QED
      BY <2>9, <2>10
  <1> QED
    BY <1>10, <1>13, <1>15, <1>16, <1>17, <1>18, <1>20, <1>23, <1>24, QuietDone DEF ThreadInv

-----------------------------------------------------------------------------
(* The steps that change what is in use.                                   *)

\* A step of t that at most puts its node for the level below into use or out
\* of it.
Soft(t) ==
  /\ UNCHANGED <<data, next>> /\ Others(t)
  /\ pc[t] # "relink" /\ pc'[t] # "relink"
  /\ insertNode'[t] = insertNode[t]
  /\ insertNode[t] # Null => op'[t] = op[t] /\ WaitLevel(t)' = WaitLevel(t)
  /\ alive' = (alive \ {nextNode[t]}) \cup ({nextNode'[t]} \ {Null})
  /\ nextNode'[t] # Null => nextNode'[t] \in Node \ alive

\* A step that only allocates or frees nodes on no list keeps the lists.
LEMMA SoftStep ==
  ASSUME LInv, NEW at, NEW on, Shape(at, on), NEW t \in Thread, Soft(t)
  PROVE  /\ data' = data /\ next' = next /\ Right' = Right /\ HeapTypes'
         /\ Listed(data, Right, at, on)' /\ DownInv(at, on)' /\ Accounted(on)'
         /\ HeapStep(t, at, on, at, on)
  <1>1. data' = data /\ next' = next
    BY DEF Soft
  <1>2. ASSUME NEW n PROVE (\E u \in Thread : pc'[u] = "relink" /\ prev'[u] = n)
                             <=> \E u \in Thread : pc[u] = "relink" /\ prev[u] = n
    BY DEF Soft, Others
  <1>3. Right' = Right
    BY <1>1, <1>2 DEF Right
  <1>4. Listed(data, Right, at, on) /\ Listed(data, Right, at, on)'
    BY <1>1, <1>3 DEF Shape
  <1>5. HeapTypes'
    BY <1>1, TypeParts DEF LInv, HeapTypes, Soft
  <1>6. ASSUME NEW u \in Thread PROVE insertNode'[u] = insertNode[u]
    BY DEF Soft, Others
  <1>7. ASSUME NEW u \in Thread, u # t PROVE nextNode'[u] = nextNode[u]
    BY <1>7 DEF Soft, Others
  <1>8. DownInv(at, on)'
    <2>1. ASSUME NEW u \in Thread, NEW i, NEW k, NEW d, Waits(u, i, k, d) PROVE Waits(u, i, k, d)'
      <3>1. u # t => WaitLevel(u)' = WaitLevel(u) /\ op'[u] = op[u]
        BY OthersHold DEF Soft, Others
      <3>2. u = t /\ insertNode[t] # Null => WaitLevel(u)' = WaitLevel(u) /\ op'[u] = op[u]
        BY DEF Soft
      <3> QED
        BY <1>6, <2>1, <3>1, <3>2 DEF Waits
    <2> QED
      BY <1>1, <2>1 DEF Shape, DownInv, Stands
  <1>9. nextNode[t] # Null => nextNode[t] \in alive \ on /\ next[nextNode[t]] = Null
    BY DEF Shape, ThreadInv, NewInv
  <1>10. Accounted(on) /\ on \subseteq Node /\ Null \notin Node
    BY BAssumption DEF Shape, Listed
  <1>11. alive' = (alive \ {nextNode[t]}) \cup ({nextNode'[t]} \ {Null})
    BY DEF Soft
  <1>12. Accounted(on)'
    <2>1. on \subseteq alive'
      BY <1>9, <1>10, <1>11 DEF Accounted
    <2>2. \A n \in Node \ alive' : next[n] = Null
      BY <1>9, <1>10, <1>11 DEF Accounted
    <2>3. ASSUME NEW n \in alive' \ on
          PROVE  \E u \in Thread :
                   n \in {nextNode'[u], insertNode'[u]} \/ (pc'[u] = "relink" /\ n = Leftover(u)')
      <3>1. CASE n = nextNode'[t]
        BY <3>1
      <3>2. CASE n # nextNode'[t]
        <4>1. n \in alive \ on /\ n # nextNode[t]
          BY <1>11, <2>3, <3>2
        <4>2. PICK u \in Thread :
                n \in {nextNode[u], insertNode[u]} \/ (pc[u] = "relink" /\ n = Leftover(u))
          BY <1>10, <4>1 DEF Accounted
        <4>3. pc[u] = "relink" => pc'[u] = "relink" /\ Leftover(u)' = Leftover(u)
          BY <1>1 DEF Soft, Others, Leftover
        <4> QED
          BY <1>6, <1>7, <4>1, <4>2, <4>3
      <3> QED
        BY <3>1, <3>2
    <2> QED
      BY <1>1, <2>1, <2>2, <2>3 DEF Accounted
  <1>13. HeapStep(t, at, on, at, on)
    <2>1. \A n \in on : n \notin Firsts /\ n \notin Lasts => Start(data, n) <= Start(data', n)
      <3> SUFFICES ASSUME NEW n \in on, n \notin Firsts, n \notin Lasts
                   PROVE  Start(data, n) <= Start(data, n)
        BY <1>1
      <3>1. Start(data, n) \in Int
        BY <1>4, StartInt
      <3> QED
        BY <3>1
    <2>2. \A n \in alive \ HeldExclusive(t) : n \in alive'
      <3>1. nextNode[t] # Null => nextNode[t] \in HeldExclusive(t)
        BY OwnPointers
      <3>2. Null \notin alive
        BY <1>10, HeldAlive
      <3> QED
        BY <1>11, <3>1, <3>2
    <2>3. \A n \in {nextNode'[t], insertNode'[t]} :
            n \in {nextNode[t], insertNode[t], Null} \/ n \notin alive
      BY DEF Soft
    <2>4. pc'[t] # "relink"
      BY DEF Soft
    <2> QED
      BY <1>1, <1>3, <1>4, <2>1, <2>2, <2>3, <2>4 DEF HeapStep
  <1> QED
    BY <1>1, <1>3, <1>4, <1>5, <1>8, <1>12, <1>13

\* An insert makes the node for the level below: an address nobody has.
LEMMA AllocateKeeps ==
  ASSUME LInv, NEW at, NEW on, Shape(at, on), NEW t \in Thread, Allocate(t)
  PROVE  Inv'
  <1> DEFINE n == Fresh(op[t].key, height[t] - 1)
             l == Look(data[cur[t]], next[cur[t]], op[t].key)
  <1>1. /\ pc[t] = "level" /\ Vacant(op[t].key, height[t] - 1) # {}
        /\ alive' = alive \cup {n} /\ Relock(t, {n}, "exclusive", {}, "exclusive")
        /\ nextNode' = [nextNode EXCEPT ![t] = n] /\ pc' = [pc EXCEPT ![t] = l]
        /\ UNCHANGED <<data, next, op, height, cur, prev, insertNode, scan, reply>>
    BY DEF Allocate, Goto
  <1>2. ThreadInv(at, on, t) /\ Listed(data, Right, at, on) /\ Accounted(on)
    BY DEF Shape
  <1>3. /\ op[t].key \in Key /\ Working(t, height[t]) /\ height[t] > 0
        /\ Short(data, cur[t], op[t].key) /\ cur[t] \in on \ Lasts /\ cur[t] # Null
        /\ op[t].name = "insert"
    BY <1>1, <1>2 DEF ThreadInv, CallInv, CurInv, OnLevel, Working
  <1>4. n \in Node \ alive /\ n # Null
    <2>1. height[t] - 1 \in Level
      BY <1>3, Types, CallAssumption DEF LInv, Level
    <2>2. Site[op[t].key][height[t] - 1] \subseteq Node
      BY <1>3, <2>1, Ends
    <2>3. n \in Vacant(op[t].key, height[t] - 1)
      BY <1>1 DEF Fresh
    <2> QED
      BY <2>2, <2>3, Ends DEF Vacant
  <1>5. /\ l \in {"hit", "next", "below"}
        /\ l = "hit" => Hit(data[cur[t]], op[t].key)
        /\ l = "next" => Before(data[cur[t]], op[t].key)
        /\ l = "below" => ~Hit(data[cur[t]], op[t].key) /\ Past(data, Right[cur[t]], op[t].key)
    <2>1. next[cur[t]] = Right[cur[t]]
      BY <1>1, NextOf DEF OnLevel
    <2> QED
      BY <1>2, <1>3, <2>1, BeginFinds
  <1> HIDE DEF n, l
  <1>6. nextNode[t] = Null /\ prev[t] = Null
    BY <1>1, <1>2, <1>3 DEF ThreadInv, NewInv, PrevInv
  <1>7. /\ pc'[t] = l /\ op'[t] = op[t] /\ height'[t] = height[t] /\ cur'[t] = cur[t]
        /\ prev'[t] = prev[t] /\ nextNode'[t] = n /\ insertNode'[t] = insertNode[t]
        /\ index'[t] = index[t] /\ removed'[t] = removed[t] /\ reply'[t] = reply[t]
        /\ OnlyOwn(t)
    BY <1>1, TypeParts, SameLocals DEF LInv, LocalTypes, OnlyOwn, scan
  <1>8. Others(t) /\ LocalTypes'
    <2>1. l \in Labels /\ n \in Pointer
      BY <1>4, <1>5, AllLabels DEF Pointer
    <2>2. OwnTypes(t)'
      BY <1>7, <2>1, OwnType DEF OwnTypes
    <2> QED
      BY <1>7, <2>2, OwnStep
  <1>9. Soft(t)
    <2>1. Null \notin alive
      BY BAssumption, HeldAlive
    <2> QED
      BY <1>1, <1>4, <1>5, <1>6, <1>7, <1>8, <2>1 DEF Soft, WaitLevel
  <1>10. /\ data' = data /\ next' = next /\ Right' = Right /\ HeapTypes'
         /\ DownInv(at, on)' /\ Accounted(on)' /\ HeapStep(t, at, on, at, on)
    BY <1>9, SoftStep
  <1>11. /\ MayWrite(t)' <=> MayWrite(t)
         /\ Working(t, height[t])' <=> Working(t, height[t])
         /\ Exclusive(t)' <=> Exclusive(t)
    BY <1>1, <1>5, <1>7, SameWrite
  <1>12. LockTypes'
    <2>1. \A u \in Thread : n \notin HeldExclusive(u) /\ n \notin HeldShared(u)
      BY <1>4, HeldAlive
    <2>2. owner[n] = NoThread /\ shared[n] = {}
      BY <1>4, <2>1, FreeNode
    <2>3. MayWrite(t)
      BY <1>1, <1>3 DEF MayWrite
    <2>4. /\ HeldExclusive(t)' = HeldExclusive(t) \cup {n}
          /\ HeldShared(t)' = {} /\ HeldShared(t) = {}
      BY <1>4, <1>6, <1>7, <1>11, <2>3 DEF HeldExclusive, HeldShared
    <2> HIDE DEF LockTypes
    <2> QED
      BY <1>1, <1>4, <1>8, <2>2, <2>4, RelockSound DEF Modes
  <1>13. CallInv(t)'
    BY <1>1, <1>2, <1>5, <1>7 DEF ThreadInv, CallInv
  <1>14. CurInv(at, on, t)'
    BY <1>1, <1>2, <1>3, <1>5, <1>7, <1>10 DEF ThreadInv, CurInv, OnLevel
  <1>15. PrevInv(at, on, t)'
    BY <1>3, <1>5, <1>6, <1>7, <1>10 DEF PrevInv
  <1>16. NewInv(on, t)'
    <2>1. n \in alive' \ on /\ next'[n] = Null /\ on \subseteq alive
      BY <1>1, <1>2, <1>4, <1>10 DEF Accounted
    <2>2. insertNode[t] # Null => insertNode[t] \in alive \ on /\ next[insertNode[t]] = Null
      BY <1>2 DEF ThreadInv, NewInv
    <2> QED
      BY <1>1, <1>3, <1>4, <1>5, <1>7, <1>10, <1>11, <2>1, <2>2 DEF NewInv, Waiting
  <1>17. SinkInv(at, on, t)'
    BY <1>5, <1>7 DEF SinkInv
  <1>18. TowersPassed(at, on, t)'
    BY <1>1, <1>2, <1>7, <1>10 DEF ThreadInv, TowersPassed, Seeking
  <1>19. ASSUME NEW u \in Thread, u # t PROVE InFront(at, on, t, u)' /\ InFront(at, on, u, t)'
    <2>1. /\ pc'[u] = pc[u] /\ op'[u] = op[u] /\ height'[u] = height[u] /\ cur'[u] = cur[u]
          /\ insertNode'[u] = insertNode[u]
      BY <1>8, <1>19 DEF Others
    <2>2. InFront(at, on, t, u) /\ InFront(at, on, u, t)
      BY <1>19 DEF Shape
    <2> QED
      BY <1>1, <1>5, <1>7, <1>10, <2>1, <2>2 DEF InFront, Seeking, Waiting
  <1> QED
    <2>1. ThreadInv(at, on, t)'
      BY <1>13, <1>14, <1>15, <1>16, <1>17, <1>18 DEF ThreadInv
    <2> HIDE DEF LockTypes
    <2> QED
      BY <1>8, <1>10, <1>12, <1>19, <2>1, StepDone

\* An insert whose key is on the level deletes the node it made for nothing.
LEMMA SettleKeeps ==
  ASSUME LInv, NEW at, NEW on, Shape(at, on), NEW t \in Thread,
         Working(t, height[t]), Settle(t)
  PROVE  Inv'
  <1>1. /\ pc[t] = "settle" \/ (pc[t] = "hit" /\ insertNode[t] = Null)
        /\ Relock(t, {}, "exclusive", {prev[t], nextNode[t]}, "exclusive")
        /\ alive' = alive \ {nextNode[t]}
        /\ prev' = [prev EXCEPT ![t] = Null] /\ nextNode' = [nextNode EXCEPT ![t] = Null]
        /\ pc' = [pc EXCEPT ![t] = "merged"]
        /\ UNCHANGED <<data, next, op, height, cur, insertNode, scan, reply>>
    BY DEF Settle, Goto, Unneeded, Unlock
  <1>2. ThreadInv(at, on, t) /\ Listed(data, Right, at, on)
    BY DEF Shape
  <1>3. /\ op[t].key \in Key /\ op[t].name = "insert" /\ insertNode[t] = Null
        /\ Hit(data[cur[t]], op[t].key) /\ cur[t] \in on \ Lasts /\ cur[t] # Null
        /\ at[cur[t]] = height[t]
        /\ prev[t] # cur[t] /\ (nextNode[t] # Null => nextNode[t] # cur[t])
    BY <1>1, <1>2 DEF ThreadInv, CallInv, CurInv, PrevInv, NewInv, OnLevel, Working, Waiting
  <1>4. /\ pc'[t] = "merged" /\ op'[t] = op[t] /\ height'[t] = height[t] /\ cur'[t] = cur[t]
        /\ prev'[t] = Null /\ nextNode'[t] = Null /\ insertNode'[t] = Null
        /\ index'[t] = index[t] /\ removed'[t] = removed[t] /\ reply'[t] = reply[t]
        /\ OnlyOwn(t)
    BY <1>1, <1>3, TypeParts, SameLocals DEF LInv, LocalTypes, OnlyOwn, scan
  <1>5. Others(t) /\ LocalTypes'
    <2>1. OwnTypes(t)'
      BY <1>4, OwnType, AllLabels DEF OwnTypes, Pointer
    <2> QED
      BY <1>4, <2>1, OwnStep
  <1>6. Soft(t)
    BY <1>1, <1>3, <1>4, <1>5 DEF Soft
  <1>7. /\ data' = data /\ next' = next /\ Right' = Right /\ HeapTypes'
        /\ DownInv(at, on)' /\ Accounted(on)' /\ HeapStep(t, at, on, at, on)
    BY <1>6, SoftStep
  <1>8. LockTypes'
    <2>1. MayWrite(t) /\ MayWrite(t)'
      BY <1>1, <1>3, <1>4 DEF MayWrite
    <2>2. /\ HeldExclusive(t) = {prev[t], nextNode[t], cur[t]} \ {Null}
          /\ HeldExclusive(t)' = {cur[t]} /\ HeldShared(t)' = {} /\ HeldShared(t) = {}
          /\ Null \notin Node
      BY <1>3, <1>4, <2>1, BAssumption DEF HeldExclusive, HeldShared
    <2>3. cur[t] \notin {prev[t], nextNode[t]}
      BY <1>3
    <2>4. \A n \in {prev[t], nextNode[t]} : n \in Node => n \in HeldExclusive(t)
      BY <2>2
    <2>5. \A n \in Node : n \in HeldExclusive(t)' <=>
            n \notin {prev[t], nextNode[t]} /\ n \in HeldExclusive(t)
      BY <2>2, <2>3
    <2> HIDE DEF LockTypes
    <2> QED
      BY <1>1, <1>5, <2>2, <2>4, <2>5, RelockSound DEF Modes
  <1>9. CallInv(t)'
    BY <1>1, <1>2, <1>3, <1>4 DEF ThreadInv, CallInv
  <1>10. CurInv(at, on, t)'
    BY <1>3, <1>4, <1>7 DEF CurInv, OnLevel
  <1>11. PrevInv(at, on, t)' /\ NewInv(on, t)' /\ SinkInv(at, on, t)' /\ TowersPassed(at, on, t)'
    BY <1>4 DEF PrevInv, NewInv, SinkInv, TowersPassed, Seeking
  <1>12. \A u \in Thread : u # t => InFront(at, on, t, u)' /\ InFront(at, on, u, t)'
    BY <1>4, NotInFront DEF Waiting
  <1> QED
    <2>1. ThreadInv(at, on, t)'
      BY <1>9, <1>10, <1>11 DEF ThreadInv
    <2> HIDE DEF LockTypes
    <2> QED
      BY <1>5, <1>7, <1>8, <1>12, <2>1, StepDone

\* prev skips the node a merge has emptied: on the lists it was skipped already.
LEMMA RelinkKeeps ==
  ASSUME LInv, NEW at, NEW on, Shape(at, on), NEW t \in Thread, Relink(t)
  PROVE  Inv'
  <1> DEFINE p == prev[t]
             c == Leftover(t)
  <1>1. ThreadInv(at, on, t) /\ Listed(data, Right, at, on) /\ Accounted(on)
    BY DEF Shape
  <1>2. /\ pc[t] = "relink" /\ p # Null /\ c \in alive \ on /\ next[c] = cur[t]
        /\ \A u \in Thread : /\ c \notin {nextNode[u], insertNode[u]}
                             /\ u # t /\ pc[u] = "relink" => Leftover(u) # c
    BY <1>1 DEF Relink, ThreadInv, PrevInv
  <1>3. /\ p \in on \ Lasts /\ p # cur[t] /\ p \in Node /\ c \in Node /\ p # c /\ p \in alive
        /\ p \in HeldExclusive(t) /\ on \subseteq alive /\ on \subseteq Node
    <2>1. p \in on \ Lasts /\ p # cur[t]
      BY <1>1, <1>2 DEF ThreadInv, PrevInv
    <2> QED
      BY <1>1, <1>2, <2>1, HeldAlive, OwnPointers DEF Listed
  <1>4. /\ Working(t, height[t]) /\ op[t].key \in Key /\ op[t].name = "insert"
        /\ cur[t] \in on \ Lasts /\ at[cur[t]] = height[t] /\ Hit(data[cur[t]], op[t].key)
        /\ insertNode[t] = Null
    BY <1>1, <1>2 DEF ThreadInv, CallInv, CurInv, NewInv, OnLevel, Waiting, Working
  <1>5. /\ next' = [next EXCEPT ![p] = cur[t], ![c] = Null]
        /\ alive' = alive \ {c} /\ data' = data
        /\ pc' = [pc EXCEPT ![t] = "settle"]
        /\ UNCHANGED <<locks, op, height, cur, prev, fresh, scan, reply>>
    BY <1>2 DEF Relink, Goto, Skip, Leftover
  <1>6. c = next[p]
    BY DEF Leftover
  <1> HIDE DEF p, c
  <1>7. /\ pc'[t] = "settle" /\ op'[t] = op[t] /\ height'[t] = height[t] /\ cur'[t] = cur[t]
        /\ prev'[t] = p /\ nextNode'[t] = nextNode[t] /\ insertNode'[t] = Null
        /\ index'[t] = index[t] /\ removed'[t] = removed[t] /\ reply'[t] = reply[t]
        /\ OnlyOwn(t)
    BY <1>4, <1>5, TypeParts, SameLocals DEF LInv, LocalTypes, OnlyOwn, scan, fresh, p
  <1>8. Others(t) /\ LocalTypes'
    <2>1. OwnTypes(t)'
      BY <1>4, <1>7, OwnType, AllLabels DEF OwnTypes, Pointer, p
    <2> QED
      BY <1>7, <2>1, OwnStep
  <1>9. /\ next'[p] = cur[t] /\ next'[c] = Null
        /\ \A n \in Node : n # p /\ n # c => next'[n] = next[n]
        /\ HeapTypes'
    <2>1. HeapTypes /\ cur[t] \in Pointer /\ Null \in Pointer
      BY TypeParts, Types DEF LInv, Pointer
    <2> QED
      BY <1>3, <1>5, <2>1 DEF HeapTypes
  \* Another merge is about another node behind another prev.
  <1>10. ASSUME NEW u \in Thread, u # t, pc[u] = "relink"
         PROVE  /\ pc'[u] = "relink" /\ prev'[u] = prev[u] /\ prev[u] # p /\ prev[u] # Null
                /\ Leftover(u)' = Leftover(u) /\ Leftover(u) # c
                /\ next'[Leftover(u)] = next[Leftover(u)]
    <2>1. pc'[u] = "relink" /\ prev'[u] = prev[u]
      BY <1>8, <1>10 DEF Others
    <2>2. prev[u] # Null /\ Leftover(u) \in alive \ on /\ prev[u] \in on
      BY <1>10 DEF Shape, ThreadInv, PrevInv
    <2>3. prev[u] # p
      BY <1>3, <1>10, <2>2, OwnPointers, HeldApart
    <2>4. prev[u] # c /\ Leftover(u) # p /\ Leftover(u) # c /\ prev[u] \in Node
      BY <1>2, <1>3, <1>10, <2>2
    <2>5. Leftover(u)' = Leftover(u)
      BY <1>9, <2>1, <2>3, <2>4 DEF Leftover
    <2>6. Leftover(u) \in Node
      BY <2>2, HeldAlive
    <2> QED
      BY <1>9, <2>1, <2>2, <2>3, <2>4, <2>5, <2>6
  <1>11. ASSUME NEW n \in on PROVE Right'[n] = Right[n]
    <2>1. n \in Node /\ n # c
      BY <1>2, <1>3
    <2>2. CASE n = p
      <3>1. Right[n] = cur[t]
        BY <1>2, <1>6, <2>1, <2>2 DEF Right, p
      <3>2. \A u \in Thread : ~(pc'[u] = "relink" /\ prev'[u] = p)
        <4> SUFFICES ASSUME NEW u \in Thread, pc'[u] = "relink", prev'[u] = p PROVE FALSE
          OBVIOUS
        <4>1. u # t /\ pc[u] = "relink"
          BY <1>7, <1>8 DEF Others
        <4> QED
          BY <1>10, <4>1
      <3>3. Right'[n] = next'[n]
        BY <2>1, <2>2, <3>2 DEF Right
      <3> QED
        BY <1>9, <2>2, <3>1, <3>3
    <2>3. CASE n # p /\ \E u \in Thread : pc[u] = "relink" /\ prev[u] = n
      <3>1. PICK u \in Thread : pc[u] = "relink" /\ prev[u] = n
        BY <2>3
      <3>2. u # t
        BY <2>3, <3>1 DEF p
      <3>3. /\ pc'[u] = "relink" /\ prev'[u] = n /\ Leftover(u)' = Leftover(u)
            /\ next'[Leftover(u)] = next[Leftover(u)]
        BY <1>10, <3>1, <3>2
      <3>4. Right'[n] = next'[next'[n]] /\ Right[n] = next[next[n]]
        BY <2>1, <3>1, <3>3 DEF Right
      <3>5. next'[n] = next[n] /\ next[n] = Leftover(u)
        BY <1>9, <2>1, <2>3, <3>1 DEF Leftover
      <3> QED
        BY <3>3, <3>4, <3>5
    <2>4. CASE n # p /\ ~\E u \in Thread : pc[u] = "relink" /\ prev[u] = n
      <3>1. ~\E u \in Thread : pc'[u] = "relink" /\ prev'[u] = n
        BY <1>7, <1>8, <2>4 DEF Others
      <3>2. Right'[n] = next'[n] /\ Right[n] = next[n]
        BY <2>1, <2>4, <3>1 DEF Right
      <3> QED
        BY <1>9, <2>1, <2>4, <3>2
    <2> QED
      BY <2>2, <2>3, <2>4
  <1>12. Listed(data, Right, at, on)'
    BY <1>1, <1>5, <1>11, ListedSame
  <1>13. HeapStep(t, at, on, at, on)
    <2>1. \A n \in on : n \notin Firsts /\ n \notin Lasts => Start(data, n) <= Start(data, n)
      <3> SUFFICES ASSUME NEW n \in on, n \notin Firsts, n \notin Lasts
                   PROVE  Start(data, n) <= Start(data, n)
        OBVIOUS
      <3>1. Start(data, n) \in Int
        BY <1>1, StartInt
      <3> QED
        BY <3>1
    <2>2. ASSUME NEW n \in alive \ HeldExclusive(t), n # c
          PROVE  /\ next'[n] = next[n] /\ n \in alive' /\ (n \in on => Right'[n] = Right[n])
      <3>1. n \in Node /\ n # p
        BY <1>3, HeldAlive
      <3> QED
        BY <1>5, <1>9, <1>11, <2>2, <3>1
    <2>3. \A n \in {nextNode'[t], insertNode'[t]} : n \in {nextNode[t], insertNode[t], Null}
      BY <1>7
    <2> QED
      BY <1>2, <1>5, <1>7, <1>12, <2>1, <2>2, <2>3 DEF HeapStep, c
  <1>14. DownInv(at, on)'
    <2>1. ASSUME NEW u \in Thread, NEW i, NEW k, NEW d, Waits(u, i, k, d) PROVE Waits(u, i, k, d)'
      <3>1. u # t
        BY <1>4, <2>1 DEF Waits
      <3>2. WaitLevel(u)' = WaitLevel(u) /\ op'[u] = op[u] /\ insertNode'[u] = insertNode[u]
        BY <1>8, <3>1, OthersHold DEF Others
      <3> QED
        BY <2>1, <3>2 DEF Waits
    <2> QED
      BY <1>5, <2>1 DEF Shape, DownInv, Stands
  <1>15. Accounted(on)'
    <2>1. on \subseteq alive'
      BY <1>2, <1>3, <1>5
    <2>2. \A n \in Node \ alive' : next'[n] = Null
      BY <1>1, <1>3, <1>5, <1>9 DEF Accounted
    <2>3. ASSUME NEW n \in alive' \ on
          PROVE  \E u \in Thread :
                   n \in {nextNode'[u], insertNode'[u]} \/ (pc'[u] = "relink" /\ n = Leftover(u)')
      <3>1. n \in alive \ on /\ n # c
        BY <1>5, <2>3
      <3>2. PICK u \in Thread :
              n \in {nextNode[u], insertNode[u]} \/ (pc[u] = "relink" /\ n = Leftover(u))
        BY <1>1, <3>1 DEF Accounted
      <3>3. nextNode' = nextNode /\ insertNode' = insertNode
        BY <1>5 DEF fresh
      <3>4. pc[u] = "relink" /\ n = Leftover(u) => pc'[u] = "relink" /\ Leftover(u)' = Leftover(u)
        BY <1>10, <3>1 DEF c
      <3> QED
        BY <3>2, <3>3, <3>4
    <2> QED
      BY <2>1, <2>2, <2>3 DEF Accounted
  <1>16. LockTypes'
    <2>1. MayWrite(t) /\ MayWrite(t)'
      BY <1>2, <1>4, <1>7 DEF MayWrite
    <2>2. HeldExclusive(t)' = HeldExclusive(t) /\ HeldShared(t)' = HeldShared(t)
      BY <1>4, <1>7, <2>1 DEF HeldExclusive, HeldShared, p
    <2> QED
      BY <1>5, <1>8, <2>2, LocksSame
  <1>17. Working(t, height[t])' /\ Exclusive(t)'
    BY <1>4, <1>7 DEF Working, Exclusive
  <1>18. CallInv(t)'
    BY <1>1, <1>2, <1>4, <1>7, <1>17 DEF ThreadInv, CallInv
  <1>19. CurInv(at, on, t)'
    <2>1. cur[t] # Null
      BY <1>3, <1>4, Ends
    <2> QED
      BY <1>4, <1>5, <1>7, <2>1 DEF CurInv, OnLevel
  <1>20. PrevInv(at, on, t)'
    BY <1>3, <1>7, <1>17 DEF PrevInv
  <1>21. NewInv(on, t)'
    <2>1. nextNode[t] # Null =>
            /\ height[t] > 0 /\ nextNode[t] \in alive \ on /\ next[nextNode[t]] = Null
            /\ nextNode[t] # c
      BY <1>1, <1>2 DEF ThreadInv, NewInv
    <2>2. nextNode[t] # Null => /\ nextNode[t] \in alive' \ on
                                /\ next'[nextNode[t]] = Null
      <3>1. alive \subseteq Node
        BY HeldAlive
      <3> QED
        BY <1>3, <1>5, <1>9, <2>1, <3>1
    <2> QED
      BY <1>7, <1>17, <2>1, <2>2 DEF NewInv
  <1>22. SinkInv(at, on, t)' /\ TowersPassed(at, on, t)'
    BY <1>7 DEF SinkInv, TowersPassed, Seeking
  <1>23. \A u \in Thread : u # t => InFront(at, on, t, u)' /\ InFront(at, on, u, t)'
    BY <1>7, NotInFront DEF Waiting
  <1> QED
    <2>1. ThreadInv(at, on, t)'
      BY <1>18, <1>19, <1>20, <1>21, <1>22 DEF ThreadInv
    <2> HIDE DEF LockTypes
    <2> QED
      BY <1>8, <1>9, <1>13, <1>14, <1>15, <1>16, <1>23, <2>1, StepDone

\* The entry at the foot of its tower an insert has found.
LEMMA AtTheFoot ==
  ASSUME LInv, NEW at, NEW on, Shape(at, on), NEW t \in Thread,
         pc[t] \in {"hit", "tower", "merged", "settle"}, At(t).down = Null
  PROVE  height[t] = 0
  <1>1. Link(data, at, on, height[t], op[t].key, Null)
    BY FoundEntry
  <1>2. ASSUME height[t] > 0 PROVE FALSE
    <2>1. \/ Stands(at, on, Null, height[t] - 1, op[t].key)
          \/ \E u \in Thread : Waits(u, height[t] - 1, op[t].key, Null)
      BY <1>1, <1>2 DEF Shape, DownInv
    <2>2. Null \notin on
      BY Ends DEF Shape, Listed
    <2> QED
      BY <2>1, <2>2 DEF Stands, Waits
  <1> QED
    BY <1>2, Types DEF LInv

\* An insert writes its value, under an exclusive lock: keys and links stay.
LEMMA WriteValueKeeps ==
  ASSUME LInv, NEW at, NEW on, Shape(at, on), NEW t \in Thread,
         op[t].name = "insert", WriteValue(t)
  PROVE  Inv'
  <1> DEFINE c == cur[t]
             i == Passed(data[c], op[t].key) + 1
             r == Written(data[c], i, op[t].val)
  <1>1. /\ pc[t] \in {"tower", "merged"} /\ At(t).down = Null
        /\ Unlock(t, {c, prev[t]}, "exclusive") /\ Stand(t, "ret", Null, Null)
        /\ UNCHANGED <<op, height, fresh, scan>> /\ UNCHANGED <<next, alive>>
        /\ reply' = [reply EXCEPT ![t] = NoReply]
    BY DEF WriteValue, Leave, Answer
  <1>2. data' = [data EXCEPT ![c] = r]
    BY DEF WriteValue, Written
  <1>3. /\ c \in on \ Lasts /\ c \in Node /\ i \in 1 .. Len(data[c]) /\ op[t].key \in Key
    BY <1>1, FoundEntry
  <1>4. Listed(data, Right, at, on) /\ ThreadInv(at, on, t) /\ Accounted(on)
    BY DEF Shape
  <1>5. height[t] = 0
    BY <1>1, AtTheFoot
  <1>6. MayWrite(t)
    BY <1>1, <1>5 DEF MayWrite
  <1>7. nextNode[t] = Null /\ insertNode[t] = Null
    BY <1>1, <1>4 DEF ThreadInv, NewInv, Waiting
  <1>8. reply' = [reply EXCEPT ![t] = reply'[t]] /\ reply'[t] \in ReplyType
    <2>1. reply \in [Thread -> ReplyType]
      BY TypeParts DEF LInv, LocalTypes
    <2> QED
      BY <1>1, <2>1 DEF ReplyType, NoReply
  <1>9. /\ pc'[t] = "ret" /\ op'[t] = op[t] /\ insertNode' = insertNode /\ nextNode' = nextNode
        /\ Others(t) /\ LocalTypes' /\ LockTypes'
        /\ \A a, o : ThreadInv(a, o, t)'
        /\ \A a, o : \A u \in Thread : u # t => InFront(a, o, t, u)' /\ InFront(a, o, u, t)'
    BY <1>1, <1>6, <1>7, <1>8, LeaveSets DEF Modes, OnLevel
  <1>10. /\ data[c] \in Seq(EntryType) /\ Ascending(data[c]) /\ data[c] # <<>>
         /\ c \in Firsts => Start(data, c) = NoKey
         /\ c \notin Firsts => /\ \A e \in EntriesOf(data[c]) : e.key # NoKey
                               /\ Start(data, c) \in Int
         /\ Right[c] \notin Lasts => Before(data[c], Start(data, Right[c]))
         /\ Len(data[c]) <= ArraySize
    <2>1. Len(data[c]) <= ArraySize
      BY <1>3, Index
    <2>2. Right[c] \notin Lasts => Before(data[c], Start(data, Right[c]))
      BY <1>3, <1>4 DEF Listed
    <2> QED
      BY <1>3, <1>4, <2>1, <2>2, NodeFacts
  <1>11. /\ r \in Seq(EntryType) /\ Ascending(r) /\ Len(r) = Len(data[c]) /\ r # <<>>
         /\ \A j \in 1 .. Len(data[c]) : r[j].key = data[c][j].key /\ r[j].down = data[c][j].down
    <2> HIDE DEF c, i
    <2>1. op[t].val \in Value \cup {NoValue}
      BY Types DEF LInv, OpType
    <2> QED
      BY <1>3, <1>10, <2>1, ValueWritten
  <1> HIDE DEF r, i
  <1>12. \A e \in EntriesOf(r) : \E f \in EntriesOf(data[c]) : e.key = f.key /\ e.down = f.down
    BY <1>10, <1>11, EntrySeq
  <1>13. r[1].key = data[c][1].key
    <2>1. Len(data[c]) \in Nat /\ Len(data[c]) > 0
      BY <1>10, EntrySeq
    <2>2. 1 \in 1 .. Len(data[c])
      BY <2>1
    <2> QED
      BY <1>11, <2>2
  <1>14. Right' = Right
    <2>1. ASSUME NEW n PROVE (\E u \in Thread : pc'[u] = "relink" /\ prev'[u] = n)
                               <=> \E u \in Thread : pc[u] = "relink" /\ prev[u] = n
      BY <1>1, <1>9 DEF Others
    <2> QED
      BY <1>1, <2>1 DEF Right
  <1>15. /\ Listed(data', Right', at, on)
         /\ \A n \in on \ (Firsts \cup Lasts) : Start(data, n) <= Start(data', n)
    <2>1. c \in Firsts => r[1].key = NoKey
      BY <1>10, <1>13 DEF Start
    <2>2. c \notin Firsts => /\ \A e \in EntriesOf(r) : e.key # NoKey
                             /\ Start(data, c) <= r[1].key
      BY <1>10, <1>12, <1>13 DEF Start
    <2>3. Right[c] \notin Lasts => Before(r, Start(data, Right[c]))
      BY <1>10, <1>12 DEF Before
    <2> HIDE DEF c
    <2>4. /\ data' \in [Node -> Seq(EntryType)] /\ data'[c] = r
          /\ \A n \in Node : n # c => data'[n] = data[n]
      <3>1. data \in [Node -> Seq(EntryType)]
        BY <1>4 DEF Listed
      <3> QED
        BY <1>2, <1>3, <1>11, <3>1
    <2>5. \A n \in on : Right'[n] = Right[n]
      BY <1>14
    <2>6. Reshaped(data, Right, on, c, r, data', Right')
      BY <1>3, <1>11, <2>1, <2>2, <2>3, <2>4, <2>5 DEF Reshaped
    <2> QED
      BY <1>4, <2>6, ListChange
  <1>16. HeapTypes'
    <2>1. HeapTypes
      BY TypeParts DEF LInv
    <2> QED
      BY <1>1, <1>2, <1>10, <1>11, <2>1 DEF HeapTypes
  <1>17. \A n \in Node : (n # c => data'[n] = data[n]) /\ Start(data', n) = Start(data, n)
    <2>1. data \in [Node -> Seq(EntryType)]
      BY <1>4 DEF Listed
    <2> QED
      BY <1>2, <1>3, <1>13, <2>1 DEF Start
  <1>18. data'[c] = r /\ on \subseteq Node
    BY <1>2, <1>3, <1>4 DEF Listed
  <1>19. ASSUME NEW k, NEW d, NEW j, Link(data', at, on, j, k, d) PROVE Link(data, at, on, j, k, d)
    <2>1. PICK n \in on : at[n] = j /\ \E e \in EntriesOf(data'[n]) : e.key = k /\ e.down = d
      BY <1>19 DEF Link
    <2>2. \E e \in EntriesOf(data[n]) : e.key = k /\ e.down = d
      BY <1>12, <1>17, <1>18, <2>1
    <2> QED
      BY <2>1, <2>2 DEF Link
  <1>20. HeapStep(t, at, on, at, on)
    <2>1. ASSUME NEW n \in alive \ HeldExclusive(t)
          PROVE  data'[n] = data[n] /\ next'[n] = next[n] /\ Right'[n] = Right[n] /\ n \in alive'
      <3>1. n # c /\ n \in Node
        BY <1>3, <1>6, HeldAlive, Ends DEF HeldExclusive
      <3> QED
        BY <1>1, <1>14, <1>17, <3>1
    <2>2. \A n \in {nextNode'[t], insertNode'[t]} : n \in {nextNode[t], insertNode[t], Null}
      BY <1>9
    <2> QED
      BY <1>9, <1>15, <1>19, <2>1, <2>2 DEF HeapStep
  <1>21. DownInv(at, on)'
    <2> SUFFICES ASSUME NEW j, NEW k, NEW d, Link(data', at, on, j, k, d)
                 PROVE  /\ j = 0 => d = Null
                        /\ j > 0 => \/ Stands(at, on, d, j - 1, k)'
                                    \/ \E u \in Thread : Waits(u, j - 1, k, d)'
      BY DEF DownInv
    <2>1. /\ j = 0 => d = Null
          /\ j > 0 => \/ Stands(at, on, d, j - 1, k)
                      \/ \E u \in Thread : Waits(u, j - 1, k, d)
      BY <1>19 DEF Shape, DownInv
    <2>2. Stands(at, on, d, j - 1, k) => Stands(at, on, d, j - 1, k)'
      BY <1>17, <1>18 DEF Stands
    <2>3. ASSUME NEW u \in Thread, Waits(u, j - 1, k, d) PROVE Waits(u, j - 1, k, d)'
      <3>1. u # t
        BY <1>7, <2>3 DEF Waits
      <3>2. WaitLevel(u)' = WaitLevel(u) /\ op'[u] = op[u] /\ insertNode'[u] = insertNode[u]
        BY <1>9, <3>1, OthersHold DEF Others
      <3> QED
        BY <2>3, <3>2 DEF Waits
    <2> QED
      BY <2>1, <2>2, <2>3
  <1>22. Accounted(on)'
    <2>1. ASSUME NEW u \in Thread, pc[u] = "relink" PROVE pc'[u] = "relink" /\ Leftover(u)' = Leftover(u)
      <3>1. u # t
        BY <1>1, <2>1
      <3> QED
        BY <1>1, <1>9, <2>1, <3>1 DEF Others, Leftover
    <2> QED
      BY <1>1, <1>4, <1>9, <2>1 DEF Accounted
  <1> HIDE DEF LockTypes
  <1> QED
    BY <1>9, <1>16, <1>20, <1>21, <1>22, StepDone

-----------------------------------------------------------------------------
(* The steps of remove that take out entries.                              *)

\* A node to the left of a neighbour is the node itself or to the left of it.
LEMMA LeftOfNext ==
  ASSUME NEW D, NEW X, NEW at, NEW on, Listed(D, X, at, on), NEW p \in on \ Lasts, NEW m \in on,
         at[m] = at[p], Left(D, m, X[p])
  PROVE  m = p \/ Left(D, m, p)
  <1>1. X[p] \in on
    BY DEF Listed
  <1>2. Left(D, p, m) => m = X[p] \/ Left(D, X[p], m)
    BY DEF Listed
  <1>3. m # p => Left(D, m, p) \/ Left(D, p, m)
    BY DEF Listed
  <1>4. m # X[p] /\ ~Left(D, X[p], m)
    BY <1>1, LeftOrder
  <1> QED
    BY <1>2, <1>3, <1>4

\* Where the key a thread has found starts its node, the thread has the node
\* before it locked.
LEMMA FirstHit ==
  ASSUME LInv, NEW at, NEW on, Shape(at, on), NEW t \in Thread, Exclusive(t), pc[t] = "hit",
         Passed(data[cur[t]], op[t].key) = 0
  PROVE  /\ cur[t] \notin Firsts /\ Start(data, cur[t]) = op[t].key
         /\ prev[t] # Null /\ prev[t] \in on \ Lasts /\ prev[t] # cur[t] /\ prev[t] \in Node
         /\ Right[prev[t]] = cur[t] /\ next[prev[t]] = cur[t]
         /\ at[prev[t]] = height[t] /\ Left(data, prev[t], cur[t])
         /\ prev[t] \in Firsts \/ Start(data, prev[t]) < op[t].key
  <1> DEFINE c == cur[t]
             p == prev[t]
  <1>1. /\ c \in on \ Lasts /\ c \in Node /\ op[t].key \in Key /\ op[t].key \in Int
        /\ At(t) \in EntriesOf(data[c]) /\ At(t).key = op[t].key
        /\ NoKey \notin Int /\ at[c] = height[t] /\ on \subseteq Node
    <2>1. /\ c \in on \ Lasts /\ c \in Node /\ op[t].key \in Key
          /\ At(t) \in EntriesOf(data[c]) /\ At(t).key = op[t].key
      BY FoundEntry
    <2>2. op[t].key \in Int /\ NoKey \notin Int
      BY <2>1, CallAssumption
    <2>3. at[c] = height[t] /\ on \subseteq Node
      BY DEF Shape, ThreadInv, CurInv, OnLevel, Listed
    <2> QED
      BY <2>1, <2>2, <2>3
  <1>2. Listed(data, Right, at, on) /\ PrevInv(at, on, t)
    BY DEF Shape, ThreadInv
  <1>3. Start(data, c) = op[t].key
    BY <1>1 DEF At, Start
  <1>4. c \notin Firsts
    BY <1>1, <1>2, <1>3, NodeFacts
  <1>5. ~Short(data, c, op[t].key)
    BY <1>1, <1>3, <1>4 DEF Short
  <1>6. p # Null /\ Right[p] = c /\ p \in on \ Lasts /\ p # c /\ p \in Node
    BY <1>1, <1>2, <1>5 DEF PrevInv
  <1>7. at[p] = height[t] /\ Left(data, p, c)
    BY <1>1, <1>2, <1>6 DEF Listed
  <1>8. next[p] = c
    BY <1>6, OwnPointers, RightIsNext
  <1>9. p \in Firsts \/ Start(data, p) < op[t].key
    BY <1>1, <1>3, <1>7 DEF Left
  <1> QED
    BY <1>3, <1>4, <1>6, <1>7, <1>8, <1>9

\* An entry that leads to a node on a list leads to the one with its key.
LEMMA LinkStands ==
  ASSUME LInv, NEW at, NEW on, Shape(at, on), NEW i, NEW k, NEW d, i > 0,
         Link(data, at, on, i, k, d), d \in on
  PROVE  Stands(at, on, d, i - 1, k)
  <1>1. \/ Stands(at, on, d, i - 1, k)
        \/ \E u \in Thread : Waits(u, i - 1, k, d)
    BY DEF Shape, DownInv
  <1>2. ASSUME NEW u \in Thread, Waits(u, i - 1, k, d) PROVE FALSE
    BY <1>2, HeldAlive DEF Waits
  <1> QED
    BY <1>1, <1>2

\* Nothing leads to the node of the key when the entry above it is gone, or
\* when an entry above it leads to another node, which is to take the key.
LEMMA NoTower ==
  ASSUME LInv, NEW at, NEW on, Shape(at, on), NEW t \in Thread, pc[t] = "hit",
         op[t].name = "remove" \/ insertNode[t] # Null,
         Start(data, cur[t]) = op[t].key, NEW i, NEW k, Link(data, at, on, i, k, cur[t])
  PROVE  FALSE
  <1>1. /\ cur[t] \in on \ Lasts /\ cur[t] \in Node /\ op[t].key \in Int /\ NoKey \notin Int
        /\ at[cur[t]] = height[t] /\ height[t] \in Int
    BY FoundEntry, CallAssumption, Types DEF LInv, Shape, ThreadInv, CurInv, OnLevel
  <1>2. i \in Level /\ i \in Int
    <2>1. PICK n \in on : at[n] = i
      BY DEF Link
    <2>2. at[n] \in Level
      BY <2>1 DEF Shape, Listed
    <2> QED
      BY <2>1, <2>2 DEF Level
  <1>3. i > 0
    <2>1. i = 0 => cur[t] = Null
      BY DEF Shape, DownInv
    <2> QED
      BY <1>1, <1>2, <2>1, Ends DEF Level
  <1>4. Stands(at, on, cur[t], i - 1, k)
    BY <1>1, <1>3, LinkStands
  <1>5. k = op[t].key /\ i = height[t] + 1
    BY <1>1, <1>2, <1>4 DEF Stands
  <1>6. TowersPassed(at, on, t)
    BY DEF Shape, ThreadInv
  <1>7. \/ k = NoKey
        \/ k > op[t].key
        \/ k < op[t].key
    BY <1>1, <1>5, <1>6 DEF TowersPassed, Seeking
  <1> QED
    BY <1>1, <1>5, <1>7

\* What a remove knows of the level above it knows in the node before, too.
LEMMA TowersBack ==
  ASSUME LInv, NEW at, NEW on, Shape(at, on), NEW t \in Thread, pc[t] = "hit",
         op[t].name = "remove", Passed(data[cur[t]], op[t].key) = 0,
         NEW k, NEW d, Link(data, at, on, height[t] + 1, k, d), d \in on
  PROVE  \/ k = NoKey
         \/ k > op[t].key
         \/ prev[t] \notin Firsts /\ k <= Start(data, prev[t]) /\ k < op[t].key
  <1> DEFINE c == cur[t]
             p == prev[t]
  <1>1. /\ c \notin Firsts /\ Start(data, c) = op[t].key /\ p \in on \ Lasts /\ p \in Node
        /\ Right[p] = c /\ at[p] = height[t]
    BY FirstHit DEF Exclusive
  <1>2. /\ c \in on \ Lasts /\ c \in Node /\ op[t].key \in Int /\ NoKey \notin Int
        /\ at[c] = height[t] /\ height[t] \in Int /\ height[t] >= 0
        /\ Listed(data, Right, at, on)
    BY FoundEntry, CallAssumption, Types DEF LInv, Shape, ThreadInv, CurInv, OnLevel
  <1>3. \/ k = NoKey
        \/ k > op[t].key
        \/ k < op[t].key
    BY DEF Shape, ThreadInv, TowersPassed, Seeking
  <1> SUFFICES ASSUME k # NoKey, k < op[t].key PROVE p \notin Firsts /\ k <= Start(data, p)
    BY <1>3
  <1>4. d \in on \ Lasts /\ at[d] = height[t] /\ Start(data, d) = k
    <2>1. height[t] + 1 > 0 /\ (height[t] + 1) - 1 = height[t]
      BY <1>2
    <2> QED
      BY <2>1, LinkStands DEF Stands
  <1>5. d \notin Firsts /\ k \in Int
    <2>1. d \in Node
      BY <1>4 DEF Shape, Listed
    <2> QED
      BY <1>2, <1>4, <2>1, NodeFacts
  <1>6. Left(data, d, c)
    BY <1>1, <1>4 DEF Left
  <1>7. d = p \/ Left(data, d, p)
    BY <1>1, <1>2, <1>4, <1>6, LeftOfNext
  <1>8. p \notin Firsts
    BY <1>5, <1>7 DEF Left
  <1>9. Start(data, p) \in Int
    BY <1>1, <1>2, <1>8, NodeFacts
  <1> QED
    BY <1>1, <1>4, <1>5, <1>7, <1>8, <1>9 DEF Left

\* Nor is anyone it has to stay behind of passed on the way back.
LEMMA InFrontBack ==
  ASSUME LInv, NEW at, NEW on, Shape(at, on), NEW t \in Thread, pc[t] = "hit",
         Exclusive(t), Passed(data[cur[t]], op[t].key) = 0,
         NEW u \in Thread, u # t, pc[u] \in Waiting, height[u] = height[t],
         Left(data, cur[u], cur[t])
  PROVE  Left(data, cur[u], prev[t])
  <1>1. /\ prev[t] \in on \ Lasts /\ prev[t] \in Node /\ prev[t] # Null
        /\ Right[prev[t]] = cur[t] /\ at[prev[t]] = height[t]
    BY FirstHit
  <1>2. /\ cur[u] \in on /\ at[cur[u]] = height[u] /\ cur[u] # Null
    BY SeekStart, Ends
  <1>3. cur[u] = prev[t] \/ Left(data, cur[u], prev[t])
    BY <1>1, <1>2, LeftOfNext DEF Shape
  <1>4. cur[u] # prev[t]
    BY <1>1, <1>2, OwnPointers, HeldApart
  <1> QED
    BY <1>3, <1>4

\* A remove takes the entry of its key out of its node, or the node off its
\* list, and goes on in x.
TakesOut(at, on, t, x, on2) ==
  LET c == cur[t]
      p == prev[t]
      k == op[t].key
  IN
  /\ op[t].name = "remove" /\ pc[t] = "hit"
  /\ \/ x = c /\ Start(data', c) = Start(data, c) /\ Short(data, c, k)
     \/ x = p /\ Passed(data[c], k) = 0
  /\ Listed(data', Right', at, on2)
  /\ \A n \in on2 \ (Firsts \cup Lasts) : Start(data, n) <= Start(data', n)
  /\ EntriesOf(data'[c]) \subseteq EntriesOf(data[c])
  /\ \A n \in Node : n # c => data'[n] = data[n]
  /\ \A n \in Node : n \notin {c, p} => next'[n] = next[n]
  /\ \A n \in on : n \notin {c, p} => Right'[n] = Right[n]
  /\ \/ on2 = on /\ alive' = alive /\ next' = next
     \/ on2 = on \ {c} /\ alive' = alive \ {c} /\ next'[c] = Null /\ x = p
  /\ Relock(t, {}, "exclusive", {c, p} \ {x}, "exclusive")
  /\ pc'[t] = Look(data'[x], Right'[x], k)
  /\ cur'[t] = x /\ prev'[t] = Null /\ removed'[t] \in BOOLEAN
  /\ op'[t] = op[t] /\ height'[t] = height[t] /\ nextNode'[t] = nextNode[t]
  /\ insertNode'[t] = insertNode[t] /\ index'[t] = index[t] /\ reply'[t] = reply[t]
  /\ OnlyOwn(t)
  /\ HeapTypes'

\* remove takes the entry of its key out of a level and, when it stands at the start
\* of its node, goes back to prev.
LEMMA TakeOutKeeps ==
  ASSUME LInv, NEW at, NEW on, Shape(at, on), NEW t \in Thread, NEW x, NEW on2,
         TakesOut(at, on, t, x, on2)
  PROVE  Inv'
  <1> DEFINE c == cur[t]
             p == prev[t]
             k == op[t].key
  <1>1. /\ op[t].name = "remove" /\ pc[t] = "hit"
        /\ \/ x = c /\ Start(data', c) = Start(data, c) /\ Short(data, c, k)
           \/ x = p /\ Passed(data[c], k) = 0
        /\ Listed(data', Right', at, on2)
        /\ \A n \in on2 \ (Firsts \cup Lasts) : Start(data, n) <= Start(data', n)
        /\ EntriesOf(data'[c]) \subseteq EntriesOf(data[c])
        /\ \A n \in Node : n # c => data'[n] = data[n]
        /\ \A n \in Node : n \notin {c, p} => next'[n] = next[n]
        /\ \A n \in on : n \notin {c, p} => Right'[n] = Right[n]
        /\ \/ on2 = on /\ alive' = alive /\ next' = next
           \/ on2 = on \ {c} /\ alive' = alive \ {c} /\ next'[c] = Null /\ x = p
        /\ Relock(t, {}, "exclusive", {c, p} \ {x}, "exclusive")
    BY DEF TakesOut
  <1>2. /\ pc'[t] = Look(data'[x], Right'[x], k)
        /\ cur'[t] = x /\ prev'[t] = Null /\ removed'[t] \in BOOLEAN
        /\ op'[t] = op[t] /\ height'[t] = height[t] /\ nextNode'[t] = nextNode[t]
        /\ insertNode'[t] = insertNode[t] /\ index'[t] = index[t] /\ reply'[t] = reply[t]
        /\ OnlyOwn(t) /\ HeapTypes'
    BY DEF TakesOut
  <1>3. /\ Listed(data, Right, at, on) /\ ThreadInv(at, on, t) /\ Accounted(on)
        /\ Exclusive(t)
    BY <1>1 DEF Shape, Exclusive
  <1>4. /\ c \in on \ Lasts /\ c \in Node /\ k \in Key /\ k \in Int /\ NoKey \notin Int
        /\ at[c] = height[t] /\ height[t] \in Int /\ height[t] >= 0 /\ c # Null
        /\ on \subseteq Node /\ alive \subseteq Node
    <2>1. c \in on \ Lasts /\ c \in Node /\ k \in Key
      BY <1>1, FoundEntry
    <2>2. at[c] = height[t]
      BY <1>1, <1>3 DEF ThreadInv, CurInv, OnLevel
    <2>3. height[t] \in Int /\ height[t] >= 0
      BY Types DEF LInv
    <2>4. on \subseteq Node /\ alive \subseteq Node
      BY <1>3, HeldAlive DEF Listed
    <2> QED
      BY <2>1, <2>2, <2>3, <2>4, CallAssumption, Ends
  <1>5. nextNode[t] = Null /\ insertNode[t] = Null
    BY <1>1, ModeOf
  \* Where it goes on.
  <1>6. ASSUME x = p, Passed(data[c], k) = 0
        PROVE  /\ c \notin Firsts /\ Start(data, c) = k
               /\ p # Null /\ p \in on \ Lasts /\ p # c /\ p \in Node /\ p \in on2
               /\ at[p] = height[t] /\ Left(data, p, c)
               /\ p \in Firsts \/ Start(data, p) < k
    BY <1>1, <1>3, <1>6, FirstHit
  <1> HIDE DEF c, p, k
  <1>7. /\ x \in on \ Lasts /\ x \in on2 /\ x \in Node /\ at[x] = height[t] /\ x # Null
        /\ Start(data', x) = Start(data, x)
        /\ x \in Firsts \/ Start(data', x) < k
        /\ x \in {c, p}
    <2>1. CASE x = c /\ Start(data', c) = Start(data, c) /\ Short(data, c, k)
      <3>1. on2 = on \/ x = p
        BY <1>1
      <3>2. p # c
        BY <1>3, <1>4 DEF ThreadInv, PrevInv, p, c
      <3> QED
        BY <1>4, <2>1, <3>1, <3>2 DEF Short
    <2>2. CASE x = p /\ Passed(data[c], k) = 0
      <3>1. data'[p] = data[p]
        BY <1>1, <1>6, <2>2
      <3> QED
        BY <1>6, <2>2, <3>1 DEF Start
    <2> QED
      BY <1>1, <2>1, <2>2
  <1>8. /\ pc'[t] \in {"hit", "next", "below"}
        /\ pc'[t] = "hit" => Hit(data'[x], k)
        /\ pc'[t] = "next" => Before(data'[x], k)
        /\ pc'[t] = "below" => ~Hit(data'[x], k) /\ Short(data', x, k) /\ Past(data', Right'[x], k)
    <2>1. x \in Firsts \/ Start(data', x) <= k
      <3>1. x \notin Firsts => Start(data', x) \in Int
        BY <1>1, <1>7, StartInt
      <3> QED
        BY <1>4, <1>7, <3>1
    <2>2. x \in on2 \ Lasts
      BY <1>7
    <2> QED
      BY <1>1, <1>2, <1>4, <2>1, <2>2, Arrived
  <1>9. Short(data', x, k)
    BY <1>7 DEF Short
  <1>10. Others(t) /\ LocalTypes'
    <2>1. pc'[t] \in Labels /\ cur'[t] \in Pointer /\ prev'[t] \in Pointer
      BY <1>2, <1>7, <1>8, AllLabels DEF Pointer
    <2>2. OwnTypes(t)'
      BY <1>2, <2>1, OwnType DEF OwnTypes
    <2> QED
      BY <1>2, <2>2, OwnStep
  <1>11. p # c /\ MayWrite(t) /\ MayWrite(t)' /\ Exclusive(t)'
    <2>1. p # c
      BY <1>3, <1>4 DEF ThreadInv, PrevInv, p, c
    <2> QED
      BY <1>1, <1>2, <2>1 DEF MayWrite, Exclusive
  <1>12. LockTypes'
    <2>1. /\ HeldExclusive(t) = {p, c} \ {Null} /\ HeldExclusive(t)' = {x}
          /\ HeldShared(t) = {} /\ HeldShared(t)' = {} /\ Null \notin Node
      BY <1>2, <1>4, <1>5, <1>7, <1>11, Ends DEF HeldExclusive, HeldShared, p, c
    <2>2. \A n \in {c, p} \ {x} : n \in Node => n \in HeldExclusive(t)
      BY <2>1
    <2>3. \A n \in Node : n \in HeldExclusive(t)' <=> n \notin {c, p} \ {x} /\ n \in HeldExclusive(t)
      BY <1>7, <2>1
    <2> HIDE DEF LockTypes
    <2> QED
      BY <1>1, <1>10, <2>1, <2>2, <2>3, RelockSound DEF Modes
  \* What the lists keep.
  <1>13. on2 \subseteq on /\ \A n \in on : n = c \/ n \in on2
    BY <1>1
  <1>14. ASSUME NEW i, NEW key, NEW d, Link(data', at, on2, i, key, d)
         PROVE  Link(data, at, on, i, key, d)
    <2>1. PICK n \in on2 : at[n] = i /\ \E e \in EntriesOf(data'[n]) : e.key = key /\ e.down = d
      BY <1>14 DEF Link
    <2>2. \E e \in EntriesOf(data[n]) : e.key = key /\ e.down = d
      BY <1>1, <1>4, <1>13, <2>1
    <2> QED
      BY <1>13, <2>1, <2>2 DEF Link
  <1>15. ASSUME NEW u \in Thread, u # t, pc[u] = "relink"
         PROVE  pc'[u] = "relink" /\ prev'[u] = prev[u] /\ Leftover(u)' = Leftover(u)
    <2>1. pc'[u] = "relink" /\ prev'[u] = prev[u]
      BY <1>10, <1>15 DEF Others
    <2>2. prev[u] # Null /\ prev[u] \in Node
      BY <1>4, <1>15 DEF Shape, ThreadInv, PrevInv
    <2>3. prev[u] \in HeldExclusive(u) /\ c \in HeldExclusive(t) /\ (p # Null => p \in HeldExclusive(t))
      BY <1>4, <1>11, <2>2 DEF HeldExclusive, c, p
    <2>4. prev[u] # c /\ prev[u] # p
      BY <1>15, <2>2, <2>3, HeldApart
    <2> QED
      BY <1>1, <2>1, <2>2, <2>4 DEF Leftover
  <1>16. HeapStep(t, at, on, at, on2)
    <2>1. ASSUME NEW n \in alive \ HeldExclusive(t)
          PROVE  /\ data'[n] = data[n] /\ next'[n] = next[n] /\ (n \in on2 <=> n \in on)
                 /\ n \in on => Right'[n] = Right[n]
                 /\ n \in alive'
      <3>1. n \in Node /\ n # c /\ n # p
        BY <1>4, <1>11, Ends DEF HeldExclusive, c, p
      <3> QED
        BY <1>1, <3>1
    <2>2. \A n \in {nextNode'[t], insertNode'[t]} : n \in {nextNode[t], insertNode[t], Null}
      BY <1>2
    <2>3. pc'[t] # "relink"
      BY <1>8
    <2> QED
      BY <1>1, <1>13, <1>14, <2>1, <2>2, <2>3 DEF HeapStep
  \* Only its own node starts higher or is gone, and nothing led there.
  <1>17. ASSUME NEW i, NEW key, NEW d, Link(data, at, on, i, key, d), Stands(at, on, d, i - 1, key)
         PROVE  Stands(at, on2, d, i - 1, key)'
    <2>1. CASE d = c /\ x # c
      <3>1. Start(data, c) = k
        BY <1>1, <1>6, <2>1
      <3> QED
        BY <1>1, <1>17, <2>1, <3>1, NoTower DEF c, k
    <2>2. CASE d # c \/ x = c
      <3>1. d \in on \ Lasts /\ at[d] = i - 1 /\ Start(data, d) = key /\ d \in Node
        BY <1>4, <1>17 DEF Stands
      <3>2. d \in on2
        BY <1>7, <1>13, <2>2, <3>1
      <3>3. Start(data', d) = Start(data, d)
        BY <1>1, <1>7, <2>2, <3>1 DEF Start
      <3> QED
        BY <3>1, <3>2, <3>3 DEF Stands
    <2> QED
      BY <2>1, <2>2
  <1>18. DownInv(at, on2)'
    <2> SUFFICES ASSUME NEW i, NEW key, NEW d, Link(data', at, on2, i, key, d)
                 PROVE  /\ i = 0 => d = Null
                        /\ i > 0 => \/ Stands(at, on2, d, i - 1, key)'
                                    \/ \E u \in Thread : Waits(u, i - 1, key, d)'
      BY DEF DownInv
    <2>1. Link(data, at, on, i, key, d)
      BY <1>14
    <2>2. /\ i = 0 => d = Null
          /\ i > 0 => \/ Stands(at, on, d, i - 1, key)
                      \/ \E u \in Thread : Waits(u, i - 1, key, d)
      BY <2>1 DEF Shape, DownInv
    <2>3. ASSUME NEW u \in Thread, Waits(u, i - 1, key, d) PROVE Waits(u, i - 1, key, d)'
      <3>1. u # t
        BY <1>5, <2>3 DEF Waits
      <3>2. WaitLevel(u)' = WaitLevel(u) /\ op'[u] = op[u] /\ insertNode'[u] = insertNode[u]
        BY <1>10, <3>1, OthersHold DEF Others
      <3> QED
        BY <2>3, <3>2 DEF Waits
    <2> QED
      BY <1>17, <2>1, <2>2, <2>3
  <1>19. Accounted(on2)'
    <2>0. on \subseteq alive /\ \A n \in Node \ alive : next[n] = Null
      BY <1>3 DEF Accounted
    <2>1. on2 \subseteq alive'
      BY <1>1, <2>0
    <2>2. \A n \in Node \ alive' : next'[n] = Null
      <3>1. p # Null => p \in alive
        BY HeldAlive DEF p
      <3>2. ASSUME on2 = on \ {c}, NEW n \in Node \ alive', n # c PROVE next'[n] = Null
        <4>1. n \notin alive /\ n # p
          BY <1>1, <1>4, <3>1, <3>2, Ends
        <4> QED
          BY <1>1, <2>0, <3>2, <4>1
      <3> QED
        BY <1>1, <2>0, <3>2
    <2>3. ASSUME NEW n \in alive' \ on2
          PROVE  \E u \in Thread :
                   n \in {nextNode'[u], insertNode'[u]} \/ (pc'[u] = "relink" /\ n = Leftover(u)')
      <3>1. n \in alive \ on /\ n # Null
        BY <1>1, <1>4, <2>3, Ends
      <3>2. PICK u \in Thread :
              n \in {nextNode[u], insertNode[u]} \/ (pc[u] = "relink" /\ n = Leftover(u))
        BY <1>3, <3>1 DEF Accounted
      <3>3. u # t
        BY <1>1, <1>5, <3>1, <3>2
      <3>4. nextNode'[u] = nextNode[u] /\ insertNode'[u] = insertNode[u]
        BY <1>10, <3>3 DEF Others
      <3> QED
        BY <1>15, <3>2, <3>3, <3>4
    <2> QED
      BY <2>1, <2>2, <2>3 DEF Accounted
  <1>20. CallInv(t)'
    BY <1>1, <1>2, <1>3, <1>8 DEF ThreadInv, CallInv
  <1>21. CurInv(at, on2, t)'
    BY <1>2, <1>7, <1>8 DEF CurInv, OnLevel, k
  <1>22. PrevInv(at, on2, t)' /\ NewInv(on2, t)' /\ SinkInv(at, on2, t)'
    <2>1. ~Working(t, height[t])'
      BY <1>1, <1>2 DEF Working
    <2> QED
      BY <1>2, <1>5, <1>8, <1>9, <2>1 DEF PrevInv, NewInv, SinkInv, k
  <1>23. TowersPassed(at, on2, t)'
    <2> SUFFICES ASSUME NEW key, NEW d, Link(data', at, on2, height[t] + 1, key, d), d \in on2
                 PROVE  \/ key = NoKey
                        \/ key > k
                        \/ x \notin Firsts /\ key <= Start(data', x) /\ key < k
      BY <1>2 DEF TowersPassed, k
    <2>1. Link(data, at, on, height[t] + 1, key, d) /\ d \in on
      BY <1>13, <1>14
    <2>2. CASE x = p /\ Passed(data[c], k) = 0
      BY <1>1, <1>7, <2>1, <2>2, TowersBack DEF p, c, k
    <2>3. CASE x = c
      <3>1. TowersPassed(at, on, t)
        BY <1>3 DEF ThreadInv
      <3> QED
        BY <1>1, <1>7, <2>1, <2>3, <3>1 DEF TowersPassed, Seeking, c, k
    <2> QED
      BY <1>1, <2>2, <2>3
  <1>24. ASSUME NEW u \in Thread, u # t PROVE InFront(at, on2, t, u)' /\ InFront(at, on2, u, t)'
    <2>1. /\ pc'[u] = pc[u] /\ op'[u] = op[u] /\ height'[u] = height[u] /\ cur'[u] = cur[u]
          /\ insertNode'[u] = insertNode[u]
      BY <1>10, <1>24 DEF Others
    <2>2. InFront(at, on2, t, u)'
      BY <1>2, <1>5 DEF InFront
    <2>3. InFront(at, on2, u, t)'
      <3> SUFFICES ASSUME insertNode[u] # Null, pc[u] \in Waiting, height[u] = height[t],
                          op[u].key <= k,
                          \E key : Link(data', at, on2, height[u] + 1, key, insertNode[u])
                   PROVE  Left(data', cur[u], x)
        BY <1>2, <2>1 DEF InFront, k
      <3>1. \E key : Link(data, at, on, height[u] + 1, key, insertNode[u])
        BY <1>14
      <3>2. Left(data, cur[u], c)
        <4>1. InFront(at, on, u, t)
          BY <1>24 DEF Shape
        <4> QED
          BY <1>1, <3>1, <4>1 DEF InFront, Seeking, c, k
      <3>3. Left(data, cur[u], x)
        BY <1>1, <1>3, <1>24, <3>2, InFrontBack DEF c, p, k
      <3>4. cur[u] \in Node /\ cur[u] # c
        <4>1. cur[u] \in on /\ cur[u] \in Node /\ cur[u] # Null
          BY SeekStart, Ends
        <4>2. c \in HeldExclusive(t)
          BY <1>4, <1>11 DEF HeldExclusive, c
        <4> QED
          BY <1>24, <4>1, <4>2, OwnPointers, HeldApart
      <3>5. Start(data', cur[u]) = Start(data, cur[u])
        BY <1>1, <3>4 DEF Start
      <3> QED
        BY <1>7, <3>3, <3>5 DEF Left
    <2> QED
      BY <2>2, <2>3
  <1> QED
    <2>1. ThreadInv(at, on2, t)'
      BY <1>20, <1>21, <1>22, <1>23 DEF ThreadInv
    <2> HIDE DEF LockTypes
    <2> QED
      BY <1>2, <1>10, <1>12, <1>16, <1>18, <1>19, <1>24, <2>1, StepDone

\* Who changes its own locals only leaves those of the others alone.
LEMMA OwnOnly ==
  ASSUME LInv, NEW t \in Thread, OnlyOwn(t)
  PROVE  Others(t)
  BY TypeParts DEF LInv, LocalTypes, OnlyOwn, Others

\* What looking for a key comes to.
LEMMA LookLabels ==
  ASSUME NEW s, NEW nx, NEW k
  PROVE  Look(s, nx, k) \in {"hit", "next", "below", "crash"}
  BY DEF Look

\* delete_value in a node with other entries.
LEMMA DeleteEntryKeeps ==
  ASSUME LInv, NEW at, NEW on, Shape(at, on), NEW t \in Thread,
         op[t].name = "remove", DeleteEntry(t)
  PROVE  Inv'
  <1> DEFINE c == cur[t]
             p == prev[t]
             k == op[t].key
             i == Passed(data[c], k)
             rest == Without(data[c], i)
             x == IF i = 0 THEN p ELSE c
             b == At(t).down = Null
  <1>1. /\ pc[t] = "hit" /\ Len(data[c]) > 1 /\ data' = [data EXCEPT ![c] = rest]
        /\ Relock(t, {}, "exclusive", {IF i = 0 THEN c ELSE p}, "exclusive")
        /\ removed' = [removed EXCEPT ![t] = b]
        /\ pc' = [pc EXCEPT ![t] = IF x = Null THEN "ret"
                                   ELSE Look(IF i = 0 THEN data[x] ELSE rest, next[x], k)]
        /\ prev' = [prev EXCEPT ![t] = Null] /\ cur' = [cur EXCEPT ![t] = x]
        /\ UNCHANGED <<next, alive, op, height, fresh, index, reply>>
    BY DEF DeleteEntry, Unlock, Stand, Goto
  <1>2. Exclusive(t) /\ Listed(data, Right, at, on)
    BY DEF Exclusive, Shape
  <1>3. /\ c \in on \ Lasts /\ c \in Node /\ k \in Key /\ i + 1 \in 1 .. Len(data[c])
        /\ c # Null
    BY <1>1, FoundEntry, Ends
  <1>4. /\ data[c] \in Seq(EntryType) /\ Ascending(data[c]) /\ Hit(data[c], k)
        /\ c \in Firsts => Start(data, c) = NoKey
        /\ \A e \in EntriesOf(data[c]) : c \notin Firsts => e.key # NoKey /\ Start(data, c) <= e.key
        /\ Right[c] \notin Lasts => Before(data[c], Start(data, Right[c]))
        /\ Len(data[c]) <= ArraySize
    <2>1. Hit(data[c], k)
      BY <1>1 DEF Shape, ThreadInv, CurInv
    <2>2. Len(data[c]) <= ArraySize
      BY <1>3, Index
    <2>3. Right[c] \notin Lasts => Before(data[c], Start(data, Right[c]))
      BY <1>2, <1>3 DEF Listed
    <2> QED
      BY <1>2, <1>3, <2>1, <2>2, <2>3, NodeFacts
  <1>5. /\ rest \in Seq(EntryType) /\ Ascending(rest) /\ Len(rest) = Len(data[c]) - 1
        /\ EntriesOf(rest) \subseteq EntriesOf(data[c])
        /\ i > 0 => rest[1] = data[c][1]
    BY <1>3, <1>4, EntryRemoved
  <1>6. rest # <<>> /\ rest[1] \in EntriesOf(rest) /\ i \in Int /\ i >= 0
        /\ Len(rest) <= ArraySize
    <2>1. Passed(data[c], k) \in 0 .. Len(data[c]) /\ Len(data[c]) \in Nat /\ ArraySize \in Nat
      BY <1>3, <1>4, PassedSplits, EntrySeq, BAssumption
    <2>2. Len(rest) > 0
      BY <1>1, <1>5, <2>1
    <2> QED
      BY <1>4, <1>5, <2>1, <2>2, EntrySeq
  <1>7. i = 0 => /\ c \notin Firsts /\ Start(data, c) = k /\ p # Null /\ p # c /\ p \in Node
                 /\ p \in on \ Lasts /\ Right[p] = next[p]
    BY <1>1, <1>2, FirstHit
  <1>8. i > 0 => Start(data, c) = rest[1].key /\ Short(data, c, k)
    <2>1. ASSUME i > 0 PROVE data[c][1].key = NoKey \/ data[c][1].key < k
      <3>1. \A j \in 1 .. Len(data[c]) : j <= Passed(data[c], k) <=> data[c][j].key = NoKey \/ data[c][j].key < k
        BY <1>3, <1>4, PassedSplits
      <3>2. 1 \in 1 .. Len(data[c]) /\ 1 <= Passed(data[c], k)
        BY <1>3, <1>6, <2>1
      <3> QED
        BY <3>1, <3>2
    <2>2. data[c][1] \in EntriesOf(data[c])
      <3>1. 1 \in 1 .. Len(data[c])
        BY <1>3, <1>6
      <3> QED
        BY <1>4, <3>1, EntrySeq
    <2> QED
      BY <1>3, <1>4, <1>5, <2>1, <2>2 DEF Start, Short
  <1>9. /\ b \in BOOLEAN /\ x # Null /\ x \in Node
        /\ (IF i = 0 THEN c ELSE p) \in {c, p} \ {x}
        /\ {IF i = 0 THEN c ELSE p} = {c, p} \ {x}
        /\ p # c
    <2>1. p # c
      BY <1>1, <1>3 DEF Shape, ThreadInv, PrevInv
    <2> QED
      BY <1>3, <1>6, <1>7, <2>1
  <1>10. next[x] = Right[x]
    <2>1. next[c] = Right[c]
      BY <1>1, NextOf DEF OnLevel
    <2> QED
      BY <1>7, <2>1
  <1>11. x = c \/ (x = p /\ i = 0)
    OBVIOUS
  <1>12. (IF i = 0 THEN data[x] ELSE rest) = data'[x]
    <2>1. data \in [Node -> Seq(EntryType)]
      BY <1>2 DEF Listed
    <2> HIDE DEF rest
    <2> QED
      BY <1>1, <1>3, <1>7, <2>1
  <1> DEFINE l == Look(data'[x], Right[x], k)
  <1>13. pc' = [pc EXCEPT ![t] = l]
    BY <1>1, <1>9, <1>10, <1>12
  <1>14. l \notin {"relink", "ret"}
    BY LookLabels
  <1> HIDE DEF l, x, rest, i, b
  <1>15. /\ pc'[t] = l /\ op'[t] = op[t] /\ height'[t] = height[t] /\ cur'[t] = x
         /\ prev'[t] = Null /\ nextNode'[t] = nextNode[t] /\ insertNode'[t] = insertNode[t]
         /\ index'[t] = index[t] /\ removed'[t] = b /\ reply'[t] = reply[t]
         /\ OnlyOwn(t)
    BY <1>1, <1>13, TypeParts, SameLocals DEF LInv, LocalTypes, OnlyOwn, fresh
  <1>16. Others(t)
    BY <1>15, OwnOnly
  <1>17. Right' = Right
    <2>1. ASSUME NEW n PROVE (\E u \in Thread : pc'[u] = "relink" /\ prev'[u] = n)
                               <=> \E u \in Thread : pc[u] = "relink" /\ prev[u] = n
      BY <1>1, <1>14, <1>15, <1>16 DEF Others
    <2>2. next' = next
      BY <1>1
    <2>3. ASSUME NEW n \in Node PROVE Right'[n] = Right[n]
      BY <2>1, <2>2 DEF Right
    <2>4. Right = [n \in Node |-> Right[n]] /\ Right' = [n \in Node |-> Right'[n]]
      BY DEF Right
    <2> HIDE DEF Right
    <2> QED
      BY <2>3, <2>4
  <1>18. /\ data' \in [Node -> Seq(EntryType)] /\ data'[c] = rest
         /\ \A n \in Node : n # c => data'[n] = data[n]
         /\ HeapTypes'
    <2>1. data \in [Node -> Seq(EntryType)] /\ HeapTypes
      BY <1>2, TypeParts DEF Listed, LInv
    <2> QED
      BY <1>1, <1>3, <1>5, <1>6, <2>1 DEF HeapTypes
  <1>19. Reshaped(data, Right, on, c, rest, data', Right')
    <2>1. c \in Firsts => rest[1].key = NoKey
      BY <1>4, <1>6, <1>7, <1>8
    <2>2. c \notin Firsts => (\A e \in EntriesOf(rest) : e.key # NoKey) /\ Start(data, c) <= rest[1].key
      BY <1>4, <1>5, <1>6
    <2>3. Right[c] \notin Lasts => Before(rest, Start(data, Right[c]))
      BY <1>4, <1>5 DEF Before
    <2> QED
      BY <1>3, <1>5, <1>6, <1>17, <1>18, <2>1, <2>2, <2>3 DEF Reshaped
  <1>20. /\ Listed(data', Right', at, on)
         /\ \A n \in on \ (Firsts \cup Lasts) : Start(data, n) <= Start(data', n)
    BY <1>2, <1>19, ListChange
  <1>21. TakesOut(at, on, t, x, on)
    <2>1. \/ x = c /\ Start(data', c) = Start(data, c) /\ Short(data, c, k)
          \/ x = p /\ Passed(data[c], k) = 0
      <3>1. CASE i = 0
        BY <3>1 DEF x, i
      <3>2. CASE i > 0
        <4>1. Start(data', c) = Start(data, c)
          BY <1>8, <1>18, <3>2 DEF Start
        <4> QED
          BY <1>8, <3>2, <4>1 DEF x
      <3> QED
        BY <1>6, <3>1, <3>2
    <2>2. l = Look(data'[x], Right'[x], k)
      BY <1>17 DEF l
    <2>3. Relock(t, {}, "exclusive", {c, p} \ {x}, "exclusive")
      BY <1>1, <1>9
    <2> QED
      BY <1>1, <1>5, <1>9, <1>15, <1>17, <1>18, <1>20, <2>1, <2>2, <2>3 DEF TakesOut
  <1> QED
    BY <1>21, TakeOutKeeps

\* delete_value of the only entry: "prev has to be non null", and it is, for the node
\* starts with the key, so that it was reached from the one on its left.
LEMMA DeleteNodeKeeps ==
  ASSUME LInv, NEW at, NEW on, Shape(at, on), NEW t \in Thread,
         op[t].name = "remove", DeleteNode(t)
  PROVE  Inv'
  <1> DEFINE c == cur[t]
             p == prev[t]
             k == op[t].key
             b == At(t).down = Null
             l == Look(data[p], next[c], k)
             on2 == on \ {c}
  <1>1. pc[t] = "hit" /\ Len(data[c]) = 1
    BY DEF DeleteNode
  <1>2. Exclusive(t) /\ Listed(data, Right, at, on)
    BY DEF Exclusive, Shape
  <1>3. /\ c \in on \ Lasts /\ c \in Node /\ k \in Key /\ Passed(data[c], k) + 1 \in 1 .. Len(data[c])
        /\ c # Null
    <2>1. pc[t] \in {"hit", "tower", "merged", "settle"}
      BY <1>1
    <2>2. c \in on \ Lasts /\ c \in Node /\ k \in Key /\ Passed(data[c], k) + 1 \in 1 .. Len(data[c])
      BY <2>1, FoundEntry
    <2> QED
      BY <2>2, Ends
  <1>4. Passed(data[c], k) = 0
    <2>1. data[c] \in Seq(EntryType) /\ Ascending(data[c])
      BY <1>2, <1>3, NodeFacts
    <2>2. Passed(data[c], k) \in 0 .. Len(data[c])
      BY <1>3, <2>1, PassedSplits
    <2> QED
      BY <1>1, <1>3, <2>2
  <1>5. /\ c \notin Firsts /\ Start(data, c) = k /\ p # Null /\ p # c /\ p \in Node
        /\ p \in on \ Lasts /\ Right[p] = c /\ next[p] = c
    BY <1>1, <1>2, <1>4, FirstHit
  <1>6. next[c] = Right[c]
    BY <1>1, NextOf DEF OnLevel
  <1>7. /\ data' = [data EXCEPT ![c] = <<>>]
        /\ next' = [next EXCEPT ![p] = next[c], ![c] = Null]
        /\ alive' = alive \ {c}
        /\ Relock(t, {}, "exclusive", {c}, "exclusive")
        /\ removed' = [removed EXCEPT ![t] = b]
        /\ pc' = [pc EXCEPT ![t] = l]
        /\ prev' = [prev EXCEPT ![t] = Null] /\ cur' = [cur EXCEPT ![t] = p]
        /\ UNCHANGED <<op, height, fresh, index, reply>>
    BY <1>5 DEF DeleteNode, Unlock, Stand, Goto, Skip
  <1>8. l \notin {"relink", "ret"}
    BY LookLabels
  <1>9. b \in BOOLEAN
    OBVIOUS
  <1> HIDE DEF l, b
  <1>10. /\ pc'[t] = l /\ op'[t] = op[t] /\ height'[t] = height[t] /\ cur'[t] = p
         /\ prev'[t] = Null /\ nextNode'[t] = nextNode[t] /\ insertNode'[t] = insertNode[t]
         /\ index'[t] = index[t] /\ removed'[t] = b /\ reply'[t] = reply[t]
         /\ OnlyOwn(t)
    BY <1>7, TypeParts, SameLocals DEF LInv, LocalTypes, OnlyOwn, fresh
  <1>11. Others(t)
    BY <1>10, OwnOnly
  <1>12. /\ data' \in [Node -> Seq(EntryType)] /\ data'[c] = <<>>
         /\ \A n \in Node : n # c => data'[n] = data[n]
         /\ next'[p] = next[c] /\ next'[c] = Null
         /\ \A n \in Node : n \notin {c, p} => next'[n] = next[n]
         /\ HeapTypes'
    <2>1. data \in [Node -> Seq(EntryType)] /\ HeapTypes /\ next[c] \in Pointer /\ Null \in Pointer
      BY <1>2, <1>3, TypeParts DEF Listed, LInv, HeapTypes, Pointer
    <2>2. <<>> \in Seq(EntryType) /\ Len(<<>>) = 0 /\ ArraySize \in Nat
      BY BAssumption, EmptySeq
    <2>3. /\ data' \in [Node -> Seq(EntryType)] /\ data'[c] = <<>>
          /\ \A n \in Node : n # c => data'[n] = data[n]
      BY <1>3, <1>7, <2>1, <2>2
    <2>4. /\ next'[p] = next[c] /\ next'[c] = Null
          /\ \A n \in Node : n \notin {c, p} => next'[n] = next[n]
          /\ next' \in [Node -> Pointer]
      BY <1>3, <1>5, <1>7, <2>1 DEF HeapTypes
    <2>5. alive' \subseteq Node
      BY <1>7, <2>1 DEF HeapTypes
    <2>6. ASSUME NEW n \in Node PROVE Len(data'[n]) <= ArraySize
      <3>1. CASE n = c
        BY <2>2, <2>3, <3>1
      <3>2. CASE n # c
        BY <2>1, <2>3, <3>2 DEF HeapTypes
      <3> QED
        BY <3>1, <3>2
    <2> QED
      BY <2>3, <2>4, <2>5, <2>6 DEF HeapTypes
  \* What another merge is about is none of these two nodes.
  <1>13. ASSUME NEW u \in Thread, pc[u] = "relink"
         PROVE  /\ u # t /\ prev[u] \in Node /\ prev[u] \notin {c, p}
                /\ Leftover(u) \in Node /\ Leftover(u) \notin {c, p}
    <2>1. /\ u # t /\ prev[u] # Null /\ prev[u] \in on
          /\ Leftover(u) \in alive \ on
      BY <1>1, <1>13 DEF Shape, ThreadInv, PrevInv
    <2>2. p \in HeldExclusive(t) /\ c \in HeldExclusive(t) /\ prev[u] \in HeldExclusive(u)
      BY <1>3, <1>5, <2>1 DEF HeldExclusive, MayWrite
    <2>3. prev[u] \notin {c, p}
      BY <2>1, <2>2, HeldApart
    <2>4. Leftover(u) \in Node /\ prev[u] \in Node
      BY <2>1, HeldAlive
    <2> QED
      BY <1>3, <1>5, <2>1, <2>3, <2>4
  <1>14. ASSUME NEW n \in on, n \notin {c, p} PROVE Right'[n] = Right[n]
    <2>0. n \in Node
      BY <1>2, <1>14 DEF Listed
    <2>1. (\E u \in Thread : pc'[u] = "relink" /\ prev'[u] = n)
             <=> \E u \in Thread : pc[u] = "relink" /\ prev[u] = n
      BY <1>1, <1>8, <1>10, <1>11 DEF Others
    <2>2. next'[n] = next[n]
      BY <1>12, <1>14, <2>0
    <2>3. ASSUME NEW u \in Thread, pc[u] = "relink", prev[u] = n PROVE next'[next[n]] = next[next[n]]
      <3>1. next[n] = Leftover(u)
        BY <2>3 DEF Leftover
      <3> QED
        BY <1>12, <1>13, <2>3, <3>1
    <2> QED
      BY <2>0, <2>1, <2>2, <2>3 DEF Right
  <1>15. Right'[p] = Right[c]
    <2>1. ~\E u \in Thread : pc'[u] = "relink" /\ prev'[u] = p
      <3> SUFFICES ASSUME NEW u \in Thread, pc'[u] = "relink", prev'[u] = p PROVE FALSE
        OBVIOUS
      <3>1. u # t /\ pc[u] = "relink" /\ prev[u] = p
        BY <1>8, <1>10, <1>11 DEF Others
      <3> QED
        BY <1>13, <3>1
    <2>2. Right'[p] = next'[p]
      BY <1>5, <2>1 DEF Right
    <2> QED
      BY <1>6, <1>12, <2>2
  <1>16. Unlinked(data, Right, on, c, p, data', Right', on2)
    BY <1>3, <1>5, <1>12, <1>14, <1>15 DEF Unlinked
  <1> HIDE DEF on2
  <1>17. /\ Listed(data', Right', at, on2)
         /\ \A n \in on : n # c => Start(data', n) = Start(data, n)
    BY <1>2, <1>16, ListUnlink
  <1>18. \A n \in on2 \ (Firsts \cup Lasts) : Start(data, n) <= Start(data', n)
    <2> SUFFICES ASSUME NEW n \in on2 \ (Firsts \cup Lasts) PROVE Start(data, n) <= Start(data', n)
      OBVIOUS
    <2>1. n \in on /\ n # c
      BY DEF on2
    <2>2. Start(data, n) \in Int
      BY <1>2, <2>1, StartInt
    <2> QED
      BY <1>17, <2>1, <2>2
  <1>19. TakesOut(at, on, t, p, on2)
    <2>1. l = Look(data'[p], Right'[p], k)
      BY <1>5, <1>6, <1>12, <1>15 DEF l
    <2>2. {c} = {c, p} \ {p}
      BY <1>5
    <2>3. EntriesOf(data'[c]) \subseteq EntriesOf(data[c])
      BY <1>12, EmptySeq, EntrySeq
    <2> QED
      BY <1>1, <1>4, <1>7, <1>9, <1>10, <1>12, <1>14, <1>17, <1>18, <2>1, <2>2, <2>3
         DEF TakesOut, on2
  <1> QED
    BY <1>19, TakeOutKeeps

-----------------------------------------------------------------------------
(* The steps of an insert that put its entry, or the node of its key, on a  *)
(* list.                                                                    *)

\* c is followed by n now, and n by what followed c.
Inserted(on, t, n) ==
  LET c == cur[t] IN
  /\ pc[t] \in {"below", "hit"} /\ Working(t, height[t])
  /\ n \in Node \ on /\ (n \notin alive \/ n = insertNode[t])
  /\ next'[c] = n /\ next'[n] = next[c]
  /\ \A m \in Node : m \notin {c, n} => next'[m] = next[m]
  /\ pc'[t] = "relink" => prev'[t] = prev[t] /\ prev[t] # Null

\* A node n that is linked behind cur is its right neighbour, and its neighbour is the
\* one cur had.
LEMMA InsertedRight ==
  ASSUME LInv, NEW at, NEW on, Shape(at, on), NEW t \in Thread, Others(t), NEW n,
         Inserted(on, t, n)
  PROVE  /\ \A u \in Thread : u # t /\ pc[u] = "relink" =>
              /\ pc'[u] = "relink" /\ prev'[u] = prev[u] /\ Leftover(u)' = Leftover(u)
              /\ prev[u] \notin {cur[t], n}
         /\ \A m \in on : m # cur[t] /\ (pc'[t] = "relink" => m # prev[t]) => Right'[m] = Right[m]
         /\ Right'[cur[t]] = n /\ Right'[n] = Right[cur[t]]
         /\ pc'[t] = "relink" /\ next[prev[t]] = cur[t] => Right'[prev[t]] = n
  <1> DEFINE c == cur[t]
  <1>1. /\ pc[t] \in {"below", "hit"} /\ Working(t, height[t])
        /\ n \in Node \ on /\ (n \notin alive \/ n = insertNode[t])
        /\ next'[c] = n /\ next'[n] = next[c]
        /\ \A m \in Node : m \notin {c, n} => next'[m] = next[m]
        /\ pc'[t] = "relink" => prev'[t] = prev[t] /\ prev[t] # Null
    BY DEF Inserted
  <1>2. /\ c \in on /\ c \in Node /\ c # Null /\ next[c] = Right[c] /\ on \subseteq Node
    <2>1. pc[t] \in OnLevel \ {"emit"}
      BY <1>1 DEF OnLevel
    <2>2. c \in on /\ c \in Node /\ next[c] = Right[c]
      BY <2>1, NextOf
    <2>3. on \subseteq Node
      BY DEF Shape, Listed
    <2> QED
      BY <2>2, <2>3, Ends
  <1>3. c \in HeldExclusive(t)
    BY <1>1, <1>2 DEF HeldExclusive, MayWrite, Working
  <1>4. pc[t] # "relink"
    BY <1>1
  <1> HIDE DEF c
  <1>5. ASSUME NEW u \in Thread, u # t, pc[u] = "relink"
        PROVE  /\ pc'[u] = "relink" /\ prev'[u] = prev[u] /\ Leftover(u)' = Leftover(u)
               /\ prev[u] \notin {c, n} /\ Leftover(u) \in Node /\ Leftover(u) \notin {c, n}
    <2>1. pc'[u] = "relink" /\ prev'[u] = prev[u]
      BY <1>5 DEF Others
    <2>2. /\ prev[u] # Null /\ prev[u] \in on /\ Leftover(u) \in alive \ on
          /\ Leftover(u) # insertNode[t]
      BY <1>5 DEF Shape, ThreadInv, PrevInv
    <2>3. prev[u] \in Node /\ Leftover(u) \in Node
      BY <1>2, <2>2, HeldAlive
    <2>4. prev[u] \in HeldExclusive(u)
      BY <2>2, OwnPointers
    <2>5. prev[u] # c
      BY <1>3, <1>5, <2>4, HeldApart
    <2>6. prev[u] # n /\ Leftover(u) # c /\ Leftover(u) # n
      BY <1>1, <1>2, <2>2
    <2>7. Leftover(u)' = Leftover(u)
      BY <1>1, <2>1, <2>3, <2>5, <2>6 DEF Leftover
    <2> QED
      BY <2>1, <2>3, <2>5, <2>6, <2>7
  <1>6. ASSUME NEW m \in on, m # c, pc'[t] = "relink" => m # prev[t]
        PROVE  Right'[m] = Right[m]
    <2>0. m \in Node /\ m # n
      BY <1>1, <1>2
    <2>1. (\E u \in Thread : pc'[u] = "relink" /\ prev'[u] = m)
             <=> \E u \in Thread : pc[u] = "relink" /\ prev[u] = m
      BY <1>1, <1>4, <1>6 DEF Others
    <2>2. next'[m] = next[m]
      BY <1>1, <1>6, <2>0
    <2>3. ASSUME NEW u \in Thread, pc[u] = "relink", prev[u] = m PROVE next'[next[m]] = next[next[m]]
      <3>1. next[m] = Leftover(u) /\ u # t
        BY <1>4, <2>3 DEF Leftover
      <3> QED
        BY <1>1, <1>5, <2>3, <3>1
    <2> QED
      BY <2>0, <2>1, <2>2, <2>3 DEF Right
  <1>7. ASSUME NEW m \in {c, n} PROVE Right'[m] = next'[m]
    <2>1. ~\E u \in Thread : pc'[u] = "relink" /\ prev'[u] = m
      <3> SUFFICES ASSUME NEW u \in Thread, pc'[u] = "relink", prev'[u] = m PROVE FALSE
        OBVIOUS
      <3>1. CASE u = t
        <4>1. prev[t] # c /\ prev[t] \in on
          BY <1>1, <3>1 DEF Shape, ThreadInv, PrevInv, c
        <4> QED
          BY <1>1, <3>1, <4>1
      <3>2. CASE u # t
        <4>1. pc[u] = "relink" /\ prev[u] = m
          BY <3>2 DEF Others
        <4> QED
          BY <1>5, <3>2, <4>1
      <3> QED
        BY <3>1, <3>2
    <2> QED
      BY <1>1, <1>2, <2>1 DEF Right
  <1>8. Right'[c] = n /\ Right'[n] = Right[c]
    BY <1>1, <1>2, <1>7
  <1>9. ASSUME pc'[t] = "relink", next[prev[t]] = c PROVE Right'[prev[t]] = n
    <2>1. prev'[t] = prev[t] /\ prev[t] # c /\ prev[t] \in on /\ prev[t] \in Node /\ prev[t] # n
      BY <1>1, <1>2, <1>9 DEF Shape, ThreadInv, PrevInv, c
    <2>2. next'[prev[t]] = c
      BY <1>1, <1>9, <2>1
    <2>3. Right'[prev[t]] = next'[next'[prev[t]]]
      BY <1>9, <2>1 DEF Right
    <2> QED
      BY <1>1, <2>2, <2>3
  <1> QED
    BY <1>5, <1>6, <1>8, <1>9 DEF c

\* The entry of an insert goes to the node it is in, or starts the node n to
\* the right of it.
Puts(at, on, t, n, at2, on2) ==
  LET c == cur[t]
      k == op[t].key
      h == height[t]
  IN
  /\ pc[t] = "below" /\ Working(t, h)
  /\ Listed(data', Right', at2, on2)
  /\ on2 = on \cup {n} /\ alive' = alive \cup {n} /\ n \in Node /\ n \notin Lasts
  /\ at2[n] = h /\ \A m \in Node : m # n => at2[m] = at[m]
  /\ \/ n = c /\ insertNode[t] = Null /\ Right'[c] = Right[c]
     \/ /\ n \notin on /\ (n \notin alive \/ n = insertNode[t]) /\ insertNode[t] \in {Null, n}
        /\ Start(data', n) = k /\ Right'[c] = n
  /\ \A m \in on : Start(data', m) = Start(data, m)
  /\ \A m \in Node : m \notin {c, n} => data'[m] = data[m] /\ next'[m] = next[m]
  /\ \A m \in on : m # c => Right'[m] = Right[m]
  /\ \A e \in EntriesOf(data'[c]) \cup EntriesOf(data'[n]) :
       e \in EntriesOf(data[c]) \/ (e.key = k /\ e.down = nextNode[t])
  /\ \A u \in Thread : u # t /\ pc[u] = "relink" => Leftover(u)' = Leftover(u)
  /\ Unlock(t, {prev[t], insertNode[t]} \cup (IF h = 0 THEN {c} ELSE {}), "exclusive")
  /\ pc'[t] = (IF h = 0 THEN "ret" ELSE "sink") /\ cur'[t] = (IF h = 0 THEN Null ELSE c)
  /\ prev'[t] = Null /\ nextNode'[t] = Null /\ insertNode'[t] = nextNode[t]
  /\ op'[t] = op[t] /\ height'[t] = h /\ index'[t] = index[t] /\ removed'[t] = removed[t]
  /\ reply'[t] = reply[t]
  /\ OnlyOwn(t)
  /\ HeapTypes'

\* An insert puts its key on a level, behind the entries of cur or at the start of a
\* new right neighbour of it; the entry above it no longer waits.
LEMMA PutKeeps ==
  ASSUME LInv, NEW at, NEW on, Shape(at, on), NEW t \in Thread, NEW n, NEW at2, NEW on2,
         Puts(at, on, t, n, at2, on2)
  PROVE  Inv'
  <1> DEFINE c == cur[t]
             k == op[t].key
             h == height[t]
  <1>1. /\ pc[t] = "below" /\ Working(t, h)
        /\ Listed(data', Right', at2, on2)
        /\ on2 = on \cup {n} /\ alive' = alive \cup {n} /\ n \in Node /\ n \notin Lasts
        /\ at2[n] = h /\ \A m \in Node : m # n => at2[m] = at[m]
        /\ \/ n = c /\ insertNode[t] = Null /\ Right'[c] = Right[c]
           \/ /\ n \notin on /\ (n \notin alive \/ n = insertNode[t]) /\ insertNode[t] \in {Null, n}
              /\ Start(data', n) = k /\ Right'[c] = n
        /\ \A m \in on : Start(data', m) = Start(data, m)
    BY DEF Puts
  <1>2. /\ \A m \in Node : m \notin {c, n} => data'[m] = data[m] /\ next'[m] = next[m]
        /\ \A m \in on : m # c => Right'[m] = Right[m]
        /\ \A e \in EntriesOf(data'[c]) \cup EntriesOf(data'[n]) :
             e \in EntriesOf(data[c]) \/ (e.key = k /\ e.down = nextNode[t])
        /\ \A u \in Thread : u # t /\ pc[u] = "relink" => Leftover(u)' = Leftover(u)
    BY DEF Puts
  <1>3. /\ Unlock(t, {prev[t], insertNode[t]} \cup (IF h = 0 THEN {c} ELSE {}), "exclusive")
        /\ pc'[t] = (IF h = 0 THEN "ret" ELSE "sink") /\ cur'[t] = (IF h = 0 THEN Null ELSE c)
        /\ prev'[t] = Null /\ nextNode'[t] = Null /\ insertNode'[t] = nextNode[t]
        /\ op'[t] = op[t] /\ height'[t] = h /\ index'[t] = index[t] /\ removed'[t] = removed[t]
        /\ reply'[t] = reply[t] /\ OnlyOwn(t) /\ HeapTypes'
    BY DEF Puts
  <1>4. /\ Listed(data, Right, at, on) /\ ThreadInv(at, on, t) /\ Accounted(on)
        /\ Exclusive(t) /\ op[t].name = "insert"
    BY <1>1 DEF Shape, Exclusive, Working
  <1>5. /\ c \in on \ Lasts /\ c \in Node /\ k \in Key /\ k \in Int /\ NoKey \notin Int
        /\ at[c] = h /\ h \in Int /\ h >= 0 /\ c # Null /\ h \in Level
        /\ on \subseteq Node /\ alive \subseteq Node /\ on \subseteq alive
    <2>1. c \in on \ Lasts /\ c \in Node /\ k \in Key /\ at[c] = h
      BY <1>1, SeekStart DEF Waiting
    <2>2. h \in Int /\ h >= 0 /\ h \in Level
      BY Types DEF LInv
    <2>3. on \subseteq Node /\ alive \subseteq Node /\ on \subseteq alive
      BY <1>4, HeldAlive DEF Listed
    <2> QED
      BY <2>1, <2>2, <2>3, CallAssumption, Ends
  <1>6. Short(data, c, k) /\ ~Hit(data[c], k) /\ Past(data, Right[c], k)
    BY <1>1, <1>4 DEF ThreadInv, CurInv
  <1>7. /\ nextNode[t] # Null => /\ h > 0 /\ nextNode[t] \in alive \ on
                                 /\ next[nextNode[t]] = Null /\ nextNode[t] # insertNode[t]
        /\ h > 0 => nextNode[t] # Null
    BY <1>1, <1>4 DEF ThreadInv, NewInv
  <1>8. n = c \/ n \notin on
    BY <1>1
  <1> HIDE DEF c, k, h
  <1>9. Others(t) /\ LocalTypes'
    <2>1. pc'[t] \in Labels /\ cur'[t] \in Pointer
      BY <1>3, <1>5, AllLabels DEF Pointer
    <2>2. OwnTypes(t)'
      BY <1>3, <2>1, OwnType DEF OwnTypes, Pointer, h
    <2> QED
      BY <1>3, <2>2, OwnStep
  <1>10. MayWrite(t) /\ MayWrite(t)' /\ Working(t, height[t])' /\ Exclusive(t)'
    BY <1>1, <1>3, <1>4 DEF MayWrite, Exclusive, Working, h
  <1>11. /\ prev[t] # c /\ (prev[t] # Null => prev[t] \in on)
         /\ insertNode[t] # Null => insertNode[t] \in alive \ on
    BY <1>4, <1>5 DEF ThreadInv, PrevInv, NewInv, c
  <1>12. LockTypes'
    <2>1. /\ HeldExclusive(t) = {prev[t], nextNode[t], insertNode[t], c} \ {Null}
          /\ HeldExclusive(t)' = {nextNode[t], IF h = 0 THEN Null ELSE c} \ {Null}
          /\ HeldShared(t) = {} /\ HeldShared(t)' = {} /\ Null \notin Node
      BY <1>3, <1>10, Ends DEF HeldExclusive, HeldShared, c
    <2> DEFINE left == {prev[t], insertNode[t]} \cup (IF h = 0 THEN {c} ELSE {})
    <2>2. \A m \in left : m \in Node => m \in HeldExclusive(t)
      BY <2>1
    <2>3. ASSUME NEW m \in Node PROVE m \in HeldExclusive(t)' <=> m \notin left /\ m \in HeldExclusive(t)
      BY <1>5, <1>7, <1>11, <2>1
    <2>4. Relock(t, {}, "exclusive", left, "exclusive")
      BY <1>3 DEF Unlock
    <2> HIDE DEF LockTypes, left
    <2> QED
      BY <1>9, <2>1, <2>2, <2>3, <2>4, RelockSound DEF Modes
  \* What the lists keep.
  <1>13. ASSUME NEW i, NEW key, NEW d, Link(data', at2, on2, i, key, d)
         PROVE  Link(data, at, on, i, key, d) \/ (i = h /\ key = k /\ d = nextNode[t])
    <2>1. PICK m \in on2 : at2[m] = i /\ \E e \in EntriesOf(data'[m]) : e.key = key /\ e.down = d
      BY <1>13 DEF Link
    <2>2. PICK e \in EntriesOf(data'[m]) : e.key = key /\ e.down = d
      BY <2>1
    <2>3. CASE m \in {c, n}
      <3>1. i = h
        BY <1>1, <1>5, <2>1, <2>3
      <3>2. e \in EntriesOf(data[c]) \/ (e.key = k /\ e.down = nextNode[t])
        BY <1>2, <2>2, <2>3
      <3> QED
        BY <1>5, <2>2, <3>1, <3>2 DEF Link
    <2>4. CASE m \notin {c, n}
      <3>1. m \in on /\ data'[m] = data[m] /\ at[m] = i
        BY <1>1, <1>2, <1>5, <2>1, <2>4
      <3> QED
        BY <2>2, <3>1 DEF Link
    <2> QED
      BY <2>3, <2>4
  <1>14. HeapStep(t, at, on, at2, on2)
    <2>1. ASSUME NEW m \in alive \ HeldExclusive(t)
          PROVE  /\ data'[m] = data[m] /\ next'[m] = next[m] /\ at2[m] = at[m]
                 /\ m \in on2 <=> m \in on
                 /\ m \in on => Right'[m] = Right[m]
                 /\ m \in alive'
      <3>1. m \in Node /\ m # c /\ m # insertNode[t]
        BY <1>5, <1>10, Ends DEF HeldExclusive, c
      <3>2. m # n
        BY <1>1, <3>1 DEF c
      <3> QED
        BY <1>1, <1>2, <3>1, <3>2
    <2>2. ASSUME NEW m \in on \cap on2, m \notin Firsts, m \notin Lasts
          PROVE  Start(data, m) <= Start(data', m)
      <3>1. Start(data, m) \in Int /\ Start(data', m) = Start(data, m)
        BY <1>1, <1>4, <2>2, StartInt
      <3> QED
        BY <3>1
    <2>3. ASSUME NEW m \in on2 PROVE m \in on \/ m \notin alive \/ m = insertNode[t]
      BY <1>1, <1>5 DEF c
    <2>4. \A m \in {nextNode'[t], insertNode'[t]} : m \in {nextNode[t], insertNode[t], Null}
      BY <1>3
    <2>5. pc'[t] # "relink"
      BY <1>3
    <2>6. ASSUME NEW i, NEW key, NEW d, Link(data', at2, on2, i, key, d)
          PROVE  Link(data, at, on, i, key, d) \/ NewLink(t, i, key, d)
      BY <1>1, <1>13, <2>6 DEF NewLink, h, k
    <2> QED
      BY <1>1, <2>1, <2>2, <2>3, <2>4, <2>5, <2>6 DEF HeapStep
  <1>15. DownInv(at2, on2)'
    <2> SUFFICES ASSUME NEW i, NEW key, NEW d, Link(data', at2, on2, i, key, d)
                 PROVE  /\ i = 0 => d = Null
                        /\ i > 0 => \/ Stands(at2, on2, d, i - 1, key)'
                                    \/ \E u \in Thread : Waits(u, i - 1, key, d)'
      BY DEF DownInv
    <2>1. CASE i = h /\ key = k /\ d = nextNode[t]
      <3>1. CASE h = 0
        BY <1>7, <2>1, <3>1
      <3>2. CASE h > 0
        <4>1. WaitLevel(t)' = i - 1
          BY <1>3, <1>5, <2>1, <3>2 DEF WaitLevel
        <4> QED
          BY <1>3, <1>7, <2>1, <3>2, <4>1 DEF Waits, k
      <3> QED
        BY <1>5, <3>1, <3>2
    <2>2. CASE Link(data, at, on, i, key, d)
      <3>1. /\ i = 0 => d = Null
            /\ i > 0 => \/ Stands(at, on, d, i - 1, key)
                        \/ \E u \in Thread : Waits(u, i - 1, key, d)
        BY <2>2 DEF Shape, DownInv
      <3>2. ASSUME Stands(at, on, d, i - 1, key) PROVE Stands(at2, on2, d, i - 1, key)'
        <4>1. d \in on \ Lasts /\ at[d] = i - 1 /\ Start(data, d) = key /\ d \in Node
          BY <1>5, <3>2 DEF Stands
        <4>2. at2[d] = at[d]
          BY <1>1, <1>5, <4>1
        <4> QED
          BY <1>1, <4>1, <4>2 DEF Stands
      <3>3. ASSUME NEW u \in Thread, u # t, Waits(u, i - 1, key, d) PROVE Waits(u, i - 1, key, d)'
        <4>1. WaitLevel(u)' = WaitLevel(u) /\ op'[u] = op[u] /\ insertNode'[u] = insertNode[u]
          BY <1>9, <3>3, OthersHold DEF Others
        <4> QED
          BY <3>3, <4>1 DEF Waits
      <3>4. ASSUME Waits(t, i - 1, key, d) PROVE Stands(at2, on2, d, i - 1, key)'
        <4>1. d = insertNode[t] /\ d # Null /\ key = k /\ i - 1 = h
          BY <1>1, <3>4 DEF Waits, WaitLevel, k, h
        <4>2. d = n /\ Start(data', n) = k
          BY <1>1, <4>1 DEF c, k
        <4> QED
          BY <1>1, <4>1, <4>2 DEF Stands
      <3> QED
        BY <3>1, <3>2, <3>3, <3>4
    <2> QED
      BY <1>13, <2>1, <2>2
  <1>16. Accounted(on2)'
    <2>1. on2 \subseteq alive'
      BY <1>1, <1>5
    <2>2. ASSUME NEW m \in Node \ alive' PROVE next'[m] = Null
      <3>1. m \notin alive /\ m # n /\ m # c
        BY <1>1, <1>5, <2>2
      <3> QED
        BY <1>2, <1>4, <2>2, <3>1 DEF Accounted
    <2>3. ASSUME NEW m \in alive' \ on2
          PROVE  \E u \in Thread :
                   m \in {nextNode'[u], insertNode'[u]} \/ (pc'[u] = "relink" /\ m = Leftover(u)')
      <3>1. m \in alive \ on /\ m # n /\ m # Null
        BY <1>1, <1>5, <2>3, Ends
      <3>2. PICK u \in Thread :
              m \in {nextNode[u], insertNode[u]} \/ (pc[u] = "relink" /\ m = Leftover(u))
        BY <1>4, <3>1 DEF Accounted
      <3>3. CASE u = t
        <4>1. m = nextNode[t]
          BY <1>1, <3>1, <3>2, <3>3 DEF c
        <4> QED
          BY <1>3, <4>1
      <3>4. CASE u # t
        <4>1. nextNode'[u] = nextNode[u] /\ insertNode'[u] = insertNode[u] /\ pc'[u] = pc[u]
          BY <1>9, <3>4 DEF Others
        <4> QED
          BY <1>2, <3>2, <3>4, <4>1
      <3> QED
        BY <3>3, <3>4
    <2> QED
      BY <2>1, <2>2, <2>3 DEF Accounted
  <1>17. CallInv(t)'
    BY <1>1, <1>3, <1>4, <1>5, <1>10 DEF ThreadInv, CallInv
  <1>18. CurInv(at2, on2, t)' /\ TowersPassed(at2, on2, t)'
    <2>1. c \in on2 /\ at2[c] = h /\ Short(data', c, k)
      BY <1>1, <1>5, <1>6 DEF Short
    <2> QED
      BY <1>3, <1>5, <2>1 DEF CurInv, TowersPassed, OnLevel, Seeking, h, k
  <1>19. PrevInv(at2, on2, t)' /\ NewInv(on2, t)'
    <2>1. ASSUME nextNode[t] # Null
          PROVE  h > 0 /\ nextNode[t] \in alive' \ on2 /\ next'[nextNode[t]] = Null
      <3>1. nextNode[t] # n
        BY <1>1, <1>5, <1>7, <2>1
      <3>2. nextNode[t] # c /\ nextNode[t] \in Node
        BY <1>5, <1>7, <2>1
      <3> QED
        BY <1>1, <1>2, <1>7, <2>1, <3>1, <3>2
    <2> QED
      BY <1>3, <1>10, <2>1 DEF PrevInv, NewInv
  <1>20. SinkInv(at2, on2, t)'
    <2> SUFFICES ASSUME h > 0
                 PROVE  /\ nextNode[t] # Null
                        /\ \A d : Link(data', at2, on2, h, k, d) => d = nextNode[t]
                        /\ \/ Past(data', Right'[c], k)
                           \/ Right'[c] \notin Lasts /\ Start(data', Right'[c]) = k
      BY <1>3, <1>5 DEF SinkInv, h, k
    <2>1. ASSUME NEW d, Link(data, at, on, h, k, d) PROVE FALSE
      <3>1. PICK m \in on : at[m] = h /\ \E e \in EntriesOf(data[m]) : e.key = k
        BY <2>1 DEF Link
      <3>2. m = c
        BY <1>4, <1>5, <1>6, <3>1, SamePlace
      <3>3. data[c] \in Seq(EntryType) /\ Ascending(data[c])
        BY <1>4, <1>5, NodeFacts
      <3> QED
        BY <1>5, <1>6, <3>1, <3>2, <3>3, HitFinds
    <2>2. \/ Past(data', Right'[c], k)
          \/ Right'[c] \notin Lasts /\ Start(data', Right'[c]) = k
      <3>1. CASE Right'[c] = n /\ Start(data', n) = k
        BY <1>1, <3>1
      <3>2. CASE Right'[c] = Right[c]
        <4>1. Right[c] \in on
          BY <1>4, <1>5 DEF Listed
        <4> QED
          BY <1>1, <1>6, <3>2, <4>1 DEF Past
      <3> QED
        BY <1>1, <3>1, <3>2 DEF c, k
    <2> QED
      BY <1>7, <1>13, <2>1, <2>2
  <1>21. \A u \in Thread : u # t => InFront(at2, on2, t, u)' /\ InFront(at2, on2, u, t)'
    BY <1>3, NotInFront DEF Waiting
  <1> QED
    <2>1. ThreadInv(at2, on2, t)'
      BY <1>17, <1>18, <1>19, <1>20 DEF ThreadInv
    <2> HIDE DEF LockTypes
    <2> QED
      BY <1>3, <1>9, <1>12, <1>14, <1>15, <1>16, <1>21, <2>1, StepDone

\* The place of the key, and the entry that goes there.
LEMMA PlaceFacts ==
  ASSUME LInv, NEW at, NEW on, Shape(at, on), NEW t \in Thread, Working(t, height[t]),
         pc[t] = "below"
  PROVE  LET s == data[cur[t]]
             k == op[t].key
             e == Entry(k, IF height[t] = 0 THEN op[t].val ELSE NoValue, nextNode[t])
         IN
         /\ cur[t] \in on \ Lasts /\ cur[t] \in Node /\ k \in Key /\ k \in Int /\ at[cur[t]] = height[t]
         /\ s \in Seq(EntryType) /\ Ascending(s) /\ s # <<>> /\ ~Hit(s, k)
         /\ s[1].key = NoKey \/ s[1].key < k
         /\ Passed(s, k) \in 1 .. Len(s) /\ Len(s) \in Nat /\ Len(s) <= ArraySize /\ ArraySize \in Nat
         /\ Right[cur[t]] = next[cur[t]] /\ Right[cur[t]] \in on
         /\ Right[cur[t]] \notin Lasts => /\ Before(s, Start(data, Right[cur[t]]))
                                         /\ Start(data, Right[cur[t]]) > k
                                         /\ Start(data, Right[cur[t]]) \in Int
         /\ e \in EntryType /\ e.key = k /\ e.down = nextNode[t] /\ k # NoKey
         /\ cur[t] \in Firsts => s[1].key = NoKey
         /\ cur[t] \notin Firsts => \A f \in EntriesOf(s) : f.key # NoKey
  <1> DEFINE c == cur[t]
             k == op[t].key
  <1>1. Listed(data, Right, at, on) /\ ThreadInv(at, on, t)
    BY DEF Shape
  <1>2. c \in on \ Lasts /\ c \in Node /\ k \in Key /\ at[c] = height[t]
    BY SeekStart DEF Waiting
  <1>3. k \in Int /\ k # NoKey
    BY <1>2, CallAssumption
  <1>4. Short(data, c, k) /\ ~Hit(data[c], k) /\ Past(data, Right[c], k)
    BY <1>1 DEF ThreadInv, CurInv
  <1>5. /\ data[c] \in Seq(EntryType) /\ Ascending(data[c]) /\ data[c] # <<>>
        /\ c \in Firsts => Start(data, c) = NoKey
        /\ c \notin Firsts => \A f \in EntriesOf(data[c]) : f.key # NoKey
    BY <1>1, <1>2, NodeFacts
  <1>6. data[c][1].key = NoKey \/ data[c][1].key < k
    BY <1>4, <1>5 DEF Short, Start
  <1>7. Passed(data[c], k) \in 1 .. Len(data[c])
    BY <1>2, <1>5, <1>6, LastPassed
  <1>8. Len(data[c]) \in Nat /\ Len(data[c]) <= ArraySize /\ ArraySize \in Nat
    <2>1. Len(data[c]) \in Nat
      BY <1>5, EntrySeq
    <2>2. \A n \in Node : Len(data[n]) <= ArraySize
      BY TypeParts DEF LInv, HeapTypes
    <2> QED
      BY <1>2, <2>1, <2>2, BAssumption
  <1>9. /\ Right[c] = next[c] /\ Right[c] \in on /\ Right[c] \notin Firsts
        /\ Right[c] \notin Lasts => Before(data[c], Start(data, Right[c]))
    BY NextOf DEF OnLevel
  <1>10. ASSUME Right[c] \notin Lasts PROVE Start(data, Right[c]) > k /\ Start(data, Right[c]) \in Int
    BY <1>1, <1>4, <1>9, <1>10, StartInt DEF Past
  <1>11. Entry(k, IF height[t] = 0 THEN op[t].val ELSE NoValue, nextNode[t]) \in EntryType
    <2>1. op[t].val \in Value \cup {NoValue} /\ nextNode[t] \in Pointer
      BY Types DEF LInv, OpType
    <2> QED
      BY <1>2, <2>1 DEF Entry, EntryType
  <1> QED
    BY <1>2, <1>3, <1>4, <1>5, <1>6, <1>7, <1>8, <1>9, <1>10, <1>11 DEF Entry, Start

\* insert_into_node, with and without a split.
LEMMA PlaceKeeps ==
  ASSUME LInv, NEW at, NEW on, Shape(at, on), NEW t \in Thread, Working(t, height[t]), Place(t)
  PROVE  Inv'
  <1> DEFINE c == cur[t]
             k == op[t].key
             h == height[t]
             i == Passed(data[c], k)
             e == Entry(k, IF h = 0 THEN op[t].val ELSE NoValue, nextNode[t])
             n == IF insertNode[t] = Null THEN Fresh(k, h) ELSE insertNode[t]
             left == {prev[t], insertNode[t]} \cup (IF h = 0 THEN {c} ELSE {})
  <1>1. /\ pc[t] = "below"
        /\ Splits(c, insertNode[t]) /\ insertNode[t] = Null => Vacant(k, h) # {}
        /\ data' = Placed(data, c, n, i, e, Splits(c, insertNode[t]))
        /\ IF Splits(c, insertNode[t])
           THEN next' = [next EXCEPT ![c] = n, ![n] = next[c]] /\ alive' = alive \cup {n}
           ELSE UNCHANGED <<next, alive>>
        /\ Unlock(t, left, "exclusive")
        /\ insertNode' = [insertNode EXCEPT ![t] = nextNode[t]]
        /\ nextNode' = [nextNode EXCEPT ![t] = Null]
        /\ pc' = [pc EXCEPT ![t] = IF h = 0 THEN "ret" ELSE "sink"]
        /\ prev' = [prev EXCEPT ![t] = Null]
        /\ cur' = [cur EXCEPT ![t] = IF h = 0 THEN Null ELSE c]
        /\ UNCHANGED <<op, height, scan, reply>>
    <2>1. IF h = 0 THEN Stand(t, "ret", Null, Null) ELSE Stand(t, "sink", Null, c)
      BY DEF Place
    <2>2. /\ pc' = [pc EXCEPT ![t] = IF h = 0 THEN "ret" ELSE "sink"]
          /\ prev' = [prev EXCEPT ![t] = Null]
          /\ cur' = [cur EXCEPT ![t] = IF h = 0 THEN Null ELSE c]
      BY <2>1 DEF Stand, Goto
    <2> QED
      BY <2>2 DEF Place
  <1> HIDE DEF left
  <1>2. /\ c \in on \ Lasts /\ c \in Node /\ k \in Key /\ k \in Int /\ at[c] = h
        /\ data[c] \in Seq(EntryType) /\ Ascending(data[c]) /\ data[c] # <<>> /\ ~Hit(data[c], k)
        /\ data[c][1].key = NoKey \/ data[c][1].key < k
        /\ i \in 1 .. Len(data[c]) /\ Len(data[c]) \in Nat /\ Len(data[c]) <= ArraySize /\ ArraySize \in Nat
        /\ Right[c] = next[c] /\ Right[c] \in on
        /\ Right[c] \notin Lasts => /\ Before(data[c], Start(data, Right[c]))
                                    /\ Start(data, Right[c]) > k
                                    /\ Start(data, Right[c]) \in Int
    <2>1. /\ c \in on \ Lasts /\ c \in Node /\ k \in Key /\ k \in Int /\ at[c] = h
          /\ data[c] \in Seq(EntryType) /\ Ascending(data[c]) /\ data[c] # <<>> /\ ~Hit(data[c], k)
      BY <1>1, PlaceFacts, SMTT(20)
    <2>2. /\ data[c][1].key = NoKey \/ data[c][1].key < k
          /\ i \in 1 .. Len(data[c]) /\ Len(data[c]) \in Nat /\ Len(data[c]) <= ArraySize
          /\ ArraySize \in Nat
      BY <1>1, PlaceFacts
    <2>3. /\ Right[c] = next[c] /\ Right[c] \in on
          /\ Right[c] \notin Lasts => /\ Before(data[c], Start(data, Right[c]))
                                      /\ Start(data, Right[c]) > k
                                      /\ Start(data, Right[c]) \in Int
      BY <1>1, PlaceFacts
    <2> QED
      BY <2>1, <2>2, <2>3
  <1>3. /\ e \in EntryType /\ e.key = k /\ e.down = nextNode[t] /\ k # NoKey
        /\ c \in Firsts => data[c][1].key = NoKey
        /\ c \notin Firsts => \A f \in EntriesOf(data[c]) : f.key # NoKey
    BY <1>1, PlaceFacts
  <1>4. Listed(data, Right, at, on) /\ HeapTypes /\ Null \in Pointer /\ Null \notin Node
    BY TypeParts, Ends DEF Shape, LInv, Pointer
  <1>5. data \in [Node -> Seq(EntryType)] /\ at \in [Node -> Level] /\ on \subseteq Node
    BY <1>4 DEF Listed
  <1> HIDE DEF i, e
  <1>6. /\ pc'[t] = (IF h = 0 THEN "ret" ELSE "sink") /\ cur'[t] = (IF h = 0 THEN Null ELSE c)
        /\ prev'[t] = Null /\ nextNode'[t] = Null /\ insertNode'[t] = nextNode[t]
        /\ op'[t] = op[t] /\ height'[t] = h /\ index'[t] = index[t] /\ removed'[t] = removed[t]
        /\ reply'[t] = reply[t] /\ OnlyOwn(t)
    <2> HIDE DEF n, c
    <2>1. /\ insertNode' = [insertNode EXCEPT ![t] = nextNode[t]]
          /\ nextNode' = [nextNode EXCEPT ![t] = Null]
          /\ pc' = [pc EXCEPT ![t] = IF h = 0 THEN "ret" ELSE "sink"]
          /\ prev' = [prev EXCEPT ![t] = Null]
          /\ cur' = [cur EXCEPT ![t] = IF h = 0 THEN Null ELSE c]
          /\ UNCHANGED <<op, height, scan, reply>>
      BY <1>1
    <2> QED
      BY <2>1, TypeParts, SameLocals DEF LInv, LocalTypes, OnlyOwn, scan
  <1>7. Others(t)
    BY <1>6, OwnOnly
  <1>8. \A m \in on : m \notin Firsts /\ m \notin Lasts => Start(data, m) \in Int
    BY <1>4, StartInt
  <1>9. CASE ~Splits(c, insertNode[t])
    <2> DEFINE r == (UpTo(data[c], i) \o <<e>>) \o After(data[c], i)
    <2>1. /\ r \in Seq(EntryType) /\ Ascending(r) /\ Len(r) = Len(data[c]) + 1
          /\ EntriesOf(r) = EntriesOf(data[c]) \cup {e} /\ r # <<>> /\ r[1] = data[c][1]
      <3>1. Passed(data[c], k) > 0
        BY <1>2 DEF i
      <3> QED
        BY <1>2, <1>3, <3>1, EntryAdded DEF i
    <2>2. insertNode[t] = Null /\ Len(data[c]) < ArraySize
      BY <1>2, <1>9 DEF Splits
    <2>3. data' = [data EXCEPT ![c] = r] /\ next' = next /\ alive' = alive
      BY <1>1, <1>9 DEF Placed
    <2> HIDE DEF r
    <2>4. /\ data' \in [Node -> Seq(EntryType)] /\ data'[c] = r
          /\ \A m \in Node : m # c => data'[m] = data[m]
      BY <1>2, <1>5, <2>1, <2>3
    <2>5. HeapTypes'
      <3>1. ASSUME NEW m \in Node PROVE Len(data'[m]) <= ArraySize
        <4>1. CASE m = c
          BY <1>2, <2>1, <2>2, <2>4, <4>1
        <4>2. CASE m # c
          BY <1>4, <2>4, <4>2 DEF HeapTypes
        <4> QED
          BY <4>1, <4>2
      <3> QED
        BY <1>4, <2>3, <2>4, <3>1 DEF HeapTypes
    <2>6. Right' = Right
      <3>1. pc[t] # "relink" /\ pc'[t] # "relink"
        BY <1>1, <1>6
      <3>2. ASSUME NEW m PROVE (\E u \in Thread : pc'[u] = "relink" /\ prev'[u] = m)
                                 <=> \E u \in Thread : pc[u] = "relink" /\ prev[u] = m
        BY <1>7, <3>1 DEF Others
      <3>3. ASSUME NEW m \in Node PROVE Right'[m] = Right[m]
        BY <2>3, <3>2 DEF Right
      <3>4. Right = [m \in Node |-> Right[m]] /\ Right' = [m \in Node |-> Right'[m]]
        BY DEF Right
      <3> HIDE DEF Right
      <3> QED
        BY <3>3, <3>4
    <2>7. Reshaped(data, Right, on, c, r, data', Right')
      <3>1. c \notin Firsts => (\A f \in EntriesOf(r) : f.key # NoKey) /\ Start(data, c) <= r[1].key
        BY <1>2, <1>3, <1>8, <2>1 DEF Start
      <3>2. Right[c] \notin Lasts => Before(r, Start(data, Right[c]))
        BY <1>2, <1>3, <2>1 DEF Before
      <3> QED
        BY <1>2, <1>3, <2>1, <2>4, <2>6, <3>1, <3>2 DEF Reshaped
    <2>8. Listed(data', Right', at, on)
      BY <1>4, <2>7, ListChange
    <2>9. \A m \in on : Start(data', m) = Start(data, m)
      BY <1>5, <2>1, <2>4 DEF Start
    <2>10. \A u \in Thread : u # t /\ pc[u] = "relink" => Leftover(u)' = Leftover(u)
      BY <1>7, <2>3 DEF Others, Leftover
    <2>11. Puts(at, on, t, c, at, on)
      <3>1. c \in alive
        BY <1>1, NextOf DEF OnLevel
      <3>2. on = on \cup {c} /\ alive' = alive \cup {c} /\ c \in Node /\ c \notin Lasts
        BY <1>2, <2>3, <3>1
      <3>3. \A f \in EntriesOf(data'[c]) \cup EntriesOf(data'[c]) :
              f \in EntriesOf(data[c]) \/ (f.key = k /\ f.down = nextNode[t])
        BY <1>3, <2>1, <2>4
      <3>4. /\ \A m \in Node : m \notin {c, c} => data'[m] = data[m] /\ next'[m] = next[m]
            /\ \A m \in on : m # c => Right'[m] = Right[m]
        BY <2>3, <2>4, <2>6
      <3>5. pc[t] = "below" /\ Unlock(t, left, "exclusive") /\ Working(t, h) /\ at[c] = h
        BY <1>1, <1>2
      <3> HIDE DEF r, n
      <3> QED
        BY <1>6, <2>2, <2>5, <2>6, <2>8, <2>9, <2>10, <3>2, <3>3, <3>4, <3>5 DEF Puts, left
    <2> QED
      BY <2>11, PutKeeps
  <1>10. CASE Splits(c, insertNode[t])
    <2> DEFINE s == UpTo(data[c], i)
               r == <<e>> \o After(data[c], i)
               at2 == [at EXCEPT ![n] = h]
               on2 == on \cup {n}
    <2>1. /\ s \in Seq(EntryType) /\ Ascending(s) /\ Len(s) <= Len(data[c])
          /\ EntriesOf(s) = {f \in EntriesOf(data[c]) : f.key = NoKey \/ f.key < k}
          /\ s # <<>> /\ s[1] = data[c][1]
      <3>1. Passed(data[c], k) > 0
        BY <1>2 DEF i
      <3> QED
        BY <1>2, <3>1, FrontEntries DEF i
    <2>2. /\ r \in Seq(EntryType) /\ Ascending(r) /\ Len(r) = Len(data[c]) - i + 1
          /\ EntriesOf(r) = {e} \cup {x \in EntriesOf(data[c]) : x.key # NoKey /\ x.key >= k}
          /\ r # <<>> /\ r[1] = e
      <3> HIDE DEF c, k, e
      <3> QED
        BY <1>2, <1>3, EntryFirst DEF i
    <2>3. /\ n \in Node \ on /\ n # c /\ (n \notin alive \/ n = insertNode[t]) /\ insertNode[t] \in {Null, n}
      <3>1. CASE insertNode[t] = Null
        <4>1. n \in Vacant(k, h)
          BY <1>1, <1>10, <3>1 DEF Fresh
        <4>2. h \in Level
          BY Types DEF LInv
        <4>3. Site[k][h] \subseteq Node
          BY <1>2, <4>2, Ends
        <4>4. on \subseteq alive
          BY HeldAlive
        <4> QED
          BY <1>2, <3>1, <4>1, <4>3, <4>4 DEF Vacant
      <3>2. CASE insertNode[t] # Null
        <4>1. insertNode[t] \in alive \ on /\ alive \subseteq Node
          BY <3>2, HeldAlive
        <4> QED
          BY <1>2, <3>2, <4>1
      <3> QED
        BY <3>1, <3>2
    <2>4. /\ data' = [data EXCEPT ![c] = s, ![n] = r]
          /\ next' = [next EXCEPT ![c] = n, ![n] = next[c]] /\ alive' = alive \cup {n}
      BY <1>1, <1>10 DEF Placed
    <2> HIDE DEF s, r, n
    <2>5. /\ data' \in [Node -> Seq(EntryType)] /\ data'[c] = s /\ data'[n] = r
          /\ \A m \in Node : m # c /\ m # n => data'[m] = data[m]
      BY <1>2, <1>5, <2>1, <2>2, <2>3, <2>4
    <2>6. /\ next' \in [Node -> Pointer] /\ next'[c] = n /\ next'[n] = next[c]
          /\ \A m \in Node : m \notin {c, n} => next'[m] = next[m]
      <3>1. next \in [Node -> Pointer] /\ next[c] \in Pointer /\ n \in Pointer
        BY <1>2, <1>4, <2>3 DEF HeapTypes, Pointer
      <3> QED
        BY <1>2, <2>3, <2>4, <3>1
    <2>7. HeapTypes'
      <3>1. ASSUME NEW m \in Node PROVE Len(data'[m]) <= ArraySize
        <4>0. Len(s) \in Nat /\ i \in Int /\ i >= 1
          BY <1>2, <2>1, EntrySeq
        <4>1. CASE m = c
          BY <1>2, <2>1, <2>5, <4>0, <4>1
        <4>2. CASE m = n
          BY <1>2, <2>2, <2>5, <4>0, <4>2
        <4>3. CASE m # c /\ m # n
          BY <1>4, <2>5, <4>3 DEF HeapTypes
        <4> QED
          BY <4>1, <4>2, <4>3
      <3>2. alive' \subseteq Node
        BY <1>4, <2>3, <2>4 DEF HeapTypes
      <3> QED
        BY <2>5, <2>6, <3>1, <3>2 DEF HeapTypes
    <2>8. Inserted(on, t, n)
      BY <1>1, <1>6, <2>3, <2>6 DEF Inserted
    <2>9. /\ \A u \in Thread : u # t /\ pc[u] = "relink" => Leftover(u)' = Leftover(u)
          /\ \A m \in on : m # c => Right'[m] = Right[m]
          /\ Right'[c] = n /\ Right'[n] = Right[c]
      <3>1. pc'[t] # "relink"
        BY <1>6
      <3> QED
        BY <1>7, <2>8, <3>1, InsertedRight
    <2>10. /\ at2 \in [Node -> Level] /\ at2[n] = at[c] /\ at2[n] = h
           /\ \A m \in Node : m # n => at2[m] = at[m]
      BY <1>2, <1>5, <2>3
    <2>11. Split(data, Right, at, on, c, s, n, r, data', Right', at2, on2)
      <3>1. s[1].key = Start(data, c)
        BY <2>1 DEF Start
      <3>2. c \notin Firsts => \A f \in EntriesOf(s) : f.key # NoKey
        BY <1>3, <2>1
      <3>3. \A f \in EntriesOf(r) : f.key # NoKey
        BY <1>3, <2>2
      <3>4. Before(s, r[1].key)
        BY <1>3, <2>1, <2>2 DEF Before
      <3>5. Right[c] \notin Lasts => Before(r, Start(data, Right[c]))
        BY <1>2, <1>3, <2>2 DEF Before
      <3>6. \A m \in on : at2[m] = at[m]
        BY <1>5, <2>3, <2>10
      <3> HIDE DEF at2
      <3> QED
        BY <1>2, <2>1, <2>2, <2>3, <2>5, <2>9, <2>10, <3>1, <3>2, <3>3, <3>4, <3>5, <3>6 DEF Split
    <2> HIDE DEF at2, on2
    <2>12. /\ Listed(data', Right', at2, on2)
           /\ n \notin Lasts /\ Start(data', n) = r[1].key
           /\ \A m \in on : Start(data', m) = Start(data, m)
      BY <1>4, <2>11, ListSplit
    <2>13. Puts(at, on, t, n, at2, on2)
      <3>1. \A f \in EntriesOf(data'[c]) \cup EntriesOf(data'[n]) :
              f \in EntriesOf(data[c]) \/ (f.key = k /\ f.down = nextNode[t])
        BY <1>3, <2>1, <2>2, <2>5
      <3>2. Start(data', n) = k
        BY <1>3, <2>2, <2>12
      <3>3. \A m \in Node : m \notin {c, n} => data'[m] = data[m] /\ next'[m] = next[m]
        BY <2>5, <2>6
      <3> QED
        BY <1>1, <1>6, <2>3, <2>4, <2>7, <2>9, <2>10, <2>12, <3>1, <3>2, <3>3 DEF Puts, left, on2
    <2> QED
      BY <2>13, PutKeeps
  <1> QED
    BY <1>9, <1>10

\* The node that waits for the key takes it over from the node it is in, or
\* the place of that node on the list.
Merges(at, on, t, n, at2, on2) ==
  LET c == cur[t]
      p == prev[t]
      k == op[t].key
      h == height[t]
  IN
  /\ pc[t] = "hit" /\ Working(t, h) /\ n = insertNode[t] /\ n # Null
  /\ Listed(data', Right', at2, on2)
  /\ alive' = alive
  /\ at2[n] = h /\ \A m \in Node : m # n => at2[m] = at[m]
  /\ \/ on2 = on \cup {n} /\ pc'[t] = "settle"
     \/ /\ on2 = (on \ {c}) \cup {n} /\ pc'[t] = "relink"
        /\ p # Null /\ next[p] = c /\ next'[c] = n /\ Start(data, c) = k
  /\ Start(data', n) = k /\ Hit(data'[n], k)
  /\ \A m \in on \cap on2 : Start(data', m) = Start(data, m)
  /\ \A m \in Node : m \notin {c, n} => data'[m] = data[m] /\ next'[m] = next[m]
  /\ \A m \in on : m \notin {c, p} => Right'[m] = Right[m]
  /\ \A e \in EntriesOf(data'[c]) \cup EntriesOf(data'[n]) : e \in EntriesOf(data[c])
  /\ \A u \in Thread : u # t /\ pc[u] = "relink" => Leftover(u)' = Leftover(u)
  /\ Unlock(t, {c}, "exclusive")
  /\ cur'[t] = n /\ insertNode'[t] = Null /\ prev'[t] = p /\ nextNode'[t] = nextNode[t]
  /\ op'[t] = op[t] /\ height'[t] = h /\ index'[t] = index[t] /\ removed'[t] = removed[t]
  /\ reply'[t] = reply[t]
  /\ OnlyOwn(t)
  /\ HeapTypes'

\* An insert finds its key on the level, and moves it with what is behind it to the node
\* that waits for it.
LEMMA MergeKeeps ==
  ASSUME LInv, NEW at, NEW on, Shape(at, on), NEW t \in Thread, NEW n, NEW at2, NEW on2,
         Merges(at, on, t, n, at2, on2)
  PROVE  Inv'
  <1> DEFINE c == cur[t]
             p == prev[t]
             k == op[t].key
             h == height[t]
  <1>1. /\ pc[t] = "hit" /\ Working(t, h) /\ n = insertNode[t] /\ n # Null
        /\ Listed(data', Right', at2, on2)
        /\ alive' = alive
        /\ at2[n] = h /\ \A m \in Node : m # n => at2[m] = at[m]
        /\ \/ on2 = on \cup {n} /\ pc'[t] = "settle"
           \/ /\ on2 = (on \ {c}) \cup {n} /\ pc'[t] = "relink"
              /\ p # Null /\ next[p] = c /\ next'[c] = n /\ Start(data, c) = k
        /\ Start(data', n) = k /\ Hit(data'[n], k)
        /\ \A m \in on \cap on2 : Start(data', m) = Start(data, m)
    BY DEF Merges
  <1>2. /\ \A m \in Node : m \notin {c, n} => data'[m] = data[m] /\ next'[m] = next[m]
        /\ \A m \in on : m \notin {c, p} => Right'[m] = Right[m]
        /\ \A e \in EntriesOf(data'[c]) \cup EntriesOf(data'[n]) : e \in EntriesOf(data[c])
        /\ \A u \in Thread : u # t /\ pc[u] = "relink" => Leftover(u)' = Leftover(u)
    BY DEF Merges
  <1>3. /\ Unlock(t, {c}, "exclusive")
        /\ cur'[t] = n /\ insertNode'[t] = Null /\ prev'[t] = p /\ nextNode'[t] = nextNode[t]
        /\ op'[t] = op[t] /\ height'[t] = h /\ index'[t] = index[t] /\ removed'[t] = removed[t]
        /\ reply'[t] = reply[t] /\ OnlyOwn(t) /\ HeapTypes'
    BY DEF Merges
  <1>4. /\ Listed(data, Right, at, on) /\ ThreadInv(at, on, t) /\ Accounted(on)
        /\ Exclusive(t) /\ op[t].name = "insert"
    BY <1>1 DEF Shape, Exclusive, Working
  <1>5. /\ c \in on \ Lasts /\ c \in Node /\ k \in Key /\ at[c] = h /\ h \in Int /\ c # Null
        /\ on \subseteq Node /\ alive \subseteq Node /\ on \subseteq alive /\ Lasts \subseteq on
        /\ n \in alive \ on /\ n \in Node
    <2>1. c \in on \ Lasts /\ c \in Node /\ k \in Key /\ at[c] = h
      BY <1>1, SeekStart DEF Waiting
    <2>2. h \in Int
      BY Types DEF LInv
    <2>3. on \subseteq Node /\ alive \subseteq Node /\ on \subseteq alive
      BY <1>4, HeldAlive DEF Listed
    <2>4. Lasts \subseteq on
      BY <1>4, Ends DEF Listed
    <2>5. n \in alive \ on
      BY <1>1, HeldAlive
    <2> QED
      BY <2>1, <2>2, <2>3, <2>4, <2>5, Ends
  <1>6. nextNode[t] # Null => /\ h > 0 /\ nextNode[t] \in alive \ on
                              /\ next[nextNode[t]] = Null /\ nextNode[t] # n
    BY <1>1, <1>4 DEF ThreadInv, NewInv
  <1>7. p # Null => p \in on \ Lasts /\ p # c /\ p \in Node
    BY <1>4, <1>5 DEF ThreadInv, PrevInv
  <1> HIDE DEF c, p, k, h
  <1>8. Others(t) /\ LocalTypes'
    <2>1. pc'[t] \in Labels /\ cur'[t] \in Pointer /\ Null \in Pointer
      BY <1>1, <1>3, <1>5, AllLabels DEF Pointer
    <2>2. OwnTypes(t)'
      BY <1>3, <2>1, OwnType DEF OwnTypes, h, p
    <2> QED
      BY <1>3, <2>2, OwnStep
  <1>9. MayWrite(t) /\ MayWrite(t)' /\ Working(t, height[t])' /\ Exclusive(t)'
    BY <1>1, <1>3, <1>4 DEF MayWrite, Exclusive, Working, h
  <1>10. LockTypes'
    <2>1. /\ HeldExclusive(t) = {p, nextNode[t], n, c} \ {Null}
          /\ HeldExclusive(t)' = {p, nextNode[t], n} \ {Null}
          /\ HeldShared(t) = {} /\ HeldShared(t)' = {} /\ Null \notin Node
      BY <1>1, <1>3, <1>9, Ends DEF HeldExclusive, HeldShared, c, p
    <2>2. \A m \in {c} : m \in Node => m \in HeldExclusive(t)
      BY <2>1
    <2>3. ASSUME NEW m \in Node PROVE m \in HeldExclusive(t)' <=> m \notin {c} /\ m \in HeldExclusive(t)
      BY <1>5, <1>6, <1>7, <2>1
    <2>4. Relock(t, {}, "exclusive", {c}, "exclusive")
      BY <1>3 DEF Unlock
    <2> HIDE DEF LockTypes
    <2> QED
      BY <1>8, <2>1, <2>2, <2>3, <2>4, RelockSound DEF Modes
  \* What the lists keep.
  <1>11. ASSUME NEW i, NEW key, NEW d, Link(data', at2, on2, i, key, d)
         PROVE  Link(data, at, on, i, key, d)
    <2>1. PICK m \in on2 : at2[m] = i /\ \E e \in EntriesOf(data'[m]) : e.key = key /\ e.down = d
      BY <1>11 DEF Link
    <2>2. PICK e \in EntriesOf(data'[m]) : e.key = key /\ e.down = d
      BY <2>1
    <2>3. CASE m \in {c, n}
      <3>1. i = h
        BY <1>1, <1>5, <2>1, <2>3
      <3>2. e \in EntriesOf(data[c])
        BY <1>2, <2>2, <2>3
      <3> QED
        BY <1>5, <2>2, <3>1, <3>2 DEF Link
    <2>4. CASE m \notin {c, n}
      <3>1. m \in on
        BY <1>1, <2>1, <2>4
      <3>2. data'[m] = data[m] /\ at[m] = i
        BY <1>1, <1>2, <1>5, <2>1, <2>4, <3>1
      <3> QED
        BY <2>2, <3>1, <3>2 DEF Link
    <2> QED
      BY <2>3, <2>4
  <1>12. \A m \in on2 : m \in on \/ m = n
    BY <1>1
  <1>13. pc'[t] = "relink" => Leftover(t)' = c
    <2> SUFFICES ASSUME pc'[t] = "relink" PROVE next'[p] = c
      BY <1>3 DEF Leftover
    <2>1. p # Null /\ next[p] = c
      BY <1>1
    <2> QED
      BY <1>2, <1>5, <1>7, <2>1
  <1>14. HeapStep(t, at, on, at2, on2)
    <2>1. ASSUME NEW m \in alive \ HeldExclusive(t)
          PROVE  /\ data'[m] = data[m] /\ next'[m] = next[m] /\ at2[m] = at[m]
                 /\ m \in on2 <=> m \in on
                 /\ m \in on => Right'[m] = Right[m]
                 /\ m \in alive'
      <3>1. m \in Node /\ m # c /\ m # n /\ m # p
        BY <1>1, <1>5, <1>9, Ends DEF HeldExclusive, c, p
      <3> QED
        BY <1>1, <1>2, <3>1
    <2>2. ASSUME NEW m \in on \cap on2, m \notin Firsts, m \notin Lasts
          PROVE  Start(data, m) <= Start(data', m)
      <3>1. Start(data, m) \in Int /\ Start(data', m) = Start(data, m)
        BY <1>1, <1>4, <2>2, StartInt
      <3> QED
        BY <3>1
    <2>3. \A m \in {nextNode'[t], insertNode'[t]} : m \in {nextNode[t], insertNode[t], Null}
      BY <1>3
    <2> QED
      BY <1>1, <1>5, <1>11, <1>12, <1>13, <2>1, <2>2, <2>3 DEF HeapStep
  <1>15. ASSUME NEW i, NEW key, NEW d, i > 0, Link(data, at, on, i, key, d),
                Stands(at, on, d, i - 1, key)
         PROVE  Stands(at2, on2, d, i - 1, key)'
    <2>1. d \in on \ Lasts /\ at[d] = i - 1 /\ Start(data, d) = key /\ d \in Node /\ d # n
      BY <1>5, <1>15 DEF Stands
    <2>2. d \in on2
      <3> SUFFICES ASSUME d = c, Start(data, c) = k PROVE FALSE
        BY <1>1, <2>1
      <3> QED
        BY <1>1, <1>15, NoTower DEF c, k
    <2> QED
      BY <1>1, <2>1, <2>2 DEF Stands
  <1>16. DownInv(at2, on2)'
    <2> SUFFICES ASSUME NEW i, NEW key, NEW d, Link(data', at2, on2, i, key, d)
                 PROVE  /\ i = 0 => d = Null
                        /\ i > 0 => \/ Stands(at2, on2, d, i - 1, key)'
                                    \/ \E u \in Thread : Waits(u, i - 1, key, d)'
      BY DEF DownInv
    <2>1. Link(data, at, on, i, key, d)
      BY <1>11
    <2>2. /\ i = 0 => d = Null
          /\ i > 0 => \/ Stands(at, on, d, i - 1, key)
                      \/ \E u \in Thread : Waits(u, i - 1, key, d)
      BY <2>1 DEF Shape, DownInv
    <2>3. ASSUME NEW u \in Thread, u # t, Waits(u, i - 1, key, d) PROVE Waits(u, i - 1, key, d)'
      <3>1. WaitLevel(u)' = WaitLevel(u) /\ op'[u] = op[u] /\ insertNode'[u] = insertNode[u]
        BY <1>8, <2>3, OthersHold DEF Others
      <3> QED
        BY <2>3, <3>1 DEF Waits
    <2>4. ASSUME Waits(t, i - 1, key, d) PROVE Stands(at2, on2, d, i - 1, key)'
      <3>1. d = n /\ key = k /\ i - 1 = h
        BY <1>1, <2>4 DEF Waits, WaitLevel, k, h
      <3>2. n \in on2 \ Lasts
        BY <1>1, <1>5
      <3> QED
        BY <1>1, <3>1, <3>2 DEF Stands
    <2> QED
      BY <1>15, <2>1, <2>2, <2>3, <2>4
  <1>17. Accounted(on2)'
    <2>1. on2 \subseteq alive'
      BY <1>1, <1>5, <1>12
    <2>2. ASSUME NEW m \in Node \ alive' PROVE next'[m] = Null
      <3>1. m \notin alive /\ m # n /\ m # c
        BY <1>1, <1>5, <2>2
      <3> QED
        BY <1>2, <1>4, <2>2, <3>1 DEF Accounted
    <2>3. ASSUME NEW m \in alive' \ on2
          PROVE  \E u \in Thread :
                   m \in {nextNode'[u], insertNode'[u]} \/ (pc'[u] = "relink" /\ m = Leftover(u)')
      <3>1. CASE m \in on
        BY <1>1, <1>13, <2>3, <3>1
      <3>2. CASE m \notin on
        <4>1. m \in alive \ on /\ m # n /\ m # Null
          BY <1>1, <1>5, <2>3, <3>2, Ends
        <4>2. PICK u \in Thread :
                m \in {nextNode[u], insertNode[u]} \/ (pc[u] = "relink" /\ m = Leftover(u))
          BY <1>4, <4>1 DEF Accounted
        <4>3. CASE u = t
          <5>1. m = nextNode[t]
            BY <1>1, <4>1, <4>2, <4>3
          <5> QED
            BY <1>3, <5>1
        <4>4. CASE u # t
          <5>1. nextNode'[u] = nextNode[u] /\ insertNode'[u] = insertNode[u] /\ pc'[u] = pc[u]
            BY <1>8, <4>4 DEF Others
          <5> QED
            BY <1>2, <4>2, <4>4, <5>1
        <4> QED
          BY <4>3, <4>4
      <3> QED
        BY <3>1, <3>2
    <2> QED
      BY <2>1, <2>2, <2>3 DEF Accounted
  <1>18. CallInv(t)'
    BY <1>1, <1>3, <1>4, <1>9 DEF ThreadInv, CallInv
  <1>19. CurInv(at2, on2, t)'
    <2>1. n \in on2 \ Lasts
      BY <1>1, <1>5
    <2> QED
      BY <1>1, <1>3, <1>5, <2>1 DEF CurInv, OnLevel, h, k
  <1>20. PrevInv(at2, on2, t)'
    <2>1. p # Null => p \in on2 \ Lasts /\ p # n
      BY <1>1, <1>5, <1>7
    <2>2. ASSUME pc'[t] = "relink"
          PROVE  /\ prev'[t] # Null /\ Leftover(t)' \in alive' \ on2 /\ next'[Leftover(t)'] = cur'[t]
                 /\ \A u \in Thread : /\ Leftover(t)' \notin {nextNode'[u], insertNode'[u]}
                                      /\ u # t /\ pc'[u] = "relink" => Leftover(u)' # Leftover(t)'
      <3>1. /\ on2 = (on \ {c}) \cup {n} /\ p # Null /\ next'[c] = n /\ Leftover(t)' = c
        BY <1>1, <1>13, <2>2
      <3>2. c \in alive' \ on2
        BY <1>1, <1>5, <3>1
      <3>3. ASSUME NEW u \in Thread
            PROVE  /\ c \notin {nextNode'[u], insertNode'[u]}
                   /\ u # t /\ pc'[u] = "relink" => Leftover(u)' # c
        <4>1. CASE u = t
          BY <1>3, <1>5, <1>6, <4>1
        <4>2. CASE u # t
          <5>1. nextNode'[u] = nextNode[u] /\ insertNode'[u] = insertNode[u] /\ pc'[u] = pc[u]
            BY <1>8, <4>2 DEF Others
          <5>2. /\ nextNode[u] # Null => nextNode[u] \notin on
                /\ insertNode[u] # Null => insertNode[u] \notin on
            BY HeldAlive
          <5>3. pc[u] = "relink" => Leftover(u) \notin on
            BY DEF Shape, ThreadInv, PrevInv
          <5> QED
            BY <1>2, <1>5, <4>2, <5>1, <5>2, <5>3
        <4> QED
          BY <4>1, <4>2
      <3> QED
        BY <1>3, <3>1, <3>2, <3>3
    <2>3. pc'[t] \in {"relink", "settle"}
      BY <1>1
    <2> QED
      BY <1>3, <1>9, <2>1, <2>2, <2>3 DEF PrevInv
  <1>21. NewInv(on2, t)'
    <2>1. ASSUME nextNode[t] # Null
          PROVE  h > 0 /\ nextNode[t] \in alive' \ on2 /\ next'[nextNode[t]] = Null
      BY <1>1, <1>2, <1>5, <1>6, <1>12, <2>1
    <2>2. pc'[t] \in {"relink", "settle"}
      BY <1>1
    <2> QED
      BY <1>3, <1>9, <2>1, <2>2 DEF NewInv, h
  <1>22. SinkInv(at2, on2, t)' /\ TowersPassed(at2, on2, t)'
    BY <1>1 DEF SinkInv, TowersPassed, Seeking
  <1>23. \A u \in Thread : u # t => InFront(at2, on2, t, u)' /\ InFront(at2, on2, u, t)'
    BY <1>1, NotInFront DEF Waiting
  <1> QED
    <2>1. ThreadInv(at2, on2, t)'
      BY <1>18, <1>19, <1>20, <1>21, <1>22 DEF ThreadInv
    <2> HIDE DEF LockTypes
    <2> QED
      BY <1>3, <1>8, <1>10, <1>14, <1>16, <1>17, <1>23, <2>1, StepDone

\* The merge in insert_or_modify, whether it empties the old node or not.
LEMMA MoveOverKeeps ==
  ASSUME LInv, NEW at, NEW on, Shape(at, on), NEW t \in Thread, Working(t, height[t]), MoveOver(t)
  PROVE  Inv'
  <1> DEFINE c == cur[t]
             p == prev[t]
             k == op[t].key
             h == height[t]
             n == insertNode[t]
             i == Passed(data[c], k)
             s == UpTo(data[c], i)
             r == After(data[c], i)
             at2 == [at EXCEPT ![n] = h]
             on2 == (IF i = 0 THEN on \ {c} ELSE on) \cup {n}
  <1>1. /\ pc[t] = "hit" /\ n # Null
        /\ data' = [data EXCEPT ![c] = s, ![n] = r]
        /\ next' = [next EXCEPT ![c] = n, ![n] = next[c]]
        /\ Unlock(t, {c}, "exclusive")
        /\ cur' = [cur EXCEPT ![t] = n] /\ insertNode' = [insertNode EXCEPT ![t] = Null]
        /\ pc' = [pc EXCEPT ![t] = IF i = 0 THEN "relink" ELSE "settle"]
        /\ UNCHANGED <<alive, op, height, prev, nextNode, scan, reply>>
    BY DEF MoveOver, MovedOver, Goto
  <1>2. /\ Listed(data, Right, at, on) /\ HeapTypes /\ Null \notin Node /\ Exclusive(t)
    BY TypeParts, Ends DEF Shape, LInv, Exclusive
  <1>3. data \in [Node -> Seq(EntryType)] /\ at \in [Node -> Level] /\ on \subseteq Node
    BY <1>2 DEF Listed
  <1>4. /\ c \in on \ Lasts /\ c \in Node /\ k \in Key /\ k \in Int /\ at[c] = h /\ k # NoKey
        /\ Hit(data[c], k) /\ data[c] \in Seq(EntryType) /\ Ascending(data[c]) /\ data[c] # <<>>
        /\ c \notin Firsts => \A f \in EntriesOf(data[c]) : f.key # NoKey
    <2>1. c \in on \ Lasts /\ c \in Node /\ k \in Key /\ at[c] = h
      BY <1>1, SeekStart DEF Waiting
    <2>2. Hit(data[c], k)
      BY <1>1 DEF Shape, ThreadInv, CurInv
    <2>3. /\ data[c] \in Seq(EntryType) /\ Ascending(data[c]) /\ data[c] # <<>>
          /\ c \notin Firsts => \A f \in EntriesOf(data[c]) : f.key # NoKey
      BY <1>2, <2>1, NodeFacts
    <2> QED
      BY <2>1, <2>2, <2>3, CallAssumption
  <1>5. n \in alive \ on /\ n \in Node /\ n # c /\ c \in alive
    <2>1. n \in alive \ on /\ on \subseteq alive /\ alive \subseteq Node
      BY <1>1, HeldAlive
    <2> QED
      BY <1>4, <2>1
  <1>6. /\ next[c] = Right[c] /\ Right[c] \in on /\ Right[c] # c
        /\ Right[c] \notin Lasts => /\ Before(data[c], Start(data, Right[c]))
                                    /\ Start(data, Right[c]) \in Int
    <2>1. /\ next[c] = Right[c] /\ Right[c] \in on /\ Right[c] # c /\ Right[c] \notin Firsts
          /\ Right[c] \notin Lasts => Before(data[c], Start(data, Right[c]))
      BY <1>1, NextOf DEF OnLevel
    <2> QED
      BY <1>2, <2>1, StartInt
  \* What the two nodes get.
  <1>7. /\ i \in 0 .. Len(data[c]) /\ Len(data[c]) \in Nat
        /\ s \in Seq(EntryType) /\ Ascending(s) /\ Len(s) <= Len(data[c])
        /\ EntriesOf(s) = {f \in EntriesOf(data[c]) : f.key = NoKey \/ f.key < k}
        /\ i > 0 => s # <<>> /\ s[1] = data[c][1]
    <2>1. i \in 0 .. Len(data[c])
      BY <1>4, PassedSplits
    <2>2. Len(data[c]) \in Nat
      BY <1>4, EntrySeq
    <2>3. /\ s \in Seq(EntryType) /\ Ascending(s) /\ Len(s) <= Len(data[c])
          /\ EntriesOf(s) = {f \in EntriesOf(data[c]) : f.key = NoKey \/ f.key < k}
          /\ i > 0 => s # <<>> /\ s[1] = data[c][1]
      BY <1>4, FrontEntries
    <2> QED
      BY <2>1, <2>2, <2>3
  <1>8. /\ r \in Seq(EntryType) /\ Ascending(r) /\ Len(r) <= Len(data[c])
        /\ EntriesOf(r) = {f \in EntriesOf(data[c]) : f.key # NoKey /\ f.key >= k}
        /\ r # <<>> /\ r[1].key = k
    <2>1. data[c][i + 1].key = k
      BY <1>4, HitEntry
    <2>2. /\ r \in Seq(EntryType) /\ Ascending(r) /\ Len(r) <= Len(data[c])
          /\ EntriesOf(r) = {f \in EntriesOf(data[c]) : f.key # NoKey /\ f.key >= k}
          /\ r # <<>> /\ r[1] = data[c][i + 1]
      BY <1>4, BackEntries
    <2> QED
      BY <2>1, <2>2
  <1>9. Hit(r, k)
    <2>1. r[1] \in EntriesOf(r)
      BY <1>8, EntryOrder
    <2> HIDE DEF r
    <2> QED
      BY <1>4, <1>8, <2>1, HitFinds
  <1>10. i = 0 => s = <<>> /\ r = data[c]
    <2> SUFFICES ASSUME i = 0 PROVE s = <<>> /\ r = data[c]
      OBVIOUS
    <2>1. Len(UpTo(data[c], 0)) = 0 /\ UpTo(data[c], 0) \in Seq(EntryType)
      BY <1>4, <1>7, Pieces
    <2>2. s = <<>>
      BY <2>1, EntrySeq
    <2>3. r = data[c]
      BY <1>4, <1>7 DEF After
    <2> QED
      BY <2>2, <2>3
  <1> HIDE DEF s, r, i
  <1>11. /\ data' \in [Node -> Seq(EntryType)] /\ data'[c] = s /\ data'[n] = r
         /\ \A m \in Node : m # c /\ m # n => data'[m] = data[m]
    BY <1>1, <1>3, <1>4, <1>5, <1>7, <1>8
  <1>12. /\ next' \in [Node -> Pointer] /\ next'[c] = n /\ next'[n] = next[c]
         /\ \A m \in Node : m \notin {c, n} => next'[m] = next[m]
    <2>1. next \in [Node -> Pointer] /\ next[c] \in Pointer /\ n \in Pointer
      BY <1>2, <1>4, <1>5 DEF HeapTypes, Pointer
    <2> QED
      BY <1>1, <1>4, <1>5, <2>1
  <1>13. HeapTypes'
    <2>1. ASSUME NEW m \in Node PROVE Len(data'[m]) <= ArraySize
      <3>0. Len(s) \in Nat /\ Len(r) \in Nat /\ ArraySize \in Nat /\ Len(data[c]) <= ArraySize
        BY <1>2, <1>4, <1>7, <1>8, EntrySeq, BAssumption DEF HeapTypes
      <3>1. CASE m = c
        BY <1>7, <1>11, <3>0, <3>1
      <3>2. CASE m = n
        BY <1>7, <1>8, <1>11, <3>0, <3>2
      <3>3. CASE m # c /\ m # n
        BY <1>2, <1>11, <3>3 DEF HeapTypes
      <3> QED
        BY <3>1, <3>2, <3>3
    <2> QED
      BY <1>1, <1>2, <1>11, <1>12, <2>1 DEF HeapTypes
  <1>14. /\ pc'[t] = (IF i = 0 THEN "relink" ELSE "settle")
         /\ cur'[t] = n /\ insertNode'[t] = Null /\ prev'[t] = p /\ nextNode'[t] = nextNode[t]
         /\ op'[t] = op[t] /\ height'[t] = h /\ index'[t] = index[t] /\ removed'[t] = removed[t]
         /\ reply'[t] = reply[t] /\ OnlyOwn(t)
    BY <1>1, TypeParts, SameLocals DEF LInv, LocalTypes, OnlyOwn, scan
  <1>15. Others(t)
    BY <1>14, OwnOnly
  <1>16. i = 0 => /\ c \notin Firsts /\ Start(data, c) = k /\ p # Null /\ p \in on \ Lasts
                  /\ p # c /\ p \in Node /\ Right[p] = c /\ next[p] = c
    BY <1>1, <1>2, FirstHit DEF i
  <1>17. Inserted(on, t, n)
    <2>1. pc[t] = "hit" /\ (pc'[t] = "relink" => prev'[t] = p /\ p # Null)
      BY <1>1, <1>14, <1>16
    <2> QED
      BY <1>5, <1>12, <2>1 DEF Inserted
  <1>18. /\ \A u \in Thread : u # t /\ pc[u] = "relink" => Leftover(u)' = Leftover(u)
         /\ \A m \in on : m # c /\ (i = 0 => m # p) => Right'[m] = Right[m]
         /\ Right'[c] = n /\ Right'[n] = Right[c]
         /\ i = 0 => Right'[p] = n
    <2>1. pc'[t] = "relink" <=> i = 0
      BY <1>14
    <2> QED
      BY <1>15, <1>16, <1>17, <2>1, InsertedRight
  <1>19. /\ at2 \in [Node -> Level] /\ at2[n] = at[c] /\ at2[n] = h
         /\ \A m \in Node : m # n => at2[m] = at[m]
    BY <1>3, <1>4, <1>5
  <1>20. \A f \in EntriesOf(r) : f.key # NoKey
    BY <1>8
  <1>21. \A m \in on : at2[m] = at[m]
    BY <1>3, <1>5, <1>19
  <1> HIDE DEF at2
  <1>22. CASE i > 0
    <2>1. on2 = on \cup {n} /\ i # 0
      BY <1>22
    <2>2. Split(data, Right, at, on, c, s, n, r, data', Right', at2, on2)
      <3>1. s[1].key = Start(data, c)
        BY <1>7, <1>22 DEF Start
      <3>2. c \notin Firsts => \A f \in EntriesOf(s) : f.key # NoKey
        BY <1>4, <1>7
      <3>3. Before(s, r[1].key)
        BY <1>7, <1>8 DEF Before
      <3>4. Right[c] \notin Lasts => Before(r, Start(data, Right[c]))
        BY <1>6, <1>8 DEF Before
      <3> QED
        BY <1>4, <1>5, <1>7, <1>8, <1>11, <1>18, <1>19, <1>20, <1>21, <1>22, <2>1,
           <3>1, <3>2, <3>3, <3>4 DEF Split
    <2> HIDE DEF on2
    <2>3. /\ Listed(data', Right', at2, on2) /\ Start(data', n) = k
          /\ \A m \in on : Start(data', m) = Start(data, m)
      BY <1>2, <1>8, <2>2, ListSplit
    <2>4. Merges(at, on, t, n, at2, on2)
      <3>1. \A f \in EntriesOf(data'[c]) \cup EntriesOf(data'[n]) : f \in EntriesOf(data[c])
        BY <1>7, <1>8, <1>11
      <3>2. \A m \in Node : m \notin {c, n} => data'[m] = data[m] /\ next'[m] = next[m]
        BY <1>11, <1>12
      <3>3. pc'[t] = "settle"
        BY <1>14, <2>1
      <3> QED
        BY <1>1, <1>9, <1>11, <1>13, <1>14, <1>18, <1>19, <2>1, <2>3, <3>1, <3>2, <3>3 DEF Merges
    <2> QED
      BY <2>4, MergeKeeps
  <1>23. CASE i = 0
    <2> DEFINE D1 == [data EXCEPT ![c] = <<>>]
               X1 == [Right EXCEPT ![p] = Right[c]]
               on1 == on \ {c}
    <2>1. /\ c \notin Firsts /\ Start(data, c) = k /\ p # Null /\ p \in on \ Lasts
          /\ p # c /\ p \in Node /\ Right[p] = c /\ next[p] = c
      BY <1>16, <1>23
    <2>2. on2 = on1 \cup {n}
      BY <1>23
    <2>3. /\ D1 \in [Node -> Seq(EntryType)] /\ D1[c] = <<>>
          /\ \A m \in Node : m # c => D1[m] = data[m]
      BY <1>3, <1>4, EmptySeq
    <2>4. X1[p] = Right[c] /\ \A m \in on1 : m # p => X1[m] = Right[m]
      BY <1>3, <2>1 DEF Right
    <2> HIDE DEF D1, X1
    <2>5. Unlinked(data, Right, on, c, p, D1, X1, on1)
      BY <1>4, <2>1, <2>3, <2>4 DEF Unlinked
    <2>6. /\ Listed(D1, X1, at, on1)
          /\ \A m \in on : m # c => Start(D1, m) = Start(data, m)
      BY <1>2, <2>5, ListUnlink
    <2>7. /\ data[p] \in Seq(EntryType) /\ Ascending(data[p]) /\ data[p] # <<>>
          /\ p \notin Firsts => \A f \in EntriesOf(data[p]) : f.key # NoKey
      BY <1>2, <2>1, NodeFacts
    <2>8. p # n /\ D1[p] = data[p] /\ D1[n] = data[n] /\ data'[p] = data[p]
      BY <1>5, <1>11, <2>1, <2>3
    <2>9. Split(D1, X1, at, on1, p, data[p], n, r, data', Right', at2, on2)
      <3>1. data[p][1].key = Start(D1, p)
        BY <2>8 DEF Start
      <3>2. Before(data[p], r[1].key)
        <4>1. Right[p] \notin Lasts
          BY <1>4, <2>1
        <4>2. Before(data[p], Start(data, Right[p]))
          BY <1>2, <2>1, <4>1 DEF Listed
        <4> QED
          BY <1>8, <2>1, <4>2
      <3>3. X1[p] \notin Lasts => Before(r, Start(D1, X1[p]))
        <4> SUFFICES ASSUME Right[c] \notin Lasts PROVE Before(r, Start(D1, Right[c]))
          BY <2>4
        <4>1. Start(D1, Right[c]) = Start(data, Right[c])
          BY <1>6, <2>6
        <4> QED
          BY <1>6, <1>8, <4>1 DEF Before
      <3>4. \A m \in Node : m # p /\ m # n => data'[m] = D1[m]
        <4> SUFFICES ASSUME NEW m \in Node, m # p, m # n PROVE data'[m] = D1[m]
          OBVIOUS
        <4>1. CASE m = c
          BY <1>10, <1>11, <1>23, <2>3, <4>1
        <4>2. CASE m # c
          BY <1>11, <2>3, <4>2
        <4> QED
          BY <4>1, <4>2
      <3>5. Right'[p] = n /\ Right'[n] = X1[p] /\ \A m \in on1 : m # p => Right'[m] = X1[m]
        BY <1>18, <1>23, <2>4
      <3>6. at2[n] = at[p]
        <4>1. at[p] = at[c]
          BY <1>2, <2>1 DEF Listed
        <4> QED
          BY <1>19, <4>1
      <3>7. p \in on1 \ Lasts /\ n \in Node \ on1 /\ \A m \in on1 : at2[m] = at[m]
        BY <1>5, <1>21, <2>1
      <3> HIDE DEF on1, on2
      <3> QED
        BY <1>8, <1>11, <1>19, <1>20, <2>2, <2>7, <2>8, <3>1, <3>2, <3>3, <3>4, <3>5, <3>6, <3>7
           DEF Split
    <2> HIDE DEF on2
    <2>10. /\ Listed(data', Right', at2, on2) /\ Start(data', n) = k
           /\ \A m \in on1 : Start(data', m) = Start(D1, m)
      <3> HIDE DEF on1
      <3> QED
        BY <1>8, <2>6, <2>9, ListSplit
    <2>11. Merges(at, on, t, n, at2, on2)
      <3>1. \A f \in EntriesOf(data'[c]) \cup EntriesOf(data'[n]) : f \in EntriesOf(data[c])
        BY <1>7, <1>8, <1>11
      <3>2. \A m \in Node : m \notin {c, n} => data'[m] = data[m] /\ next'[m] = next[m]
        BY <1>11, <1>12
      <3>3. pc'[t] = "relink"
        BY <1>14, <1>23
      <3>4. \A m \in on \cap on2 : Start(data', m) = Start(data, m)
        BY <1>5, <2>2, <2>6, <2>10
      <3>5. \A m \in on : m \notin {c, p} => Right'[m] = Right[m]
        BY <1>18
      <3> QED
        BY <1>1, <1>9, <1>11, <1>12, <1>13, <1>14, <1>18, <1>19, <2>1, <2>2, <2>10,
           <3>1, <3>2, <3>3, <3>4, <3>5 DEF Merges
    <2> QED
      BY <2>11, MergeKeeps
  <1> QED
    <2>1. i > 0 \/ i = 0
      BY <1>7
    <2> QED
      BY <1>22, <1>23, <2>1

-----------------------------------------------------------------------------
(* The whole program.                                                      *)

\* Every step of a get keeps the invariant.
LEMMA GetKeeps ==
  ASSUME LInv, NEW at, NEW on, Shape(at, on), NEW t \in Thread, Get(t)
  PROVE  Inv'
  <1>1. op[t].name = "get"
    BY DEF Get
  <1>2. ~Exclusive(t) /\ ~MayWrite(t)
    BY <1>1, ModeOf
  <1>3. "shared" \in Modes
    BY DEF Modes
  <1>4. CASE Enter(t, "shared")
    BY <1>2, <1>3, <1>4, EnterKeeps
  <1>5. CASE StopShort(t, "shared")
    BY <1>5, StopShortKeeps
  <1>6. CASE MoveRight(t)
    BY <1>2, <1>6, MoveRightKeeps
  <1>7. CASE GoDown(t, "shared", "shared")
    BY <1>1, <1>2, <1>3, <1>7, GoDownKeeps DEF Working
  <1>8. CASE pc[t] \in {"hit", "tower"} /\ DescendTower(t, "shared", "shared")
    BY <1>1, <1>2, <1>3, <1>8, DescendTowerKeeps
  <1>9. CASE OffTheBottom(t, "shared", <<"get", op[t].key, NoValue>>)
    BY <1>1, <1>9, OffTheBottomKeeps
  <1>10. CASE ReadValue(t)
    BY <1>1, <1>10, ReadValueKeeps
  <1> QED
    BY <1>4, <1>5, <1>6, <1>7, <1>8, <1>9, <1>10 DEF Get

\* Every step of an insert above the level of its key does.
LEMMA SearchKeeps ==
  ASSUME LInv, NEW at, NEW on, Shape(at, on), NEW t \in Thread, op[t].name = "insert",
         ~Working(t, height[t]), Search(t)
  PROVE  Inv'
  <1>1. ~Exclusive(t)
    BY DEF Exclusive
  <1>2. "shared" \in Modes /\ TowerMode(t) \in Modes /\ DownMode(t) \in Modes
    BY DEF Modes, TowerMode, DownMode
  <1>3. CASE Enter(t, "shared")
    BY <1>1, <1>2, <1>3, EnterKeeps
  <1>4. CASE StopShort(t, "shared")
    BY <1>4, StopShortKeeps
  <1>5. CASE MoveRight(t)
    BY <1>1, <1>5, MoveRightKeeps
  <1>6. CASE GoDown(t, DownMode(t), "shared")
    <2>1. pc[t] = "below"
      <3>1. pc[t] \in {"below", "sink"}
        BY <1>6 DEF GoDown
      <3>2. pc[t] # "sink"
        BY DEF Shape, ThreadInv, CallInv
      <3> QED
        BY <3>1, <3>2
    <2>2. ~MayWrite(t)
      BY <1>1, <2>1, ModeOf
    <2>3. DownMode(t) = "exclusive" <=> op[t].name = "remove" \/ Working(t, height[t] - 1)
      <3>1. height[t] \in Int /\ op[t].level \in Int
        BY Types DEF LInv
      <3> QED
        BY <3>1 DEF DownMode, Working
    <2> QED
      BY <1>1, <1>2, <1>6, <2>2, <2>3, GoDownKeeps
  <1>7. CASE pc[t] = "hit" /\ DescendTower(t, TowerMode(t), "shared")
    <2>1. ~MayWrite(t)
      BY <1>1, <1>7, ModeOf
    <2>2. TowerMode(t) = "exclusive" <=> op[t].name = "insert" /\ height[t] = 1
      BY DEF TowerMode
    <2> QED
      BY <1>1, <1>2, <1>7, <2>1, <2>2, DescendTowerKeeps
  <1> QED
    BY <1>3, <1>4, <1>5, <1>6, <1>7 DEF Search

\* Every step from there on does.
LEMMA WorkKeeps ==
  ASSUME LInv, NEW at, NEW on, Shape(at, on), NEW t \in Thread, op[t].name = "insert",
         Working(t, height[t]), Work(t)
  PROVE  Inv'
  <1>1. Exclusive(t)
    BY DEF Exclusive
  <1>2. "exclusive" \in Modes
    BY DEF Modes
  <1>3. CASE Enter(t, "exclusive")
    BY <1>1, <1>2, <1>3, EnterKeeps
  <1>4. CASE Allocate(t)
    BY <1>4, AllocateKeeps
  <1>5. CASE StopShort(t, "exclusive")
    BY <1>5, StopShortKeeps
  <1>6. CASE Trail(t)
    BY <1>1, <1>6, TrailKeeps
  <1>7. CASE Place(t)
    BY <1>7, PlaceKeeps
  <1>8. CASE pc[t] = "sink" /\ GoDown(t, "exclusive", "exclusive")
    <2>1. MayWrite(t)
      BY <1>8, ModeOf
    <2>2. Working(t, height[t] - 1)
      <3>1. height[t] \in Int /\ op[t].level \in Int
        BY Types DEF LInv
      <3> QED
        BY <3>1 DEF Working
    <2> QED
      BY <1>2, <1>8, <2>1, <2>2, GoDownKeeps
  <1>9. CASE MoveOver(t)
    BY <1>9, MoveOverKeeps
  <1>10. CASE Relink(t)
    BY <1>10, RelinkKeeps
  <1>11. CASE Settle(t)
    BY <1>11, SettleKeeps
  <1> QED
    BY <1>3, <1>4, <1>5, <1>6, <1>7, <1>8, <1>9, <1>10, <1>11 DEF Work

\* Every step of insert_or_modify does.
LEMMA InsertKeeps ==
  ASSUME LInv, NEW at, NEW on, Shape(at, on), NEW t \in Thread, Insert(t)
  PROVE  Inv'
  <1>1. op[t].name = "insert"
    BY DEF Insert
  <1>2. CASE ~Working(t, height[t]) /\ Search(t)
    BY <1>1, <1>2, SearchKeeps
  <1>3. CASE Working(t, height[t]) /\ Work(t)
    BY <1>1, <1>3, WorkKeeps
  <1>4. CASE pc[t] = "tower" /\ DescendTower(t, TowerMode(t), "shared")
    <2>1. height[t] # 0
      <3>1. At(t).down # Null
        BY <1>4 DEF DescendTower
      <3>2. Link(data, at, on, height[t], op[t].key, At(t).down)
        BY <1>4, FoundEntry
      <3>3. height[t] = 0 => At(t).down = Null
        BY <3>2 DEF Shape, DownInv
      <3> QED
        BY <3>1, <3>3
    <2>2. ~MayWrite(t)
      BY <1>4, <2>1, ModeOf
    <2>3. /\ TowerMode(t) \in Modes /\ "shared" \in Modes
          /\ TowerMode(t) = "exclusive" <=> op[t].name = "insert" /\ height[t] = 1
      BY <1>1 DEF TowerMode, Modes
    <2> QED
      BY <1>1, <1>4, <2>2, <2>3, DescendTowerKeeps
  <1>5. CASE pc[t] = "merged" /\ DescendTower(t, "exclusive", "exclusive")
    <2>1. MayWrite(t)
      BY <1>5, ModeOf
    <2>2. "exclusive" \in Modes
      BY DEF Modes
    <2> QED
      BY <1>1, <1>5, <2>1, <2>2, DescendTowerKeeps
  <1>6. CASE WriteValue(t)
    BY <1>1, <1>6, WriteValueKeeps
  <1> QED
    BY <1>2, <1>3, <1>4, <1>5, <1>6 DEF Insert

\* Every step of a remove does.
LEMMA RemoveKeeps ==
  ASSUME LInv, NEW at, NEW on, Shape(at, on), NEW t \in Thread, Remove(t)
  PROVE  Inv'
  <1>1. op[t].name = "remove"
    BY DEF Remove
  <1>2. Exclusive(t) /\ MayWrite(t)
    BY <1>1, ModeOf
  <1>3. "exclusive" \in Modes
    BY DEF Modes
  <1>4. CASE Enter(t, "exclusive")
    BY <1>2, <1>3, <1>4, EnterKeeps
  <1>5. CASE StopShort(t, "exclusive")
    BY <1>5, StopShortKeeps
  <1>6. CASE Trail(t)
    BY <1>2, <1>6, TrailKeeps
  <1>7. CASE GoDown(t, "exclusive", "exclusive")
    BY <1>1, <1>2, <1>3, <1>7, GoDownKeeps
  <1>8. CASE DeleteEntry(t)
    BY <1>1, <1>8, DeleteEntryKeeps
  <1>9. CASE DeleteNode(t)
    BY <1>1, <1>9, DeleteNodeKeeps
  <1>10. CASE OffTheBottom(t, "exclusive", NoReply)
    BY <1>1, <1>10, OffTheBottomKeeps
  <1> QED
    BY <1>4, <1>5, <1>6, <1>7, <1>8, <1>9, <1>10 DEF Remove

\* Every step of a range does.
LEMMA RangeCallKeeps ==
  ASSUME LInv, NEW at, NEW on, Shape(at, on), NEW t \in Thread, RangeCall(t)
  PROVE  Inv'
  <1>1. op[t].name = "range"
    BY DEF RangeCall
  <1>2. ~Exclusive(t) /\ ~MayWrite(t)
    BY <1>1, ModeOf
  <1>3. "shared" \in Modes
    BY DEF Modes
  <1>4. CASE Enter(t, "shared")
    BY <1>2, <1>3, <1>4, EnterKeeps
  <1>5. CASE height[t] > 0 /\ StopShort(t, "shared")
    BY <1>5, StopShortKeeps
  <1>6. CASE MoveRight(t)
    BY <1>2, <1>6, MoveRightKeeps
  <1>7. CASE GoDown(t, "shared", "shared")
    BY <1>1, <1>2, <1>3, <1>7, GoDownKeeps DEF Working
  <1>8. CASE pc[t] \in {"hit", "tower"} /\ DescendTower(t, "shared", "shared")
    BY <1>1, <1>2, <1>3, <1>8, DescendTowerKeeps
  <1>9. CASE StartHere(t)
    BY <1>1, <1>9, StartHereKeeps
  <1>10. CASE StartNext(t)
    BY <1>1, <1>10, RangeRightKeeps
  <1>11. CASE Emit(t)
    BY <1>1, <1>11, EmitKeeps
  <1>12. CASE StepInNode(t)
    BY <1>1, <1>12, StepInNodeKeeps
  <1>13. CASE StepRight(t)
    BY <1>1, <1>13, RangeRightKeeps
  <1>14. CASE RangeDone(t)
    BY <1>1, <1>14, RangeDoneKeeps
  <1> QED
    BY <1>4, <1>5, <1>6, <1>7, <1>8, <1>9, <1>10, <1>11, <1>12, <1>13, <1>14 DEF RangeCall

\* So does a step that changes nothing.
LEMMA StutterKeeps ==
  ASSUME LInv, NEW at, NEW on, Shape(at, on), UNCHANGED vars
  PROVE  Inv'
  <1>1. /\ data' = data /\ next' = next /\ alive' = alive /\ owner' = owner /\ shared' = shared
        /\ pc' = pc /\ op' = op /\ height' = height /\ cur' = cur /\ prev' = prev
        /\ nextNode' = nextNode /\ insertNode' = insertNode /\ index' = index
        /\ removed' = removed /\ reply' = reply
    BY DEF vars, heap, locks, fresh, scan
  <1>2. LInv'
    BY <1>1 DEF LInv, TypeOK, Alone, Holds, HeldExclusive, HeldShared, MayWrite, Working
  <1>3. Right' = Right
    BY <1>1 DEF Right
  <1>4. Listed(data', Right', at, on)
    BY <1>1, <1>3 DEF Shape
  <1>5. DownInv(at, on)'
    BY <1>1 DEF Shape, DownInv, Stands, Waits, WaitLevel
  <1>6. Accounted(on)'
    BY <1>1 DEF Shape, Accounted, Leftover
  <1>7. ASSUME NEW t \in Thread PROVE ThreadInv(at, on, t)'
    <2>1. ThreadInv(at, on, t)
      BY DEF Shape
    <2>2. CallInv(t)' /\ CurInv(at, on, t)'
      BY <1>1, <1>3, <2>1 DEF ThreadInv, CallInv, CurInv, Working
    <2>3. PrevInv(at, on, t)'
      BY <1>1, <1>3, <2>1 DEF ThreadInv, PrevInv, Exclusive, Working, Leftover
    <2>4. NewInv(on, t)' /\ SinkInv(at, on, t)' /\ TowersPassed(at, on, t)'
      BY <1>1, <1>3, <2>1 DEF ThreadInv, NewInv, SinkInv, TowersPassed, Working
    <2> QED
      BY <2>2, <2>3, <2>4 DEF ThreadInv
  <1>8. \A t, u \in Thread : t # u => InFront(at, on, u, t)'
    BY <1>1 DEF Shape, InFront
  <1>9. Shape(at, on)'
    BY <1>4, <1>5, <1>6, <1>7, <1>8 DEF Shape
  <1> QED
    BY <1>2, <1>9 DEF Inv

\* Every step of every thread keeps the invariant.
LEMMA NextKeeps == Inv /\ [Next]_vars => Inv'
  <1> SUFFICES ASSUME Inv, [Next]_vars PROVE Inv'
    OBVIOUS
  <1>1. LInv
    BY DEF Inv
  <1>2. PICK at, on : Shape(at, on)
    BY DEF Inv
  <1>3. CASE UNCHANGED vars
    BY <1>1, <1>2, <1>3, StutterKeeps
  <1>4. ASSUME NEW t \in Thread, NEW o \in Ops(GenLevels), Call(t, o) PROVE Inv'
    BY <1>1, <1>2, <1>4, CallKeeps
  <1>5. ASSUME NEW t \in Thread, Step(t) PROVE Inv'
    BY <1>1, <1>2, <1>5, GetKeeps, InsertKeeps, RemoveKeeps, RangeCallKeeps, ReturnKeeps DEF Step
  <1> QED
    BY <1>3, <1>4, <1>5 DEF Next

\* The constructor builds empty lists, one above the other.
LEMMA InitKeeps == Init => Inv
  <1> SUFFICES ASSUME Init PROVE Inv
    OBVIOUS
  <1> DEFINE head(n) == CHOOSE i \in Level : n = First[i]
             tail(n) == CHOOSE i \in Level : n = Last[i]
             e(i) == Entry(NoKey, NoValue, IF i > 0 THEN First[i - 1] ELSE Null)
             at == [n \in Node |-> IF n \in Firsts THEN head(n)
                                   ELSE IF n \in Lasts THEN tail(n) ELSE 0]
             on == Sentinel
  <1>1. /\ Firsts \subseteq Node /\ Lasts \subseteq Node /\ Firsts \cap Lasts = {}
        /\ on = Firsts \cup Lasts
        /\ \A i \in Level : First[i] \in Firsts /\ Last[i] \in Lasts
        /\ \A n \in Firsts : \E i \in Level : n = First[i]
        /\ \A n \in Lasts : \E i \in Level : n = Last[i]
        /\ Null \notin Node
    BY Ends
  <1>2. ASSUME NEW i \in Level PROVE head(First[i]) = i /\ tail(Last[i]) = i
    BY BAssumption
  <1>3. 0 \in Level /\ MaxHeight - 1 \in Level /\ Level \subseteq Int /\ \A i \in Level : i > 0 => i - 1 \in Level
    BY CallAssumption DEF Level
  <1>4. at \in [Node -> Level] /\ \A i \in Level : at[First[i]] = i /\ at[Last[i]] = i
    <2>1. \A i \in Level : at[First[i]] = i /\ at[Last[i]] = i
      BY <1>1, <1>2
    <2>2. ASSUME NEW n \in Node PROVE at[n] \in Level
      <3>1. CASE n \in Firsts
        BY <1>1, <2>1, <3>1
      <3>2. CASE n \in Lasts
        BY <1>1, <2>1, <3>2
      <3>3. CASE n \notin Firsts /\ n \notin Lasts
        BY <1>3, <3>3
      <3> QED
        BY <3>1, <3>2, <3>3
    <2> QED
      BY <2>1, <2>2
  <1>5. \A i \in Level : e(i) \in EntryType /\ e(i).key = NoKey
    BY <1>1, <1>3 DEF Entry, EntryType, Pointer
  <1>6. /\ \A i \in Level : data[First[i]] = <<e(i)>> /\ next[First[i]] = Last[i]
        /\ \A n \in Node \ Firsts : data[n] = <<>> /\ next[n] = Null
    <2>1. ASSUME NEW i \in Level PROVE data[First[i]] = <<e(i)>> /\ next[First[i]] = Last[i]
      <3>1. head(First[i]) = i /\ First[i] \in Node /\ \E j \in Level : First[i] = First[j]
        BY <1>1, <1>2
      <3>2. data[First[i]] = <<e(head(First[i]))>>
        BY <3>1 DEF Init
      <3>3. next[First[i]] = Last[head(First[i])]
        BY <3>1 DEF Init
      <3> QED
        BY <3>1, <3>2, <3>3
    <2>2. ASSUME NEW n \in Node \ Firsts PROVE data[n] = <<>> /\ next[n] = Null
      <3>1. ~\E i \in Level : n = First[i]
        BY <1>1, <2>2
      <3> QED
        BY <3>1 DEF Init
    <2> QED
      BY <2>1, <2>2
  <1> HIDE DEF e, at, on
  <1>7. \A i \in Level : /\ Len(<<e(i)>>) = 1 /\ <<e(i)>>[1] = e(i) /\ <<e(i)>> # <<>>
                         /\ <<e(i)>> \in Seq(EntryType) /\ DOMAIN <<e(i)>> = {1}
                         /\ EntriesOf(<<e(i)>>) = {e(i)}
    BY <1>5 DEF EntriesOf
  <1>8. EntriesOf(<<>>) = {} /\ <<>> \in Seq(EntryType) /\ Len(<<>>) = 0
    BY EntrySeq, EmptySeq
  <1>9. \A n \in Node : data[n] \in Seq(EntryType) /\ Len(data[n]) <= 1
    <2> SUFFICES ASSUME NEW n \in Node PROVE data[n] \in Seq(EntryType) /\ Len(data[n]) <= 1
      OBVIOUS
    <2>1. CASE n \in Firsts
      <3>1. PICK i \in Level : n = First[i]
        BY <1>1, <2>1
      <3>2. data[n] = <<e(i)>>
        BY <1>6, <3>1
      <3>3. Len(data[n]) = 1 /\ data[n] \in Seq(EntryType)
        BY <1>7, <3>2
      <3> QED
        BY <3>3
    <2>2. CASE n \notin Firsts
      <3>1. data[n] = <<>>
        BY <1>6, <2>2
      <3>2. Len(data[n]) = 0 /\ data[n] \in Seq(EntryType)
        BY <1>8, <3>1
      <3> QED
        BY <3>2
    <2> QED
      BY <2>1, <2>2
  <1>10. /\ data \in [Node -> Seq(EntryType)] /\ next \in [Node -> Pointer] /\ alive = on
    <2>1. data = [n \in Node |-> data[n]] /\ next = [n \in Node |-> next[n]]
      BY DEF Init
    <2>2. \A n \in Node : next[n] \in Pointer
      BY <1>1, <1>6 DEF Pointer
    <2>3. alive = on
      BY DEF Init, on
    <2> QED
      BY <1>9, <2>1, <2>2, <2>3
  <1>11. ASSUME NEW t \in Thread
         PROVE  /\ pc[t] = "idle" /\ op[t] = IdleOp /\ height[t] = 0 /\ cur[t] = Null /\ prev[t] = Null
                /\ nextNode[t] = Null /\ insertNode[t] = Null
                /\ HeldExclusive(t) = {} /\ HeldShared(t) = {}
    <2>1. /\ pc[t] = "idle" /\ op[t] = IdleOp /\ height[t] = 0 /\ cur[t] = Null /\ prev[t] = Null
          /\ nextNode[t] = Null /\ insertNode[t] = Null
      BY DEF Init
    <2> QED
      BY <2>1 DEF HeldExclusive, HeldShared
  <1>12. TypeOK
    <2>1. /\ owner \in [Node -> Thread \cup {NoThread}] /\ shared \in [Node -> SUBSET Thread]
      BY DEF Init
    <2>2. /\ op \in [Thread -> OpType] /\ height \in [Thread -> Level]
      <3>1. IdleOp \in OpType
        BY <1>3 DEF IdleOp, OpType
      <3> QED
        BY <1>3, <3>1 DEF Init
    <2>3. \A p \in {cur, prev, nextNode, insertNode} : p \in [Thread -> Pointer]
      BY DEF Init, Pointer
    <2>4. /\ index \in [Thread -> 0 .. ArraySize + 1] /\ removed \in [Thread -> BOOLEAN]
          /\ reply \in [Thread -> ReplyType]
      BY BAssumption DEF Init, NoReply, ReplyType
    <2>5. \A n \in Node : Len(data[n]) <= ArraySize
      <3> SUFFICES ASSUME NEW n \in Node PROVE Len(data[n]) <= ArraySize
        OBVIOUS
      <3>1. Len(data[n]) \in Nat /\ Len(data[n]) <= 1
        BY <1>9, EntrySeq
      <3> QED
        BY <3>1, BAssumption
    <2>6. alive \subseteq Node
      BY <1>1, <1>10
    <2>7. pc \in [Thread -> {"idle"}]
      BY DEF Init
    <2> QED
      BY <1>10, <2>1, <2>2, <2>3, <2>4, <2>5, <2>6, <2>7 DEF TypeOK
  <1>13. LInv
    <2>1. Alone
      BY DEF Alone, Init
    <2>2. ASSUME NEW t \in Thread PROVE Holds(t)
      <3>1. t # NoThread
        BY BAssumption
      <3>2. \A n \in Node : owner[n] = NoThread /\ shared[n] = {}
        BY DEF Init
      <3> QED
        BY <1>11, <3>1, <3>2 DEF Holds
    <2> QED
      BY <1>12, <2>1, <2>2 DEF LInv
  <1>14. \A n \in Node : Right[n] = next[n]
    BY <1>11 DEF Right
  <1>15. ASSUME NEW n \in Node PROVE NodeOK(data, on, n)
    <2>1. CASE n \in Firsts
      <3>1. PICK i \in Level : n = First[i]
        BY <1>1, <2>1
      <3>2. data[n] = <<e(i)>> /\ data[n][1] = e(i) /\ e(i).key = NoKey
        BY <1>5, <1>6, <1>7, <3>1
      <3>3. Ascending(data[n])
        BY <1>7, <3>2 DEF Ascending
      <3> QED
        BY <1>1, <1>7, <2>1, <3>2, <3>3 DEF NodeOK, Start
    <2>2. CASE n \notin Firsts
      <3>1. data[n] = <<>> /\ EntriesOf(data[n]) = {}
        BY <1>6, <1>8, <2>2
      <3>2. Ascending(data[n])
        BY <3>1 DEF Ascending
      <3> QED
        BY <1>1, <2>2, <3>1, <3>2 DEF NodeOK
    <2> QED
      BY <2>1, <2>2
  <1>16. Listed(data, Right, at, on)
    <2>1. \A n \in on \cap Lasts : Right[n] = Null
      BY <1>1, <1>6, <1>14
    <2>2. ASSUME NEW n \in on \ Lasts
          PROVE  Right[n] \in Lasts /\ Right[n] \in on /\ at[Right[n]] = at[n] /\ Left(data, n, Right[n])
      <3>1. PICK i \in Level : n = First[i]
        BY <1>1, <2>2
      <3>2. Right[n] = Last[i]
        BY <1>1, <1>6, <1>14, <3>1
      <3> QED
        BY <1>1, <1>4, <3>1, <3>2 DEF Left
    <2>3. ASSUME NEW m \in on, NEW n \in on, at[m] = at[n], Left(data, m, n) PROVE n = Right[m]
      <3>1. m \in Firsts /\ n \in Lasts
        BY <1>1, <2>3 DEF Left
      <3>2. PICK i \in Level : m = First[i]
        BY <1>1, <3>1
      <3>3. PICK j \in Level : n = Last[j]
        BY <1>1, <3>1
      <3> QED
        BY <1>1, <1>4, <1>6, <1>14, <2>3, <3>2, <3>3
    <2>4. ASSUME NEW m \in on, NEW n \in on, at[m] = at[n], m # n PROVE Left(data, m, n) \/ Left(data, n, m)
      <3>1. CASE m \in Firsts /\ n \in Firsts
        BY <1>1, <1>4, <2>4, <3>1
      <3>2. CASE m \in Lasts /\ n \in Lasts
        BY <1>1, <1>4, <2>4, <3>2
      <3>3. CASE (m \in Firsts /\ n \in Lasts) \/ (m \in Lasts /\ n \in Firsts)
        BY <1>1, <3>3 DEF Left
      <3> QED
        BY <1>1, <3>1, <3>2, <3>3
    <2>5. on \subseteq Node /\ Sentinel \subseteq on
      BY <1>1 DEF on
    <2> QED
      BY <1>4, <1>10, <1>15, <2>1, <2>2, <2>3, <2>4, <2>5 DEF Listed
  <1>17. DownInv(at, on)
    <2> SUFFICES ASSUME NEW i, NEW k, NEW d, Link(data, at, on, i, k, d)
                 PROVE  /\ i = 0 => d = Null
                        /\ i > 0 => Stands(at, on, d, i - 1, k)
      BY DEF DownInv
    <2>1. PICK n \in on : at[n] = i /\ \E f \in EntriesOf(data[n]) : f.key = k /\ f.down = d
      BY DEF Link
    <2>2. n \in Firsts
      BY <1>1, <1>6, <1>8, <2>1
    <2>3. n = First[i] /\ i \in Level
      BY <1>1, <1>4, <2>1, <2>2
    <2>4. k = NoKey /\ d = IF i > 0 THEN First[i - 1] ELSE Null
      <3>1. EntriesOf(data[n]) = {e(i)}
        BY <1>6, <1>7, <2>3
      <3> QED
        BY <2>1, <3>1 DEF e, Entry
    <2>5. ASSUME i > 0 PROVE Stands(at, on, d, i - 1, k)
      <3>1. i - 1 \in Level /\ d = First[i - 1]
        BY <1>3, <2>3, <2>4, <2>5
      <3>2. Start(data, d) = NoKey
        BY <1>5, <1>6, <1>7, <3>1 DEF Start
      <3> QED
        BY <1>1, <1>4, <2>4, <3>1, <3>2 DEF Stands
    <2>6. i = 0 => d = Null
      BY <2>4
    <2> QED
      BY <2>5, <2>6
  <1>18. Accounted(on)
    <2>1. \A n \in Node \ alive : next[n] = Null
      BY <1>1, <1>6, <1>10
    <2> QED
      BY <1>10, <2>1 DEF Accounted
  <1>19. ASSUME NEW t \in Thread PROVE ThreadInv(at, on, t)
    <2>1. CallInv(t)
      BY <1>11 DEF CallInv
    <2>2. CurInv(at, on, t)
      BY <1>11 DEF CurInv, OnLevel
    <2>3. PrevInv(at, on, t) /\ NewInv(on, t) /\ SinkInv(at, on, t) /\ TowersPassed(at, on, t)
      BY <1>11 DEF PrevInv, NewInv, SinkInv, TowersPassed, Seeking
    <2> QED
      BY <2>1, <2>2, <2>3 DEF ThreadInv
  <1>20. \A t, u \in Thread : InFront(at, on, u, t)
    BY <1>11 DEF InFront
  <1>21. Shape(at, on)
    BY <1>16, <1>17, <1>18, <1>19, <1>20 DEF Shape
  <1> QED
    BY <1>13, <1>21 DEF Inv

-----------------------------------------------------------------------------
(* The theorems.                                                           *)

\* The invariant holds of every state of the B-skiplist, for any number of threads
\* and calls, any keys, node size and number of levels.
THEOREM Invariant == Spec => []Inv
  <1>1. Init => Inv
    BY InitKeeps
  <1>2. Inv /\ [Next]_vars => Inv'
    BY NextKeeps
  <1> QED
    BY <1>1, <1>2, PTL DEF Spec

\* Every variable has its type; in particular insert_into_node never puts more than
\* ARRAY_SIZE entries into a node.
THEOREM TypeCorrect == Spec => []TypeOK
  <1>1. Inv => TypeOK
    BY DEF Inv, LInv
  <1> QED
    BY <1>1, Invariant, PTL

\* The locks of a thread are those its pointers and its mode say.
LEMMA InvHolds == Inv => LocksHeld
  <1> SUFFICES ASSUME Inv PROVE LocksHeld
    OBVIOUS
  <1>1. LInv
    BY DEF Inv
  <1>2. PICK at, on : Shape(at, on)
    BY DEF Inv
  <1>3. ASSUME NEW t \in Thread
        PROVE  /\ {n \in Node : owner[n] = t} = HeldExclusive(t)
               /\ {n \in Node : t \in shared[n]} = HeldShared(t)
               /\ pc[t] \in {"idle", "top", "ret"} => HeldExclusive(t) = {} /\ HeldShared(t) = {}
    <2>1. HeldExclusive(t) \subseteq Node /\ HeldShared(t) \subseteq Node
      BY <1>1, Types DEF LInv
    <2>2. Holds(t)
      BY <1>1 DEF LInv
    <2>3. pc[t] \in {"idle", "top", "ret"} => HeldExclusive(t) = {} /\ HeldShared(t) = {}
      BY <1>1, <1>2, RestHolds DEF Resting
    <2> HIDE DEF HeldExclusive, HeldShared
    <2> QED
      BY <2>1, <2>2, <2>3 DEF Holds
  <1>4. \A n \in Node : owner[n] # NoThread => shared[n] = {}
    BY <1>1 DEF LInv, Alone
  <1> QED
    BY <1>3, <1>4 DEF LocksHeld

\* At every point of a call a thread has exactly the mutexes of the nodes it points to,
\* each in the mode it will unlock it in, and whoever has one exclusively has it alone.
THEOREM LockDiscipline == Spec => []LocksHeld
  BY Invariant, InvHolds, PTL

\* Every pointer there is leads to a node of a list, or to one an insert holds.
LEMMA InvSafe == Inv => MemorySafe
  <1> SUFFICES ASSUME Inv PROVE MemorySafe
    OBVIOUS
  <1>1. LInv
    BY DEF Inv
  <1>2. PICK at, on : Shape(at, on)
    BY DEF Inv
  <1>3. Listed(data, Right, at, on) /\ Accounted(on)
    BY <1>2 DEF Shape
  <1>4. on \subseteq alive /\ Sentinel \subseteq on /\ alive \subseteq Node /\ Null \notin Node
    BY <1>1, <1>3, TypeParts, Ends DEF Listed, Accounted, LInv, HeapTypes
  <1>5. ASSUME NEW n \in alive PROVE next[n] \in alive \cup {Null}
    <2>1. CASE n \in on
      <3>1. CASE \E t \in Thread : pc[t] = "relink" /\ prev[t] = n
        <4>1. PICK t \in Thread : pc[t] = "relink" /\ prev[t] = n
          BY <3>1
        <4>2. Leftover(t) \in alive
          BY <1>2, <4>1 DEF Shape, ThreadInv, PrevInv
        <4> QED
          BY <4>1, <4>2 DEF Leftover
      <3>2. CASE ~\E t \in Thread : pc[t] = "relink" /\ prev[t] = n
        <4>1. next[n] = Right[n]
          BY <1>4, <3>2 DEF Right
        <4>2. Right[n] \in on \cup {Null}
          BY <1>3, <2>1 DEF Listed
        <4> QED
          BY <1>4, <4>1, <4>2
      <3> QED
        BY <3>1, <3>2
    <2>2. CASE n \notin on
      <3>1. PICK t \in Thread :
              n \in {nextNode[t], insertNode[t]} \/ (pc[t] = "relink" /\ n = Leftover(t))
        BY <1>3, <2>2 DEF Accounted
      <3>2. n # Null
        BY <1>4
      <3>3. CASE n \in {nextNode[t], insertNode[t]}
        BY <1>2, <3>2, <3>3 DEF Shape, ThreadInv, NewInv
      <3>4. CASE pc[t] = "relink" /\ n = Leftover(t)
        <4>1. next[n] = cur[t] /\ cur[t] \in on
          BY <1>2, <3>4 DEF Shape, ThreadInv, PrevInv, CurInv, OnLevel
        <4> QED
          BY <1>4, <4>1
      <3> QED
        BY <3>1, <3>3, <3>4
    <2> QED
      BY <2>1, <2>2
  <1>6. ASSUME NEW n \in alive, NEW j \in DOMAIN data[n] PROVE data[n][j].down \in alive \cup {Null}
    <2>1. data[n][j] \in EntriesOf(data[n])
      BY DEF EntriesOf
    <2>2. n \in on \ Lasts
      BY <1>3, <1>4, <2>1, NodeFacts
    <2>3. Link(data, at, on, at[n], data[n][j].key, data[n][j].down)
      BY <2>1, <2>2 DEF Link
    <2>4. at[n] = 0 \/ at[n] > 0
      BY <1>3, <1>4 DEF Listed, Level
    <2>5. \/ data[n][j].down = Null
          \/ Stands(at, on, data[n][j].down, at[n] - 1, data[n][j].key)
          \/ \E t \in Thread : Waits(t, at[n] - 1, data[n][j].key, data[n][j].down)
      BY <1>2, <2>3, <2>4 DEF Shape, DownInv
    <2>6. ASSUME NEW t \in Thread, Waits(t, at[n] - 1, data[n][j].key, data[n][j].down)
          PROVE  data[n][j].down \in alive
      BY <1>1, <1>2, <2>6, HeldAlive DEF Waits
    <2> QED
      BY <1>4, <2>5, <2>6 DEF Stands
  <1>7. ASSUME NEW t \in Thread
        PROVE  {cur[t], prev[t], nextNode[t], insertNode[t]} \subseteq alive \cup {Null} /\ pc[t] # "crash"
    <2>1. pc[t] # "crash"
      BY <1>2 DEF Shape, ThreadInv, CallInv
    <2> QED
      BY <1>1, <1>2, <2>1, HeldAlive
  <1> QED
    BY <1>4, <1>5, <1>6, <1>7 DEF MemorySafe

\* No pointer of a node or a call leads to a deleted node, no search runs off an
\* array, and prev is there wherever the comments in insert_or_modify and
\* delete_value say so.
THEOREM MemoryIsSafe == Spec => []MemorySafe
  BY Invariant, InvSafe, PTL

-----------------------------------------------------------------------------
(* Who changes nodes.                                                      *)

\* A step of t keeps the nodes in use that t does not have exclusively, but for
\* the one it has emptied, and it goes on to another point when it changes any.
Guarded(t) ==
  \A n \in alive :
    \/ n \in alive' /\ data'[n] = data[n] /\ next'[n] = next[n]
    \/ n \in HeldExclusive(t) /\ pc'[t] # pc[t]
    \/ pc[t] = "relink" /\ n = Leftover(t)

\* A step that changes only nodes of H is guarded when t has these.
LEMMA GuardedChange ==
  ASSUME LInv, NEW t \in Thread, NEW H, H \cap alive \subseteq HeldExclusive(t), pc'[t] # pc[t],
         \A n \in alive : n \notin H => n \in alive' /\ data'[n] = data[n] /\ next'[n] = next[n]
  PROVE  Guarded(t)
  BY DEF Guarded

\* The steps of an insert that change nodes.
LEMMA InsertGuarded ==
  ASSUME LInv, NEW at, NEW on, Shape(at, on), NEW t \in Thread, op[t].name = "insert",
         \/ Working(t, height[t]) /\ (Allocate(t) \/ Place(t) \/ MoveOver(t) \/ Relink(t) \/ Settle(t))
         \/ WriteValue(t)
  PROVE  Guarded(t)
  <1>1. /\ data \in [Node -> Seq(EntryType)] /\ next \in [Node -> Pointer] /\ alive \subseteq Node
        /\ pc \in [Thread -> Labels] /\ Null \notin Node
    BY Ends, TypeParts DEF LInv, TypeOK, Labels
  <1>2. ThreadInv(at, on, t)
    BY DEF Shape
  <1>3. CASE Working(t, height[t]) /\ Allocate(t)
    <2>1. /\ data' = data /\ next' = next /\ alive \subseteq alive'
      BY <1>3 DEF Allocate
    <2> QED
      BY <2>1 DEF Guarded
  <1>4. CASE Working(t, height[t]) /\ Place(t)
    <2> DEFINE c == cur[t]
               n == IF insertNode[t] = Null THEN Fresh(op[t].key, height[t]) ELSE insertNode[t]
               split == Splits(c, insertNode[t])
    <2>1. /\ pc[t] = "below"
          /\ split /\ insertNode[t] = Null => Vacant(op[t].key, height[t]) # {}
          /\ \E i, e : data' = Placed(data, c, n, i, e, split)
          /\ split => next' = [next EXCEPT ![c] = n, ![n] = next[c]] /\ alive' = alive \cup {n}
          /\ ~split => next' = next /\ alive' = alive
          /\ pc'[t] # "below"
      BY <1>1, <1>4 DEF Place, Stand, Goto
    <2>2. \A m \in alive : m \notin {c, n} => m \in alive' /\ data'[m] = data[m] /\ next'[m] = next[m]
      BY <1>1, <2>1 DEF Placed
    <2>3. ~split => \A m \in alive : m # c => m \in alive' /\ data'[m] = data[m] /\ next'[m] = next[m]
      BY <1>1, <2>1 DEF Placed
    <2>4. c \in HeldExclusive(t)
      BY <1>1, <1>2, <1>4, <2>1 DEF ThreadInv, CurInv, OnLevel, HeldExclusive, MayWrite
    <2>5. insertNode[t] # Null => insertNode[t] \in HeldExclusive(t)
      BY DEF HeldExclusive
    <2>6. CASE split
      <3>1. insertNode[t] = Null => n \notin alive
        BY <2>1, <2>6 DEF Fresh, Vacant
      <3>2. {c, n} \cap alive \subseteq HeldExclusive(t)
        BY <2>4, <2>5, <3>1
      <3> HIDE DEF n, c, split
      <3> QED
        BY <2>1, <2>2, <3>2, GuardedChange
    <2>7. CASE ~split
      <3>1. {c} \cap alive \subseteq HeldExclusive(t)
        BY <2>4
      <3>2. \A m \in alive : m \notin {c} => m \in alive' /\ data'[m] = data[m] /\ next'[m] = next[m]
        BY <2>3, <2>7
      <3> HIDE DEF n, c, split
      <3> QED
        BY <2>1, <3>1, <3>2, GuardedChange
    <2> QED
      BY <2>6, <2>7
  <1>5. CASE Working(t, height[t]) /\ MoveOver(t)
    <2> DEFINE c == cur[t]
               n == insertNode[t]
    <2>1. /\ pc[t] = "hit" /\ n # Null
          /\ \E i : data' = MovedOver(data, c, n, i)
          /\ next' = [next EXCEPT ![c] = n, ![n] = next[c]] /\ alive' = alive
          /\ pc'[t] # "hit"
      BY <1>1, <1>5 DEF MoveOver, Goto
    <2>2. \A m \in alive : m \notin {c, n} => m \in alive' /\ data'[m] = data[m] /\ next'[m] = next[m]
      BY <1>1, <2>1 DEF MovedOver
    <2>3. {c, n} \cap alive \subseteq HeldExclusive(t)
      BY <1>1, <1>2, <1>5, <2>1 DEF ThreadInv, CurInv, OnLevel, HeldExclusive, MayWrite
    <2> HIDE DEF c, n
    <2> QED
      BY <2>1, <2>2, <2>3, GuardedChange
  <1>6. CASE Relink(t)
    <2> DEFINE p == prev[t]
    <2>1. pc[t] = "relink" /\ p # Null /\ p \in HeldExclusive(t)
      BY <1>2, <1>6 DEF Relink, ThreadInv, PrevInv, HeldExclusive
    <2>2. /\ next' = [next EXCEPT ![p] = next[next[p]], ![next[p]] = Null]
          /\ alive' = alive \ {next[p]} /\ data' = data /\ pc'[t] = "settle"
      BY <1>1, <1>6, <2>1 DEF Relink, Skip, Goto
    <2>3. \A m \in alive : m \notin {p, next[p]} => m \in alive' /\ data'[m] = data[m] /\ next'[m] = next[m]
      BY <1>1, <2>2
    <2>4. next[p] = Leftover(t)
      BY DEF Leftover
    <2> HIDE DEF p
    <2> QED
      BY <2>1, <2>2, <2>3, <2>4 DEF Guarded
  <1>7. CASE Settle(t)
    <2>1. /\ data' = data /\ next' = next /\ alive' = alive \ {nextNode[t]} /\ pc'[t] = "merged"
          /\ pc[t] \in {"settle", "hit"}
      BY <1>1, <1>7 DEF Settle, Unneeded, Goto
    <2>2. {nextNode[t]} \cap alive \subseteq HeldExclusive(t)
      BY <1>1 DEF HeldExclusive
    <2>3. \A m \in alive : m \notin {nextNode[t]} => m \in alive' /\ data'[m] = data[m] /\ next'[m] = next[m]
      BY <2>1
    <2> QED
      BY <2>1, <2>2, <2>3, GuardedChange
  <1>8. CASE WriteValue(t)
    <2> DEFINE c == cur[t]
    <2>1. /\ pc[t] \in {"tower", "merged"} /\ pc'[t] = "ret" /\ next' = next /\ alive' = alive
          /\ \E s : data' = [data EXCEPT ![c] = s]
          /\ At(t).down = Null
      BY <1>1, <1>8 DEF WriteValue, Leave, Stand, Goto
    <2>2. c \in HeldExclusive(t)
      <3>1. height[t] = 0
        BY <2>1, AtTheFoot
      <3> QED
        BY <1>1, <1>2, <2>1, <3>1 DEF ThreadInv, CurInv, OnLevel, HeldExclusive, MayWrite
    <2>3. \A m \in alive : m \notin {c} => m \in alive' /\ data'[m] = data[m] /\ next'[m] = next[m]
      BY <1>1, <2>1
    <2>4. {c} \cap alive \subseteq HeldExclusive(t)
      BY <2>2
    <2> HIDE DEF c
    <2> QED
      BY <2>1, <2>3, <2>4, GuardedChange
  <1> QED
    BY <1>3, <1>4, <1>5, <1>6, <1>7, <1>8

\* Without its key, no node of the list leads a remove to an entry of the key.
LEMMA NoSecondHit ==
  ASSUME NEW s \in Seq(EntryType), NEW k \in Key, Ascending(s),
         \A e \in EntriesOf(s) : e.key # k
  PROVE  ~Hit(s, k)
  BY HitEntry

\* The steps of remove that change nodes: none hits the key twice on a level.
LEMMA RemoveGuarded ==
  ASSUME LInv, NEW at, NEW on, Shape(at, on), NEW t \in Thread, op[t].name = "remove",
         DeleteEntry(t) \/ DeleteNode(t)
  PROVE  Guarded(t)
  <1> DEFINE c == cur[t]
             p == prev[t]
             k == op[t].key
             i == Passed(data[c], k)
  <1>1. /\ pc[t] = "hit" /\ Exclusive(t) /\ Listed(data, Right, at, on)
        /\ data \in [Node -> Seq(EntryType)] /\ next \in [Node -> Pointer] /\ alive \subseteq Node
        /\ pc \in [Thread -> Labels] /\ Null \notin Node
    BY Ends, TypeParts DEF LInv, TypeOK, Labels, DeleteEntry, DeleteNode, Exclusive, Shape
  <1>2. /\ c \in on \ Lasts /\ c \in Node /\ k \in Key /\ c # Null /\ i + 1 \in 1 .. Len(data[c])
    BY <1>1, FoundEntry, Ends
  <1>3. data[c] \in Seq(EntryType) /\ Ascending(data[c]) /\ Hit(data[c], k)
    BY <1>1, <1>2, NodeFacts DEF Shape, ThreadInv, CurInv
  <1>4. c \in HeldExclusive(t)
    BY <1>2 DEF HeldExclusive, MayWrite
  <1>5. i = 0 => /\ p # Null /\ p \in HeldExclusive(t) /\ ~Hit(data[p], k) /\ next[p] = c
    <2> SUFFICES ASSUME i = 0 PROVE p # Null /\ p \in HeldExclusive(t) /\ ~Hit(data[p], k) /\ next[p] = c
      OBVIOUS
    <2>1. /\ Start(data, c) = k /\ p # Null /\ p \in on \ Lasts /\ p \in Node /\ next[p] = c
          /\ at[p] = height[t] /\ Left(data, p, c)
      BY <1>1, FirstHit
    <2>2. at[c] = height[t]
      BY <1>1 DEF Shape, ThreadInv, CurInv, OnLevel
    <2>3. Before(data[p], k)
      <3>1. p \in on /\ c \in on /\ at[p] = at[c] /\ c \notin Lasts
        BY <1>2, <2>1, <2>2
      <3> HIDE DEF p, c, k
      <3>2. c \notin Lasts => Before(data[p], Start(data, c))
        BY <1>1, <2>1, <3>1, EntriesLeft
      <3> QED
        BY <2>1, <3>1, <3>2
    <2>4. data[p] \in Seq(EntryType) /\ Ascending(data[p])
      BY <1>1, <2>1, NodeFacts
    <2>5. \A e \in EntriesOf(data[p]) : e.key # k
      BY <1>2, <2>3, CallAssumption DEF Before
    <2>6. p \in HeldExclusive(t)
      BY <2>1 DEF HeldExclusive
    <2> QED
      BY <1>2, <2>1, <2>4, <2>5, <2>6, NoSecondHit
  <1>6. \A s, nx : ~Hit(s, k) => Look(s, nx, k) # "hit"
    BY DEF Look
  <1>7. CASE DeleteEntry(t)
    <2> DEFINE rest == Without(data[c], i)
    <2>1. /\ data' = [data EXCEPT ![c] = rest] /\ next' = next /\ alive' = alive
          /\ pc'[t] = IF (IF i = 0 THEN p ELSE c) = Null THEN "ret"
                      ELSE Look(IF i = 0 THEN data[IF i = 0 THEN p ELSE c] ELSE rest,
                                next[IF i = 0 THEN p ELSE c], k)
      BY <1>1, <1>7 DEF DeleteEntry, Stand, Goto
    <2>2. ~Hit(rest, k)
      <3>1. rest \in Seq(EntryType) /\ Ascending(rest) /\ EntriesOf(rest) = {e \in EntriesOf(data[c]) : e.key # k}
        BY <1>2, <1>3, EntryRemoved
      <3> HIDE DEF rest, c, k
      <3>2. \A e \in EntriesOf(rest) : e.key # k
        BY <3>1
      <3> QED
        BY <1>2, <3>1, <3>2, NoSecondHit
    <2> HIDE DEF rest, i
    <2>3. pc'[t] # "hit"
      <3>1. CASE i = 0
        BY <1>5, <1>6, <2>1, <3>1
      <3>2. CASE i # 0
        BY <1>2, <1>6, <2>1, <2>2, <3>2
      <3> QED
        BY <3>1, <3>2
    <2>4. \A m \in alive : m \notin {c} => m \in alive' /\ data'[m] = data[m] /\ next'[m] = next[m]
      BY <1>1, <2>1
    <2>5. {c} \cap alive \subseteq HeldExclusive(t) /\ pc'[t] # pc[t]
      BY <1>1, <1>4, <2>3
    <2> HIDE DEF c
    <2> QED
      BY <2>4, <2>5, GuardedChange
  <1>8. CASE DeleteNode(t)
    <2>1. i = 0
      <3>1. Len(data[c]) = 1
        BY <1>8 DEF DeleteNode
      <3>2. i \in 0 .. Len(data[c])
        BY <1>2, <1>3, PassedSplits
      <3> QED
        BY <1>2, <3>1, <3>2
    <2>2. /\ data' = [data EXCEPT ![c] = <<>>] /\ next' = [next EXCEPT ![p] = next[c], ![c] = Null]
          /\ alive' = alive \ {c} /\ pc'[t] = Look(data[p], next[c], k)
      BY <1>1, <1>5, <1>8, <2>1 DEF DeleteNode, Stand, Goto, Skip
    <2>3. pc'[t] # pc[t]
      BY <1>1, <1>5, <1>6, <2>1, <2>2
    <2>4. \A m \in alive : m \notin {c, p} => m \in alive' /\ data'[m] = data[m] /\ next'[m] = next[m]
      BY <1>1, <2>2
    <2>5. {c, p} \cap alive \subseteq HeldExclusive(t)
      BY <1>4, <1>5, <2>1
    <2> HIDE DEF c, p
    <2> QED
      BY <2>3, <2>4, <2>5, GuardedChange
  <1> QED
    BY <1>7, <1>8

\* The steps that only look.
LEMMA LooksOnly ==
  ASSUME LInv, NEW at, NEW on, Shape(at, on), NEW t \in Thread,
         data' = data, next' = next, alive' = alive
  PROVE  Guarded(t)
  BY DEF Guarded

\* Every step of every thread is guarded.
LEMMA StepGuarded ==
  ASSUME LInv, NEW at, NEW on, Shape(at, on), NEW t \in Thread,
         Step(t) \/ \E o \in Ops(GenLevels) : Call(t, o)
  PROVE  Guarded(t)
  <1>1. CASE UNCHANGED heap
    BY <1>1, LooksOnly DEF heap
  <1>2. ASSUME NEW m, NEW l, \/ Enter(t, m) \/ StopShort(t, m) \/ MoveRight(t) \/ Trail(t)
                             \/ GoDown(t, m, l) \/ DescendTower(t, m, l)
        PROVE  UNCHANGED heap
    BY <1>2 DEF Enter, StopShort, MoveRight, Trail, GoDown, DescendTower
  <1>3. CASE Get(t)
    BY <1>1, <1>2, <1>3 DEF Get, OffTheBottom, ReadValue
  <1>4. CASE Insert(t)
    BY <1>1, <1>2, <1>4, InsertGuarded DEF Insert, Search, Work
  <1>5. CASE Remove(t)
    BY <1>1, <1>2, <1>5, RemoveGuarded DEF Remove, OffTheBottom
  <1>6. CASE RangeCall(t)
    BY <1>1, <1>2, <1>6 DEF RangeCall, StartHere, StartNext, Emit, StepInNode, StepRight, RangeDone
  <1>7. CASE Return(t) \/ \E o \in Ops(GenLevels) : Call(t, o)
    BY <1>1, <1>7 DEF Return, Call
  <1> QED
    BY <1>3, <1>4, <1>5, <1>6, <1>7 DEF Step

\* What a step of Next does to nodes, it does under their locks.
LEMMA NextGuarded ==
  Inv /\ [Next]_vars =>
    [\A n \in alive :
       \/ n \in alive' /\ UNCHANGED <<data[n], next[n]>>
       \/ \E t \in Thread : owner[n] = t /\ pc'[t] # pc[t]
       \/ Emptied(n)]_vars
  <1> SUFFICES ASSUME Inv, Next, NEW n \in alive
               PROVE  \/ n \in alive' /\ UNCHANGED <<data[n], next[n]>>
                      \/ \E t \in Thread : owner[n] = t /\ pc'[t] # pc[t]
                      \/ Emptied(n)
    OBVIOUS
  <1>1. LInv
    BY DEF Inv
  <1>2. PICK at, on : Shape(at, on)
    BY DEF Inv
  <1>3. PICK t \in Thread : Step(t) \/ \E o \in Ops(GenLevels) : Call(t, o)
    BY DEF Next
  <1>4. Guarded(t)
    BY <1>1, <1>2, <1>3, StepGuarded
  <1>5. n \in HeldExclusive(t) => owner[n] = t
    <2>1. n \in Node
      BY <1>1 DEF LInv, TypeOK
    <2> QED
      BY <1>1, <2>1 DEF LInv, Holds
  <1>6. pc[t] = "relink" /\ n = Leftover(t) => Emptied(n)
    BY DEF Emptied, Leftover
  <1> QED
    BY <1>4, <1>5, <1>6 DEF Guarded

\* A node is changed or deleted only by the thread that has its mutex exclusively; the
\* one exception is the node a merge has emptied, which nobody leads to any more
\* but its prev.  No two threads race on the fields of a node.
THEOREM WritesAreGuarded == Spec => WritesGuarded
  BY Invariant, NextGuarded, PTL DEF Spec, WritesGuarded
==============================================================================
