------------------------------ MODULE NodeArray ------------------------------
(***************************************************************************)
(* The arrays behind the nodes of one level of the cache-friendly          *)
(* skiplist.  A node is an std::array of ARRAY_SIZE slots of which the     *)
(* first size count.  A slot owns the key and the value its pointers lead  *)
(* to: assigning to it deletes what it had, moving from it leaves it null, *)
(* and destroying a node destroys all its slots.  The actions are the      *)
(* pieces of code that change an array, each run on a node locked          *)
(* exclusively; what they make of the entries of a node, and the entries   *)
(* BSkiplist has there, are kept side by side.                             *)
(***************************************************************************)
EXTENDS Entries, FiniteSets

CONSTANTS
  Node,        \* the addresses a node of this level can have
  First,        \* structure[i], the node the level starts with
  Null,        \* nullptr
  ArraySize,   \* ARRAY_SIZE
  Copy,        \* tells apart the objects that hold the same key or value
  MaxLost      \* bound: how many values may be overwritten

ASSUME ArrayAssumption ==
  /\ IsFiniteSet(Node)
  /\ First \in Node /\ Null \notin Node
  /\ Null \notin (Key \cup Value) \X Copy
  /\ ArraySize \in 1 .. 255    \* size is a uint8_t
  /\ MaxLost \in Nat

VARIABLES
  memory,      \* slot: the pointers in each slot; live: the keys and values
               \* that are allocated; sound: no pointer has been deleted twice
  size,        \* the number of slots of each node that count
  used,        \* the nodes of the list
  bottom,      \* it is level 0
  lost,        \* auxiliary: the values WriteValue has replaced
  data         \* auxiliary: the entries of each node, as BSkiplist has them

vars == <<memory, size, used, bottom, lost, data>>

-----------------------------------------------------------------------------
(* SkiplistData.                                                           *)

\* The local new_val of insert_into_node is a slot too.
NewVal == <<Null, 0>>
Slot == (Node \X (0 .. ArraySize - 1)) \cup {NewVal}

NullSlot == [val |-> Null, key |-> Null, down |-> Null]

\* What the slot's pointers lead to.
Owned(m, s) == {m.slot[s].val, m.slot[s].key} \ {Null}

\* clear, and the destructor.
Clear(m, s) ==
  [slot  |-> [m.slot EXCEPT ![s] = NullSlot],
   live  |-> m.live \ Owned(m, s),
   sound |-> m.sound /\ Owned(m, s) \subseteq m.live]

\* operator=(SkiplistData&&).  Fault: other keeps its pointers.
CopyAssign(m, to, other) ==
  [Clear(m, to) EXCEPT !.slot = [@ EXCEPT ![to] = m.slot[other]]]
MoveAssign(m, to, other) ==
  [Clear(m, to) EXCEPT !.slot = [@ EXCEPT ![to] = m.slot[other], ![other] = NullSlot]]

\* One move assignment after the other.
Moves(m, pairs) ==
  LET done[l \in 0 .. Len(pairs)] ==
        IF l = 0 THEN m ELSE MoveAssign(done[l - 1], pairs[l][1], pairs[l][2])
  IN done[Len(pairs)]

\* std::shift_right and std::shift_left of the slots of n from i on, by one.
\* Fault: shift_right starts at the front.
ShiftRightFromFront(m, n, i) ==
  Moves(m, [j \in 1 .. ArraySize - 1 - i |-> <<<<n, i + j>>, <<n, i + j - 1>>>>])
ShiftRight(m, n, i) ==
  Moves(m, [j \in 1 .. ArraySize - 1 - i |->
              <<<<n, ArraySize - j>>, <<n, ArraySize - 1 - j>>>>])
ShiftLeft(m, n, i) ==
  Moves(m, [j \in 1 .. ArraySize - 1 - i |-> <<<<n, i + j - 1>>, <<n, i + j>>>>])

\* The slots of node from on from index i go to node to, from index j on.
MoveTail(m, to, j, from, i) ==
  Moves(m, [l \in 1 .. size[from] - i |-> <<<<to, j + l - 1>>, <<from, i + l - 1>>>>])

\* delete n, for the nodes n of ns: all their slots are destroyed.
DeleteNodes(m, ns) ==
  LET gone == ns \X (0 .. ArraySize - 1) IN
  [slot  |-> [s \in Slot |-> IF s \in gone THEN NullSlot ELSE m.slot[s]],
   live  |-> m.live \ UNION {Owned(m, s) : s \in gone},
   sound |-> /\ m.sound
             /\ \A s \in gone : Owned(m, s) \subseteq m.live
             /\ \A s, r \in gone : s # r => Owned(m, s) \cap Owned(m, r) = {}]

\* new K(x) or new V(x), into a slot.
Unmade(m, x) == ({x} \X Copy) \ m.live
Object(m, x) == CHOOSE o \in Unmade(m, x) : TRUE
WithKey(m, s, k) ==
  [m EXCEPT !.slot = [@ EXCEPT ![s].key = Object(m, k)], !.live = @ \cup {Object(m, k)}]
WithVal(m, s, v) ==
  [m EXCEPT !.slot = [@ EXCEPT ![s].val = Object(m, v)], !.live = @ \cup {Object(m, v)}]

-----------------------------------------------------------------------------
(* Nodes.                                                                  *)

\* The entries that the slots of n that count hold.
Read(n) ==
  [i \in 1 .. size[n] |->
     LET s == memory.slot[<<n, i - 1>>] IN
     Entry(IF s.key = Null THEN NoKey ELSE s.key[1],
           IF s.val = Null THEN NoValue ELSE s.val[1], s.down)]

\* The node below that starts with k, which a slot above the bottom level
\* points to.
Below(k) == IF bottom THEN Null ELSE <<k>>

\* Where a search for k ends on this level: the last node that does not start
\* above k.
Home(k) ==
  LET start(n) == Read(n)[1].key
      upTo == {n \in used : n # First /\ start(n) <= k}
  IN IF upTo = {} THEN First ELSE CHOOSE n \in upTo : \A m \in upTo : start(m) <= start(n)

Fresh == CHOOSE n \in Node : n \notin used

\* The constructor gives the first node of a level one entry, without a key.
Init ==
  /\ bottom \in BOOLEAN
  /\ memory = [slot |-> [s \in Slot |->
                           IF s = <<First, 0>> THEN [NullSlot EXCEPT !.down = Below(NoKey)]
                           ELSE NullSlot],
               live |-> {}, sound |-> TRUE]
  /\ size = [n \in Node |-> IF n = First THEN 1 ELSE 0]
  /\ used = {First}
  /\ lost = {}
  /\ data = [n \in Node |->
               IF n = First THEN <<Entry(NoKey, NoValue, Below(NoKey))>> ELSE <<>>]

\* insert_into_node, whose current_insert_node waits for the key when it has
\* been put in on the level above.
InsertIntoNode(k, v, waiting) ==
  LET c == Home(k)
      i == Passed(Read(c), k)
      n == Fresh
      split == size[c] = ArraySize \/ waiting
      keyed == WithKey([memory EXCEPT !.slot[NewVal].down = Below(k)], NewVal, k)
      made == IF bottom THEN WithVal(keyed, NewVal, v) ELSE keyed
      val == IF bottom THEN v ELSE NoValue
  IN
  /\ First \in used
  /\ ~Hit(Read(c), k)
  /\ Unmade(memory, k) # {} /\ (bottom => Unmade(keyed, v) # {})
  /\ IF split
     THEN /\ used # Node
          /\ memory' = MoveTail(MoveAssign(made, <<n, 0>>, NewVal), n, 1, c, i)
          /\ size' = [size EXCEPT ![c] = i, ![n] = @ + 1 + size[c] - i]
          /\ used' = used \cup {n}
     ELSE /\ memory' = MoveAssign(ShiftRight(made, c, i), <<c, i>>, NewVal)
          /\ size' = [size EXCEPT ![c] = @ + 1]
          /\ UNCHANGED used
  /\ data' = Placed(data, c, n, i, Entry(k, val, Below(k)), split)
  /\ UNCHANGED <<bottom, lost>>

\* insert_or_modify finds the key on a level where a node waits for it.  A
\* node that this empties is off the list and never deleted.
MoveToWaiting(k) ==
  LET c == Home(k)
      i == Passed(Read(c), k)
      n == Fresh
  IN
  /\ First \in used
  /\ Hit(Read(c), k)
  /\ used # Node
  /\ memory' = MoveTail(memory, n, 0, c, i)
  /\ size' = [size EXCEPT ![n] = @ + size[c] - i, ![c] = i]
  /\ used' = (used \cup {n}) \ (IF i = 0 THEN {c} ELSE {})
  /\ data' = MovedOver(data, c, n, i)
  /\ UNCHANGED <<bottom, lost>>

\* data[index].val = new V(val).  Nothing deletes the value that was there.
WriteValue(k, v) ==
  LET c == Home(k)
      i == Passed(Read(c), k)
  IN
  /\ First \in used
  /\ bottom
  /\ Hit(Read(c), k)
  /\ Cardinality(lost) < MaxLost /\ Unmade(memory, v) # {}
  /\ memory' = WithVal(memory, <<c, i>>, v)
  /\ lost' = lost \cup {memory.slot[<<c, i>>].val}
  /\ data' = [data EXCEPT ![c][i + 1].val = v]
  /\ UNCHANGED <<size, used, bottom>>

\* delete_value
DeleteValue(k) ==
  LET c == Home(k)
      i == Passed(Read(c), k)
      cleared == Clear(memory, <<c, i>>)
  IN
  /\ First \in used
  /\ Hit(Read(c), k)
  /\ size' = [size EXCEPT ![c] = @ - 1]
  /\ IF size[c] > 1
     THEN memory' = ShiftLeft(cleared, c, i) /\ UNCHANGED used
     ELSE memory' = DeleteNodes(cleared, {c}) /\ used' = used \ {c}
  /\ data' = [data EXCEPT ![c] = Without(@, i)]
  /\ UNCHANGED <<bottom, lost>>

\* ~SimpleSkiplist deletes every node of the list.
Destructor ==
  /\ First \in used
  /\ memory' = DeleteNodes(memory, used)
  /\ size' = [n \in Node |-> 0]
  /\ used' = {}
  /\ data' = [n \in Node |-> <<>>]
  /\ UNCHANGED <<bottom, lost>>

Next ==
  \/ \E k \in Key, v \in Value, waiting \in BOOLEAN : InsertIntoNode(k, v, waiting)
  \/ \E k \in Key : MoveToWaiting(k) \/ DeleteValue(k)
  \/ \E k \in Key, v \in Value : WriteValue(k, v)
  \/ Destructor

Spec == Init /\ [][Next]_vars

-----------------------------------------------------------------------------
(* Properties.                                                             *)

\* Every key and value that is allocated is owned by exactly one slot of a
\* node of the list, or is a value that WriteValue has replaced.  No slot
\* leads to one that is not allocated, none is deleted twice, and a slot
\* behind the size of its node leads nowhere.  Once the list is destroyed only
\* the replaced values are left.
OwnedOnce ==
  /\ memory.sound
  /\ memory.live = lost \cup UNION {Owned(memory, s) : s \in Slot}
  /\ \A s \in Slot : /\ Owned(memory, s) \cap lost = {}
                     /\ \A r \in Slot \ {s} : Owned(memory, s) \cap Owned(memory, r) = {}
                     /\ s = NewVal \/ s[2] >= size[s[1]] => memory.slot[s] = NullSlot

\* What the shifts and moves do to the arrays is what BSkiplist says they do
\* to the entries: no entry is lost, doubled or out of place.
Represents == \A n \in Node : Read(n) = data[n]
=============================================================================
