----------------------------- MODULE BSkiplist -----------------------------
(***************************************************************************)
(* The B-skiplist of src/cache-friendly: every node holds a sorted array   *)
(* of up to ARRAY_SIZE entries, every entry above the bottom level points  *)
(* down to the node that starts with its key, and every node has a         *)
(* std::shared_mutex.  insert_or_modify draws the level its key is         *)
(* promoted to first, so it splits nodes on its way down and never back    *)
(* up: it searches under shared locks above that level and works under     *)
(* exclusive ones from there on.                                           *)
(*                                                                         *)
(* A step is one lock() being granted with the code up to the next lock()  *)
(* call; longer pieces of that code are steps of their own.  Within a step *)
(* one lock is taken, first, and the data touched belongs to nodes that    *)
(* are locked, so nothing else can be seen at a finer grain.               *)
(***************************************************************************)
EXTENDS Entries, FiniteSets

CONSTANTS
  Node,        \* the addresses a node can have
  Null,        \* nullptr
  ArraySize,   \* ARRAY_SIZE, the number of entries a node can hold
  First,       \* structure[i]: the node the list of level i starts with
  Last,        \* the empty node it ends with
  Site,        \* Site[k][i]: where operator new may place a node that is made
               \* for key k on level i
  Thread,      \* the threads that share the skiplist
  NoThread     \* the owner of a mutex nobody has locked exclusively

Top == First[MaxHeight - 1]
Sentinel == {First[i] : i \in Level} \cup {Last[i] : i \in Level}

ASSUME BAssumption ==
  /\ ArraySize \in Nat /\ ArraySize > 0
  /\ IsFiniteSet(Node)
  /\ Null \notin Node
  /\ First \in [Level -> Node]
  /\ Last \in [Level -> Node]
  /\ \A i, j \in Level : /\ First[i] # Last[j]
                         /\ i # j => First[i] # First[j] /\ Last[i] # Last[j]
  /\ Site \in [Key -> [Level -> SUBSET (Node \ Sentinel)]]
  /\ NoThread \notin Thread

VARIABLES
  data,        \* the entries of each node, the first size of its array
  next,        \* the node to its right
  alive,       \* the nodes that are allocated and in use
  owner,       \* the thread that has each mutex exclusively
  shared,      \* the threads that have it shared
  pc,          \* where each thread is
  op,          \* the call it is executing
  height,      \* its local cur_height
  cur,         \* the node it is working in: its local cur, or prev in get, range
  prev,        \* the local prev of insert_or_modify and remove
  nextNode,    \* its local next_node
  insertNode,  \* its local current_insert_node
  index,       \* the position of range in its node, from 1
  removed,     \* auxiliary: its remove has taken the key off the bottom level
  reply        \* what the call has handed back last

heap   == <<data, next, alive>>
locks  == <<owner, shared>>
fresh  == <<nextNode, insertNode>>
scan   == <<index, removed>>
vars   == <<heap, locks, pc, op, height, cur, prev, fresh, scan, reply>>

-----------------------------------------------------------------------------
(* Looking for a key.                                                      *)

\* node_start_is_greater
StartsAfter(n, k) ==
  n # Null /\ data[n] # <<>> /\ data[n][1].key # NoKey => data[n][1].key > k

\* Where a search goes from a node with entries s and right neighbour nx: it
\* has hit the key, must look at the neighbour, or goes down from the last
\* entry it passed.  With no entry passed there is no way down, it would be
\* from data[-1].
Look(s, nx, k) ==
  IF Hit(s, k) THEN "hit"
  ELSE IF Passed(s, k) = Len(s) /\ nx # Null THEN "next"
  ELSE IF Passed(s, k) = 0 THEN "crash" ELSE "below"

\* The loop that looks for the key in the node below its entry runs off the
\* array when it is not there.
InTower(n, k, there) == IF Hit(data[n], k) THEN there ELSE "crash"

\* operator new: an address that is not in use.
Vacant(k, i) == Site[k][i] \ alive
Fresh(k, i) == CHOOSE n \in Vacant(k, i) : TRUE

\* The entry at the key in cur, and the one a search goes down from.
At(t)    == data[cur[t]][Passed(data[cur[t]], op[t].key) + 1]
Above(t) == data[cur[t]][Passed(data[cur[t]], op[t].key)]

INSTANCE SharedMutex

Goto(t, l) == pc' = [pc EXCEPT ![t] = l]
Answer(t, r) == reply' = [reply EXCEPT ![t] = r]

\* t goes on at l, with p and c in prev and cur.
Stand(t, l, p, c) ==
  /\ Goto(t, l)
  /\ prev' = [prev EXCEPT ![t] = p]
  /\ cur' = [cur EXCEPT ![t] = c]

\* m, which prev->next leads to, leaves the list, and with it its next
\* pointer.  Fault: prev->next stays as it is.
SkipNothing(p, m) == next
Skip(p, m) == [next EXCEPT ![p] = next[m], ![m] = Null]

-----------------------------------------------------------------------------
\* LevelGen: min(geometric, maxHeight - 1), from a generator all threads
\* share without a lock.  Fault: the cap is missing.
GenUncapped == 0 .. MaxHeight
GenLevels == 0 .. MaxHeight - 1

\* The constructor: the head of each level has one entry, with a null key,
\* above the head of the level below; the tails are empty.
Init ==
  /\ data = [n \in Node |->
               IF \E i \in Level : n = First[i]
               THEN LET i == CHOOSE j \in Level : n = First[j]
                    IN <<Entry(NoKey, NoValue, IF i > 0 THEN First[i - 1] ELSE Null)>>
               ELSE <<>>]
  /\ next = [n \in Node |->
               IF \E i \in Level : n = First[i]
               THEN Last[CHOOSE i \in Level : n = First[i]] ELSE Null]
  /\ alive = Sentinel
  /\ owner = [n \in Node |-> NoThread]
  /\ shared = [n \in Node |-> {}]
  /\ pc = [t \in Thread |-> "idle"]
  /\ op = [t \in Thread |-> IdleOp]
  /\ height = [t \in Thread |-> 0]
  /\ cur = [t \in Thread |-> Null]
  /\ prev = [t \in Thread |-> Null]
  /\ nextNode = [t \in Thread |-> Null]
  /\ insertNode = [t \in Thread |-> Null]
  /\ index = [t \in Thread |-> 0]
  /\ removed = [t \in Thread |-> FALSE]
  /\ reply = [t \in Thread |-> NoReply]

\* A thread that is not in a call makes one.
Call(t, o) ==
  /\ pc[t] = "idle"
  /\ op' = [op EXCEPT ![t] = o]
  /\ height' = [height EXCEPT ![t] = MaxHeight - 1]
  /\ Goto(t, "top")
  /\ UNCHANGED <<heap, locks, cur, prev, fresh, scan, reply>>

\* The call returns to its caller.
Return(t) ==
  /\ pc[t] = "ret"
  /\ op' = [op EXCEPT ![t] = IdleOp]
  /\ height' = [height EXCEPT ![t] = 0]
  /\ index' = [index EXCEPT ![t] = 0]
  /\ removed' = [removed EXCEPT ![t] = FALSE]
  /\ Answer(t, NoReply)
  /\ Goto(t, "idle")
  /\ UNCHANGED <<heap, locks, cur, prev, fresh>>

-----------------------------------------------------------------------------
(* Steps the operations share.                                             *)

\* An insert no longer only searches, it works, from its key's level down.
Working(t, h) == op[t].name = "insert" /\ h <= op[t].level

\* What t does first in node n of level h: allocate the node below, or look
\* for the key.
Begin(t, n, h) ==
  IF Working(t, h) /\ h > 0 THEN "level" ELSE Look(data[n], next[n], op[t].key)

\* structure[MAX_HEIGHT-1] is locked.
Enter(t, mode) ==
  /\ pc[t] = "top"
  /\ CanLock(Top, mode)
  /\ Relock(t, {Top}, mode, {}, mode)
  /\ Stand(t, Begin(t, Top, height[t]), Null, Top)
  /\ UNCHANGED <<heap, op, height, fresh, scan, reply>>

\* The neighbour is locked, starts above the key, and is unlocked.
StopShort(t, mode) ==
  /\ pc[t] = "next"
  /\ CanLock(next[cur[t]], mode)
  /\ StartsAfter(next[cur[t]], op[t].key)
  /\ Goto(t, "below")
  /\ UNCHANGED <<heap, locks, op, height, cur, prev, fresh, scan, reply>>

\* move_right_prev_cur_locked under shared locks: the neighbour is locked and
\* does not start above the key, the node is unlocked.
MoveRight(t) ==
  LET n == next[cur[t]] IN
  /\ pc[t] = "next"
  /\ CanLock(n, "shared")
  /\ ~StartsAfter(n, op[t].key)
  /\ Relock(t, {n}, "shared", {cur[t]}, "shared")
  /\ Stand(t, Look(data[n], next[n], op[t].key), Null, n)
  /\ UNCHANGED <<heap, op, height, fresh, scan, reply>>

\* The same in remove and in the working part of insert_or_modify, which keep
\* the node locked as prev and unlock the prev before it.
\* Fault: they do not.
NothingLeft(t) == {}
LeftBehind(t) == {prev[t]}

Trail(t) ==
  LET n == next[cur[t]] IN
  /\ pc[t] = "next"
  /\ CanLock(n, "exclusive")
  /\ ~StartsAfter(n, op[t].key)
  /\ Relock(t, {n}, "exclusive", LeftBehind(t), "exclusive")
  /\ Stand(t, Look(data[n], next[n], op[t].key), cur[t], n)
  /\ UNCHANGED <<heap, op, height, fresh, scan, reply>>

\* move_down_prev_cur_locked: the node below the entry is locked, then the
\* entry's node is unlocked.
GoDown(t, mode, curMode) ==
  LET n == Above(t).down IN
  /\ pc[t] \in {"below", "sink"}
  /\ n # Null
  /\ CanLock(n, mode)
  /\ Relock(t, {n}, mode, {cur[t]}, curMode)
  /\ cur' = [cur EXCEPT ![t] = n]
  /\ height' = [height EXCEPT ![t] = @ - 1]
  /\ Goto(t, Begin(t, n, height[t] - 1))
  /\ UNCHANGED <<heap, op, prev, fresh, scan, reply>>

\* One iteration of while(data[index].down != nullptr), from an entry that
\* has the key to the node it points to.
DescendTower(t, mode, curMode) ==
  LET n == At(t).down IN
  /\ n # Null
  /\ CanLock(n, mode)
  /\ Relock(t, {n}, mode, {cur[t]}, curMode)
  /\ cur' = [cur EXCEPT ![t] = n]
  /\ height' = [height EXCEPT ![t] = @ - 1]
  /\ Goto(t, InTower(n, op[t].key, IF pc[t] = "hit" THEN "tower" ELSE pc[t]))
  /\ UNCHANGED <<heap, op, prev, fresh, scan, reply>>

AtTowerFoot(t) == pc[t] \in {"hit", "tower"} /\ At(t).down = Null

\* The call ends, its last nodes unlocked.
Leave(t, mode, r) ==
  /\ Unlock(t, {cur[t], prev[t]}, mode)
  /\ Stand(t, "ret", Null, Null)
  /\ Answer(t, r)
  /\ UNCHANGED <<op, height, fresh, scan>>

\* There is no level below: the key is nowhere.
OffTheBottom(t, mode, r) ==
  /\ pc[t] = "below"
  /\ Above(t).down = Null
  /\ Leave(t, mode, r)
  /\ UNCHANGED heap

-----------------------------------------------------------------------------
(* get                                                                     *)

ReadValue(t) ==
  /\ AtTowerFoot(t)
  /\ Leave(t, "shared", <<"get", op[t].key, At(t).val>>)
  /\ UNCHANGED heap

Get(t) ==
  /\ op[t].name = "get"
  /\ \/ Enter(t, "shared")
     \/ StopShort(t, "shared")
     \/ MoveRight(t)
     \/ GoDown(t, "shared", "shared")
     \/ pc[t] \in {"hit", "tower"} /\ DescendTower(t, "shared", "shared")
     \/ OffTheBottom(t, "shared", <<"get", op[t].key, NoValue>>)
     \/ ReadValue(t)

-----------------------------------------------------------------------------
(* insert_or_modify: the search, while cur_height > level.                 *)

\* In which mode the level below is locked.  Fault: always shared.
DownShared(t) == "shared"
DownMode(t) == IF height[t] = op[t].level + 1 THEN "exclusive" ELSE "shared"

\* The key is already there: only its value changes, on the bottom level.
\* Fault: that is not locked exclusively either.
TowerShared(t) == "shared"
TowerMode(t) == IF height[t] = 1 THEN "exclusive" ELSE "shared"

\* data[index].val = new V(val)
WriteValue(t) ==
  /\ pc[t] \in {"tower", "merged"}
  /\ At(t).down = Null
  /\ data' = [data EXCEPT ![cur[t]][Passed(data[cur[t]], op[t].key) + 1].val = op[t].val]
  /\ UNCHANGED <<next, alive>>
  /\ Leave(t, "exclusive", NoReply)

Search(t) ==
  \/ Enter(t, "shared")
  \/ StopShort(t, "shared")
  \/ MoveRight(t)
  \/ GoDown(t, DownMode(t), "shared")
  \/ pc[t] = "hit" /\ DescendTower(t, TowerMode(t), "shared")

-----------------------------------------------------------------------------
(* insert_or_modify: the work, from the level of the key down.             *)

\* next_node = new nodeType(), locked: the node below the one the key goes
\* to on this level.
Allocate(t) ==
  LET n == Fresh(op[t].key, height[t] - 1) IN
  /\ pc[t] = "level"
  /\ Vacant(op[t].key, height[t] - 1) # {}
  /\ alive' = alive \cup {n}
  /\ Relock(t, {n}, "exclusive", {}, "exclusive")
  /\ nextNode' = [nextNode EXCEPT ![t] = n]
  /\ Goto(t, Look(data[cur[t]], next[cur[t]], op[t].key))
  /\ UNCHANGED <<data, next, op, height, cur, prev, insertNode, scan, reply>>

\* insert_into_node puts the entry e into node c behind the first i entries,
\* or, with those from there on, into node n when it has to be there or c is
\* full.  Faults: c may overflow; the entry never goes to a node that waits.
SplitsLate(c, waiting) == waiting # Null \/ Len(data[c]) > ArraySize
SplitsWhenFull(c, waiting) == Len(data[c]) = ArraySize
Splits(c, waiting) == waiting # Null \/ Len(data[c]) = ArraySize

Place(t) ==
  LET c == cur[t]
      i == Passed(data[c], op[t].key)
      e == Entry(op[t].key, IF height[t] = 0 THEN op[t].val ELSE NoValue, nextNode[t])
      n == IF insertNode[t] = Null THEN Fresh(op[t].key, height[t]) ELSE insertNode[t]
      done == IF height[t] = 0 THEN {c} ELSE {}
  IN
  /\ pc[t] = "below"
  /\ Splits(c, insertNode[t]) /\ insertNode[t] = Null => Vacant(op[t].key, height[t]) # {}
  /\ data' = Placed(data, c, n, i, e, Splits(c, insertNode[t]))
  /\ IF Splits(c, insertNode[t])
     THEN next' = [next EXCEPT ![c] = n, ![n] = next[c]] /\ alive' = alive \cup {n}
     ELSE UNCHANGED <<next, alive>>
  /\ Unlock(t, {prev[t], insertNode[t]} \cup done, "exclusive")
  /\ insertNode' = [insertNode EXCEPT ![t] = nextNode[t]]
  /\ nextNode' = [nextNode EXCEPT ![t] = Null]
  /\ IF height[t] = 0 THEN Stand(t, "ret", Null, Null) ELSE Stand(t, "sink", Null, c)
  /\ UNCHANGED <<op, height, scan, reply>>

\* The key is already on this level.  The node that waits for it gets it, with
\* the entries behind it, and its place in the list; cur is unlocked.
MoveOver(t) ==
  LET c == cur[t]
      n == insertNode[t]
      i == Passed(data[c], op[t].key)
  IN
  /\ pc[t] = "hit"
  /\ n # Null
  /\ data' = MovedOver(data, c, n, i)
  /\ next' = [next EXCEPT ![c] = n, ![n] = next[c]]
  /\ Unlock(t, {c}, "exclusive")
  /\ cur' = [cur EXCEPT ![t] = n]
  /\ insertNode' = [insertNode EXCEPT ![t] = Null]
  /\ Goto(t, IF i = 0 THEN "relink" ELSE "settle")
  /\ UNCHANGED <<alive, op, height, prev, nextNode, scan, reply>>

\* That left the old node empty: "prev is guaranteed to be filled", and skips
\* it.  The code never deletes the node; nothing leads to it any more.
Relink(t) ==
  LET p == prev[t] IN
  /\ pc[t] = "relink"
  /\ IF p = Null
     THEN Goto(t, "crash") /\ UNCHANGED heap
     ELSE /\ next' = Skip(p, next[p])
          /\ alive' = alive \ {next[p]}
          /\ Goto(t, "settle")
          /\ UNCHANGED data
  /\ UNCHANGED <<locks, op, height, cur, prev, fresh, scan, reply>>

\* The node for the level below is not needed.  It is deleted locked.  Fault:
\* it is only unlocked.
KeptForNothing(t) == {}
Unneeded(t) == {nextNode[t]}

Settle(t) ==
  /\ pc[t] = "settle" \/ (pc[t] = "hit" /\ insertNode[t] = Null)
  /\ Unlock(t, {prev[t], nextNode[t]}, "exclusive")
  /\ alive' = alive \ Unneeded(t)
  /\ prev' = [prev EXCEPT ![t] = Null]
  /\ nextNode' = [nextNode EXCEPT ![t] = Null]
  /\ Goto(t, "merged")
  /\ UNCHANGED <<data, next, op, height, cur, insertNode, scan, reply>>

Work(t) ==
  \/ Enter(t, "exclusive")
  \/ Allocate(t)
  \/ StopShort(t, "exclusive")
  \/ Trail(t)
  \/ Place(t)
  \/ pc[t] = "sink" /\ GoDown(t, "exclusive", "exclusive")
  \/ MoveOver(t)
  \/ Relink(t)
  \/ Settle(t)

Insert(t) ==
  /\ op[t].name = "insert"
  /\ \/ ~Working(t, height[t]) /\ Search(t)
     \/ Working(t, height[t]) /\ Work(t)
     \/ pc[t] = "tower" /\ DescendTower(t, TowerMode(t), "shared")
     \/ pc[t] = "merged" /\ DescendTower(t, "exclusive", "exclusive")
     \/ WriteValue(t)

-----------------------------------------------------------------------------
(* remove                                                                  *)

\* delete_value.  An entry that is not the only one of its node is taken out;
\* a node that is left empty is unlinked and deleted.
DeleteEntry(t) ==
  LET c == cur[t]
      i == Passed(data[c], op[t].key)
      back == i = 0
      at == IF back THEN prev[t] ELSE c
      rest == Without(data[c], i)
  IN
  /\ pc[t] = "hit"
  /\ Len(data[c]) > 1
  /\ data' = [data EXCEPT ![c] = rest]
  /\ Unlock(t, {IF back THEN c ELSE prev[t]}, "exclusive")
  /\ removed' = [removed EXCEPT ![t] = At(t).down = Null]
  /\ Stand(t, IF at = Null THEN "ret"
              ELSE Look(IF back THEN data[at] ELSE rest, next[at], op[t].key),
           Null, at)
  /\ UNCHANGED <<next, alive, op, height, fresh, index, reply>>

\* "prev has to be non null".
DeleteNode(t) ==
  LET c == cur[t]
      p == prev[t]
  IN
  /\ pc[t] = "hit"
  /\ Len(data[c]) = 1
  /\ IF p = Null
     THEN Goto(t, "crash") /\ UNCHANGED <<heap, locks, cur, prev, removed>>
     ELSE /\ data' = [data EXCEPT ![c] = <<>>]
          /\ next' = Skip(p, c)
          /\ alive' = alive \ {c}
          /\ Unlock(t, {c}, "exclusive")
          /\ removed' = [removed EXCEPT ![t] = At(t).down = Null]
          /\ Stand(t, Look(data[p], next[c], op[t].key), Null, p)
  /\ UNCHANGED <<op, height, fresh, index, reply>>

Remove(t) ==
  /\ op[t].name = "remove"
  /\ \/ Enter(t, "exclusive")
     \/ StopShort(t, "exclusive")
     \/ Trail(t)
     \/ GoDown(t, "exclusive", "exclusive")
     \/ DeleteEntry(t)
     \/ DeleteNode(t)
     \/ OffTheBottom(t, "exclusive", NoReply)

-----------------------------------------------------------------------------
(* range                                                                   *)

\* The first key that is not below the start is in cur, or the tower of the
\* start key has led to it.
StartHere(t) ==
  /\ (pc[t] = "below" /\ height[t] = 0) \/ AtTowerFoot(t)
  /\ index' = [index EXCEPT ![t] = Passed(data[cur[t]], op[t].key) + 1]
  /\ Goto(t, "emit")
  /\ UNCHANGED <<heap, locks, op, height, cur, prev, fresh, removed, reply>>

\* It is, if anywhere, at the start of the next node.
StartNext(t) ==
  LET n == next[cur[t]] IN
  /\ pc[t] = "next"
  /\ height[t] = 0
  /\ CanLock(n, "shared")
  /\ StartsAfter(n, op[t].key)
  /\ Relock(t, {n}, "shared", {cur[t]}, "shared")
  /\ cur' = [cur EXCEPT ![t] = n]
  /\ index' = [index EXCEPT ![t] = 1]
  /\ Goto(t, "emit")
  /\ UNCHANGED <<heap, op, height, prev, fresh, removed, reply>>

\* func(*prev->data[index].key, *prev->data[index].val)
Emit(t) ==
  LET e == data[cur[t]][index[t]] IN
  /\ pc[t] = "emit"
  /\ index[t] <= Len(data[cur[t]])
  /\ op[t].len > 0
  /\ Answer(t, <<"pair", e.key, e.val>>)
  /\ op' = [op EXCEPT ![t].len = @ - 1]
  /\ index' = [index EXCEPT ![t] = @ + 1]
  /\ Goto(t, "step")
  /\ UNCHANGED <<heap, locks, height, cur, prev, fresh, removed>>

\* The next pair is in the same node ...
StepInNode(t) ==
  /\ pc[t] = "step"
  /\ op[t].len > 0
  /\ index[t] <= Len(data[cur[t]])
  /\ Goto(t, "emit")
  /\ UNCHANGED <<heap, locks, op, height, cur, prev, fresh, scan, reply>>

\* ... or starts the next one.  Fault: index is not set back.
SameIndex(t) == index[t]
FirstIndex(t) == 1

StepRight(t) ==
  LET n == next[cur[t]] IN
  /\ pc[t] = "step"
  /\ op[t].len > 0
  /\ index[t] > Len(data[cur[t]])
  /\ n # Null
  /\ CanLock(n, "shared")
  /\ Relock(t, {n}, "shared", {cur[t]}, "shared")
  /\ cur' = [cur EXCEPT ![t] = n]
  /\ index' = [index EXCEPT ![t] = FirstIndex(t)]
  /\ Goto(t, "emit")
  /\ UNCHANGED <<heap, op, height, prev, fresh, removed, reply>>

\* Nothing starts there, it is the tail, or length pairs are out.
RangeDone(t) ==
  /\ \/ pc[t] = "emit" /\ index[t] > Len(data[cur[t]])
     \/ pc[t] \in {"emit", "step"} /\ op[t].len = 0
  /\ Leave(t, "shared", reply[t])
  /\ UNCHANGED heap

RangeCall(t) ==
  /\ op[t].name = "range"
  /\ \/ Enter(t, "shared")
     \/ height[t] > 0 /\ StopShort(t, "shared")
     \/ MoveRight(t)
     \/ GoDown(t, "shared", "shared")
     \/ pc[t] \in {"hit", "tower"} /\ DescendTower(t, "shared", "shared")
     \/ StartHere(t)
     \/ StartNext(t)
     \/ Emit(t)
     \/ StepInNode(t)
     \/ StepRight(t)
     \/ RangeDone(t)

-----------------------------------------------------------------------------
Step(t) == Get(t) \/ Insert(t) \/ Remove(t) \/ RangeCall(t) \/ Return(t)

Next == \E t \in Thread : Step(t) \/ \E o \in Ops(GenLevels) : Call(t, o)

Spec == Init /\ [][Next]_vars

-----------------------------------------------------------------------------
(* Properties.                                                             *)

Pointer == Node \cup {Null}

EntryType == [key : Key \cup {NoKey}, val : Value \cup {NoValue}, down : Pointer]

\* Every variable has its type; in particular no array has more than
\* ARRAY_SIZE entries.
TypeOK ==
  /\ data \in [Node -> Seq(EntryType)]
  /\ \A n \in Node : Len(data[n]) <= ArraySize
  /\ next \in [Node -> Pointer]
  /\ alive \subseteq Node
  /\ owner \in [Node -> Thread \cup {NoThread}]
  /\ shared \in [Node -> SUBSET Thread]
  /\ pc \in [Thread -> {"idle", "top", "level", "next", "below", "sink", "hit",
                        "tower", "merged", "relink", "settle", "emit", "step",
                        "ret", "crash"}]
  /\ op \in [Thread -> OpType]
  /\ height \in [Thread -> Level]
  /\ \A p \in {cur, prev, nextNode, insertNode} : p \in [Thread -> Pointer]
  /\ index \in [Thread -> 0 .. ArraySize + 1]
  /\ removed \in [Thread -> BOOLEAN]
  /\ reply \in [Thread -> ReplyType]

\* t may change the node it is in.
MayWrite(t) ==
  \/ op[t].name = "remove"
  \/ /\ op[t].name = "insert"
     /\ \/ pc[t] \in {"merged", "relink", "settle", "sink"}
        \/ pc[t] = "tower" /\ height[t] = 0
        \/ pc[t] # "tower" /\ Working(t, height[t])

\* The mutexes t should have in each mode.
HeldExclusive(t) ==
  ({prev[t], nextNode[t], insertNode[t]} \cup (IF MayWrite(t) THEN {cur[t]} ELSE {}))
    \ {Null}
HeldShared(t) == IF MayWrite(t) THEN {} ELSE {cur[t]} \ {Null}

\* A thread has exactly those, in exactly those modes: each unlock is of the
\* mode its lock was, no node is read or changed without its lock, and no
\* lock outlives its use or its call.
LocksHeld ==
  /\ \A t \in Thread :
       /\ {n \in Node : owner[n] = t} = HeldExclusive(t)
       /\ {n \in Node : t \in shared[n]} = HeldShared(t)
       /\ pc[t] \in {"idle", "top", "ret"} => HeldExclusive(t) = {} /\ HeldShared(t) = {}
  /\ \A n \in Node : owner[n] # NoThread => shared[n] = {}

\* The nodes of level i that a walk along next meets, in order.
Walk(i) ==
  LET walk[j \in Nat] ==
        IF j = 0 THEN <<First[i]>>
        ELSE LET w == walk[j-1] IN
             IF next[w[Len(w)]] = Null THEN w ELSE Append(w, next[w[Len(w)]])
  IN walk[Cardinality(alive)]

\* A node a merge has emptied and is about to take off the list.
Emptied(n) == \E t \in Thread : pc[t] = "relink" /\ next[prev[t]] = n

Keys(n) == {data[n][i].key : i \in DOMAIN data[n]} \ {NoKey}

\* Each level is a list from its first node to its last.  Read along it, the
\* entries are a null key and then strictly ascending keys, across the nodes
\* as within them, and only the last node is empty.
LevelsSorted ==
  \A i \in Level :
    LET w == Walk(i) IN
    /\ w[Len(w)] = Last[i] /\ data[Last[i]] = <<>>
    /\ \A a \in DOMAIN w :
         LET s == data[w[a]] IN
         /\ s = <<>> => w[a] = Last[i] \/ Emptied(w[a])
         /\ \A j \in DOMAIN s : s[j].key = NoKey <=> a = 1 /\ j = 1
         /\ \A j, l \in DOMAIN s : j < l /\ s[j].key # NoKey => s[j].key < s[l].key
         /\ \A b \in DOMAIN w : a < b =>
              \A k \in Keys(w[a]), m \in Keys(w[b]) : k < m

\* An entry above the bottom level points to the node one level down that
\* starts with its key, or to the node its insert holds locked to put it in.
\* A search that follows it misses no key and finds its key in that node.
DownStartsWithKey ==
  \A i \in Level \ {0} :
    LET w == Walk(i)
        below == Walk(i - 1)
    IN \A a \in DOMAIN w : \A j \in DOMAIN data[w[a]] :
         LET e == data[w[a]][j] IN
         \/ \E b \in DOMAIN below : below[b] = e.down /\ data[e.down][1].key = e.key
         \/ \E t \in Thread : /\ insertNode[t] = e.down /\ owner[e.down] = t
                              /\ op[t].key = e.key /\ data[e.down] = <<>>

\* No pointer of a node in use or of a running call leads to a node that is
\* not, and nothing null or off an array is read.  The comments on prev say
\* so: "prev is guaranteed to be filled", "prev has to be non null".
MemorySafe ==
  /\ Sentinel \subseteq alive
  /\ \A n \in alive : /\ next[n] \in alive \cup {Null}
                      /\ \A i \in DOMAIN data[n] : data[n][i].down \in alive \cup {Null}
  /\ \A t \in Thread :
       /\ {cur[t], prev[t], nextNode[t], insertNode[t]} \subseteq alive \cup {Null}
       /\ pc[t] # "crash"

\* A node is changed or deleted only by the thread that has it exclusively.
WritesGuarded ==
  [][\A n \in alive :
       \/ n \in alive' /\ UNCHANGED <<data[n], next[n]>>
       \/ \E t \in Thread : owner[n] = t /\ pc'[t] # pc[t]
       \/ Emptied(n)]_vars

\* The skiplist is the map the entries with a value are: every call takes
\* effect at one of its steps.
Contents ==
  [k \in Key |->
     LET vals == {v \in Value : \E n \in alive : \E i \in DOMAIN data[n] :
                    data[n][i].key = k /\ data[n][i].val = v}
     IN IF vals = {} THEN NoValue ELSE CHOOSE v \in vals : TRUE]

\* What t has asked the map for and has not got yet, and where its range is:
\* at the next pair to hand out, or past the last one.
Asked(t) == Request(op[t], pc[t] = "ret" \/ removed[t])
Cursor(t) ==
  LET s == data[cur[t]] IN
  CASE pc[t] = "emit" -> <<"at", IF index[t] <= Len(s) THEN s[index[t]].key ELSE NoKey>>
    [] pc[t] = "step" -> <<"past", s[index[t] - 1].key>>
    [] OTHER -> <<"nowhere", NoKey>>

Abstract == INSTANCE OrderedMap WITH
  map <- Contents,
  request <- [t \in Thread |-> Asked(t)],
  cursor <- [t \in Thread |-> Cursor(t)],
  reply <- reply,
  RemoveTells <- FALSE,
  RangeGivesUp <- FALSE

Linearizable == Abstract!Spec
=============================================================================
