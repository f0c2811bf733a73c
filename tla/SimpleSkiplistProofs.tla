------------------------ MODULE SimpleSkiplistProofs ------------------------
(***************************************************************************)
(* The sequential skiplist for any keys, levels and memory.  A call works  *)
(* its way through the lists alone, so what has to be carried from step to *)
(* step is where it is (Place), what it has found out on the levels above, *)
(* and that the towers are whole but for the one it is building.           *)
(***************************************************************************)
EXTENDS SimpleSkiplist, TowerHeapProofs

TypeInv ==
  /\ HeapTypeOK
  /\ pc \in {"idle", "search", "tower", "unlink", "seek", "emit", "step", "ret", "destroyed"}
  /\ op \in OpType
  /\ cur \in Pointer /\ prev \in Pointer /\ older \in Pointer

\* All nodes are linked, the towers are whole but for older, the values are
\* those of the bottom level.
ListsInv(at) ==
  /\ ListInv(at, alive)
  /\ DownInv(at, alive)
  /\ \A n \in alive : down[n] = Null => at[n] = 0 \/ n = older
  /\ ValuesAt(at, alive)

\* The key is not there on the levels above i.
NotAbove(at, i) == \A n \in alive : at[n] > i => key[n] # op.key

\* Which call it is, and what it has answered.
CallInv ==
  /\ pc = "idle" => op = IdleOp
  /\ pc # "idle" => op.key \in Key
  /\ op.name = "insert" => op.val \in Value
  /\ pc \in {"unlink", "seek"} => op.name = "remove"
  /\ pc \in {"emit", "step"} => op.name = "range"
  /\ pc \notin {"emit", "step", "ret"} => reply = NoReply

\* Where its pointers are.
SearchInv(at) ==
  pc = "search" =>
    /\ cur \in alive /\ at[cur] = height /\ Short(key, cur, op.key)
    /\ older = Null => NotAbove(at, height)

OlderInv(at) ==
  older # Null =>
    /\ pc = "search" /\ op.name = "insert" /\ op.level > height
    /\ older \in alive /\ key[older] = op.key /\ down[older] = Null /\ at[older] = height + 1

RemoveInv(at) ==
  /\ pc \in {"unlink", "seek"} =>
       /\ cur \in alive /\ key[cur] = op.key /\ NotAbove(at, at[cur])
       /\ prev \in alive /\ at[prev] = at[cur] /\ Short(key, prev, op.key)
  /\ pc = "unlink" => cur = next[prev]

CurInv(at) ==
  /\ pc \in {"idle", "ret"} => cur = Null
  /\ pc \notin {"unlink", "seek"} => prev = Null
  /\ pc = "tower" => cur \in alive /\ key[cur] = op.key
  /\ pc \in {"emit", "step"} => cur \in alive \ Heads /\ at[cur] = 0
  /\ pc = "step" => cur \notin Tails

Place(at) == CallInv /\ SearchInv(at) /\ OlderInv(at) /\ RemoveInv(at) /\ CurInv(at)

SInv(at) == ListsInv(at) /\ Place(at)

IInv ==
  /\ TypeInv
  /\ IF pc = "destroyed" THEN Structure /\ NoNodeLeaks
     ELSE \E at \in [Node -> Level] : SInv(at)

-----------------------------------------------------------------------------
(* Where a call is.                                                        *)

\* What a search finds out at a node: its comparisons with the next one, and
\* whether it is on the bottom level.
LEMMA Here ==
  ASSUME TypeInv, NEW at \in [Node -> Level], SInv(at), pc = "search"
  PROVE  /\ op.key \in Key /\ height \in Level
         /\ cur \in alive \ Tails /\ at[cur] = height
         /\ next[cur] \in alive \ Heads /\ at[next[cur]] = height
         /\ Beyond(next[cur], op.key) <=> Past(key, next[cur], op.key)
         /\ Equal(next[cur], op.key) <=> key[next[cur]] = op.key
         /\ Before(next[cur], op.key) <=> Short(key, next[cur], op.key)
         /\ down[cur] = Null <=> height = 0
         /\ op.name # "insert" => older = Null
         /\ KeysOf(key, alive) /\ alive \in SUBSET Node
  <1>1. /\ op.key \in Key /\ cur \in alive /\ at[cur] = height /\ Short(key, cur, op.key)
        /\ op.name # "insert" => older = Null
        /\ ListInv(at, alive) /\ KeysOf(key, alive) /\ alive \in SUBSET Node
    BY DEF SInv, ListsInv, ListInv, Place, CallInv, SearchInv, OlderInv, TypeInv, HeapTypeOK
  <1>2. cur \notin Tails /\ height \in Level
    BY <1>1, SentinelSets DEF Short
  <1>3. next[cur] \in alive \ Heads /\ at[next[cur]] = height
    BY <1>1, <1>2 DEF ListInv, Left
  <1>4. /\ Beyond(next[cur], op.key) <=> Past(key, next[cur], op.key)
        /\ Equal(next[cur], op.key) <=> key[next[cur]] = op.key
        /\ Before(next[cur], op.key) <=> Short(key, next[cur], op.key)
    BY <1>1, <1>3, Comparisons
  <1>5. cur # older
    <2>1. older # Null => key[older] = op.key
      BY DEF SInv, Place, OlderInv
    <2> QED
      BY <1>1, <2>1, OrderOfKeys, HeapAssumption
  <1>6. down[cur] = Null => height = 0
    BY <1>1, <1>5 DEF SInv, ListsInv
  <1>7. down[cur] # Null => height # 0
    <2> SUFFICES ASSUME down[cur] # Null PROVE height # 0
      OBVIOUS
    <2>1. down[cur] \in alive /\ at[cur] = at[down[cur]] + 1
      BY <1>1 DEF SInv, ListsInv, DownInv
    <2> QED
      BY <1>1, <2>1 DEF Level
  <1> QED
    BY <1>1, <1>2, <1>3, <1>4, <1>6, <1>7

\* A step that changes no node.
LEMMA QuietStep ==
  ASSUME TypeInv, NEW at, SInv(at), UNCHANGED heap, older' = older, Place(at)'
  PROVE  SInv(at)'
  BY DEF SInv, ListsInv, ListInv, DownInv, ValuesAt, KeysOf, heap

\* A call with its result, when it was not building a tower.
LEMMA FinishPlace ==
  ASSUME TypeInv, NEW at, SInv(at), pc \notin {"idle", "destroyed"}, NEW r, Finish(r), NEW at2
  PROVE  Place(at2)' /\ older' = Null
  BY DEF SInv, Place, CallInv, SearchInv, OlderInv, RemoveInv, CurInv, Finish

LEMMA QuietFinish ==
  ASSUME TypeInv, NEW at, SInv(at), pc \notin {"idle", "destroyed"}, older = Null,
         NEW r, Finish(r), UNCHANGED heap
  PROVE  TypeInv' /\ SInv(at)'
  <1>1. Place(at)' /\ older' = older
    BY FinishPlace
  <1>2. SInv(at)'
    BY <1>1, QuietStep
  <1>3. TypeInv'
    BY DEF TypeInv, Finish, heap, HeapTypeOK, Pointer
  <1> QED
    BY <1>2, <1>3

-----------------------------------------------------------------------------
(* The steps that change no node.                                          *)

\* A search starts at the top.
LEMMA CallKeeps ==
  ASSUME TypeInv, NEW at \in [Node -> Level], SInv(at), NEW o \in Ops(GenLevels), Call(o)
  PROVE  TypeInv' /\ SInv(at)'
  <1>1. /\ pc = "idle" /\ pc' = "search" /\ op' = o /\ cur' = Head[MaxHeight - 1]
        /\ height' = MaxHeight - 1 /\ UNCHANGED <<heap, prev, older, reply>>
    BY DEF Call
  <1>2. MaxHeight - 1 \in Level /\ \A i \in Level : ~(i > MaxHeight - 1)
    BY CallAssumption DEF Level
  <1>3. Head[MaxHeight - 1] \in alive /\ at[Head[MaxHeight - 1]] = MaxHeight - 1
        /\ Head[MaxHeight - 1] \in Heads /\ alive \in SUBSET Node
    <2>1. Head[MaxHeight - 1] \in Heads /\ Heads \subseteq Sentinel
      BY <1>2 DEF Sentinel, Heads
    <2>2. Sentinel \subseteq alive /\ \A i \in Level : at[Head[i]] = i
      BY DEF SInv, ListsInv, ListInv
    <2>3. alive \in SUBSET Node
      BY DEF TypeInv, HeapTypeOK
    <2> QED
      BY <1>2, <2>1, <2>2, <2>3
  <1>4. o \in OpType /\ o.key \in Key /\ o.name # "idle" /\ (o.name = "insert" => o.val \in Value)
    <2>1. Length \subseteq Nat /\ 0 \in Level /\ GenLevels = Level
      BY CallAssumption DEF Level, GenLevels
    <2>2. /\ o.name \in {"get", "insert", "remove", "range"}
          /\ o.key \in Key /\ o.val \in Value \cup {NoValue}
          /\ o.level \in Level /\ o.len \in Nat
          /\ o.name = "insert" => o.val \in Value
      <3>1. CASE o \in [name : {"get", "remove"}, key : Key, val : {NoValue},
                        level : {0}, len : {0}]
        BY <2>1, <3>1
      <3>2. CASE o \in [name : {"insert"}, key : Key, val : Value, level : GenLevels,
                        len : {0}]
        BY <2>1, <3>2
      <3>3. CASE o \in [name : {"range"}, key : Key, val : {NoValue}, level : {0},
                        len : Length]
        BY <2>1, <3>3
      <3> QED
        BY <3>1, <3>2, <3>3 DEF Ops
    <2> QED
      BY <2>1, <2>2 DEF OpType, Ops
  <1>5. older = Null /\ reply = NoReply /\ prev = Null
    BY <1>1 DEF SInv, Place, OlderInv, CallInv, CurInv, IdleOp
  <1>6. CallInv'
    BY <1>1, <1>4, <1>5 DEF CallInv
  <1>7. SearchInv(at)'
    BY <1>1, <1>2, <1>3 DEF SearchInv, NotAbove, Short, heap
  <1>8. OlderInv(at)' /\ RemoveInv(at)' /\ CurInv(at)'
    BY <1>1, <1>5 DEF OlderInv, RemoveInv, CurInv
  <1>9. SInv(at)'
    BY <1>1, <1>6, <1>7, <1>8, QuietStep DEF Place
  <1>10. TypeInv'
    BY <1>1, <1>3, <1>4 DEF TypeInv, heap, HeapTypeOK, Pointer
  <1> QED
    BY <1>9, <1>10

LEMMA ReturnKeeps ==
  ASSUME TypeInv, NEW at \in [Node -> Level], SInv(at), Return
  PROVE  TypeInv' /\ SInv(at)'
  <1>1. /\ pc = "ret" /\ pc' = "idle" /\ op' = IdleOp /\ reply' = NoReply
        /\ UNCHANGED <<heap, cur, prev, older, height>>
    BY DEF Return, locals
  <1>2. Place(at)'
    BY <1>1 DEF SInv, Place, CallInv, SearchInv, OlderInv, RemoveInv, CurInv, IdleOp
  <1>3. IdleOp \in OpType
    BY CallAssumption DEF IdleOp, OpType, Level
  <1>4. TypeInv'
    BY <1>1, <1>3 DEF TypeInv, heap, HeapTypeOK
  <1> QED
    BY <1>1, <1>2, <1>4, QuietStep

\* To the right: the next node is still short of the key.
LEMMA MoveRightKeeps ==
  ASSUME TypeInv, NEW at \in [Node -> Level], SInv(at), MoveRight
  PROVE  TypeInv' /\ SInv(at)'
  <1>1. /\ pc = "search" /\ cur' = next[cur]
        /\ UNCHANGED <<heap, pc, op, prev, older, height, reply>>
    BY DEF MoveRight
  <1>2. next[cur] \in alive /\ at[next[cur]] = height /\ Short(key, next[cur], op.key)
        /\ alive \in SUBSET Node
    BY <1>1, Here DEF MoveRight
  <1>3. Place(at)'
    BY <1>1, <1>2 DEF SInv, Place, CallInv, SearchInv, OlderInv, RemoveInv, CurInv, heap, NotAbove
  <1>4. TypeInv'
    BY <1>1, <1>2 DEF TypeInv, heap, HeapTypeOK, Pointer
  <1> QED
    BY <1>1, <1>3, <1>4, QuietStep

\* Between cur and the next node there is no place for the key: it is not
\* there on this level.
LEMMA NotHere ==
  ASSUME TypeInv, NEW at \in [Node -> Level], SInv(at), pc = "search",
         Beyond(next[cur], op.key), older = Null
  PROVE  \A n \in alive : at[n] >= height => key[n] # op.key
  <1> SUFFICES ASSUME NEW n \in alive, at[n] >= height, key[n] = op.key PROVE FALSE
    OBVIOUS
  <1>1. /\ op.key \in Key /\ cur \in alive /\ at[cur] = height /\ Short(key, cur, op.key)
        /\ next[cur] \in alive /\ Past(key, next[cur], op.key) /\ KeysOf(key, alive)
        /\ NotAbove(at, height) /\ height \in Level /\ alive \subseteq Node
    BY Here DEF SInv, Place, SearchInv
  <1>2. at[n] = height
    BY <1>1 DEF NotAbove, Level
  <1>3. Left(key, cur, n)
    BY <1>1, OrderOfKeys
  <1>4. n = next[cur] \/ Left(key, next[cur], n)
    BY <1>1, <1>2, <1>3 DEF SInv, ListsInv, ListInv
  <1> QED
    BY <1>1, <1>4, OrderOfKeys

\* The node below cur is short of the key, too.
LEMMA Below ==
  ASSUME TypeInv, NEW at \in [Node -> Level], SInv(at), NEW p \in alive, down[p] # Null
  PROVE  /\ down[p] \in alive /\ at[down[p]] = at[p] - 1 /\ key[down[p]] = key[p]
         /\ \A k : Short(key, p, k) => Short(key, down[p], k)
  <1>1. /\ down[p] \in alive /\ at[p] = at[down[p]] + 1 /\ key[down[p]] = key[p]
        /\ p \in Heads <=> down[p] \in Heads
        /\ p \in Tails <=> down[p] \in Tails
    BY DEF SInv, ListsInv, DownInv
  <1>2. at[p] \in Int /\ at[down[p]] \in Int
    BY <1>1 DEF Level, TypeInv, HeapTypeOK
  <1> QED
    BY <1>1, <1>2 DEF Short

LEMMA MoveDownKeeps ==
  ASSUME TypeInv, NEW at \in [Node -> Level], SInv(at), MoveDown,
         op.name = "insert" => op.level < height
  PROVE  TypeInv' /\ SInv(at)'
  <1>1. /\ pc = "search" /\ cur' = down[cur] /\ height' = height - 1 /\ down[cur] # Null
        /\ Beyond(next[cur], op.key)
        /\ UNCHANGED <<heap, pc, op, prev, older, reply>>
    BY DEF MoveDown
  <1>2. cur \in alive /\ at[cur] = height /\ height \in Level /\ Short(key, cur, op.key)
        /\ alive \in SUBSET Node /\ op.level \in Int
    BY <1>1, Here DEF SInv, Place, SearchInv, TypeInv, OpType, Level
  <1>3. down[cur] \in alive /\ at[down[cur]] = height - 1 /\ Short(key, down[cur], op.key)
    BY <1>1, <1>2, Below
  <1>4. older = Null
    BY <1>1, <1>2 DEF SInv, Place, OlderInv, Level
  <1>5. \A n \in alive : at[n] > height - 1 => key[n] # op.key
    <2>1. \A n \in alive : at[n] >= height => key[n] # op.key
      BY <1>1, <1>4, NotHere
    <2>2. \A n \in alive : at[n] \in Int
      BY <1>2 DEF Level
    <2> QED
      BY <1>2, <2>1, <2>2 DEF Level
  <1>6. SearchInv(at)'
    BY <1>1, <1>3, <1>5 DEF SearchInv, NotAbove, heap
  <1>7. CallInv' /\ OlderInv(at)' /\ RemoveInv(at)' /\ CurInv(at)'
    BY <1>1, <1>4 DEF SInv, Place, CallInv, OlderInv, RemoveInv, CurInv
  <1>8. TypeInv'
    BY <1>1, <1>2, <1>3 DEF TypeInv, heap, HeapTypeOK, Pointer
  <1> QED
    BY <1>1, <1>6, <1>7, <1>8, QuietStep DEF Place

LEMMA OffTheBottomKeeps ==
  ASSUME TypeInv, NEW at \in [Node -> Level], SInv(at), NEW r, OffTheBottom(r), op.name # "insert"
  PROVE  TypeInv' /\ SInv(at)'
  BY Here, QuietFinish DEF OffTheBottom

\* The tower of the key, from the level where it is found ...
LEMMA EnterTowerKeeps ==
  ASSUME TypeInv, NEW at \in [Node -> Level], SInv(at), EnterTower, op.name # "insert"
  PROVE  TypeInv' /\ SInv(at)'
  <1>1. /\ pc = "search" /\ pc' = "tower" /\ cur' = next[cur]
        /\ UNCHANGED <<heap, op, prev, older, height, reply>>
    BY DEF EnterTower
  <1>2. next[cur] \in alive /\ key[next[cur]] = op.key /\ older = Null /\ alive \in SUBSET Node
    BY <1>1, Here DEF EnterTower
  <1>3. Place(at)'
    BY <1>1, <1>2 DEF SInv, Place, CallInv, SearchInv, OlderInv, RemoveInv, CurInv, heap
  <1>4. TypeInv'
    BY <1>1, <1>2 DEF TypeInv, heap, HeapTypeOK, Pointer
  <1> QED
    BY <1>1, <1>3, <1>4, QuietStep

\* ... down to its foot.
LEMMA DescendTowerKeeps ==
  ASSUME TypeInv, NEW at \in [Node -> Level], SInv(at), DescendTower
  PROVE  TypeInv' /\ SInv(at)'
  <1>1. /\ pc = "tower" /\ cur' = down[cur] /\ down[cur] # Null
        /\ UNCHANGED <<heap, pc, op, prev, older, height, reply>>
    BY DEF DescendTower
  <1>2. cur \in alive /\ key[cur] = op.key /\ alive \in SUBSET Node
    BY <1>1 DEF SInv, Place, CurInv, TypeInv, HeapTypeOK
  <1>3. down[cur] \in alive /\ key[down[cur]] = op.key
    BY <1>1, <1>2, Below
  <1>4. Place(at)'
    BY <1>1, <1>3 DEF SInv, Place, CallInv, SearchInv, OlderInv, RemoveInv, CurInv, heap
  <1>5. TypeInv'
    BY <1>1, <1>2, <1>3 DEF TypeInv, heap, HeapTypeOK, Pointer
  <1> QED
    BY <1>1, <1>4, <1>5, QuietStep

\* The foot of the tower is on the bottom level.
LEMMA Foot ==
  ASSUME TypeInv, NEW at \in [Node -> Level], SInv(at), AtTowerFoot
  PROVE  /\ cur \in alive \ Sentinel /\ at[cur] = 0 /\ key[cur] = op.key /\ op.key \in Key
         /\ older = Null /\ pc = "tower"
  <1>1. /\ pc = "tower" /\ cur \in alive /\ key[cur] = op.key /\ op.key \in Key
        /\ older = Null /\ KeysOf(key, alive) /\ down[cur] = Null
    BY DEF AtTowerFoot, SInv, ListsInv, ListInv, Place, CallInv, OlderInv, CurInv
  <1>2. cur \notin Sentinel
    BY <1>1, OrderOfKeys
  <1>3. at[cur] = 0
    BY <1>1, HeapAssumption DEF SInv, ListsInv, TypeInv, HeapTypeOK
  <1> QED
    BY <1>1, <1>2, <1>3

LEMMA ReadValueKeeps ==
  ASSUME TypeInv, NEW at \in [Node -> Level], SInv(at), ReadValue
  PROVE  TypeInv' /\ SInv(at)'
  BY Foot, QuietFinish DEF ReadValue

-----------------------------------------------------------------------------
(* insert_or_modify.                                                       *)

\* The value of the key is replaced.
LEMMA WriteValueKeeps ==
  ASSUME TypeInv, NEW at \in [Node -> Level], SInv(at), WriteValue, op.name = "insert"
  PROVE  TypeInv' /\ SInv(at)'
  <1>1. /\ AtTowerFoot /\ val' = [val EXCEPT ![cur] = op.val]
        /\ Finish(NoReply) /\ UNCHANGED <<key, next, down, alive>>
    BY DEF WriteValue
  <1>2. cur \in alive \ Sentinel /\ at[cur] = 0 /\ older = Null /\ pc = "tower"
    BY <1>1, Foot
  <1>3. op.val \in Value /\ op.val # NoValue
    BY CallAssumption DEF SInv, Place, CallInv
  <1>4. Place(at)' /\ older' = Null
    BY <1>1, <1>2, FinishPlace
  <1>5. val' \in [Node -> Value \cup {NoValue}]
    BY <1>1, <1>3 DEF TypeInv, HeapTypeOK
  <1>6. ValuesAt(at, alive)'
    <2>1. ValuesAt(at, alive) /\ val \in [Node -> Value \cup {NoValue}]
      BY DEF SInv, ListsInv, TypeInv, HeapTypeOK
    <2> QED
      BY <1>1, <1>2, <1>3, <2>1 DEF ValuesAt
  <1>7. ListsInv(at)'
    <2>1. ListInv(at, alive)'
      BY <1>1 DEF SInv, ListsInv, ListInv, KeysOf
    <2>2. DownInv(at, alive)'
      BY <1>1 DEF SInv, ListsInv, DownInv
    <2>3. (\A n \in alive : down[n] = Null => at[n] = 0 \/ n = older)'
      BY <1>1, <1>2, <1>4 DEF SInv, ListsInv
    <2> QED
      BY <1>6, <2>1, <2>2, <2>3 DEF ListsInv
  <1>8. TypeInv'
    BY <1>1, <1>5 DEF TypeInv, Finish, HeapTypeOK, Pointer
  <1> QED
    BY <1>4, <1>7, <1>8 DEF SInv

\* The new tower is put on the old one.
LEMMA JoinTowerKeeps ==
  ASSUME TypeInv, NEW at \in [Node -> Level], SInv(at), JoinTower
  PROVE  TypeInv' /\ SInv(at)'
  <1>1. /\ pc = "search" /\ pc' = "tower" /\ cur' = next[cur] /\ older' = Null
        /\ Equal(next[cur], op.key) /\ down' = Under(older, next[cur])
        /\ UNCHANGED <<key, val, next, alive, op, prev, height, reply>>
    BY DEF JoinTower
  <1>2. /\ next[cur] \in alive /\ at[next[cur]] = height /\ key[next[cur]] = op.key
        /\ op.key \in Key /\ KeysOf(key, alive) /\ alive \in SUBSET Node
    BY <1>1, Here
  <1>3. next[cur] \notin Heads /\ next[cur] \notin Tails
    BY <1>2, OrderOfKeys, SentinelSets
  <1>4. \A m \in Node : down'[m] = IF m = older THEN next[cur] ELSE down[m]
    BY <1>1 DEF Under
  <1>5. next[cur] # Null /\ Null \notin Node
    BY <1>2, HeapAssumption
  <1>6. older # Null =>
          /\ older \in alive /\ key[older] = op.key /\ at[older] = height + 1
          /\ older \notin Heads /\ older \notin Tails
    <2>1. older # Null => older \in alive /\ key[older] = op.key /\ at[older] = height + 1
      BY DEF SInv, Place, OlderInv
    <2> QED
      BY <1>2, <2>1, OrderOfKeys, SentinelSets
  <1>7. DownInv(at, alive)'
    <2>1. DownInv(at, alive)
      BY DEF SInv, ListsInv
    <2>2. ASSUME NEW m \in alive, down'[m] # Null
          PROVE  /\ down'[m] \in alive /\ at[m] = at[down'[m]] + 1 /\ key[down'[m]] = key[m]
                 /\ m \in Heads <=> down'[m] \in Heads
                 /\ m \in Tails <=> down'[m] \in Tails
      <3>1. CASE m = older
        BY <1>2, <1>3, <1>4, <1>5, <1>6, <3>1
      <3>2. CASE m # older
        BY <1>2, <1>4, <2>1, <2>2, <3>2 DEF DownInv
      <3> QED
        BY <3>1, <3>2
    <2>3. \A m \in Node \ alive : down'[m] = Null
      BY <1>4, <1>5, <1>6, <2>1 DEF DownInv
    <2> QED
      BY <1>1, <2>2, <2>3 DEF DownInv
  <1>8. \A m \in alive : down'[m] = Null => at[m] = 0
    BY <1>2, <1>4, <1>5 DEF SInv, ListsInv
  <1>9. ListsInv(at)'
    <2>1. ListInv(at, alive)'
      BY <1>1 DEF SInv, ListsInv, ListInv, KeysOf
    <2>2. ValuesAt(at, alive)'
      BY <1>1 DEF SInv, ListsInv, ValuesAt
    <2> QED
      BY <1>1, <1>7, <1>8, <2>1, <2>2 DEF ListsInv
  <1>10. Place(at)'
    BY <1>1, <1>2 DEF SInv, Place, CallInv, SearchInv, OlderInv, RemoveInv, CurInv
  <1>11. TypeInv'
    <2>1. down' \in [Node -> Pointer] /\ next[cur] \in Pointer /\ Null \in Pointer
      BY <1>1, <1>2 DEF TypeInv, HeapTypeOK, Under, Pointer
    <2> QED
      BY <1>1, <2>1 DEF TypeInv, HeapTypeOK
  <1> QED
    BY <1>9, <1>10, <1>11 DEF SInv

\* The facts about a step that links a node.
LEMMA LinkNewStep ==
  ASSUME TypeInv, NEW at \in [Node -> Level], SInv(at), LinkNew, op.name = "insert",
         NEW n, n = Fresh(op.key, height)
  PROVE  /\ pc = "search" /\ op.level >= height /\ op.val \in Value
         /\ Short(key, cur, op.key) /\ Past(key, next[cur], op.key)
         /\ n \in Node \ alive /\ Linked(cur, n, op.key)
         /\ val' = [val EXCEPT ![n] = IF height = 0 THEN op.val ELSE NoValue]
         /\ \A m \in Node : down'[m] = IF m = older THEN n ELSE down[m]
         /\ key' \in [Node -> Key \cup {NoKey}] /\ next' \in [Node -> Pointer]
         /\ down' \in [Node -> Pointer]
         /\ older # Null => /\ older \in alive \ Sentinel /\ key[older] = op.key
                            /\ at[older] = height + 1
  <1>1. /\ pc = "search" /\ op.level >= height /\ Vacant(op.key, height) # {}
        /\ Beyond(next[cur], op.key)
        /\ Create(n, op.key, height, op.val)
        /\ next' = Behind(cur, n) /\ down' = Under(older, n)
    BY DEF LinkNew
  <1>2. n \in Node \ alive
    BY <1>1 DEF Fresh, Vacant
  <1>3. /\ cur \in alive \ Tails /\ op.key \in Key /\ next[cur] \in alive
        /\ Past(key, next[cur], op.key) /\ KeysOf(key, alive) /\ alive \in SUBSET Node
    BY <1>1, Here
  <1>4. Short(key, cur, op.key)
    BY <1>1 DEF SInv, Place, SearchInv
  <1>5. /\ key \in [Node -> Key \cup {NoKey}] /\ next \in [Node -> Pointer]
        /\ down \in [Node -> Pointer]
    BY DEF TypeInv, HeapTypeOK
  <1>6. Linked(cur, n, op.key)
    <2>1. key' = [key EXCEPT ![n] = op.key] /\ alive' = alive \cup {n}
          /\ next' = [next EXCEPT ![n] = next[cur], ![cur] = n]
      BY <1>1 DEF Create, Behind
    <2>2. n # cur
      BY <1>2, <1>3
    <2>3. next'[n] = next[cur] /\ \A m \in alive : next'[m] = IF m = cur THEN n ELSE next[m]
      BY <1>2, <1>3, <1>5, <2>1, <2>2
    <2> QED
      BY <1>2, <1>3, <1>5, <2>1, <2>3 DEF Linked
  <1>7. /\ \A m \in Node : down'[m] = IF m = older THEN n ELSE down[m]
        /\ down' \in [Node -> Pointer]
    BY <1>1, <1>2, <1>5 DEF Under, Pointer
  <1>8. key' \in [Node -> Key \cup {NoKey}] /\ next' \in [Node -> Pointer]
    BY <1>1, <1>2, <1>3, <1>5 DEF Create, Behind, Pointer
  <1>9. older # Null => /\ older \in alive \ Sentinel /\ key[older] = op.key
                        /\ at[older] = height + 1
    <2>1. older # Null => older \in alive /\ key[older] = op.key /\ at[older] = height + 1
      BY DEF SInv, Place, OlderInv
    <2> QED
      BY <1>3, <2>1, OrderOfKeys
  <1>10. op.val \in Value
    BY DEF SInv, Place, CallInv
  <1>11. val' = [val EXCEPT ![n] = IF height = 0 THEN op.val ELSE NoValue]
    BY <1>1 DEF Create
  <1> QED
    BY <1>1, <1>2, <1>3, <1>4, <1>6, <1>7, <1>8, <1>9, <1>10, <1>11

\* A node is linked on the level of the search, under the one of the level
\* above.
LEMMA LinkNewKeeps ==
  ASSUME TypeInv, NEW at \in [Node -> Level], SInv(at), LinkNew, op.name = "insert"
  PROVE  TypeInv' /\ \E at2 \in [Node -> Level] : SInv(at2)'
  <1>1. PICK n : n = Fresh(op.key, height)
    OBVIOUS
  <1>2. /\ pc = "search" /\ op.level >= height /\ op.val \in Value
        /\ Short(key, cur, op.key) /\ Past(key, next[cur], op.key)
        /\ n \in Node \ alive /\ Linked(cur, n, op.key)
        /\ val' = [val EXCEPT ![n] = IF height = 0 THEN op.val ELSE NoValue]
        /\ \A m \in Node : down'[m] = IF m = older THEN n ELSE down[m]
        /\ key' \in [Node -> Key \cup {NoKey}] /\ next' \in [Node -> Pointer]
        /\ down' \in [Node -> Pointer]
    BY <1>1, LinkNewStep
  <1>3. older # Null => /\ older \in alive \ Sentinel /\ key[older] = op.key
                        /\ at[older] = height + 1
    BY <1>1, LinkNewStep
  <1>4. /\ op.key \in Key /\ height \in Level /\ cur \in alive \ Tails /\ at[cur] = height
        /\ down[cur] = Null <=> height = 0
        /\ alive \in SUBSET Node
    BY <1>2, Here
  <1>5. PICK on \in SUBSET Node : on = alive
    BY <1>4
  <1>6. PICK on2 \in SUBSET Node : on2 = alive \cup {n}
    BY <1>2, <1>4
  <1>7. PICK at2 \in [Node -> Level] : at2 = [at EXCEPT ![n] = height]
    BY <1>4
  <1>8. at2[n] = height /\ \A m \in Node \ {n} : at2[m] = at[m]
    BY <1>2, <1>7
  <1>9. /\ alive' = alive \cup {n} /\ key'[n] = op.key
        /\ \A m \in alive : key'[m] = key[m]
    BY <1>2 DEF Linked
  <1>10. ListInv(at, on)
    BY <1>5 DEF SInv, ListsInv, ListInv
  <1>11. ListInv(at2, on2)' /\ n \notin Heads /\ n \notin Tails
    <2>1. Grown(at, on, at2, on2, at[cur], n)
      BY <1>4, <1>5, <1>6, <1>8 DEF Grown
    <2>2. cur \in on \ Tails
      BY <1>4, <1>5
    <2> QED
      BY <1>2, <1>4, <1>10, <2>1, <2>2, ListGrows, LinkedPlace
  <1>12. ListInv(at2, alive)'
    BY <1>6, <1>9, <1>11 DEF ListInv
  <1>13. Null \notin Node /\ n # older /\ n # Null
    BY <1>2, <1>3, HeapAssumption
  <1>14. DownInv(at2, alive)'
    <2>1. DownInv(at, alive)
      BY DEF SInv, ListsInv
    <2>2. ASSUME NEW m \in alive', down'[m] # Null
          PROVE  /\ down'[m] \in alive' /\ at2[m] = at2[down'[m]] + 1 /\ key'[down'[m]] = key'[m]
                 /\ m \in Heads <=> down'[m] \in Heads
                 /\ m \in Tails <=> down'[m] \in Tails
      <3>1. CASE m = older
        <4>1. older \in alive \ Sentinel /\ key[older] = op.key /\ at[older] = height + 1
          BY <1>2, <1>3, <1>4, <1>9, <1>13, <3>1
        <4> QED
          BY <1>2, <1>4, <1>8, <1>9, <1>11, <1>13, <3>1, <4>1, SentinelSets
      <3>2. CASE m # older
        <4>1. down'[m] = down[m]
          BY <1>2, <1>4, <1>9, <3>2
        <4>2. m # n
          BY <1>2, <2>1, <2>2, <4>1 DEF DownInv
        <4>3. m \in alive /\ down[m] \in alive /\ down[m] # n
          BY <1>2, <1>9, <2>1, <2>2, <4>1, <4>2 DEF DownInv
        <4>4. at2[m] = at[m] /\ at2[down[m]] = at[down[m]]
              /\ key'[m] = key[m] /\ key'[down[m]] = key[down[m]]
          BY <1>4, <1>8, <1>9, <4>2, <4>3
        <4> QED
          BY <1>9, <2>1, <2>2, <4>1, <4>3, <4>4 DEF DownInv
      <3> QED
        BY <3>1, <3>2
    <2>3. \A m \in Node \ alive' : down'[m] = Null
      BY <1>2, <1>3, <1>9, <1>13, <2>1 DEF DownInv
    <2> QED
      BY <2>2, <2>3 DEF DownInv
  <1>15. ValuesAt(at2, alive)'
    <2>1. ValuesAt(at, alive) /\ val \in [Node -> Value \cup {NoValue}]
      BY DEF SInv, ListsInv, TypeInv, HeapTypeOK
    <2>2. val'[n] # NoValue <=> n \in alive' \ Sentinel /\ at2[n] = 0
      BY <1>2, <1>8, <1>9, <1>11, <2>1, SentinelSets, CallAssumption
    <2>3. ASSUME NEW m \in Node, m # n
          PROVE  val'[m] # NoValue <=> m \in alive' \ Sentinel /\ at2[m] = 0
      BY <1>2, <1>8, <1>9, <2>1, <2>3 DEF ValuesAt
    <2> QED
      BY <2>2, <2>3 DEF ValuesAt
  <1>16. \A m \in alive' : down'[m] = Null => m = n \/ at2[m] = 0
    BY <1>2, <1>4, <1>8, <1>9, <1>13 DEF SInv, ListsInv
  <1>17. val' \in [Node -> Value \cup {NoValue}]
    BY <1>2 DEF TypeInv, HeapTypeOK
  <1>18. alive' \in SUBSET Node
    BY <1>6, <1>9
  <1>19. CASE height = 0
    <2>1. Finish(NoReply)
      BY <1>19 DEF LinkNew
    <2>2. Place(at2)' /\ older' = Null
      BY <1>2, <2>1, FinishPlace
    <2>3. ListsInv(at2)'
      BY <1>8, <1>12, <1>14, <1>15, <1>16, <1>19 DEF ListsInv
    <2>4. TypeInv'
      BY <1>2, <1>17, <1>18, <2>1 DEF TypeInv, HeapTypeOK, Finish, Pointer
    <2> QED
      BY <1>7, <2>2, <2>3, <2>4 DEF SInv
  <1>20. CASE height # 0
    <2>1. older' = n /\ cur' = down[cur] /\ height' = height - 1 /\ UNCHANGED <<pc, op, prev, reply>>
      BY <1>1, <1>20 DEF LinkNew
    <2>2. ListsInv(at2)'
      BY <1>12, <1>14, <1>15, <1>16, <2>1 DEF ListsInv
    <2>3. /\ down[cur] \in alive /\ at[down[cur]] = height - 1
          /\ Short(key, down[cur], op.key)
      BY <1>2, <1>4, <1>20, Below
    <2>4. SearchInv(at2)'
      <3>1. at2[down[cur]] = height - 1 /\ key'[down[cur]] = key[down[cur]]
        BY <1>2, <1>4, <1>8, <1>9, <2>3
      <3>2. Short(key', down[cur], op.key)
        BY <2>3, <3>1 DEF Short
      <3> QED
        BY <1>9, <1>13, <2>1, <2>3, <3>1, <3>2 DEF SearchInv
    <2>5. OlderInv(at2)'
      <3>1. down'[n] = Null
        BY <1>2, <1>13 DEF SInv, ListsInv, DownInv
      <3>2. op.level > height - 1 /\ height = (height - 1) + 1
        BY <1>2, <1>4 DEF Level, TypeInv, OpType
      <3> QED
        BY <1>2, <1>8, <1>9, <2>1, <3>1, <3>2, Zenon DEF OlderInv
    <2>6. CallInv' /\ RemoveInv(at2)' /\ CurInv(at2)'
      BY <1>2, <2>1 DEF SInv, Place, CallInv, RemoveInv, CurInv
    <2>7. TypeInv'
      BY <1>2, <1>4, <1>17, <1>18, <2>1, <2>3 DEF TypeInv, HeapTypeOK, Pointer
    <2> QED
      BY <1>7, <2>2, <2>4, <2>5, <2>6, <2>7 DEF SInv, Place
  <1> QED
    BY <1>19, <1>20

-----------------------------------------------------------------------------
(* remove.                                                                 *)

LEMMA RemoveFoundKeeps ==
  ASSUME TypeInv, NEW at \in [Node -> Level], SInv(at), RemoveFound, op.name = "remove"
  PROVE  TypeInv' /\ SInv(at)'
  <1>1. /\ pc = "search" /\ pc' = "unlink" /\ prev' = cur /\ cur' = next[cur]
        /\ Equal(next[cur], op.key)
        /\ UNCHANGED <<heap, op, older, height, reply>>
    BY DEF RemoveFound
  <1>2. /\ next[cur] \in alive /\ at[next[cur]] = height /\ key[next[cur]] = op.key
        /\ cur \in alive /\ at[cur] = height /\ older = Null /\ alive \in SUBSET Node
    BY <1>1, Here
  <1>3. Short(key, cur, op.key) /\ NotAbove(at, height)
    BY <1>1, <1>2 DEF SInv, Place, SearchInv
  <1>4. RemoveInv(at)'
    BY <1>1, <1>2, <1>3 DEF RemoveInv, NotAbove, heap
  <1>5. CallInv' /\ SearchInv(at)' /\ OlderInv(at)' /\ CurInv(at)'
    BY <1>1, <1>2 DEF SInv, Place, CallInv, SearchInv, OlderInv, CurInv
  <1>6. TypeInv'
    BY <1>1, <1>2 DEF TypeInv, heap, HeapTypeOK, Pointer
  <1> QED
    BY <1>1, <1>4, <1>5, <1>6, QuietStep DEF Place

\* There is one node of a key on a level.
LEMMA OneOnLevel ==
  ASSUME NEW at, NEW on, ListInv(at, on), NEW m \in on, NEW n \in on, at[m] = at[n],
         key[m] \in Key, key[n] = key[m]
  PROVE  m = n
  <1>1. key[m] \in Int
    BY CallAssumption
  <1>2. KeysOf(key, alive) /\ on \subseteq alive
    BY DEF ListInv
  <1>3. m \notin Sentinel /\ n \notin Sentinel
    BY <1>1, <1>2, CallAssumption DEF KeysOf
  <1> QED
    BY <1>1, <1>3, SentinelSets DEF ListInv, Left

\* The nodes a remove takes out: none is above, and the other pointer, left of
\* it, has a node below it if this one has.
LEMMA AtUnlink ==
  ASSUME TypeInv, NEW at \in [Node -> Level], SInv(at), pc \in {"unlink", "seek"}
  PROVE  /\ cur \in alive \ Sentinel /\ key[cur] = op.key /\ op.key \in Key
         /\ prev \in alive \ Tails /\ at[prev] = at[cur] /\ prev # cur
         /\ Short(key, prev, op.key) /\ NotAbove(at, at[cur])
         /\ older = Null /\ op.name = "remove"
         /\ \A n \in alive : down[n] = Null <=> at[n] = 0
         /\ KeysOf(key, alive) /\ alive \in SUBSET Node
  <1>1. /\ cur \in alive /\ key[cur] = op.key /\ op.key \in Key
        /\ prev \in alive /\ at[prev] = at[cur]
        /\ Short(key, prev, op.key) /\ NotAbove(at, at[cur])
        /\ older = Null /\ op.name = "remove"
        /\ KeysOf(key, alive) /\ alive \in SUBSET Node
    BY DEF SInv, ListsInv, ListInv, Place, RemoveInv, CallInv, OlderInv, TypeInv, HeapTypeOK
  <1>2. cur \notin Sentinel /\ prev \notin Tails /\ prev # cur
    BY <1>1, OrderOfKeys, SentinelSets DEF Short
  <1>3. ASSUME NEW n \in alive PROVE down[n] = Null <=> at[n] = 0
    <2>1. down[n] = Null => at[n] = 0
      BY <1>1, HeapAssumption DEF SInv, ListsInv
    <2>2. down[n] # Null => at[n] = at[down[n]] + 1 /\ down[n] \in alive
      BY DEF SInv, ListsInv, DownInv
    <2> QED
      BY <1>1, <2>1, <2>2 DEF Level
  <1> QED
    BY <1>1, <1>2, <1>3

\* A node of the tower is taken out of its level and deleted.
LEMMA UnlinkKeeps ==
  ASSUME TypeInv, NEW at \in [Node -> Level], SInv(at), Unlink
  PROVE  TypeInv' /\ SInv(at)'
  <1>1. /\ pc = "unlink" /\ Destroy(cur, Skip(prev, cur))
    BY DEF Unlink
  <1>2. /\ cur \in alive \ Sentinel /\ key[cur] = op.key /\ op.key \in Key
        /\ prev \in alive \ Tails /\ at[prev] = at[cur] /\ prev # cur
        /\ Short(key, prev, op.key) /\ NotAbove(at, at[cur])
        /\ older = Null /\ op.name = "remove"
        /\ KeysOf(key, alive) /\ alive \in SUBSET Node
    BY <1>1, AtUnlink
  <1>3. \A n \in alive : down[n] = Null <=> at[n] = 0
    BY <1>1, AtUnlink
  <1>4. cur = next[prev] /\ cur \notin Tails
    BY <1>1, <1>2, SentinelSets DEF SInv, Place, RemoveInv
  <1>5. HeapTypeOK /\ next[cur] \in Pointer
    BY <1>2 DEF TypeInv, HeapTypeOK
  <1>6. /\ alive' = alive \ {cur}
        /\ \A n \in Node : key'[n] = IF n = cur THEN NoKey ELSE key[n]
        /\ \A n \in Node : val'[n] = IF n = cur THEN NoValue ELSE val[n]
        /\ \A n \in Node : down'[n] = IF n = cur THEN Null ELSE down[n]
        /\ \A n \in Node \ {cur} : next'[n] = IF n = prev THEN next[cur] ELSE next[n]
    BY <1>1, <1>2, <1>5 DEF Destroy, Skip, HeapTypeOK
  <1>7. HeapTypeOK'
    BY <1>1, <1>2, <1>5 DEF Destroy, Skip, HeapTypeOK, Pointer
  <1>8. PICK on \in SUBSET Node : on = alive
    BY <1>2
  <1>9. PICK on2 \in SUBSET Node : on2 = alive \ {cur}
    BY <1>2
  <1>10. PICK p \in Node, c \in Node : p = prev /\ c = cur
    BY <1>2
  <1>11. ListInv(at, on)
    BY <1>8 DEF SInv, ListsInv, ListInv
  <1>12. ListInv(at, on2)'
    <2>1. Unlinked(p, c)
      BY <1>2, <1>6, <1>10 DEF Unlinked
    <2>2. p \in on \ Tails /\ c = next[p] /\ c \notin Tails /\ on2 = on \ {c}
      BY <1>2, <1>4, <1>8, <1>9, <1>10
    <2> QED
      BY <1>11, <2>1, <2>2, ListShrinks
  <1>13. ListInv(at, alive)'
    BY <1>6, <1>9, <1>12 DEF ListInv
  <1>14. ASSUME NEW n \in alive, down[n] # Null PROVE down[n] # cur
    <2>1. down[n] \in alive /\ at[n] = at[down[n]] + 1 /\ key[down[n]] = key[n]
      BY <1>14 DEF SInv, ListsInv, DownInv
    <2> QED
      BY <1>2, <2>1 DEF NotAbove, Level
  <1>15. DownInv(at, alive)'
    <2>1. DownInv(at, alive)
      BY DEF SInv, ListsInv
    <2>2. ASSUME NEW n \in alive', down'[n] # Null
          PROVE  /\ down'[n] \in alive' /\ at[n] = at[down'[n]] + 1 /\ key'[down'[n]] = key'[n]
                 /\ n \in Heads <=> down'[n] \in Heads
                 /\ n \in Tails <=> down'[n] \in Tails
      <3>1. n \in alive /\ n # cur /\ down'[n] = down[n] /\ down[n] # Null
        BY <1>2, <1>6, <2>2
      <3>2. down[n] \in alive' /\ key'[down[n]] = key[down[n]] /\ key'[n] = key[n]
        BY <1>2, <1>6, <1>14, <2>1, <3>1 DEF DownInv
      <3> QED
        BY <2>1, <3>1, <3>2 DEF DownInv
    <2>3. \A n \in Node \ alive' : down'[n] = Null
      BY <1>6, <2>1 DEF DownInv
    <2> QED
      BY <2>2, <2>3 DEF DownInv
  <1>16. \A n \in alive' : down'[n] = Null => at[n] = 0
    BY <1>2, <1>3, <1>6
  <1>17. ValuesAt(at, alive)'
    <2>1. ValuesAt(at, alive)
      BY DEF SInv, ListsInv
    <2> QED
      BY <1>6, <2>1 DEF ValuesAt
  <1>18. ListsInv(at)'
    BY <1>13, <1>15, <1>16, <1>17 DEF ListsInv
  <1>19. CASE down[cur] = Null
    <2>1. Finish(<<"removed", op.key, NoValue>>)
      BY <1>19 DEF Unlink
    <2>2. Place(at)' /\ older' = Null
      BY <1>1, <2>1, FinishPlace
    <2>3. TypeInv'
      BY <1>7, <2>1 DEF TypeInv, Finish, Pointer
    <2> QED
      BY <1>18, <2>2, <2>3 DEF SInv
  <1>20. CASE down[cur] # Null
    <2>1. /\ cur' = down[cur] /\ prev' = down[prev] /\ pc' = "seek"
          /\ UNCHANGED <<op, older, height, reply>>
      BY <1>20 DEF Unlink
    <2>2. /\ down[cur] \in alive /\ at[down[cur]] = at[cur] - 1 /\ key[down[cur]] = op.key
      BY <1>2, <1>20, Below
    <2>3. down[prev] # Null
      BY <1>2, <1>3, <1>20
    <2>4. /\ down[prev] \in alive /\ at[down[prev]] = at[cur] - 1 /\ Short(key, down[prev], op.key)
      BY <1>2, <2>3, Below
    <2>5. /\ down[cur] \in alive' /\ key'[down[cur]] = op.key
          /\ down[prev] \in alive' /\ key'[down[prev]] = key[down[prev]]
      BY <1>2, <1>6, <1>14, <1>20, <2>2, <2>3, <2>4
    <2>6. Short(key', down[prev], op.key)
      BY <2>4, <2>5 DEF Short
    <2>7. ASSUME NEW n \in alive', at[n] > at[down[cur]] PROVE key'[n] # op.key
      <3>1. n \in alive /\ n # cur /\ key'[n] = key[n]
        BY <1>2, <1>6
      <3>2. at[n] = at[cur] \/ at[n] > at[cur]
        BY <1>2, <2>2, <2>7, <3>1 DEF Level
      <3>3. CASE at[n] = at[cur]
        BY <1>2, <1>8, <1>11, <3>1, <3>3, OneOnLevel
      <3>4. CASE at[n] > at[cur]
        BY <1>2, <3>1, <3>4 DEF NotAbove
      <3> QED
        BY <3>2, <3>3, <3>4
    <2>8. RemoveInv(at)'
      BY <2>1, <2>2, <2>4, <2>5, <2>6, <2>7 DEF RemoveInv, NotAbove
    <2>9. CallInv' /\ SearchInv(at)' /\ OlderInv(at)' /\ CurInv(at)'
      BY <1>1, <1>2, <2>1 DEF SInv, Place, CallInv, SearchInv, OlderInv, CurInv
    <2>10. TypeInv'
      BY <1>2, <1>7, <2>1, <2>2, <2>4 DEF TypeInv, Pointer
    <2> QED
      BY <1>18, <2>8, <2>9, <2>10 DEF SInv, Place
  <1> QED
    BY <1>19, <1>20

\* prev goes right until the node of the key is next: it does not pass it, so
\* it never gets to the tail.
LEMMA SeekKeeps ==
  ASSUME TypeInv, NEW at \in [Node -> Level], SInv(at), Seek
  PROVE  TypeInv' /\ SInv(at)'
  <1>1. /\ pc = "seek" /\ UNCHANGED <<heap, op, cur, older, height, reply>>
        /\ pc' = CASE key[next[prev]] = NoKey  -> "crash"
                   [] key[next[prev]] = op.key -> "unlink"
                   [] OTHER                    -> "seek"
        /\ prev' = IF pc' = "seek" THEN next[prev] ELSE prev
    BY DEF Seek
  <1>2. /\ cur \in alive \ Sentinel /\ key[cur] = op.key /\ op.key \in Key
        /\ prev \in alive \ Tails /\ at[prev] = at[cur] /\ prev # cur
        /\ Short(key, prev, op.key) /\ NotAbove(at, at[cur])
        /\ older = Null /\ op.name = "remove"
        /\ KeysOf(key, alive) /\ alive \in SUBSET Node
    BY <1>1, AtUnlink
  <1>3. Left(key, prev, cur)
    <2>1. ~Short(key, cur, op.key)
      BY <1>2, OrderOfKeys
    <2> QED
      BY <1>2, <2>1, OrderOfKeys
  <1>4. /\ next[prev] \in alive \ Heads /\ at[next[prev]] = at[cur]
        /\ cur = next[prev] \/ Left(key, next[prev], cur)
    BY <1>2, <1>3 DEF SInv, ListsInv, ListInv, Left
  <1>5. key[next[prev]] \in Key /\ key[next[prev]] # NoKey
    <2>1. next[prev] \notin Sentinel
      BY <1>2, <1>4, SentinelSets DEF Left
    <2> QED
      BY <1>2, <1>4, <2>1, CallAssumption DEF KeysOf
  <1>6. CASE key[next[prev]] = op.key
    <2>1. pc' = "unlink" /\ prev' = prev
      BY <1>1, <1>5, <1>6
    <2>2. cur = next[prev]
      BY <1>2, <1>4, <1>6, OneOnLevel DEF SInv, ListsInv
    <2>3. Place(at)'
      BY <1>1, <1>2, <2>1, <2>2
      DEF SInv, Place, CallInv, SearchInv, OlderInv, RemoveInv, CurInv, heap, NotAbove
    <2>4. TypeInv'
      BY <1>1, <2>1 DEF TypeInv, heap, HeapTypeOK
    <2> QED
      BY <1>1, <2>3, <2>4, QuietStep
  <1>7. CASE key[next[prev]] # op.key
    <2>1. pc' = "seek" /\ prev' = next[prev]
      BY <1>1, <1>5, <1>7
    <2>2. Short(key, next[prev], op.key)
      <3>1. Left(key, next[prev], cur)
        BY <1>2, <1>4, <1>7
      <3> QED
        BY <1>2, <1>4, <3>1, OrderOfKeys
    <2>3. Place(at)'
      BY <1>1, <1>2, <1>4, <2>1, <2>2
      DEF SInv, Place, CallInv, SearchInv, OlderInv, RemoveInv, CurInv, heap, NotAbove
    <2>4. TypeInv'
      BY <1>1, <1>2, <1>4, <2>1 DEF TypeInv, heap, HeapTypeOK, Pointer
    <2> QED
      BY <1>1, <2>3, <2>4, QuietStep
  <1> QED
    BY <1>6, <1>7

-----------------------------------------------------------------------------
(* range.                                                                  *)

\* The walk begins at the first node that is not short of the key.
LEMMA LandKeeps ==
  ASSUME TypeInv, NEW at \in [Node -> Level], SInv(at), Land, op.name = "range"
  PROVE  TypeInv' /\ SInv(at)'
  <1>1. /\ AtTowerFoot \/ (pc = "search" /\ Beyond(next[cur], op.key) /\ down[cur] = Null)
        /\ key[cur] # NoKey /\ pc' = "emit"
        /\ cur' = IF key[cur] < op.key THEN next[cur] ELSE cur
        /\ UNCHANGED <<heap, op, prev, older, height, reply>>
    BY DEF Land
  <1>2. older = Null /\ prev = Null /\ op.key \in Key /\ op.key \in Int /\ alive \in SUBSET Node
    BY <1>1, CallAssumption
    DEF AtTowerFoot, SInv, Place, OlderInv, CurInv, CallInv, TypeInv, HeapTypeOK
  <1>3. cur' \in alive \ Heads /\ at[cur'] = 0
    <2>1. CASE AtTowerFoot
      <3>1. cur \in alive \ Sentinel /\ at[cur] = 0 /\ key[cur] = op.key
        BY <2>1, Foot
      <3>2. cur' = cur
        BY <1>1, <1>2, <3>1
      <3> QED
        BY <3>1, <3>2, SentinelSets
    <2>2. CASE pc = "search" /\ Beyond(next[cur], op.key) /\ down[cur] = Null
      <3>1. /\ cur \in alive \ Tails /\ at[cur] = height /\ height = 0
            /\ next[cur] \in alive \ Heads /\ at[next[cur]] = height
            /\ KeysOf(key, alive)
        BY <2>2, Here
      <3>2. cur \notin Heads
        BY <1>1, <3>1, SentinelSets DEF KeysOf
      <3>3. key[cur] < op.key
        BY <2>2, <3>2 DEF SInv, Place, SearchInv, Short
      <3> QED
        BY <1>1, <3>1, <3>3
    <2> QED
      BY <1>1, <2>1, <2>2
  <1>4. CurInv(at)'
    BY <1>1, <1>2, <1>3 DEF CurInv, heap
  <1>5. CallInv' /\ SearchInv(at)' /\ OlderInv(at)' /\ RemoveInv(at)'
    BY <1>1, <1>2 DEF SInv, Place, CallInv, SearchInv, OlderInv, RemoveInv, AtTowerFoot
  <1>6. TypeInv'
    BY <1>1, <1>2, <1>3 DEF TypeInv, heap, HeapTypeOK, Pointer
  <1> QED
    BY <1>1, <1>4, <1>5, <1>6, QuietStep DEF Place

LEMMA LandOnHeadKeeps ==
  ASSUME TypeInv, NEW at \in [Node -> Level], SInv(at), LandOnHead, op.name = "range"
  PROVE  TypeInv' /\ SInv(at)'
  BY Here, QuietFinish DEF LandOnHead

\* Where the walk is.
LEMMA OnTheWalk ==
  ASSUME TypeInv, NEW at \in [Node -> Level], SInv(at), pc \in {"emit", "step"}
  PROVE  /\ cur \in alive \ Heads /\ at[cur] = 0 /\ op.name = "range" /\ op.key \in Key
         /\ pc = "step" => cur \notin Tails
         /\ key[cur] = NoKey <=> cur \in Tails
         /\ older = Null /\ KeysOf(key, alive) /\ alive \in SUBSET Node
  <1>1. /\ cur \in alive \ Heads /\ at[cur] = 0 /\ op.name = "range" /\ op.key \in Key
        /\ pc = "step" => cur \notin Tails
        /\ older = Null /\ KeysOf(key, alive) /\ alive \in SUBSET Node
    BY DEF SInv, ListsInv, ListInv, Place, CallInv, OlderInv, CurInv, TypeInv, HeapTypeOK
  <1>2. key[cur] = NoKey <=> cur \in Tails
    BY <1>1, SentinelSets, CallAssumption DEF KeysOf
  <1> QED
    BY <1>1, <1>2

LEMMA EmitKeeps ==
  ASSUME TypeInv, NEW at \in [Node -> Level], SInv(at), Emit
  PROVE  TypeInv' /\ SInv(at)'
  <1>1. /\ pc = "emit" /\ key[cur] # NoKey /\ op.len > 0 /\ pc' = "step"
        /\ op' = [op EXCEPT !.len = @ - 1]
        /\ UNCHANGED <<heap, cur, prev, older, height>>
    BY DEF Emit, locals
  <1>2. /\ cur \in alive \ Heads /\ at[cur] = 0 /\ op.name = "range" /\ op.key \in Key
        /\ cur \notin Tails /\ older = Null
    BY <1>1, OnTheWalk
  <1>3. op \in OpType /\ op' \in OpType /\ op'.name = op.name /\ op'.key = op.key
    BY <1>1 DEF TypeInv, OpType
  <1>4. Place(at)'
    BY <1>1, <1>2, <1>3 DEF SInv, Place, CallInv, SearchInv, OlderInv, RemoveInv, CurInv, heap
  <1>5. TypeInv'
    BY <1>1, <1>3 DEF TypeInv, heap, HeapTypeOK
  <1> QED
    BY <1>1, <1>4, <1>5, QuietStep

LEMMA StepRightKeeps ==
  ASSUME TypeInv, NEW at \in [Node -> Level], SInv(at), StepRight
  PROVE  TypeInv' /\ SInv(at)'
  <1>1. /\ pc = "step" /\ pc' = "emit" /\ cur' = next[cur]
        /\ UNCHANGED <<heap, op, prev, older, height, reply>>
    BY DEF StepRight
  <1>2. cur \in alive \ Tails /\ at[cur] = 0 /\ op.name = "range" /\ alive \in SUBSET Node
    BY <1>1, OnTheWalk
  <1>3. next[cur] \in alive \ Heads /\ at[next[cur]] = 0
    BY <1>2 DEF SInv, ListsInv, ListInv, Left
  <1>4. Place(at)'
    BY <1>1, <1>2, <1>3 DEF SInv, Place, CallInv, SearchInv, OlderInv, RemoveInv, CurInv, heap
  <1>5. TypeInv'
    BY <1>1, <1>2, <1>3 DEF TypeInv, heap, HeapTypeOK, Pointer
  <1> QED
    BY <1>1, <1>4, <1>5, QuietStep

LEMMA RangeDoneKeeps ==
  ASSUME TypeInv, NEW at \in [Node -> Level], SInv(at), RangeDone
  PROVE  TypeInv' /\ SInv(at)'
  BY OnTheWalk, QuietFinish DEF RangeDone

-----------------------------------------------------------------------------
(* The inductive invariant.                                                *)

\* What the invariant says of the structure.
LEMMA ListsAreStructure ==
  ASSUME TypeInv, NEW at \in [Node -> Level], SInv(at)
  PROVE  /\ Structure
         /\ \A i \in Level : Chain(i) = {n \in alive : at[n] = i}
  <1>1. /\ ListInv(at, alive) /\ DownInv(at, alive) /\ HeapTypeOK /\ alive \in SUBSET Node
        /\ \A n \in alive : down[n] = Null => at[n] = 0 \/ n = older
    BY DEF SInv, ListsInv, TypeInv, HeapTypeOK
  <1>2. \A i \in Level : Chain(i) = {n \in alive : at[n] = i}
    BY <1>1, ChainOfList
  <1>3. LevelsSorted
    BY <1>1, ListIsSorted
  <1>4. ASSUME NEW i \in Level \ {0}, NEW n \in Chain(i)
        PROVE  \/ down[n] \in Chain(i - 1) /\ key[down[n]] = key[n]
               \/ down[n] = Null /\ n \in {older}
    <2>1. n \in alive /\ at[n] = i
      BY <1>2
    <2>2. CASE down[n] = Null
      BY <1>1, <2>1, <2>2
    <2>3. CASE down[n] # Null
      <3>1. down[n] \in alive /\ i = at[down[n]] + 1 /\ key[down[n]] = key[n]
        BY <1>1, <2>1, <2>3 DEF DownInv
      <3>2. i - 1 \in Level /\ at[down[n]] = i - 1
        BY <1>1, <3>1 DEF Level
      <3> QED
        BY <1>2, <3>1, <3>2
    <2> QED
      BY <2>2, <2>3
  <1> QED
    BY <1>2, <1>3, <1>4 DEF Structure, Stacked

\* The destructor finds every node on its level.
LEMMA DestructorKeeps ==
  ASSUME TypeInv, NEW at \in [Node -> Level], SInv(at), Destructor
  PROVE  TypeInv' /\ Structure' /\ NoNodeLeaks' /\ pc' = "destroyed"
  <1>1. /\ alive' = alive \ (Destructible \ {Head[i] : i \in Level})
        /\ pc' = "destroyed"
        /\ UNCHANGED <<key, val, next, down, op, cur, prev, older, height, reply>>
    BY DEF Destructor, locals
  <1>2. Structure /\ \A i \in Level : Chain(i) = {n \in alive : at[n] = i}
    BY ListsAreStructure
  <1>3. Destructible = alive /\ Heads \subseteq alive
    <2>1. alive \in SUBSET Node /\ Sentinel \subseteq alive
      BY DEF TypeInv, HeapTypeOK, SInv, ListsInv, ListInv
    <2> QED
      BY <1>2, <2>1, SentinelSets DEF Destructible
  <1>4. alive' = Heads
    BY <1>1, <1>3 DEF Heads
  <1>5. Structure'
    <2>1. \A i : Chain(i)' = Chain(i)
      BY <1>1 DEF Chain
    <2> QED
      BY <1>1, <1>2, <2>1 DEF Structure, LevelsSorted, Stacked, Ordered
  <1>6. TypeInv'
    BY <1>1, <1>4, SentinelSets DEF TypeInv, HeapTypeOK, Pointer
  <1> QED
    BY <1>1, <1>4, <1>5, <1>6 DEF NoNodeLeaks, Heads

LEMMA InitIInv ==
  ASSUME Init
  PROVE  IInv
  <1>1. /\ HeapInit /\ pc = "idle" /\ op = IdleOp /\ cur = Null /\ prev = Null /\ older = Null
        /\ reply = NoReply
    BY DEF Init
  <1>2. alive = Sentinel /\ Sentinel \subseteq Node
    BY <1>1, SentinelSets DEF HeapInit
  <1>3. PICK at \in [Node -> Level] :
          /\ ListInv(at, Sentinel) /\ DownInv(at, Sentinel)
          /\ \A n \in alive : down[n] = Null => at[n] = 0
    BY <1>1, EmptyHeap
  <1>4. ValuesAt(at, alive)
    BY <1>1, <1>2 DEF ValuesAt, HeapInit
  <1>5. ListsInv(at)
    BY <1>2, <1>3, <1>4 DEF ListsInv
  <1>6. Place(at)
    BY <1>1 DEF Place, CallInv, SearchInv, OlderInv, RemoveInv, CurInv, IdleOp
  <1>7. TypeInv
    <2>1. key \in [Node -> Key \cup {NoKey}] /\ val \in [Node -> Value \cup {NoValue}]
      BY <1>1 DEF HeapInit
    <2>2. next \in [Node -> Pointer] /\ down \in [Node -> Pointer]
      <3>1. \A i \in Level : /\ next[Head[i]] = Tail[i] /\ next[Tail[i]] = Null
                             /\ down[Head[i]] = IF i = 0 THEN Null ELSE Head[i - 1]
                             /\ down[Tail[i]] = IF i = 0 THEN Null ELSE Tail[i - 1]
        BY <1>1, EmptyList
      <3>2. \A n \in Sentinel : next[n] \in Pointer /\ down[n] \in Pointer
        <4> SUFFICES ASSUME NEW i \in Level, NEW n \in {Head[i], Tail[i]}
                     PROVE  next[n] \in Pointer /\ down[n] \in Pointer
          BY DEF Sentinel
        <4>1. i # 0 => i - 1 \in Level
          BY CallAssumption DEF Level
        <4>2. Head[i] \in Pointer /\ Tail[i] \in Pointer /\ Null \in Pointer
              /\ (i # 0 => Head[i - 1] \in Pointer /\ Tail[i - 1] \in Pointer)
          BY <4>1, HeapAssumption DEF Pointer
        <4> QED
          BY <3>1, <4>2
      <3>3. \A n \in Node \ Sentinel : next[n] = Null /\ down[n] = Null
        BY <1>1 DEF HeapInit, Sentinel
      <3> QED
        BY <1>1, <1>2, <3>2, <3>3 DEF HeapInit, Pointer
    <2>3. IdleOp \in OpType
      BY CallAssumption DEF IdleOp, OpType, Level
    <2> QED
      BY <1>1, <1>2, <2>1, <2>2, <2>3 DEF TypeInv, HeapTypeOK, Pointer
  <1> QED
    BY <1>1, <1>5, <1>6, <1>7 DEF IInv, SInv

\* Every step keeps the invariant.
LEMMA StepIInv ==
  ASSUME IInv, [Next]_vars
  PROVE  IInv'
  <1>1. CASE UNCHANGED vars
    <2>1. /\ UNCHANGED <<key, val, next, down, alive, pc, op, cur, prev, older, height, reply>>
          /\ UNCHANGED heap
      BY <1>1 DEF vars, heap, locals
    <2>2. TypeInv'
      BY <2>1 DEF IInv, TypeInv, HeapTypeOK
    <2>3. CASE pc = "destroyed"
      <3>1. \A i : Chain(i)' = Chain(i)
        BY <2>1 DEF Chain
      <3>2. Structure' /\ NoNodeLeaks'
        BY <2>1, <2>3, <3>1 DEF IInv, Structure, LevelsSorted, Stacked, Ordered, NoNodeLeaks
      <3> QED
        BY <2>1, <2>2, <2>3, <3>2 DEF IInv
    <2>4. CASE pc # "destroyed"
      <3>1. PICK at \in [Node -> Level] : SInv(at)
        BY <2>4 DEF IInv
      <3>2. Place(at)'
        BY <2>1, <3>1 DEF SInv, Place, CallInv, SearchInv, NotAbove, OlderInv, RemoveInv, CurInv, Short
      <3>3. SInv(at)'
        BY <2>1, <3>1, <3>2, QuietStep DEF IInv
      <3> QED
        BY <2>1, <2>2, <2>4, <3>3 DEF IInv
    <2> QED
      BY <2>3, <2>4
  <1>2. CASE Next /\ pc = "destroyed"
    BY <1>2 DEF Next, Step, Get, Insert, Remove, RangeCall, Return, Destructor, Call, MoveRight,
       MoveDown, OffTheBottom, EnterTower, DescendTower, ReadValue, AtTowerFoot, LinkNew, JoinTower,
       WriteValue, RemoveFound, Unlink, Seek, Land, LandOnHead, Emit, StepRight, RangeDone
  <1>3. CASE Next /\ pc # "destroyed"
    <2>1. TypeInv /\ \E at \in [Node -> Level] : SInv(at)
      BY <1>3 DEF IInv
    <2>2. PICK at \in [Node -> Level] : SInv(at)
      BY <2>1
    <2>3. CASE \/ Step \/ \E o \in Ops(GenLevels) : Call(o)
      <3>1. TypeInv' /\ \E at2 \in [Node -> Level] : SInv(at2)'
        <4>1. CASE \E o \in Ops(GenLevels) : Call(o)
          BY <2>1, <2>2, <4>1, CallKeeps
        <4>2. CASE Get
          BY <2>1, <2>2, <4>2, MoveRightKeeps, MoveDownKeeps, EnterTowerKeeps, DescendTowerKeeps,
             ReadValueKeeps, OffTheBottomKeeps DEF Get
        <4>3. CASE Insert
          BY <2>1, <2>2, <4>3, MoveRightKeeps, MoveDownKeeps, LinkNewKeeps, JoinTowerKeeps,
             DescendTowerKeeps, WriteValueKeeps DEF Insert
        <4>4. CASE Remove
          BY <2>1, <2>2, <4>4, MoveRightKeeps, MoveDownKeeps, RemoveFoundKeeps, UnlinkKeeps, SeekKeeps,
             OffTheBottomKeeps DEF Remove
        <4>5. CASE RangeCall
          BY <2>1, <2>2, <4>5, MoveRightKeeps, MoveDownKeeps, EnterTowerKeeps, DescendTowerKeeps,
             LandKeeps, LandOnHeadKeeps, EmitKeeps, StepRightKeeps, RangeDoneKeeps DEF RangeCall
        <4>6. CASE Return
          BY <2>1, <2>2, <4>6, ReturnKeeps
        <4> QED
          BY <2>3, <4>1, <4>2, <4>3, <4>4, <4>5, <4>6 DEF Step
      <3>2. pc' # "destroyed"
        BY <1>3, <2>3
        DEF Step, Get, Insert, Remove, RangeCall, Return, Call, MoveRight, MoveDown, OffTheBottom,
            EnterTower, DescendTower, ReadValue, LinkNew, JoinTower, WriteValue, RemoveFound, Unlink,
            Seek, Land, LandOnHead, Emit, StepRight, RangeDone, Finish
      <3> QED
        BY <3>1, <3>2 DEF IInv
    <2>4. CASE Destructor
      BY <2>1, <2>2, <2>4, DestructorKeeps DEF IInv
    <2> QED
      BY <1>3, <2>3, <2>4 DEF Next
  <1> QED
    BY <1>1, <1>2, <1>3

THEOREM Invariance == Spec => []IInv
  <1>1. Init => IInv
    BY InitIInv
  <1>2. IInv /\ [Next]_vars => IInv'
    BY StepIInv
  <1> QED
    BY <1>1, <1>2, PTL DEF Spec

-----------------------------------------------------------------------------
(* What follows for the structure and the memory.                          *)

\* Each level is at all times a sorted list from its head to its tail, and
\* every node above the bottom level stands on the node of its key below,
\* except the one the insert in progress has made last.
THEOREM StructureHolds == Spec => []Structure
  <1>1. IInv => Structure
    BY ListsAreStructure DEF IInv
  <1> QED
    BY <1>1, Invariance, PTL

\* No pointer of a node or of the call leads to a deleted node, and the loop
\* of remove that compares without looking for the tail never meets its null
\* key.
THEOREM MemoryIsSafe == Spec => []MemorySafe
  <1>1. ASSUME IInv PROVE MemorySafe
    <2> SUFFICES ASSUME pc # "destroyed"
                 PROVE  /\ LinksLive
                        /\ {cur, prev, older} \subseteq alive \cup {Null}
                        /\ pc # "crash"
      BY DEF MemorySafe
    <2>1. TypeInv
      BY <1>1 DEF IInv
    <2>2. PICK at \in [Node -> Level] : SInv(at)
      BY <1>1 DEF IInv
    <2>3. LinksLive
      <3>1. Sentinel \subseteq alive /\ \A n \in alive : next[n] \in alive \cup {Null}
        BY <2>2 DEF SInv, ListsInv, ListInv
      <3>2. \A n \in alive : down[n] \in alive \cup {Null}
        BY <2>2 DEF SInv, ListsInv, DownInv
      <3> QED
        BY <3>1, <3>2 DEF LinksLive
    <2>4. cur \in alive \cup {Null}
      BY <2>1, <2>2 DEF TypeInv, SInv, Place, SearchInv, RemoveInv, CurInv
    <2>5. prev \in alive \cup {Null} /\ older \in alive \cup {Null}
      BY <2>2 DEF SInv, Place, OlderInv, RemoveInv, CurInv
    <2> QED
      BY <2>1, <2>3, <2>4, <2>5 DEF TypeInv
  <1> QED
    BY <1>1, Invariance, PTL

\* What is left when the destructor is done are the heads of the vector.
THEOREM NothingLeaks == Spec => []NoNodeLeaks
  <1>1. IInv => NoNodeLeaks
    BY DEF IInv, NoNodeLeaks
  <1> QED
    BY <1>1, Invariance, PTL

-----------------------------------------------------------------------------
(* What the map sees of a step.                                            *)

Asked == Request(op, pc = "ret")

Bindings == {i \in Key : Contents[i] # NoValue}

\* What the map calls bound and least, and the one caller's variables.
LEMMA OneCaller ==
  /\ Abstract!Bound = Bindings
  /\ \A S : Abstract!Least(S) = LeastKey(S)
  /\ Caller \in {Caller}
  /\ \A x : [t \in {Caller} |-> x][Caller] = x
  /\ \A x, y : [[t \in {Caller} |-> x] EXCEPT ![Caller] = y] = [t \in {Caller} |-> y]
  BY DEF Abstract!Bound, Abstract!Least, LeastKey, Bindings

\* Nothing a caller can see.
LEMMA Unseen ==
  ASSUME Asked' = Asked, Cursor' = Cursor, Contents' = Contents, reply' = reply
  PROVE  UNCHANGED Abstract!vars
  BY DEF Asked, Abstract!vars

\* A call on its way to the place where it takes effect.
LEMMA SearchUnseen ==
  ASSUME \/ MoveRight \/ MoveDown \/ EnterTower \/ DescendTower \/ JoinTower
         \/ RemoveFound \/ Seek
  PROVE  UNCHANGED Abstract!vars
  <1>1. /\ UNCHANGED <<key, val, op, reply>>
        /\ pc \notin {"ret", "emit", "step"} /\ pc' \notin {"ret", "emit", "step"}
    BY DEF MoveRight, MoveDown, EnterTower, DescendTower, JoinTower, RemoveFound, Seek, heap
  <1>2. Asked' = Asked /\ Cursor' = Cursor
    BY <1>1 DEF Asked, Cursor, Request
  <1>3. Contents' = Contents
    BY <1>1, ContentsSame
  <1> QED
    BY <1>1, <1>2, <1>3, Unseen

\* The step at which a call takes effect is the one that finishes it.
LEMMA Finishing ==
  ASSUME pc # "ret", pc' = "ret"
  PROVE  /\ Asked.name = op.name /\ Asked.key = op.key /\ Asked.val = op.val
         /\ Asked.len = op.len
         /\ Asked' = Abstract!Finished /\ Cursor' = Abstract!Nowhere
         /\ pc \notin {"emit", "step"} => Cursor = Abstract!Nowhere
  BY DEF Asked, Request, Cursor, Abstract!Finished, Abstract!Nowhere

\* How a call that finishes is seen, what it says and what it does to the map.
LEMMA GetSeen ==
  ASSUME pc \notin {"ret", "emit", "step"}, pc' = "ret", op.name = "get",
         Contents' = Contents, reply' = <<"get", op.key, Contents[op.key]>>
  PROVE  Abstract!Get(Caller)
  BY Finishing, OneCaller DEF Abstract!Get, Asked

LEMMA InsertSeen ==
  ASSUME pc \notin {"ret", "emit", "step"}, pc' = "ret", op.name = "insert",
         Contents' = [Contents EXCEPT ![op.key] = op.val], reply' = reply
  PROVE  Abstract!Insert(Caller)
  BY Finishing, OneCaller DEF Abstract!Insert, Asked

LEMMA RemoveSeen ==
  ASSUME pc \notin {"ret", "emit", "step"}, pc' = "ret", op.name = "remove",
         Contents' = [Contents EXCEPT ![op.key] = NoValue],
         reply' = <<IF Contents[op.key] = NoValue THEN "absent" ELSE "removed", op.key, NoValue>>
  PROVE  Abstract!Remove(Caller)
  BY Finishing, OneCaller DEF Abstract!Remove, Asked

-----------------------------------------------------------------------------
(* get, insert_or_modify and remove.                                       *)

\* The values are those of a list of nodes, no key has two.
LEMMA Values ==
  ASSUME TypeInv, NEW at, SInv(at)
  PROVE  ListInv(at, alive) /\ ValuesAt(at, alive) /\ OneHolder(key, val) /\ alive \in SUBSET Node
  <1>1. ListInv(at, alive) /\ ValuesAt(at, alive) /\ alive \in SUBSET Node
    BY DEF SInv, ListsInv, TypeInv, HeapTypeOK
  <1> QED
    BY <1>1, ListHoldsOnce

\* Where the search ends on the bottom level, its key is not bound.
LEMMA NotBound ==
  ASSUME TypeInv, NEW at \in [Node -> Level], SInv(at), pc = "search",
         Beyond(next[cur], op.key), height = 0
  PROVE  op.key \in Key /\ Contents[op.key] = NoValue
  <1>1. /\ op.key \in Key /\ cur \in alive /\ at[cur] = 0 /\ Past(key, next[cur], op.key)
        /\ Short(key, cur, op.key)
    BY Here DEF SInv, Place, SearchInv
  <1> QED
    BY <1>1, Values, NotOnList

\* The foot of a tower has the value its key is bound to.
LEMMA BoundAtFoot ==
  ASSUME TypeInv, NEW at \in [Node -> Level], SInv(at), AtTowerFoot
  PROVE  /\ cur \in Node /\ key[cur] = op.key /\ op.key \in Key
         /\ val[cur] # NoValue /\ Contents[op.key] = val[cur]
  BY Foot, Values, ListIsMap

LEMMA ReadValueRefines ==
  ASSUME TypeInv, NEW at \in [Node -> Level], SInv(at), ReadValue, op.name = "get"
  PROVE  Abstract!Get(Caller)
  <1>1. /\ AtTowerFoot /\ pc = "tower" /\ pc' = "ret" /\ UNCHANGED <<key, val>>
        /\ reply' = <<"get", op.key, val[cur]>>
    BY DEF ReadValue, AtTowerFoot, Finish, heap
  <1>2. val[cur] = Contents[op.key]
    BY <1>1, BoundAtFoot
  <1>3. Contents' = Contents
    BY <1>1, ContentsSame
  <1> QED
    BY <1>1, <1>2, <1>3, GetSeen

LEMMA GetAbsentRefines ==
  ASSUME TypeInv, NEW at \in [Node -> Level], SInv(at), op.name = "get",
         OffTheBottom(<<"get", op.key, NoValue>>)
  PROVE  Abstract!Get(Caller)
  <1>1. /\ pc = "search" /\ pc' = "ret" /\ UNCHANGED <<key, val>>
        /\ Beyond(next[cur], op.key) /\ down[cur] = Null
        /\ reply' = <<"get", op.key, NoValue>>
    BY DEF OffTheBottom, Finish, heap
  <1>2. Contents[op.key] = NoValue
    BY <1>1, Here, NotBound
  <1>3. Contents' = Contents
    BY <1>1, ContentsSame
  <1> QED
    BY <1>1, <1>2, <1>3, GetSeen

LEMMA RemoveAbsentRefines ==
  ASSUME TypeInv, NEW at \in [Node -> Level], SInv(at), op.name = "remove",
         OffTheBottom(<<"absent", op.key, NoValue>>)
  PROVE  Abstract!Remove(Caller)
  <1>1. /\ pc = "search" /\ pc' = "ret" /\ UNCHANGED <<key, val>>
        /\ Beyond(next[cur], op.key) /\ down[cur] = Null
        /\ reply' = <<"absent", op.key, NoValue>>
    BY DEF OffTheBottom, Finish, heap
  <1>2. op.key \in Key /\ Contents[op.key] = NoValue
    BY <1>1, Here, NotBound
  <1>3. Contents' = [Contents EXCEPT ![op.key] = NoValue]
    <2>1. Contents' = Contents
      BY <1>1, ContentsSame
    <2>2. Contents = [j \in Key |-> Contents[j]]
      BY DEF Contents
    <2> QED
      BY <1>2, <2>1, <2>2
  <1> QED
    BY <1>1, <1>2, <1>3, RemoveSeen

\* A remove takes effect when it deletes the node of the bottom level; those
\* above have no value.
LEMMA UnlinkRefines ==
  ASSUME TypeInv, NEW at \in [Node -> Level], SInv(at), Unlink
  PROVE  Abstract!Remove(Caller) \/ UNCHANGED Abstract!vars
  <1> DEFINE k == op.key
             c == cur
  <1>1. /\ pc = "unlink" /\ key' = [key EXCEPT ![c] = NoKey] /\ val' = [val EXCEPT ![c] = NoValue]
    BY DEF Unlink, Destroy
  <1>2. /\ c \in alive \ Sentinel /\ key[c] = k /\ k \in Key /\ op.name = "remove"
        /\ down[c] = Null <=> at[c] = 0
        /\ alive \in SUBSET Node /\ op.name = "remove"
    BY <1>1, AtUnlink
  <1>3. /\ val'[c] = NoValue /\ c \in Node
        /\ \A m \in Node \ {c} : key'[m] = key[m] /\ val'[m] = val[m]
    BY <1>1, <1>2 DEF TypeInv, HeapTypeOK
  <1>4. CASE down[c] = Null
    <2>1. pc' = "ret" /\ reply' = <<"removed", k, NoValue>>
      BY <1>4 DEF Unlink, Finish
    <2>2. val[c] # NoValue /\ Contents[k] = val[c]
      BY <1>2, <1>4, Values, ListIsMap
    <2>3. OneHolder(key, val) /\ OneHolder(key', val')
      <3>1. OneHolder(key, val)
        BY Values
      <3> QED
        BY <1>3, <3>1 DEF OneHolder
    <2>4. Contents' = [Contents EXCEPT ![k] = NoValue]
      BY <1>2, <1>3, <2>2, <2>3, ContentsChange
    <2>5. Abstract!Remove(Caller)
      BY <1>1, <1>2, <2>1, <2>2, <2>4, RemoveSeen
    <2> QED
      BY <2>5
  <1>5. CASE down[c] # Null
    <2>1. pc' = "seek" /\ UNCHANGED <<op, reply>>
      BY <1>5 DEF Unlink
    <2>2. val[c] = NoValue
      BY <1>2, <1>3, <1>5, Values DEF ValuesAt
    <2>3. Contents' = Contents
      BY <1>3, <2>2, ContentsSame
    <2>4. Asked' = Asked /\ Cursor' = Cursor
      BY <1>1, <2>1 DEF Asked, Cursor, Request
    <2> QED
      BY <2>1, <2>3, <2>4, Unseen
  <1> QED
    BY <1>4, <1>5

LEMMA WriteValueRefines ==
  ASSUME TypeInv, NEW at \in [Node -> Level], SInv(at), WriteValue, op.name = "insert"
  PROVE  Abstract!Insert(Caller)
  <1>1. /\ AtTowerFoot /\ pc = "tower" /\ pc' = "ret" /\ UNCHANGED key
        /\ val' = [val EXCEPT ![cur] = op.val] /\ reply' = NoReply
    BY DEF WriteValue, AtTowerFoot, Finish
  <1>2. /\ cur \in Node /\ key[cur] = op.key /\ op.key \in Key /\ val[cur] # NoValue
    BY <1>1, BoundAtFoot
  <1>3. reply = NoReply
    BY <1>1 DEF SInv, Place, CallInv
  <1>4. /\ val'[cur] = op.val /\ \A m \in Node \ {cur} : val'[m] = val[m]
        /\ \A m \in Node : key'[m] = key[m]
    BY <1>1, <1>2 DEF TypeInv, HeapTypeOK
  <1>5. OneHolder(key, val) /\ OneHolder(key', val')
    <2>1. OneHolder(key, val)
      BY Values
    <2> QED
      BY <1>2, <1>4, <2>1 DEF OneHolder
  <1>6. Contents' = [Contents EXCEPT ![op.key] = op.val]
    BY <1>2, <1>4, <1>5, ContentsChange
  <1> QED
    BY <1>1, <1>3, <1>6, InsertSeen

\* An insert of a new key takes effect with the node of the bottom level.
LEMMA LinkNewRefines ==
  ASSUME TypeInv, NEW at \in [Node -> Level], SInv(at), LinkNew, op.name = "insert"
  PROVE  Abstract!Insert(Caller) \/ UNCHANGED Abstract!vars
  <1>1. PICK n : n = Fresh(op.key, height)
    OBVIOUS
  <1>2. /\ pc = "search" /\ op.val \in Value /\ n \in Node \ alive
        /\ val' = [val EXCEPT ![n] = IF height = 0 THEN op.val ELSE NoValue]
    BY <1>1, LinkNewStep
  <1>3. key' = [key EXCEPT ![n] = op.key] /\ Beyond(next[cur], op.key)
    BY <1>1 DEF LinkNew, Create
  <1>4. /\ key'[n] = op.key /\ val'[n] = IF height = 0 THEN op.val ELSE NoValue
        /\ \A m \in Node \ {n} : key'[m] = key[m] /\ val'[m] = val[m]
    BY <1>2, <1>3 DEF TypeInv, HeapTypeOK
  <1>5. val[n] = NoValue
    BY <1>2, Values DEF ValuesAt
  <1>6. reply = NoReply
    BY <1>2 DEF SInv, Place, CallInv
  <1>7. CASE height = 0
    <2>1. op.key \in Key /\ Contents[op.key] = NoValue
      BY <1>2, <1>3, <1>7, NotBound
    <2>2. op.val # NoValue
      BY <1>2, CallAssumption
    <2>3. OneHolder(key, val) /\ OneHolder(key', val')
      <3>1. OneHolder(key, val)
        BY Values
      <3>2. \A m \in Node : val[m] # NoValue => key[m] # op.key
        BY <2>1, <3>1, ContentsOf
      <3> QED
        BY <1>2, <1>4, <3>1, <3>2 DEF OneHolder
    <2>4. Contents' = [Contents EXCEPT ![op.key] = op.val]
      BY <1>2, <1>4, <1>5, <1>7, <2>1, <2>2, <2>3, ContentsChange
    <2>5. pc' = "ret" /\ reply' = NoReply
      BY <1>7 DEF LinkNew, Finish
    <2>6. Abstract!Insert(Caller)
      BY <1>2, <1>6, <2>4, <2>5, InsertSeen
    <2> QED
      BY <2>6
  <1>8. CASE height # 0
    <2>1. UNCHANGED <<pc, op, reply>>
      BY <1>8 DEF LinkNew
    <2>2. Contents' = Contents
      BY <1>2, <1>4, <1>5, <1>8, ContentsSame
    <2>3. Asked' = Asked /\ Cursor' = Cursor
      BY <1>2, <2>1 DEF Asked, Cursor, Request
    <2> QED
      BY <2>1, <2>2, <2>3, Unseen
  <1> QED
    BY <1>7, <1>8

-----------------------------------------------------------------------------
(* range.                                                                  *)

\* A range settles on the least bound key that is not below its start.
LEMMA LandRefines ==
  ASSUME TypeInv, NEW at \in [Node -> Level], SInv(at), Land, op.name = "range"
  PROVE  Abstract!RangeSeek(Caller)
  <1>1. /\ AtTowerFoot \/ (pc = "search" /\ Beyond(next[cur], op.key) /\ down[cur] = Null)
        /\ key[cur] # NoKey /\ pc' = "emit"
        /\ cur' = IF key[cur] < op.key THEN next[cur] ELSE cur
        /\ UNCHANGED <<key, val, op, reply>>
    BY DEF Land, heap
  <1>2. pc \in {"search", "tower"} /\ op.key \in Key
    BY <1>1 DEF AtTowerFoot, SInv, Place, CallInv
  <1>3. LeastKey({j \in Bindings : j >= op.key}) = key[cur']
    <2>1. CASE AtTowerFoot
      <3>1. cur \in alive \ Sentinel /\ at[cur] = 0 /\ key[cur] = op.key
        BY <2>1, Foot
      <3>2. key[cur] \in Int
        BY <1>2, <3>1, CallAssumption
      <3>3. cur' = cur
        BY <1>1, <3>1, <3>2
      <3>4. LeastKey({j \in {i \in Key : Contents[i] # NoValue} : j >= key[cur]}) = key[cur]
        BY <3>1, Values, LeastAtNode
      <3> QED
        BY <3>1, <3>3, <3>4 DEF Bindings
    <2>2. CASE pc = "search" /\ Beyond(next[cur], op.key) /\ down[cur] = Null
      <3>1. /\ cur \in alive \ Tails /\ at[cur] = 0 /\ Past(key, next[cur], op.key)
            /\ KeysOf(key, alive)
        BY <2>2, Here
      <3>2. cur \notin Heads
        BY <1>1, <3>1, SentinelSets DEF KeysOf
      <3>3. Short(key, cur, op.key) /\ key[cur] < op.key
        BY <2>2, <3>2 DEF SInv, Place, SearchInv, Short
      <3>4. LeastKey({j \in {i \in Key : Contents[i] # NoValue} : j >= op.key}) = key[next[cur]]
        BY <1>2, <3>1, <3>3, Values, LeastFromHere
      <3> QED
        BY <1>1, <3>3, <3>4 DEF Bindings
    <2> QED
      BY <1>1, <2>1, <2>2
  <1>4. /\ Asked' = Asked /\ Asked.name = "range" /\ Asked.key = op.key
        /\ Cursor = Abstract!Nowhere /\ Cursor' = <<"at", key[cur']>>
    BY <1>1, <1>2 DEF Asked, Cursor, Request, Abstract!Nowhere
  <1>5. Contents' = Contents
    BY <1>1, ContentsSame
  <1>6. Asked' = Asked /\ Cursor' = <<"at", Abstract!Least({j \in Abstract!Bound : j >= Asked.key})>>
    BY <1>3, <1>4, OneCaller
  <1> QED
    BY <1>1, <1>4, <1>5, <1>6, OneCaller DEF Abstract!RangeSeek, Asked

\* Where nothing is left of the place of the key but the head, every bound key
\* is above it, and range gives up.
LEMMA LandOnHeadRefines ==
  ASSUME TypeInv, NEW at \in [Node -> Level], SInv(at), LandOnHead, op.name = "range"
  PROVE  Abstract!RangeEnd(Caller)
  <1>1. /\ pc = "search" /\ Beyond(next[cur], op.key) /\ down[cur] = Null
        /\ key[cur] = NoKey /\ pc' = "ret" /\ reply' = NoReply /\ UNCHANGED <<key, val>>
    BY DEF LandOnHead, Finish, heap
  <1>2. reply = NoReply
    BY <1>1 DEF SInv, Place, CallInv
  <1>3. /\ cur \in alive \ Tails /\ at[cur] = 0 /\ Past(key, next[cur], op.key)
        /\ next[cur] \in alive /\ KeysOf(key, alive) /\ op.key \in Key
    BY <1>1, Here
  <1>4. cur \in Heads
    BY <1>1, <1>3, SentinelSets, CallAssumption DEF KeysOf
  <1>5. ASSUME NEW k \in Bindings PROVE k > op.key
    <2>1. PICK n \in alive \ Sentinel : at[n] = 0 /\ key[n] = k
      BY Values, ListIsMap DEF Bindings
    <2>2. Left(key, cur, n)
      BY <1>3, <1>4, <2>1, SentinelSets DEF Left
    <2>3. n = next[cur] \/ Left(key, next[cur], n)
      BY <1>3, <2>1, <2>2 DEF SInv, ListsInv, ListInv
    <2>4. Past(key, n, op.key)
      BY <1>3, <2>1, <2>3, OrderOfKeys
    <2> QED
      BY <2>1, <2>4, SentinelSets DEF Past
  <1>6. Contents' = Contents
    BY <1>1, ContentsSame
  <1> QED
    BY <1>1, <1>2, <1>5, <1>6, Finishing, OneCaller DEF Abstract!RangeEnd, Asked

\* It hands out the pair it is at ...
LEMMA EmitRefines ==
  ASSUME TypeInv, NEW at \in [Node -> Level], SInv(at), Emit
  PROVE  Abstract!RangeEmit(Caller)
  <1> DEFINE k == key[cur]
  <1>1. /\ pc = "emit" /\ k # NoKey /\ op.len > 0 /\ pc' = "step"
        /\ op' = [op EXCEPT !.len = @ - 1] /\ reply' = <<"pair", k, val[cur]>>
        /\ UNCHANGED <<key, val, cur>>
    BY DEF Emit, locals, heap
  <1>2. Contents[k] = val[cur]
    <2>1. cur \in alive \ Heads /\ at[cur] = 0 /\ cur \notin Tails
      BY <1>1, OnTheWalk
    <2> QED
      BY <2>1, Values, ListIsMap, SentinelSets
  <1>3. Asked' = [Asked EXCEPT !.len = @ - 1] /\ Asked.len = op.len
    <2>1. Asked = [name |-> op.name, key |-> op.key, val |-> op.val, len |-> op.len]
      BY <1>1 DEF Asked, Request
    <2>2. Asked' = [name |-> op'.name, key |-> op'.key, val |-> op'.val, len |-> op'.len]
      BY <1>1 DEF Asked, Request
    <2>3. op'.name = op.name /\ op'.key = op.key /\ op'.val = op.val /\ op'.len = op.len - 1
      BY <1>1 DEF TypeInv, OpType
    <2> QED
      BY <2>1, <2>2, <2>3
  <1>4. Cursor = <<"at", k>> /\ Cursor' = <<"past", k>>
    BY <1>1 DEF Cursor
  <1>5. Contents' = Contents
    BY <1>1, ContentsSame
  <1> HIDE DEF k
  <1>6. /\ [t \in {Caller} |-> Asked'] = [[t \in {Caller} |-> Asked] EXCEPT ![Caller].len = @ - 1]
        /\ [t \in {Caller} |-> Cursor'] = [[t \in {Caller} |-> Cursor] EXCEPT ![Caller] = <<"past", k>>]
        /\ [t \in {Caller} |-> reply'] = [[t \in {Caller} |-> reply] EXCEPT ![Caller] = reply']
    BY <1>3, <1>4
  <1>7. [t \in {Caller} |-> Cursor][Caller][1] = "at" /\ [t \in {Caller} |-> Cursor][Caller][2] = k
    BY <1>4
  <1>8. [t \in {Caller} |-> Asked][Caller].len > 0
    BY <1>1, <1>3
  <1> QED
    BY <1>1, <1>2, <1>5, <1>6, <1>7, <1>8 DEF Abstract!RangeEmit, Asked

\* ... goes on to the next ...
LEMMA StepRightRefines ==
  ASSUME TypeInv, NEW at \in [Node -> Level], SInv(at), StepRight
  PROVE  Abstract!RangeNext(Caller)
  <1> DEFINE k == key[cur]
             S == {j \in Abstract!Bound : j > k}
  <1>1. /\ pc = "step" /\ pc' = "emit" /\ cur' = next[cur] /\ UNCHANGED <<key, val, op, reply>>
    BY DEF StepRight, heap
  <1>2. Abstract!Least(S) = key[cur']
    <2>1. cur \in alive \ Heads /\ at[cur] = 0 /\ cur \notin Tails
      BY <1>1, OnTheWalk
    <2>2. LeastKey({j \in {i \in Key : Contents[i] # NoValue} : j > key[cur]}) = key[next[cur]]
      BY <2>1, Values, LeastAtNode, SentinelSets
    <2> QED
      BY <1>1, <2>2, OneCaller DEF Bindings
  <1>3. Asked' = Asked
    BY <1>1 DEF Asked, Request
  <1>4. Cursor = <<"past", k>> /\ Cursor' = <<"at", Abstract!Least(S)>>
    BY <1>1, <1>2 DEF Cursor
  <1>5. Contents' = Contents
    BY <1>1, ContentsSame
  <1>6. [t \in {Caller} |-> Cursor][Caller][1] = "past" /\ [t \in {Caller} |-> Cursor][Caller][2] = k
    <2> HIDE DEF k
    <2> QED
      BY <1>4
  <1>7. S = {j \in Abstract!Bound : j > [t \in {Caller} |-> Cursor][Caller][2]}
    BY <1>6
  <1>8. [t \in {Caller} |-> Cursor'] =
          [[t \in {Caller} |-> Cursor] EXCEPT ![Caller] = <<"at", Abstract!Least(S)>>]
    <2> HIDE DEF S
    <2> QED
      BY <1>4
  <1> HIDE DEF S, k
  <1> QED
    BY <1>1, <1>3, <1>5, <1>6, <1>7, <1>8 DEF Abstract!RangeNext, Asked

\* ... and ends when there is none, or it has handed out enough.
LEMMA RangeDoneRefines ==
  ASSUME RangeDone, op.name = "range"
  PROVE  Abstract!RangeEnd(Caller)
  <1>1. /\ pc = "emit" /\ pc' = "ret" /\ UNCHANGED <<key, val, reply>>
        /\ key[cur] = NoKey \/ op.len = 0
    BY DEF RangeDone, Finish, heap
  <1>2. Cursor = <<"at", key[cur]>>
    BY <1>1 DEF Cursor
  <1>3. Contents' = Contents
    BY <1>1, ContentsSame
  <1> QED
    BY <1>1, <1>2, <1>3, Finishing, OneCaller DEF Abstract!RangeEnd, Asked

-----------------------------------------------------------------------------
(* Every step.                                                             *)

LEMMA CallRefines ==
  ASSUME TypeInv, NEW at, SInv(at), NEW o \in Ops(GenLevels), Call(o)
  PROVE  \E r \in Abstract!Request : Abstract!Call(Caller, r)
  <1> DEFINE r == [name |-> o.name, key |-> o.key, val |-> o.val, len |-> o.len]
  <1>1. pc = "idle" /\ pc' = "search" /\ op' = o /\ UNCHANGED <<key, val, reply>>
    BY DEF Call, heap
  <1>2. op = IdleOp
    BY <1>1 DEF SInv, Place, CallInv
  <1>3. Asked = Abstract!Idle /\ Asked' = r /\ Cursor' = Cursor
    BY <1>1, <1>2 DEF Asked, Request, IdleOp, Abstract!Idle, Cursor
  <1>4. r \in Abstract!Request
    BY DEF Ops, Abstract!Request
  <1>5. Contents' = Contents
    BY <1>1, ContentsSame
  <1> HIDE DEF r
  <1>6. Abstract!Call(Caller, r)
    BY <1>1, <1>3, <1>5, OneCaller DEF Abstract!Call, Asked
  <1> QED
    BY <1>4, <1>6

LEMMA ReturnRefines ==
  ASSUME Return
  PROVE  Abstract!Return(Caller)
  <1>1. pc = "ret" /\ pc' = "idle" /\ op' = IdleOp /\ reply' = NoReply /\ UNCHANGED <<key, val>>
    BY DEF Return, heap
  <1>2. Asked = Abstract!Finished /\ Asked' = Abstract!Idle /\ Cursor' = Cursor
    BY <1>1 DEF Asked, Request, IdleOp, Abstract!Idle, Abstract!Finished, Cursor
  <1>3. Contents' = Contents
    BY <1>1, ContentsSame
  <1> QED
    BY <1>1, <1>2, <1>3, OneCaller DEF Abstract!Return, Asked, NoReply, Abstract!NoReply

\* The destructor and steps that change nothing.
LEMMA QuietUnseen ==
  ASSUME Destructor \/ UNCHANGED vars
  PROVE  UNCHANGED Abstract!vars
  <1>1. UNCHANGED <<key, val, op, reply>>
    BY DEF Destructor, vars, heap
  <1>2. Asked' = Asked /\ Cursor' = Cursor
    BY DEF Destructor, vars, heap, locals, Asked, Request, Cursor
  <1>3. Contents' = Contents
    BY <1>1, ContentsSame
  <1> QED
    BY <1>1, <1>2, <1>3, Unseen

LEMMA StepRefines ==
  ASSUME TypeInv, NEW at \in [Node -> Level], SInv(at), Step
  PROVE  Abstract!Next \/ UNCHANGED Abstract!vars
  <1>1. CASE Get
    <2>1. op.name = "get"
      BY <1>1 DEF Get
    <2>2. Abstract!Get(Caller) \/ UNCHANGED Abstract!vars
      BY <1>1, <2>1, SearchUnseen, ReadValueRefines, GetAbsentRefines DEF Get
    <2> QED
      BY <2>2 DEF Abstract!Next
  <1>2. CASE Insert
    <2>1. op.name = "insert"
      BY <1>2 DEF Insert
    <2>2. Abstract!Insert(Caller) \/ UNCHANGED Abstract!vars
      BY <1>2, <2>1, SearchUnseen, LinkNewRefines, WriteValueRefines DEF Insert
    <2> QED
      BY <2>2 DEF Abstract!Next
  <1>3. CASE Remove
    <2>1. op.name = "remove"
      BY <1>3 DEF Remove
    <2>2. Abstract!Remove(Caller) \/ UNCHANGED Abstract!vars
      BY <1>3, <2>1, SearchUnseen, UnlinkRefines, RemoveAbsentRefines DEF Remove
    <2> QED
      BY <2>2 DEF Abstract!Next
  <1>4. CASE RangeCall
    <2>1. op.name = "range"
      BY <1>4 DEF RangeCall
    <2>2. \/ Abstract!RangeSeek(Caller) \/ Abstract!RangeEmit(Caller)
          \/ Abstract!RangeNext(Caller) \/ Abstract!RangeEnd(Caller)
          \/ UNCHANGED Abstract!vars
      BY <1>4, <2>1, SearchUnseen, LandRefines, LandOnHeadRefines, EmitRefines, StepRightRefines,
         RangeDoneRefines DEF RangeCall
    <2> QED
      BY <2>2 DEF Abstract!Next
  <1>5. CASE Return
    BY <1>5, ReturnRefines DEF Abstract!Next
  <1> QED
    BY <1>1, <1>2, <1>3, <1>4, <1>5 DEF Step

LEMMA InitRefines == Init => Abstract!Init
  <1> SUFFICES ASSUME Init PROVE Abstract!Init
    OBVIOUS
  <1>1. Contents = [k \in Key |-> NoValue]
    BY DEF Init, HeapInit, Contents
  <1>2. Asked = Abstract!Idle /\ Cursor = Abstract!Nowhere /\ reply = Abstract!NoReply
    BY DEF Init, Asked, Request, IdleOp, Abstract!Idle, Cursor, Abstract!Nowhere, NoReply,
       Abstract!NoReply
  <1> QED
    BY <1>1, <1>2 DEF Abstract!Init, Asked

\* The sequential skiplist is a map: every get, insert_or_modify and remove
\* takes effect at one step and answers what the map says; a range walks the
\* bound keys from its start upwards, except that it gives up when every bound
\* key is above its start.
THEOREM SkiplistIsAMap == Spec => ImplementsMap
  <1>1. IInv /\ [Next]_vars => [Abstract!Next]_(Abstract!vars)
    <2> SUFFICES ASSUME IInv, [Next]_vars PROVE Abstract!Next \/ UNCHANGED Abstract!vars
      OBVIOUS
    <2>1. CASE Destructor \/ UNCHANGED vars
      BY <2>1, QuietUnseen
    <2>2. CASE Step \/ \E o \in Ops(GenLevels) : Call(o)
      <3>1. pc # "destroyed"
        BY <2>2 DEF Step, Get, Insert, Remove, RangeCall, Return, Call, MoveRight,
           MoveDown, OffTheBottom, EnterTower, DescendTower, ReadValue, AtTowerFoot, LinkNew, JoinTower,
           WriteValue, RemoveFound, Unlink, Seek, Land, LandOnHead, Emit, StepRight, RangeDone
      <3>2. TypeInv /\ \E at \in [Node -> Level] : SInv(at)
        BY <3>1 DEF IInv
      <3>3. CASE Step
        BY <3>2, <3>3, StepRefines
      <3>4. CASE \E o \in Ops(GenLevels) : Call(o)
        BY <3>2, <3>4, CallRefines DEF Abstract!Next
      <3> QED
        BY <2>2, <3>3, <3>4
    <2> QED
      BY <2>1, <2>2 DEF Next
  <1> QED
    BY <1>1, InitRefines, Invariance, PTL DEF Spec, ImplementsMap, Abstract!Spec
=============================================================================
