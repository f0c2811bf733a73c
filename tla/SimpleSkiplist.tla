--------------------------- MODULE SimpleSkiplist ---------------------------
(***************************************************************************)
(* The sequential skiplist of src/simple_skiplist.  One caller makes calls *)
(* one after the other; a step is one iteration of the loop the call is    *)
(* in.  The heads are elements of a vector that the destructor of the      *)
(* vector, not the one of the skiplist, frees.                             *)
(***************************************************************************)
EXTENDS TowerHeap

CONSTANT Caller    \* the caller

VARIABLES
  pc,         \* where the call is
  op,         \* the call
  cur,        \* its local cur
  prev,       \* the local prev of remove
  older,      \* its local older_level_val
  height,     \* its local cur_height
  reply       \* what the call has handed back last

locals == <<cur, prev, older, height>>

vars == <<heap, pc, op, locals, reply>>

-----------------------------------------------------------------------------
\* LevelGen: min(geometric, maxHeight - 1).
GenLevels == 0 .. MaxHeight - 1

Init ==
  /\ HeapInit
  /\ pc = "idle"
  /\ op = IdleOp
  /\ cur = Null
  /\ prev = Null
  /\ older = Null
  /\ height = 0
  /\ reply = NoReply

Call(o) ==
  /\ pc = "idle"
  /\ op' = o
  /\ cur' = Head[MaxHeight - 1]
  /\ height' = MaxHeight - 1
  /\ pc' = "search"
  /\ UNCHANGED <<heap, prev, older, reply>>

\* The call has its result: its locals are gone.
Finish(r) ==
  /\ pc' = "ret"
  /\ cur' = Null
  /\ prev' = Null
  /\ older' = Null
  /\ height' = 0
  /\ reply' = r
  /\ UNCHANGED op

Return ==
  /\ pc = "ret"
  /\ pc' = "idle"
  /\ op' = IdleOp
  /\ reply' = NoReply
  /\ UNCHANGED <<heap, locals>>

-----------------------------------------------------------------------------
(* Steps the operations share.                                             *)

MoveRight ==
  /\ pc = "search"
  /\ Before(next[cur], op.key)
  /\ cur' = next[cur]
  /\ UNCHANGED <<heap, pc, op, prev, older, height, reply>>

MoveDown ==
  /\ pc = "search"
  /\ Beyond(next[cur], op.key)
  /\ down[cur] # Null
  /\ cur' = down[cur]
  /\ height' = height - 1
  /\ UNCHANGED <<heap, pc, op, prev, older, reply>>

OffTheBottom(r) ==
  /\ pc = "search"
  /\ Beyond(next[cur], op.key)
  /\ down[cur] = Null
  /\ Finish(r)
  /\ UNCHANGED heap

EnterTower ==
  /\ pc = "search"
  /\ Equal(next[cur], op.key)
  /\ cur' = next[cur]
  /\ pc' = "tower"
  /\ UNCHANGED <<heap, op, prev, older, height, reply>>

DescendTower ==
  /\ pc = "tower"
  /\ down[cur] # Null
  /\ cur' = down[cur]
  /\ UNCHANGED <<heap, pc, op, prev, older, height, reply>>

AtTowerFoot == pc = "tower" /\ down[cur] = Null

-----------------------------------------------------------------------------
(* get                                                                     *)

ReadValue ==
  /\ AtTowerFoot
  /\ Finish(<<"get", op.key, val[cur]>>)
  /\ UNCHANGED heap

Get ==
  /\ op.name = "get"
  /\ \/ MoveRight \/ MoveDown \/ EnterTower \/ DescendTower \/ ReadValue
     \/ OffTheBottom(<<"get", op.key, NoValue>>)

-----------------------------------------------------------------------------
(* insert_or_modify                                                        *)

\* The key is not on this level, and the drawn level reaches it: a new node
\* goes between cur and the next, and under the one of the level above.
LinkNew ==
  LET n == Fresh(op.key, height) IN
  /\ pc = "search"
  /\ Beyond(next[cur], op.key)
  /\ op.level >= height
  /\ Vacant(op.key, height) # {}
  /\ Create(n, op.key, height, op.val)
  /\ next' = Behind(cur, n)
  /\ down' = Under(older, n)
  /\ IF height = 0 THEN Finish(NoReply)
     ELSE /\ older' = n
          /\ cur' = down[cur]
          /\ height' = height - 1
          /\ UNCHANGED <<pc, op, prev, reply>>

\* The key is already on this level: the new tower stands on the old one.
JoinTower ==
  /\ pc = "search"
  /\ Equal(next[cur], op.key)
  /\ down' = Under(older, next[cur])
  /\ cur' = next[cur]
  /\ older' = Null
  /\ pc' = "tower"
  /\ UNCHANGED <<key, val, next, alive, op, prev, height, reply>>

WriteValue ==
  /\ AtTowerFoot
  /\ val' = [val EXCEPT ![cur] = op.val]
  /\ Finish(NoReply)
  /\ UNCHANGED <<key, next, down, alive>>

Insert ==
  /\ op.name = "insert"
  /\ \/ MoveRight
     \/ op.level < height /\ MoveDown
     \/ LinkNew \/ JoinTower \/ DescendTower \/ WriteValue

-----------------------------------------------------------------------------
(* remove                                                                  *)

RemoveFound ==
  /\ pc = "search"
  /\ Equal(next[cur], op.key)
  /\ prev' = cur
  /\ cur' = next[cur]
  /\ pc' = "unlink"
  /\ UNCHANGED <<heap, op, older, height, reply>>

\* prev->next = cur->next; delete cur; and both go down.
Unlink ==
  /\ pc = "unlink"
  /\ Destroy(cur, Skip(prev, cur))
  /\ IF down[cur] = Null THEN Finish(<<"removed", op.key, NoValue>>)
     ELSE /\ cur' = down[cur]
          /\ prev' = down[prev]
          /\ pc' = "seek"
          /\ UNCHANGED <<op, older, height, reply>>

\* while(*prev->next->key != key).  The null key of the tail must not be met.
Seek ==
  /\ pc = "seek"
  /\ pc' = CASE key[next[prev]] = NoKey  -> "crash"
             [] key[next[prev]] = op.key -> "unlink"
             [] OTHER                    -> "seek"
  /\ prev' = IF pc' = "seek" THEN next[prev] ELSE prev
  /\ UNCHANGED <<heap, op, cur, older, height, reply>>

Remove ==
  /\ op.name = "remove"
  /\ \/ MoveRight \/ MoveDown \/ RemoveFound \/ Unlink \/ Seek
     \/ OffTheBottom(<<"absent", op.key, NoValue>>)

-----------------------------------------------------------------------------
(* range                                                                   *)

\* The search has ended at the start key, or left of where it would be.  From
\* the head range returns at once; from a smaller key it goes on to the next.
Land ==
  /\ AtTowerFoot \/ (pc = "search" /\ Beyond(next[cur], op.key) /\ down[cur] = Null)
  /\ key[cur] # NoKey
  /\ cur' = IF key[cur] < op.key THEN next[cur] ELSE cur
  /\ pc' = "emit"
  /\ UNCHANGED <<heap, op, prev, older, height, reply>>

LandOnHead ==
  /\ pc = "search"
  /\ Beyond(next[cur], op.key) /\ down[cur] = Null
  /\ key[cur] = NoKey
  /\ Finish(NoReply)
  /\ UNCHANGED heap

\* func(*cur->key, *cur->val)
Emit ==
  /\ pc = "emit"
  /\ key[cur] # NoKey
  /\ op.len > 0
  /\ reply' = <<"pair", key[cur], val[cur]>>
  /\ op' = [op EXCEPT !.len = @ - 1]
  /\ pc' = "step"
  /\ UNCHANGED <<heap, locals>>

StepRight ==
  /\ pc = "step"
  /\ cur' = next[cur]
  /\ pc' = "emit"
  /\ UNCHANGED <<heap, op, prev, older, height, reply>>

RangeDone ==
  /\ pc = "emit"
  /\ key[cur] = NoKey \/ op.len = 0
  /\ Finish(reply)
  /\ UNCHANGED heap

RangeCall ==
  /\ op.name = "range"
  /\ \/ MoveRight \/ MoveDown \/ EnterTower \/ DescendTower
     \/ Land \/ LandOnHead \/ Emit \/ StepRight \/ RangeDone

-----------------------------------------------------------------------------
\* ~SimpleSkiplist deletes, from every head, what follows it on its level.
\* Fault: the loop ends before the bottom level.
DestructibleAboveBottom == UNION {Chain(i) : i \in Level \ {0}}
Destructible == UNION {Chain(i) : i \in Level}

Destructor ==
  /\ pc = "idle"
  /\ alive' = alive \ (Destructible \ {Head[i] : i \in Level})
  /\ pc' = "destroyed"
  /\ UNCHANGED <<key, val, next, down, op, locals, reply>>

Step == Get \/ Insert \/ Remove \/ RangeCall \/ Return

Next == Step \/ Destructor \/ \E o \in Ops(GenLevels) : Call(o)

\* The caller's thread runs.
Spec == Init /\ [][Next]_vars /\ WF_vars(Step)

-----------------------------------------------------------------------------
(* Properties.                                                             *)

\* Each level is a sorted list, and every node above the bottom level stands
\* on the node of the same key one level down, except the last one an insert
\* has made, until the next one is there.
Structure == LevelsSorted /\ Stacked({older})

\* No pointer of a node or of the call leads to a deleted node, and no null
\* key is compared.
MemorySafe ==
  pc # "destroyed" =>
    /\ LinksLive
    /\ {cur, prev, older} \subseteq alive \cup {Null}
    /\ pc # "crash"

\* Every node is deleted, by remove or by the destructor, except the heads,
\* which belong to the vector.
NoNodeLeaks == pc = "destroyed" => alive = {Head[i] : i \in Level}

\* Every call returns: no loop of it runs forever.
EveryCallReturns == []<>(pc \in {"idle", "destroyed"})

\* The skiplist is the map its valued nodes hold.
Cursor ==
  CASE pc = "emit" -> <<"at", key[cur]>>
    [] pc = "step" -> <<"past", key[cur]>>
    [] OTHER -> <<"nowhere", NoKey>>

Abstract == INSTANCE OrderedMap WITH
  Thread <- {Caller},
  map <- Contents,
  request <- [t \in {Caller} |-> Request(op, pc = "ret")],
  cursor <- [t \in {Caller} |-> Cursor],
  reply <- [t \in {Caller} |-> reply],
  RemoveTells <- TRUE,
  RangeGivesUp <- TRUE

Promised == INSTANCE OrderedMap WITH
  Thread <- {Caller},
  map <- Contents,
  request <- [t \in {Caller} |-> Request(op, pc = "ret")],
  cursor <- [t \in {Caller} |-> Cursor],
  reply <- [t \in {Caller} |-> reply],
  RemoveTells <- TRUE,
  RangeGivesUp <- FALSE

\* Every call returns what the map says, except that a range from below the
\* first key gives up.
ImplementsMap == Abstract!Spec

\* A range starts "from first key >= 4": from the first key that is not below
\* its start (test_simple_skiplist.cpp).
RangeFindsFirstKey == Promised!Spec
=============================================================================
