---------------------------- MODULE RWSkiplist -----------------------------
(***************************************************************************)
(* The skiplist of src/concurrent_skiplist_read_write_mutex: the lists and *)
(* the hand-over-hand walk of LockSkiplist, with a std::shared_mutex in    *)
(* every node.  get and range lock nodes shared, remove exclusively, and   *)
(* insert_or_modify shared until it leaves for the level its key reaches,  *)
(* exclusively from there on.                                              *)
(*                                                                         *)
(* A step is one lock() being granted with the code up to the next lock()  *)
(* call; longer pieces of that code are steps of their own.  Within a step *)
(* one lock is taken, first, and the data touched belongs to nodes that    *)
(* are locked, so nothing else can be seen at a finer grain.               *)
(***************************************************************************)
EXTENDS TowerHeap

CONSTANTS
  Thread,     \* the threads that share the skiplist
  NoThread    \* the owner of a mutex nobody has locked exclusively

ASSUME ThreadAssumption == NoThread \notin Thread

VARIABLES
  owner,      \* the thread that has each mutex exclusively
  shared,     \* the threads that have it shared
  pc,         \* what each thread does next, usually a lock()
  op,         \* the call it is executing
  prev,       \* its local prev
  cur,        \* its local cur, while it outlives one loop iteration
  older,      \* its local older_level_val
  height,     \* its local cur_height
  mode,       \* its local read_only, as the mode it stands for
  reply       \* what the call has handed back last

locks  == <<owner, shared>>
locals == <<prev, cur, older, height, mode>>
vars   == <<heap, locks, pc, op, locals, reply>>

INSTANCE SharedMutex

Goto(t, l) == pc' = [pc EXCEPT ![t] = l]
Answer(t, r) == reply' = [reply EXCEPT ![t] = r]

\* t goes on at l, with p and c in prev and cur.
Stand(t, l, p, c) ==
  /\ Goto(t, l)
  /\ prev' = [prev EXCEPT ![t] = p]
  /\ cur' = [cur EXCEPT ![t] = c]

\* What hand-over-hand locking unlocks once the next node is locked.  Fault:
\* nothing.
LeftLocked(t) == {}
LeftBehind(t) == {prev[t]}

-----------------------------------------------------------------------------
\* LevelGen: min(geometric, maxHeight - 1), from a generator all threads
\* share without a lock.  Fault: the cap is missing.
GenUncapped == 0 .. MaxHeight
GenLevels == 0 .. MaxHeight - 1

\* The mode a call starts in.
FirstMode(o) ==
  IF o.name = "remove" \/ (o.name = "insert" /\ o.level >= MaxHeight - 1)
  THEN "exclusive" ELSE "shared"

Init ==
  /\ HeapInit
  /\ owner = [n \in Node |-> NoThread]
  /\ shared = [n \in Node |-> {}]
  /\ pc = [t \in Thread |-> "idle"]
  /\ op = [t \in Thread |-> IdleOp]
  /\ prev = [t \in Thread |-> Null]
  /\ cur = [t \in Thread |-> Null]
  /\ older = [t \in Thread |-> Null]
  /\ height = [t \in Thread |-> 0]
  /\ mode = [t \in Thread |-> "shared"]
  /\ reply = [t \in Thread |-> NoReply]

\* A thread that is not in a call makes one.
Call(t, o) ==
  /\ pc[t] = "idle"
  /\ op' = [op EXCEPT ![t] = o]
  /\ height' = [height EXCEPT ![t] = MaxHeight - 1]
  /\ mode' = [mode EXCEPT ![t] = FirstMode(o)]
  /\ Goto(t, "top")
  /\ UNCHANGED <<heap, locks, prev, cur, older, reply>>

\* The call returns to its caller.
Return(t) ==
  /\ pc[t] = "ret"
  /\ op' = [op EXCEPT ![t] = IdleOp]
  /\ height' = [height EXCEPT ![t] = 0]
  /\ mode' = [mode EXCEPT ![t] = "shared"]
  /\ Answer(t, NoReply)
  /\ Goto(t, "idle")
  /\ UNCHANGED <<heap, locks, prev, cur, older>>

-----------------------------------------------------------------------------
(* Steps the operations share.                                             *)

\* structure[MAX_HEIGHT-1] is locked.
Enter(t) ==
  LET n == Head[MaxHeight - 1] IN
  /\ pc[t] = "top"
  /\ CanLock(n, mode[t])
  /\ Relock(t, {n}, mode[t], {}, mode[t])
  /\ Stand(t, "next", n, Null)
  /\ UNCHANGED <<heap, op, older, height, mode, reply>>

\* prev->next, about to be locked, can be.
AtNext(t) == pc[t] = "next" /\ CanLock(next[prev[t]], mode[t])

\* move_right_prev_cur_locked: prev->next is locked and is the new prev.
MoveRight(t) ==
  LET n == next[prev[t]] IN
  /\ AtNext(t)
  /\ Before(n, op[t].key)
  /\ Relock(t, {n}, mode[t], LeftBehind(t), mode[t])
  /\ Stand(t, "next", n, Null)
  /\ UNCHANGED <<heap, op, older, height, mode, reply>>

\* move_down_prev_cur_locked up to its lock(): the key is not on this level,
\* prev->next is locked and unlocked.
LeaveLevel(t) ==
  /\ AtNext(t)
  /\ Beyond(next[prev[t]], op[t].key)
  /\ Goto(t, "down")
  /\ UNCHANGED <<heap, locks, op, locals, reply>>

\* The mode of the level below: an insert changes to exclusive when it comes
\* to the level of its key.  Fault: it never does.
DownSame(t) == mode[t]
DownMode(t) ==
  IF op[t].name = "insert" /\ height[t] = op[t].level + 1 THEN "exclusive" ELSE mode[t]

\* ... and after it: prev->down is locked and is the new prev.
ArriveBelow(t) ==
  LET n == down[prev[t]] IN
  /\ pc[t] = "down"
  /\ n # Null
  /\ CanLock(n, DownMode(t))
  /\ Relock(t, {n}, DownMode(t), LeftBehind(t), mode[t])
  /\ Stand(t, "next", n, Null)
  /\ height' = [height EXCEPT ![t] = @ - 1]
  /\ mode' = [mode EXCEPT ![t] = DownMode(t)]
  /\ UNCHANGED <<heap, op, older, reply>>

\* The call ends, what it has locked in mode m unlocked.
Leave(t, m, r) ==
  /\ Unlock(t, {prev[t], cur[t]}, m)
  /\ Stand(t, "ret", Null, Null)
  /\ Answer(t, r)
  /\ UNCHANGED <<op, older, height, mode>>

\* prev was on the bottom level, prev->down is null: the call is over.
OffTheBottom(t, r) ==
  /\ pc[t] = "down"
  /\ down[prev[t]] = Null
  /\ Leave(t, mode[t], r)
  /\ UNCHANGED heap

\* The key is on this level: only its tower is of interest from here.
EnterTower(t) ==
  LET n == next[prev[t]] IN
  /\ AtNext(t)
  /\ Equal(n, op[t].key)
  /\ Relock(t, {n}, mode[t], LeftBehind(t), mode[t])
  /\ Stand(t, "tower", Null, n)
  /\ UNCHANGED <<heap, op, older, height, mode, reply>>

\* The mode of the next node of a tower: an insert has to change the lowest.
\* Fault: it is locked shared like the others.
TowerShared(t) == "shared"
TowerMode(t) ==
  IF op[t].name = "insert" /\ height[t] = 1 THEN "exclusive" ELSE "shared"

\* One iteration of while(cur->down != nullptr).
DescendTower(t) ==
  LET n == down[cur[t]] IN
  /\ pc[t] = "tower"
  /\ n # Null
  /\ CanLock(n, TowerMode(t))
  /\ Relock(t, {n}, TowerMode(t), {cur[t]}, mode[t])
  /\ Stand(t, "tower", Null, n)
  /\ height' = [height EXCEPT ![t] = @ - 1]
  /\ mode' = [mode EXCEPT ![t] = "shared"]
  /\ UNCHANGED <<heap, op, older, reply>>

AtTowerFoot(t) == pc[t] = "tower" /\ down[cur[t]] = Null

-----------------------------------------------------------------------------
(* get                                                                     *)

ReadValue(t) ==
  /\ AtTowerFoot(t)
  /\ Leave(t, "shared", <<"get", op[t].key, val[cur[t]]>>)
  /\ UNCHANGED heap

Get(t) ==
  /\ op[t].name = "get"
  /\ \/ Enter(t)
     \/ MoveRight(t)
     \/ LeaveLevel(t)
     \/ ArriveBelow(t)
     \/ OffTheBottom(t, <<"get", op[t].key, NoValue>>)
     \/ EnterTower(t)
     \/ DescendTower(t)
     \/ ReadValue(t)

-----------------------------------------------------------------------------
(* insert_or_modify                                                        *)

\* The lambda given to move_down_prev_cur_locked, when level >= cur_height: a
\* new node goes between prev and prev->next, and under the one of the level
\* above.  It stays locked until its down is set, or not at all.
LinkNew(t) ==
  LET n == Fresh(op[t].key, height[t])
      kept == IF height[t] = 0 THEN {} ELSE {n}
  IN
  /\ AtNext(t)
  /\ Beyond(next[prev[t]], op[t].key)
  /\ op[t].level >= height[t]
  /\ Vacant(op[t].key, height[t]) # {}
  /\ Create(n, op[t].key, height[t], op[t].val)
  /\ next' = Behind(prev[t], n)
  /\ down' = Under(older[t], n)
  /\ Relock(t, kept, mode[t], {older[t]}, mode[t])
  /\ older' = [older EXCEPT ![t] = IF height[t] = 0 THEN Null ELSE n]
  /\ Goto(t, "down")
  /\ UNCHANGED <<op, prev, cur, height, mode, reply>>

\* The key is already on this level: the tower built so far is put on top
\* of the one that is there.
JoinTower(t) ==
  LET n == next[prev[t]] IN
  /\ AtNext(t)
  /\ Equal(n, op[t].key)
  /\ down' = Under(older[t], n)
  /\ Relock(t, {n}, mode[t], {prev[t], older[t]}, mode[t])
  /\ Stand(t, "tower", Null, n)
  /\ older' = [older EXCEPT ![t] = Null]
  /\ UNCHANGED <<key, val, next, alive, op, height, mode, reply>>

\* cur->val = new V(val); cur->unlock(false)
WriteValue(t) ==
  /\ AtTowerFoot(t)
  /\ val' = [val EXCEPT ![cur[t]] = op[t].val]
  /\ UNCHANGED <<key, next, down, alive>>
  /\ Leave(t, "exclusive", NoReply)

Insert(t) ==
  /\ op[t].name = "insert"
  /\ \/ Enter(t)
     \/ MoveRight(t)
     \/ op[t].level < height[t] /\ LeaveLevel(t)
     \/ LinkNew(t)
     \/ ArriveBelow(t)
     \/ OffTheBottom(t, NoReply)
     \/ JoinTower(t)
     \/ DescendTower(t)
     \/ WriteValue(t)

-----------------------------------------------------------------------------
(* remove                                                                  *)

\* while(*cur->key < key), c being the new cur: a null key is dereferenced.
AfterWhile(t, c) ==
  IF key[c] = NoKey THEN "crash"
  ELSE IF key[c] < op[t].key THEN "seek" ELSE "unlink"

RemoveFound(t) ==
  LET n == next[prev[t]] IN
  /\ AtNext(t)
  /\ Equal(n, op[t].key)
  /\ Relock(t, {n}, mode[t], {}, mode[t])
  /\ Stand(t, "unlink", prev[t], n)
  /\ UNCHANGED <<heap, op, older, height, mode, reply>>

\* prev->next = cur->next, then prev->down is locked before cur is deleted.
UnlinkUpper(t) ==
  /\ pc[t] = "unlink"
  /\ down[prev[t]] # Null
  /\ next' = Skip(prev[t], cur[t])
  /\ Goto(t, "rmDown")
  /\ UNCHANGED <<key, val, down, alive, locks, op, locals, reply>>

\* cur is deleted locked.
DeleteUpper(t) ==
  LET n == down[prev[t]] IN
  /\ pc[t] = "rmDown"
  /\ CanLock(n, "exclusive")
  /\ Destroy(cur[t], next)
  /\ Relock(t, {n}, "exclusive", {cur[t], prev[t]}, "exclusive")
  /\ Stand(t, "rmNext", n, Null)
  /\ height' = [height EXCEPT ![t] = @ - 1]
  /\ UNCHANGED <<op, older, mode, reply>>

\* The same on the bottom level, where there is nothing to lock.
DeleteBottom(t) ==
  /\ pc[t] = "unlink"
  /\ down[prev[t]] = Null
  /\ Destroy(cur[t], Skip(prev[t], cur[t]))
  /\ Leave(t, "exclusive", <<"removed", op[t].key, NoValue>>)

ResumeBelow(t) ==
  LET n == next[prev[t]] IN
  /\ pc[t] = "rmNext"
  /\ CanLock(n, "exclusive")
  /\ Relock(t, {n}, "exclusive", {}, "exclusive")
  /\ Stand(t, AfterWhile(t, n), prev[t], n)
  /\ UNCHANGED <<heap, op, older, height, mode, reply>>

SeekRight(t) ==
  LET n == next[cur[t]] IN
  /\ pc[t] = "seek"
  /\ CanLock(n, "exclusive")
  /\ Relock(t, {n}, "exclusive", LeftBehind(t), "exclusive")
  /\ Stand(t, AfterWhile(t, n), cur[t], n)
  /\ UNCHANGED <<heap, op, older, height, mode, reply>>

Remove(t) ==
  /\ op[t].name = "remove"
  /\ \/ Enter(t)
     \/ MoveRight(t)
     \/ LeaveLevel(t)
     \/ ArriveBelow(t)
     \/ OffTheBottom(t, <<"absent", op[t].key, NoValue>>)
     \/ RemoveFound(t)
     \/ UnlinkUpper(t)
     \/ DeleteUpper(t)
     \/ DeleteBottom(t)
     \/ ResumeBelow(t)
     \/ SeekRight(t)

-----------------------------------------------------------------------------
(* range                                                                   *)

\* On the bottom level, not found: cur is the first node past the start key.
LandAfter(t) ==
  LET n == next[prev[t]] IN
  /\ AtNext(t)
  /\ Beyond(n, op[t].key)
  /\ down[n] = Null
  /\ Relock(t, {n}, "shared", LeftBehind(t), "shared")
  /\ Stand(t, "emit", Null, n)
  /\ UNCHANGED <<heap, op, older, height, mode, reply>>

LandOn(t) ==
  /\ AtTowerFoot(t)
  /\ Goto(t, "emit")
  /\ UNCHANGED <<heap, locks, op, locals, reply>>

\* func(*cur->key, *cur->val)
Emit(t) ==
  /\ pc[t] = "emit"
  /\ key[cur[t]] # NoKey
  /\ op[t].len > 0
  /\ Answer(t, <<"pair", key[cur[t]], val[cur[t]]>>)
  /\ op' = [op EXCEPT ![t].len = @ - 1]
  /\ Goto(t, "step")
  /\ UNCHANGED <<heap, locks, locals>>

StepRight(t) ==
  LET n == next[cur[t]] IN
  /\ pc[t] = "step"
  /\ CanLock(n, "shared")
  /\ Relock(t, {n}, "shared", {cur[t]}, "shared")
  /\ Stand(t, "emit", Null, n)
  /\ UNCHANGED <<heap, op, older, height, mode, reply>>

RangeDone(t) ==
  /\ pc[t] = "emit"
  /\ key[cur[t]] = NoKey \/ op[t].len = 0
  /\ Leave(t, "shared", reply[t])
  /\ UNCHANGED heap

RangeCall(t) ==
  /\ op[t].name = "range"
  /\ \/ Enter(t)
     \/ MoveRight(t)
     \/ LeaveLevel(t) /\ down[next[prev[t]]] # Null
     \/ ArriveBelow(t)
     \/ LandAfter(t)
     \/ EnterTower(t)
     \/ DescendTower(t)
     \/ LandOn(t)
     \/ Emit(t)
     \/ StepRight(t)
     \/ RangeDone(t)

-----------------------------------------------------------------------------
Step(t) == Get(t) \/ Insert(t) \/ Remove(t) \/ RangeCall(t) \/ Return(t)

Next == \E t \in Thread : Step(t) \/ \E o \in Ops(GenLevels) : Call(t, o)

Spec == Init /\ [][Next]_vars

-----------------------------------------------------------------------------
(* Properties.                                                             *)

\* Every variable has its type; in particular a node is never asked for a
\* level the structure does not have.
TypeOK ==
  /\ HeapTypeOK
  /\ owner \in [Node -> Thread \cup {NoThread}]
  /\ shared \in [Node -> SUBSET Thread]
  /\ pc \in [Thread -> {"idle", "top", "next", "down", "tower", "unlink",
                        "rmDown", "rmNext", "seek", "emit", "step", "ret", "crash"}]
  /\ op \in [Thread -> OpType]
  /\ prev \in [Thread -> Pointer]
  /\ cur \in [Thread -> Pointer]
  /\ older \in [Thread -> Pointer]
  /\ height \in [Thread -> Level]
  /\ mode \in [Thread -> {"shared", "exclusive"}]
  /\ reply \in [Thread -> ReplyType]

\* The nodes t should have locked, and in which mode: those its pointers
\* name, in the mode of read_only, except that an insert has the foot of a
\* tower exclusively.
Held(t) == {prev[t], cur[t], older[t]} \ {Null}
HeldMode(t) ==
  IF op[t].name = "insert" /\ pc[t] = "tower" /\ height[t] = 0 THEN "exclusive" ELSE mode[t]

\* A thread has exactly those mutexes, in exactly those modes: each unlock is
\* of the mode its lock was, no node is read or changed without its lock, and
\* no lock outlives its use or its call.
LocksHeld ==
  /\ \A t \in Thread :
       /\ {n \in Node : owner[n] = t} = IF HeldMode(t) = "exclusive" THEN Held(t) ELSE {}
       /\ {n \in Node : t \in shared[n]} = IF HeldMode(t) = "shared" THEN Held(t) ELSE {}
       /\ pc[t] \in {"idle", "top", "ret"} => Held(t) = {}
  /\ \A n \in Node : owner[n] # NoThread => shared[n] = {}

\* No pointer of a live node or of a running call leads to a deleted node, and
\* no null key is dereferenced.
MemorySafe ==
  /\ LinksLive
  /\ \A t \in Thread : Held(t) \subseteq alive /\ pc[t] # "crash"

\* Each level is a sorted list, and every node above the bottom level stands
\* on the node of the same key one level down, except the one an insert is
\* still holding locked until the lower one is there.
Structure ==
  /\ LevelsSorted
  /\ Stacked({n \in Node : \E t \in Thread : older[t] = n /\ owner[n] = t})

\* The node t is about to lock, and the mode of that lock().
Target(t) ==
  CASE pc[t] = "top"                -> Head[MaxHeight - 1]
    [] pc[t] \in {"next", "rmNext"} -> next[prev[t]]
    [] pc[t] \in {"down", "rmDown"} -> down[prev[t]]
    [] pc[t] = "tower"              -> down[cur[t]]
    [] pc[t] \in {"seek", "step"}   -> next[cur[t]]
    [] OTHER                        -> Null
TargetMode(t) ==
  CASE pc[t] = "down"  -> DownMode(t)
    [] pc[t] = "tower" -> TowerMode(t)
    [] OTHER           -> mode[t]

\* t waits for u to unlock that node, or to have been served there: a mutex
\* may let readers wait behind a writer that waits.
WaitsFor(t, u) ==
  /\ Target(t) # Null
  /\ \/ owner[Target(t)] = u
     \/ TargetMode(t) = "exclusive" /\ u \in shared[Target(t)]
     \/ TargetMode(t) = "shared" /\ TargetMode(u) = "exclusive" /\ Target(u) = Target(t)

\* No lock() waits for ever: no set of threads waits for each other in a
\* circle, and no thread for itself, as one would that locks a node
\* exclusively that it has shared.
NoWaitCycle ==
  \A S \in (SUBSET Thread) \ {{}} : \E t \in S : \A u \in S : ~WaitsFor(t, u)

\* A node is changed or deleted only by the thread that has it exclusively.
WritesGuarded ==
  [][\A n \in alive :
       \/ n \in alive' /\ UNCHANGED <<key[n], val[n], next[n], down[n]>>
       \/ \E t \in Thread : owner[n] = t /\ pc'[t] # pc[t]]_vars

\* The skiplist is the map its valued nodes hold: every call takes effect
\* at one of its steps.
InsertTookEffect(t) == op[t].name = "insert" /\ pc[t] = "down" /\ height[t] = 0

\* What t has asked for and has not yet taken effect, and where its range is.
Asked(t) == Request(op[t], pc[t] = "ret" \/ InsertTookEffect(t))
Cursor(t) ==
  CASE pc[t] = "emit" -> <<"at", key[cur[t]]>>
    [] pc[t] = "step" -> <<"past", key[cur[t]]>>
    [] OTHER -> <<"nowhere", NoKey>>

Abstract == INSTANCE OrderedMap WITH
  map <- Contents,
  request <- [t \in Thread |-> Asked(t)],
  cursor <- [t \in Thread |-> Cursor(t)],
  reply <- reply,
  RemoveTells <- TRUE,
  RangeGivesUp <- FALSE

Linearizable == Abstract!Spec
=============================================================================
