---------------------------- MODULE LockSkiplist ----------------------------
(***************************************************************************)
(* The spinlock skiplist of src/concurrent_skiplist_lock.  Threads call    *)
(* get, insert_or_modify, remove and range concurrently; each call walks   *)
(* right and down under hand-over-hand locking.                            *)
(*                                                                         *)
(* A step is either one lock() call being granted, or the code a thread    *)
(* runs between being granted a lock and its next lock() call.  That code  *)
(* reads and writes only nodes it holds (LocksHeld, WritesGuarded), so     *)
(* finer steps would show nothing more.                                    *)
(***************************************************************************)
EXTENDS TowerHeap

CONSTANTS
  Thread,     \* the threads that share the skiplist
  NoThread    \* the owner of a lock nobody holds

ASSUME ThreadAssumption == NoThread \notin Thread

VARIABLES
  lock,       \* the thread that holds each node's Lock
  pc,         \* where each thread is
  op,         \* the call it is executing
  prev,       \* its local prev
  cur,        \* its local cur, while it outlives one loop iteration
  older,      \* its local older_level_val
  height,     \* its local cur_height
  reply       \* what the call has handed back last

locals == <<prev, cur, older, height>>

vars == <<heap, lock, pc, op, locals, reply>>

-----------------------------------------------------------------------------
\* LevelGen: min(geometric, maxHeight - 1).  The generator is shared by all
\* threads without a lock, so its state is anything and so is its answer.
GenUncapped == 0 .. MaxHeight   \* fault: the cap is missing
GenLevels == 0 .. MaxHeight - 1

\* At these points a thread is inside lock(); at the point each maps to it
\* has been granted the lock.
Granted ==
  [top   |-> "atTop",   next   |-> "atNext",   down   |-> "atDown",
   tower |-> "atTower", seek   |-> "atSeek",   rmDown |-> "atRmDown",
   step  |-> "atStep",  rmNext |-> "atRmNext"]

Locking == DOMAIN Granted
JustLocked == {Granted[l] : l \in Locking}
Running == {"idle", "unlink", "emit", "ret", "crash"}

\* The node whose lock() the thread is in, or has just come out of.
Target(t) ==
  CASE pc[t] \in {"top", "atTop"} -> Head[MaxHeight - 1]
    [] pc[t] \in {"next", "atNext", "rmNext", "atRmNext"} -> next[prev[t]]
    [] pc[t] \in {"down", "atDown", "rmDown", "atRmDown"} -> down[prev[t]]
    [] pc[t] \in {"tower", "atTower"} -> down[cur[t]]
    [] pc[t] \in {"seek", "atSeek", "step", "atStep"} -> next[cur[t]]
    [] OTHER -> Null

Waiting(t) == pc[t] \in Locking /\ Target(t) # Null

\* Lock::unlock on every node of S.
Release(S) == [n \in Node |-> IF n \in S THEN NoThread ELSE lock[n]]

Goto(t, l) == pc' = [pc EXCEPT ![t] = l]
Answer(t, r) == reply' = [reply EXCEPT ![t] = r]

-----------------------------------------------------------------------------
Init ==
  /\ HeapInit
  /\ lock = [n \in Node |-> NoThread]
  /\ pc = [t \in Thread |-> "idle"]
  /\ op = [t \in Thread |-> IdleOp]
  /\ prev = [t \in Thread |-> Null]
  /\ cur = [t \in Thread |-> Null]
  /\ older = [t \in Thread |-> Null]
  /\ height = [t \in Thread |-> 0]
  /\ reply = [t \in Thread |-> NoReply]

\* A thread that is not in a call makes one.
Call(t, o) ==
  /\ pc[t] = "idle"
  /\ op' = [op EXCEPT ![t] = o]
  /\ height' = [height EXCEPT ![t] = MaxHeight - 1]
  /\ Goto(t, "top")
  /\ UNCHANGED <<heap, lock, prev, cur, older, reply>>

\* Lock::lock returns: the flag was clear and is now set (module SpinLock).
\* The lock of a node that has been deleted is gone, and so is the thread.
Acquire(t) ==
  LET n == Target(t) IN
  /\ Waiting(t)
  /\ n \in alive => lock[n] = NoThread
  /\ lock' = IF n \in alive THEN [lock EXCEPT ![n] = t] ELSE lock
  /\ Goto(t, IF n \in alive THEN Granted[pc[t]] ELSE "crash")
  /\ UNCHANGED <<heap, op, locals, reply>>

\* The call returns to its caller.
Return(t) ==
  /\ pc[t] = "ret"
  /\ op' = [op EXCEPT ![t] = IdleOp]
  /\ height' = [height EXCEPT ![t] = 0]
  /\ Answer(t, NoReply)
  /\ Goto(t, "idle")
  /\ UNCHANGED <<heap, lock, prev, cur, older>>

-----------------------------------------------------------------------------
(* Steps the four operations share.                                        *)

\* structure[MAX_HEIGHT-1] is locked: the search starts there.
Enter(t) ==
  /\ pc[t] = "atTop"
  /\ prev' = [prev EXCEPT ![t] = Head[MaxHeight - 1]]
  /\ Goto(t, "next")
  /\ UNCHANGED <<heap, lock, op, cur, older, height, reply>>

\* What hand-over-hand locking unlocks once the next node is locked.  Fault:
\* nothing.
LeftLocked(t) == {}
LeftBehind(t) == {prev[t]}

\* move_right_prev_cur_locked.
MoveRight(t) ==
  /\ pc[t] = "atNext"
  /\ Before(next[prev[t]], op[t].key)
  /\ lock' = Release(LeftBehind(t))
  /\ prev' = [prev EXCEPT ![t] = next[prev[t]]]
  /\ Goto(t, "next")
  /\ UNCHANGED <<heap, op, cur, older, height, reply>>

\* What is unlocked before prev->down is locked: cur.  Fault: prev as well.
CurAndPrev(t) == {next[prev[t]], prev[t]}
CurOnly(t) == {next[prev[t]]}

\* move_down_prev_cur_locked up to its lock(): the key is not on this level,
\* the way down is from prev.
LeaveLevel(t) ==
  /\ pc[t] = "atNext"
  /\ Beyond(next[prev[t]], op[t].key)
  /\ lock' = Release(CurOnly(t))
  /\ Goto(t, "down")
  /\ UNCHANGED <<heap, op, locals, reply>>

\* ... and after it: prev->down is locked, prev is unlocked.
ArriveBelow(t) ==
  /\ pc[t] = "atDown"
  /\ lock' = Release(LeftBehind(t))
  /\ prev' = [prev EXCEPT ![t] = down[prev[t]]]
  /\ height' = [height EXCEPT ![t] = @ - 1]
  /\ Goto(t, "next")
  /\ UNCHANGED <<heap, op, cur, older, reply>>

\* prev was on the bottom level, prev->down is null: the call is over.
OffTheBottom(t, r) ==
  /\ pc[t] = "down"
  /\ down[prev[t]] = Null
  /\ lock' = Release({prev[t]})
  /\ prev' = [prev EXCEPT ![t] = Null]
  /\ Answer(t, r)
  /\ Goto(t, "ret")
  /\ UNCHANGED <<heap, op, cur, older, height>>

\* The key is on this level: only its tower is of interest from here.
EnterTower(t) ==
  /\ pc[t] = "atNext"
  /\ Equal(next[prev[t]], op[t].key)
  /\ lock' = Release(LeftBehind(t))
  /\ cur' = [cur EXCEPT ![t] = next[prev[t]]]
  /\ prev' = [prev EXCEPT ![t] = Null]
  /\ Goto(t, "tower")
  /\ UNCHANGED <<heap, op, older, height, reply>>

\* One iteration of while(cur->down != nullptr), its lock() granted.
DescendTower(t) ==
  /\ pc[t] = "atTower"
  /\ lock' = Release({cur[t]})
  /\ cur' = [cur EXCEPT ![t] = down[cur[t]]]
  /\ Goto(t, "tower")
  /\ UNCHANGED <<heap, op, prev, older, height, reply>>

AtTowerFoot(t) == pc[t] = "tower" /\ down[cur[t]] = Null

-----------------------------------------------------------------------------
(* get                                                                     *)

ReadValue(t) ==
  /\ AtTowerFoot(t)
  /\ Answer(t, <<"get", op[t].key, val[cur[t]]>>)
  /\ lock' = Release({cur[t]})
  /\ cur' = [cur EXCEPT ![t] = Null]
  /\ Goto(t, "ret")
  /\ UNCHANGED <<heap, op, prev, older, height>>

Get(t) ==
  /\ op[t].name = "get"
  /\ \/ Enter(t)
     \/ MoveRight(t)
     \/ LeaveLevel(t)
     \/ ArriveBelow(t)
     \/ OffTheBottom(t, <<"get", op[t].key, NoValue>>)
     \/ EnterTower(t)
     \/ DescendTower(t)
     \/ ReadValue(t)

-----------------------------------------------------------------------------
(* insert_or_modify                                                        *)

\* Which nodes linking n leaves locked: n itself, until its down is set.
\* Fault: it is never locked.
KeepNothing(t, n) == {}
KeepNew(t, n) == IF height[t] = 0 THEN {} ELSE {n}

\* The lambda given to move_down_prev_cur_locked, when level >= cur_height: a
\* new node goes between prev and cur, and under the one of the level above.
LinkNew(t) ==
  LET n == Fresh(op[t].key, height[t])
      c == next[prev[t]]
      kept == KeepNew(t, n)
  IN
  /\ pc[t] = "atNext"
  /\ Beyond(c, op[t].key)
  /\ op[t].level >= height[t]
  /\ Vacant(op[t].key, height[t]) # {}
  /\ Create(n, op[t].key, height[t], op[t].val)
  /\ next' = Behind(prev[t], n)
  /\ down' = Under(older[t], n)
  /\ lock' = [m \in Node |-> IF m \in kept THEN t
                             ELSE IF m \in {c, older[t]} THEN NoThread ELSE lock[m]]
  /\ older' = [older EXCEPT ![t] = IF height[t] = 0 THEN Null ELSE n]
  /\ Goto(t, "down")
  /\ UNCHANGED <<op, prev, cur, height, reply>>

\* The key is already on this level: the tower built so far is put on top
\* of the one that is there, its lowest node and prev are unlocked.  Fault:
\* the node is not.
JoinedOlderLocked(t) == {prev[t]}
JoinedUnlocked(t) == {prev[t], older[t]}

JoinTower(t) ==
  /\ pc[t] = "atNext"
  /\ Equal(next[prev[t]], op[t].key)
  /\ down' = Under(older[t], next[prev[t]])
  /\ lock' = Release(JoinedUnlocked(t))
  /\ cur' = [cur EXCEPT ![t] = next[prev[t]]]
  /\ prev' = [prev EXCEPT ![t] = Null]
  /\ older' = [older EXCEPT ![t] = Null]
  /\ Goto(t, "tower")
  /\ UNCHANGED <<key, val, next, alive, op, height, reply>>

\* cur->val = new V(val)
WriteValue(t) ==
  /\ AtTowerFoot(t)
  /\ val' = [val EXCEPT ![cur[t]] = op[t].val]
  /\ lock' = Release({cur[t]})
  /\ cur' = [cur EXCEPT ![t] = Null]
  /\ Goto(t, "ret")
  /\ UNCHANGED <<key, next, down, alive, op, prev, older, height, reply>>

Insert(t) ==
  /\ op[t].name = "insert"
  /\ \/ Enter(t)
     \/ MoveRight(t)
     \/ op[t].level < height[t] /\ LeaveLevel(t)
     \/ LinkNew(t)
     \/ ArriveBelow(t)
     \/ OffTheBottom(t, NoReply)
     \/ JoinTower(t)
     \/ DescendTower(t)
     \/ WriteValue(t)

-----------------------------------------------------------------------------
(* remove                                                                  *)

\* while(*cur->key < key), c being the new cur: a null key is dereferenced.
AfterWhile(t, c) ==
  IF key[c] = NoKey THEN "crash"
  ELSE IF key[c] < op[t].key THEN "seek" ELSE "unlink"

RemoveFound(t) ==
  /\ pc[t] = "atNext"
  /\ Equal(next[prev[t]], op[t].key)
  /\ cur' = [cur EXCEPT ![t] = next[prev[t]]]
  /\ Goto(t, "unlink")
  /\ UNCHANGED <<heap, lock, op, prev, older, height, reply>>

\* prev->next = cur->next, then prev->down is locked before cur is deleted.
UnlinkUpper(t) ==
  /\ pc[t] = "unlink"
  /\ down[prev[t]] # Null
  /\ next' = Skip(prev[t], cur[t])
  /\ Goto(t, "rmDown")
  /\ UNCHANGED <<key, val, down, alive, lock, op, locals, reply>>

DeleteUpper(t) ==
  /\ pc[t] = "atRmDown"
  /\ Destroy(cur[t], next)
  /\ lock' = Release({cur[t], prev[t]})
  /\ cur' = [cur EXCEPT ![t] = Null]
  /\ prev' = [prev EXCEPT ![t] = down[prev[t]]]
  /\ height' = [height EXCEPT ![t] = @ - 1]
  /\ Goto(t, "rmNext")
  /\ UNCHANGED <<op, older, reply>>

\* The same on the bottom level, where there is nothing to lock.
DeleteBottom(t) ==
  /\ pc[t] = "unlink"
  /\ down[prev[t]] = Null
  /\ Destroy(cur[t], Skip(prev[t], cur[t]))
  /\ lock' = Release({cur[t], prev[t]})
  /\ cur' = [cur EXCEPT ![t] = Null]
  /\ prev' = [prev EXCEPT ![t] = Null]
  /\ Answer(t, <<"removed", op[t].key, NoValue>>)
  /\ Goto(t, "ret")
  /\ UNCHANGED <<op, older, height>>

ResumeBelow(t) ==
  /\ pc[t] = "atRmNext"
  /\ cur' = [cur EXCEPT ![t] = next[prev[t]]]
  /\ Goto(t, AfterWhile(t, next[prev[t]]))
  /\ UNCHANGED <<heap, lock, op, prev, older, height, reply>>

SeekRight(t) ==
  /\ pc[t] = "atSeek"
  /\ lock' = Release(LeftBehind(t))
  /\ prev' = [prev EXCEPT ![t] = cur[t]]
  /\ cur' = [cur EXCEPT ![t] = next[cur[t]]]
  /\ Goto(t, AfterWhile(t, next[cur[t]]))
  /\ UNCHANGED <<heap, op, older, height, reply>>

Remove(t) ==
  /\ op[t].name = "remove"
  /\ \/ Enter(t)
     \/ MoveRight(t)
     \/ LeaveLevel(t)
     \/ ArriveBelow(t)
     \/ OffTheBottom(t, <<"absent", op[t].key, NoValue>>)
     \/ RemoveFound(t)
     \/ UnlinkUpper(t)
     \/ DeleteUpper(t)
     \/ DeleteBottom(t)
     \/ ResumeBelow(t)
     \/ SeekRight(t)

-----------------------------------------------------------------------------
(* range                                                                   *)

\* On the bottom level, not found: cur is the first node past the start key.
LandAfter(t) ==
  LET c == next[prev[t]] IN
  /\ pc[t] = "atNext"
  /\ Beyond(c, op[t].key)
  /\ down[c] = Null
  /\ lock' = Release(LeftBehind(t))
  /\ cur' = [cur EXCEPT ![t] = c]
  /\ prev' = [prev EXCEPT ![t] = Null]
  /\ Goto(t, "emit")
  /\ UNCHANGED <<heap, op, older, height, reply>>

LandOn(t) ==
  /\ AtTowerFoot(t)
  /\ Goto(t, "emit")
  /\ UNCHANGED <<heap, lock, op, locals, reply>>

\* func(*cur->key, *cur->val)
Emit(t) ==
  /\ pc[t] = "emit"
  /\ key[cur[t]] # NoKey
  /\ op[t].len > 0
  /\ Answer(t, <<"pair", key[cur[t]], val[cur[t]]>>)
  /\ op' = [op EXCEPT ![t].len = @ - 1]
  /\ Goto(t, "step")
  /\ UNCHANGED <<heap, lock, locals>>

StepRight(t) ==
  /\ pc[t] = "atStep"
  /\ lock' = Release({cur[t]})
  /\ cur' = [cur EXCEPT ![t] = next[cur[t]]]
  /\ Goto(t, "emit")
  /\ UNCHANGED <<heap, op, prev, older, height, reply>>

RangeDone(t) ==
  /\ pc[t] = "emit"
  /\ key[cur[t]] = NoKey \/ op[t].len = 0
  /\ lock' = Release({cur[t]})
  /\ cur' = [cur EXCEPT ![t] = Null]
  /\ Goto(t, "ret")
  /\ UNCHANGED <<heap, op, prev, older, height, reply>>

RangeCall(t) ==
  /\ op[t].name = "range"
  /\ \/ Enter(t)
     \/ MoveRight(t)
     \/ LeaveLevel(t) /\ down[next[prev[t]]] # Null
     \/ ArriveBelow(t)
     \/ LandAfter(t)
     \/ EnterTower(t)
     \/ DescendTower(t)
     \/ LandOn(t)
     \/ Emit(t)
     \/ StepRight(t)
     \/ RangeDone(t)

-----------------------------------------------------------------------------
Step(t) == Acquire(t) \/ Get(t) \/ Insert(t) \/ Remove(t) \/ RangeCall(t) \/ Return(t)

Next == \E t \in Thread : Step(t) \/ \E o \in Ops(GenLevels) : Call(t, o)

Spec == Init /\ [][Next]_vars

-----------------------------------------------------------------------------
(* Properties.                                                             *)

\* Every variable has its type; in particular a node is never asked for a
\* level the structure does not have.
TypeOK ==
  /\ HeapTypeOK
  /\ lock \in [Node -> Thread \cup {NoThread}]
  /\ pc \in [Thread -> Locking \cup JustLocked \cup Running]
  /\ op \in [Thread -> OpType]
  /\ prev \in [Thread -> Pointer]
  /\ cur \in [Thread -> Pointer]
  /\ older \in [Thread -> Pointer]
  /\ height \in [Thread -> Int]
  /\ reply \in [Thread -> ReplyType]

\* The locks t should hold: one on each node its pointers name, and one on
\* the node it has just been granted.
Held(t) == ({prev[t], cur[t], older[t]} \ {Null})
             \cup (IF pc[t] \in JustLocked THEN {Target(t)} ELSE {})

\* A thread holds exactly those locks: it works on no node it has not
\* locked, and drops no pointer to a node it still has locked.
LocksHeld == \A t \in Thread : {n \in Node : lock[n] = t} = Held(t)

\* No pointer of a live node or of a running call leads to a deleted node,
\* no deleted node is locked and no null key is dereferenced: delete in
\* remove pulls nothing away from under a thread on its way there.
MemorySafe ==
  /\ LinksLive
  /\ \A t \in Thread :
       /\ Held(t) \subseteq alive
       /\ Waiting(t) => Target(t) \in alive
       /\ pc[t] # "crash"

\* Each level is a sorted list, and every node above the bottom level stands
\* on the node of the same key one level down, except the one an insert is
\* still holding locked until the lower one is there.
Structure ==
  /\ LevelsSorted
  /\ Stacked({n \in Node : \E t \in Thread : older[t] = n /\ lock[n] = t})

\* A node is changed or deleted only by a thread that holds its lock.
WritesGuarded ==
  [][\A n \in alive :
       \/ n \in alive' /\ UNCHANGED <<key[n], val[n], next[n], down[n]>>
       \/ \E t \in Thread : lock[n] = t /\ pc'[t] # pc[t]]_vars

\* No lock() waits for ever: no set of threads waits for each other in a
\* circle, and no call that is over has left a node locked (the tests: "if
\* range leaks a lock, this will hang").
WaitsFor(t, u) == Waiting(t) /\ lock[Target(t)] = u
NoWaitCycle ==
  /\ \A S \in (SUBSET Thread) \ {{}} : \E t \in S : \A u \in S : ~WaitsFor(t, u)
  /\ \A t \in Thread : pc[t] \in {"idle", "top", "ret"} => \A n \in Node : lock[n] # t

\* README: "at most two locks held at a time as the traversal moves right or
\* down".
AtMostTwoLocks == \A t \in Thread : Cardinality({n \in Node : lock[n] = t}) <= 2

\* The skiplist is the map its valued nodes hold: every call takes effect
\* at one of its steps.
InsertTookEffect(t) == op[t].name = "insert" /\ pc[t] = "down" /\ height[t] = 0

\* What t has asked for and has not yet taken effect, and where its range is.
Asked(t) == Request(op[t], pc[t] = "ret" \/ InsertTookEffect(t))
Cursor(t) ==
  CASE pc[t] = "emit" -> <<"at", key[cur[t]]>>
    [] pc[t] = "step" -> <<"past", key[cur[t]]>>
    [] pc[t] = "atStep" -> <<"at", key[next[cur[t]]]>>
    [] OTHER -> <<"nowhere", NoKey>>

Abstract == INSTANCE OrderedMap WITH
  map <- Contents,
  request <- [t \in Thread |-> Asked(t)],
  cursor <- [t \in Thread |-> Cursor(t)],
  reply <- reply,
  RemoveTells <- TRUE,
  RangeGivesUp <- FALSE

Linearizable == Abstract!Spec
=============================================================================
