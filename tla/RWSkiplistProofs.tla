-------------------------- MODULE RWSkiplistProofs --------------------------
(***************************************************************************)
(* Proofs about RWSkiplist, for any threads, keys, values, addresses and   *)
(* number of levels.                                                       *)
(*                                                                         *)
(* Which mode a mutex is unlocked in depends on how far down a call is,    *)
(* and what an insert does to a node it has locked on whether it has it    *)
(* exclusively: the locks (IInv) and the shape of the lists (SInv) are     *)
(* kept by each other.  Readers may share a node; that an order between    *)
(* two threads is strict (InFront) is always on account of the one of them *)
(* that is exclusive.                                                      *)
(*                                                                         *)
(* From the shape follow memory safety, that no threads wait for each      *)
(* other in a circle, and that the destructor finds every node.            *)
(*                                                                         *)
(* The last part shows that the skiplist is the map its callers see.       *)
(***************************************************************************)
EXTENDS RWSkiplistClients, TowerHeapProofs

\* Where prev, and where cur, points to a node.
UsesPrev == {"next", "down", "unlink", "rmDown", "rmNext", "seek"}
UsesCur  == {"tower", "unlink", "rmDown", "seek", "emit", "step"}

\* A remove that has unlinked a node and not yet deleted it; one that knows
\* the key to be further on this level; the threads on their way to a place
\* on this level.
Leaving  == {"rmDown"}
Removing == {"rmNext", "seek", "unlink"}
Seeking  == UsesPrev \ {"down"}

-----------------------------------------------------------------------------
(* The invariant: the locks.                                               *)

Shape(t) ==
  /\ prev[t] \in Node <=> pc[t] \in UsesPrev
  /\ cur[t] \in Node <=> pc[t] \in UsesCur

\* In which mode a call is: an insert goes exclusive from the level of its
\* key on, and shared again when it goes down a tower.
ModeInv(t) ==
  /\ op[t].name \in {"get", "range"} => mode[t] = "shared"
  /\ op[t].name = "remove" => mode[t] = "exclusive"
  /\ op[t].name = "insert" /\ pc[t] \in {"top", "next", "down"} =>
        (mode[t] = "exclusive" <=> op[t].level >= height[t])

Holds(t) ==
  \A n \in Node : /\ owner[n] = t <=> HeldMode(t) = "exclusive" /\ n \in Held(t)
                  /\ t \in shared[n] <=> HeldMode(t) = "shared" /\ n \in Held(t)

Local(t) == Shape(t) /\ ModeInv(t) /\ Holds(t)

\* Whoever has a mutex exclusively has it alone.
Alone == \A n \in Node : owner[n] # NoThread => shared[n] = {}

IInv == TypeOK /\ Alone /\ \A t \in Thread : Local(t)

-----------------------------------------------------------------------------
(* The invariant: the lists, the towers and the places of the threads on   *)
(* them.                                                                   *)

\* Down leads to the node of the same key on the next level; only an insert
\* leaves a node without one, and only a remove takes a node off its level.
TowerInv(at, on) ==
  /\ \A n \in alive : down[n] # Null =>
        /\ down[n] \in on /\ at[n] = at[down[n]] + 1 /\ key[down[n]] = key[n]
        /\ n \in Heads <=> down[n] \in Heads
        /\ n \in Tails <=> down[n] \in Tails
  /\ \A n \in alive : down[n] = Null /\ at[n] > 0 => \E t \in Thread : older[t] = n
  /\ \A n \in alive \ on : \E t \in Thread : pc[t] \in Leaving /\ cur[t] = n
  /\ \A n \in Node \ alive : down[n] = Null

\* Which call a thread is in.
CallInv(t) ==
  /\ pc[t] # "crash"
  /\ pc[t] # "idle" => op[t].key \in Key /\ op[t].name # "idle"
  /\ pc[t] \in Removing \cup Leaving => op[t].name = "remove"
  /\ pc[t] \in {"emit", "step"} => op[t].name = "range"
  /\ pc[t] = "top" => height[t] = MaxHeight - 1

\* Where prev is: on the level the thread is on, short of its key.
PrevInv(at, on, t) ==
  pc[t] \in UsesPrev =>
    /\ prev[t] \in on /\ at[prev[t]] = height[t]
    /\ Short(key, prev[t], op[t].key)

\* Where older is: one level up, waiting for its lower node.
OlderInv(at, on, t) ==
  older[t] # Null =>
    /\ op[t].name = "insert" /\ pc[t] \in {"next", "down"}
    /\ older[t] \in on /\ key[older[t]] = op[t].key /\ down[older[t]] = Null
    /\ op[t].level >= at[older[t]] /\ at[older[t]] > 0
    /\ at[older[t]] = IF pc[t] = "next" THEN height[t] + 1 ELSE height[t]

\* Where cur is.
CurInv(at, on, t) ==
  /\ pc[t] = "tower" =>
       cur[t] \in on /\ key[cur[t]] = op[t].key /\ at[cur[t]] = height[t]
  /\ pc[t] \in {"emit", "step"} =>
       /\ cur[t] \in on \ Heads /\ at[cur[t]] = 0
       /\ pc[t] # "emit" => cur[t] \notin Tails
  /\ pc[t] = "seek" => cur[t] = next[prev[t]] /\ Short(key, cur[t], op[t].key)
  /\ pc[t] = "unlink" => cur[t] = next[prev[t]] /\ key[cur[t]] = op[t].key
  /\ pc[t] \in Leaving =>
       /\ cur[t] \in alive \ on /\ key[cur[t]] = op[t].key /\ at[cur[t]] = height[t]
       /\ next[cur[t]] = next[prev[t]] /\ down[prev[t]] # Null /\ down[cur[t]] # Null

\* The node a remove goes for on this level is there.
FoundBelow(at, on, t) ==
  pc[t] \in Removing \ {"unlink"} => \E c \in on : at[c] = height[t] /\ key[c] = op[t].key

\* A thread that is about to go down has nothing between prev and the place
\* of its key, its own new node apart.
NothingBetween(at, on, t) ==
  pc[t] \in {"down"} \cup Leaving /\ height[t] > 0 =>
    \A n \in on : at[n] = height[t] /\ Left(key, prev[t], n)
                    => Past(key, n, op[t].key) \/ n = older[t]

\* Every tower that is there, reaches above this level and is not past the
\* key has been passed.
TowersPassed(at, t) ==
  pc[t] \in Seeking =>
    \A n \in alive : at[n] = height[t] + 1 /\ down[n] # Null /\ Left(key, prev[t], n)
                       => Past(key, n, op[t].key)

\* Behind an insert that still holds a node of the level above, and in front
\* of a remove that has begun to delete, nobody gets on the same level who
\* has as far to go.
InFront(t, u) ==
  /\ pc[t] \in Seeking /\ pc[u] \in Seeking /\ height[t] = height[u]
  /\ \/ older[t] # Null /\ op[t].key <= op[u].key
     \/ pc[u] \in Removing /\ op[t].key = op[u].key
  => Left(key, prev[t], prev[u])

ThreadInv(at, on, t) ==
  /\ CallInv(t)
  /\ PrevInv(at, on, t)
  /\ OlderInv(at, on, t)
  /\ CurInv(at, on, t)
  /\ FoundBelow(at, on, t)
  /\ NothingBetween(at, on, t)
  /\ TowersPassed(at, t)

SInv(at, on) ==
  /\ ListInv(at, on)
  /\ TowerInv(at, on)
  /\ \A t \in Thread : ThreadInv(at, on, t)
  /\ \A t, u \in Thread : t # u => InFront(t, u)

StructureInv == \E at \in [Node -> Level], on \in SUBSET Node : SInv(at, on)

-----------------------------------------------------------------------------
(* What the locks mean.                                                    *)

\* A mutex t has, in whatever mode.
Has(t, n) == owner[n] = t \/ t \in shared[n]

\* A thread has its pointers' nodes, in its mode, and no others.
LEMMA OwnPointers ==
  ASSUME IInv, NEW t \in Thread, NEW n \in Node
  PROVE  /\ n \in {prev[t], cur[t], older[t]} <=> Has(t, n)
         /\ Has(t, n) => \/ HeldMode(t) = "exclusive" /\ owner[n] = t
                         \/ HeldMode(t) = "shared" /\ t \in shared[n]
         /\ HeldMode(t) = "exclusive" /\ Has(t, n) =>
               owner[n] = t /\ \A u \in Thread \ {t} : ~Has(u, n)
         /\ Has(t, n) => \A u \in Thread \ {t} : owner[n] # u
  <1>1. HeldMode(t) \in {"shared", "exclusive"}
    BY DEF HeldMode, IInv, TypeOK
  <1>2. /\ owner[n] = t <=> HeldMode(t) = "exclusive" /\ n \in Held(t)
        /\ t \in shared[n] <=> HeldMode(t) = "shared" /\ n \in Held(t)
    BY DEF IInv, Local, Holds
  <1>3. n \in Held(t) <=> n \in {prev[t], cur[t], older[t]}
    BY HeapAssumption DEF Held
  <1>4. owner[n] # NoThread => shared[n] = {}
    BY DEF IInv, Alone
  <1> QED
    BY <1>1, <1>2, <1>3, <1>4, ThreadAssumption DEF Has

\* A thread that is exclusive shares no node.
LEMMA Apart ==
  ASSUME IInv, NEW t \in Thread, NEW u \in Thread, t # u,
         HeldMode(t) = "exclusive" \/ HeldMode(u) = "exclusive"
  PROVE  \A m \in {prev[t], cur[t], older[t]}, n \in {prev[u], cur[u], older[u]} :
            m \in Node => m # n
  BY OwnPointers

\* What lock() in mode m finds.
LEMMA Locked ==
  ASSUME IInv, NEW n \in alive, NEW m, CanLock(n, m), NEW u \in Thread
  PROVE  /\ m = "exclusive" => n \notin {prev[u], cur[u], older[u]}
         /\ HeldMode(u) = "exclusive" => n \notin {prev[u], cur[u], older[u]}
  <1>1. n \in Node
    BY DEF IInv, TypeOK, HeapTypeOK
  <1>2. owner[n] = NoThread /\ (m = "exclusive" => shared[n] = {})
    BY DEF CanLock
  <1> QED
    BY <1>1, <1>2, OwnPointers, ThreadAssumption DEF Has

\* Who is exclusive: an insert from the level of its key on until it goes
\* down a tower, a remove always.
LEMMA Exclusive ==
  ASSUME NEW at \in [Node -> Level], NEW on, IInv, SInv(at, on), NEW t \in Thread
  PROVE  /\ older[t] # Null => mode[t] = "exclusive" /\ HeldMode(t) = "exclusive"
         /\ op[t].name = "remove" => mode[t] = "exclusive" /\ HeldMode(t) = "exclusive"
         /\ pc[t] \in Removing \cup Leaving => mode[t] = "exclusive" /\ HeldMode(t) = "exclusive"
         /\ op[t].name = "insert" /\ pc[t] \in {"top", "next", "down"} /\ op[t].level >= height[t]
               => mode[t] = "exclusive"
         /\ pc[t] # "tower" => HeldMode(t) = mode[t]
         /\ op[t].name \in {"get", "range"} => mode[t] = "shared" /\ HeldMode(t) = "shared"
  <1>1. ModeInv(t) /\ CallInv(t) /\ OlderInv(at, on, t)
    BY DEF IInv, Local, SInv, ThreadInv
  <1>2. height[t] \in Int /\ op[t].level \in Int
    BY DEF IInv, TypeOK, Level, OpType
  <1>3. pc[t] # "tower" => HeldMode(t) = mode[t]
    BY DEF HeldMode
  <1>4. older[t] # Null => /\ op[t].name = "insert" /\ pc[t] \in {"next", "down"}
                          /\ op[t].level >= height[t]
    <2> SUFFICES ASSUME older[t] # Null
                 PROVE  op[t].name = "insert" /\ pc[t] \in {"next", "down"} /\ op[t].level >= height[t]
      OBVIOUS
    <2>1. older[t] \in Node /\ at[older[t]] \in Int
      BY DEF IInv, TypeOK, Pointer, Level
    <2> QED
      BY <1>1, <1>2, <2>1 DEF OlderInv
  <1>5. older[t] # Null => mode[t] = "exclusive" /\ HeldMode(t) = "exclusive"
    BY <1>1, <1>3, <1>4 DEF ModeInv
  <1>6. op[t].name = "remove" => mode[t] = "exclusive" /\ HeldMode(t) = "exclusive"
    BY <1>1 DEF ModeInv, HeldMode
  <1>7. op[t].name \in {"get", "range"} => mode[t] = "shared" /\ HeldMode(t) = "shared"
    BY <1>1 DEF ModeInv, HeldMode
  <1> QED
    BY <1>1, <1>3, <1>5, <1>6, <1>7 DEF ModeInv, CallInv

\* The nodes a thread points to are different ones.
LEMMA Separate ==
  ASSUME NEW at \in [Node -> Level], NEW on \in SUBSET Node, IInv, SInv(at, on), NEW t \in Thread
  PROVE  /\ prev[t] \in Node => prev[t] # cur[t] /\ prev[t] # older[t]
         /\ cur[t] \in Node => cur[t] # older[t]
  <1>1. Shape(t) /\ ThreadInv(at, on, t) /\ ListInv(at, on)
    BY DEF IInv, Local, SInv
  <1>2. prev[t] \in Node => /\ pc[t] \in UsesPrev /\ prev[t] \in on
                            /\ at[prev[t]] = height[t] /\ Short(key, prev[t], op[t].key)
                            /\ op[t].key \in Key
    BY <1>1 DEF Shape, ThreadInv, PrevInv, CallInv, UsesPrev
  <1>3. KeysOf(key, alive) /\ on \subseteq alive
    BY <1>1 DEF ListInv
  <1>4. ASSUME prev[t] \in Node, cur[t] \in Node PROVE prev[t] # cur[t]
    <2>1. pc[t] \in {"unlink", "rmDown", "seek"}
      BY <1>1, <1>2, <1>4 DEF Shape, UsesPrev, UsesCur
    <2>2. pc[t] = "rmDown" => cur[t] \notin on
      BY <1>1 DEF ThreadInv, CurInv, Leaving
    <2>3. pc[t] # "rmDown" => cur[t] = next[prev[t]]
      BY <1>1, <2>1 DEF ThreadInv, CurInv
    <2>4. prev[t] \notin Tails
      BY <1>2, <1>4, SentinelSets DEF Short
    <2>5. ~Left(key, prev[t], prev[t])
      BY <1>2, <1>3, <1>4, Order
    <2> QED
      BY <1>1, <1>2, <1>4, <2>2, <2>3, <2>4, <2>5 DEF ListInv
  <1>5. ASSUME older[t] # Null PROVE prev[t] # older[t] /\ cur[t] \notin Node
    <2>1. key[older[t]] = op[t].key /\ older[t] \in on /\ pc[t] \in {"next", "down"}
      BY <1>1, <1>5 DEF ThreadInv, OlderInv
    <2> QED
      BY <1>1, <1>2, <1>3, <2>1, OrderOfKeys DEF Shape, UsesCur
  <1> QED
    BY <1>4, <1>5, HeapAssumption DEF IInv, TypeOK, Pointer

-----------------------------------------------------------------------------
(* Steps in general.                                                       *)

\* A step of t leaves the other threads where they are.
Others(t) == \A u \in Thread \ {t} :
               UNCHANGED <<pc[u], op[u], prev[u], cur[u], older[u], height[u], mode[u]>>

\* It changes only nodes it has exclusively, and goes on when it does.
Frame(t) ==
  \A n \in alive : \/ owner[n] = t /\ pc'[t] # pc[t]
                   \/ n \in alive' /\ UNCHANGED <<key[n], val[n], next[n], down[n]>>

\* A step that changes no node is left to show what it does to its own
\* thread and to the order of the threads.
LEMMA QuietStep ==
  ASSUME NEW at, NEW on, NEW t \in Thread, SInv(at, on),
         UNCHANGED <<key, next, down, alive>>, Others(t), older'[t] = older[t],
         pc[t] \in Leaving => pc'[t] \in Leaving /\ cur'[t] = cur[t],
         ThreadInv(at, on, t)',
         \A u \in Thread \ {t} : InFront(t, u)' /\ InFront(u, t)'
  PROVE  SInv(at, on)'
  <1>1. ListInv(at, on)'
    BY DEF SInv, ListInv
  <1>2. TowerInv(at, on)'
    BY DEF SInv, TowerInv, Others
  <1>3. ASSUME NEW u \in Thread \ {t} PROVE ThreadInv(at, on, u)'
    <2>1. ThreadInv(at, on, u)
      BY DEF SInv
    <2> QED
      BY <2>1 DEF Others, ThreadInv, CallInv, PrevInv, OlderInv, CurInv, FoundBelow, NothingBetween,
         TowersPassed
  <1>4. ASSUME NEW u \in Thread \ {t}, NEW v \in Thread \ {t}, u # v PROVE InFront(u, v)'
    BY <1>4 DEF SInv, Others, InFront
  <1> QED
    BY <1>1, <1>2, <1>3, <1>4 DEF SInv

\* A thread that is not on its way any more is neither in front nor behind.
LEMMA StopsSeeking ==
  ASSUME NEW t \in Thread, pc'[t] \notin Seeking
  PROVE  /\ \A u \in Thread \ {t} : InFront(t, u)' /\ InFront(u, t)'
         /\ \A at : TowersPassed(at, t)'
  BY DEF InFront, TowersPassed, Seeking, UsesPrev

\* A thread that stays where it is on its level keeps its place.
LEMMA StaysPut ==
  ASSUME NEW at, NEW on, NEW t \in Thread, SInv(at, on),
         UNCHANGED <<key, down, alive>>, Others(t),
         pc[t] \in Seeking, pc'[t] \in Removing => pc[t] \in Removing,
         prev'[t] = prev[t], height'[t] = height[t], older'[t] = older[t],
         op'[t].key = op[t].key
  PROVE  /\ \A u \in Thread \ {t} : InFront(t, u)' /\ InFront(u, t)'
         /\ TowersPassed(at, t)'
  <1>1. ASSUME NEW u \in Thread \ {t} PROVE InFront(t, u)' /\ InFront(u, t)'
    <2>1. InFront(t, u) /\ InFront(u, t)
      BY DEF SInv
    <2> QED
      BY <2>1 DEF Others, InFront, Seeking
  <1>2. TowersPassed(at, t)'
    BY DEF SInv, ThreadInv, TowersPassed
  <1> QED
    BY <1>1, <1>2

\* A thread that moves to the next node of its level keeps its place.
LEMMA StepsRight ==
  ASSUME NEW at \in [Node -> Level], NEW on \in SUBSET Node, NEW t \in Thread, IInv, SInv(at, on),
         UNCHANGED <<key, next, down, alive>>, Others(t),
         pc[t] \in Seeking, pc'[t] \in Removing => pc[t] \in Removing,
         prev'[t] = next[prev[t]], height'[t] = height[t], older'[t] = older[t],
         op'[t].key = op[t].key,
         CanLock(next[prev[t]], HeldMode(t)) \/ next[prev[t]] = cur[t]
  PROVE  /\ \A u \in Thread \ {t} : InFront(t, u)' /\ InFront(u, t)'
         /\ TowersPassed(at, t)'
         /\ next[prev[t]] \in on /\ at[next[prev[t]]] = height[t]
         /\ Left(key, prev[t], next[prev[t]])
  <1> USE Order DEF Seeking
  <1>0. KeysOf(key, alive) /\ on \subseteq alive
    BY DEF SInv, ListInv
  <1>1. /\ prev[t] \in on \ Tails /\ at[prev[t]] = height[t]
        /\ next[prev[t]] \in on /\ at[next[prev[t]]] = height[t]
        /\ Left(key, prev[t], next[prev[t]])
    <2>1. prev[t] \in on /\ at[prev[t]] = height[t] /\ prev[t] \notin Tails
      BY SentinelSets DEF SInv, ThreadInv, PrevInv, Short
    <2> QED
      BY <2>1 DEF SInv, ListInv
  <1>2. ASSUME NEW u \in Thread \ {t} PROVE InFront(t, u)' /\ InFront(u, t)'
    <2>1. InFront(t, u) /\ InFront(u, t)
      BY DEF SInv
    <2>2. ASSUME pc[u] \in Seeking, height[u] = height[t], Left(key, prev[t], prev[u]),
                 older[t] # Null \/ pc[u] \in Removing
          PROVE  Left(key, next[prev[t]], prev[u])
      <3>1. prev[u] \in on /\ at[prev[u]] = height[t]
        <4>1. PrevInv(at, on, u)
          BY DEF SInv, ThreadInv
        <4> QED
          BY <2>2, <4>1 DEF PrevInv
      <3>2. HeldMode(t) = "exclusive" \/ HeldMode(u) = "exclusive"
        BY <2>2, Exclusive
      <3>3. next[prev[t]] \in alive
        BY <1>0, <1>1
      <3>4. prev[u] # next[prev[t]]
        BY <1>1, <3>2, <3>3, Locked, Apart
      <3> QED
        BY <1>1, <2>2, <3>1, <3>4 DEF SInv, ListInv
    <2>3. ASSUME pc[u] \in Seeking, Left(key, prev[u], prev[t])
          PROVE  Left(key, prev[u], next[prev[t]])
      <3>1. prev[u] \in on
        BY <2>3 DEF SInv, ThreadInv, PrevInv
      <3> QED
        BY <1>0, <1>1, <2>3, <3>1
    <2> QED
      BY <2>1, <2>2, <2>3 DEF Others, InFront
  <1>3. TowersPassed(at, t)'
    BY <1>0, <1>1 DEF SInv, ThreadInv, TowersPassed
  <1> QED
    BY <1>1, <1>2, <1>3

-----------------------------------------------------------------------------
(* The steps that change no node.                                          *)

\* A locked node that leads nowhere down, other than an insert's own, is on
\* the bottom level.
LEMMA FootIsBottom ==
  ASSUME NEW at \in [Node -> Level], NEW on \in SUBSET Node, NEW t \in Thread,
         IInv, SInv(at, on), NEW n \in alive, Has(t, n) \/ CanLock(n, "shared"),
         n # older[t], down[n] = Null
  PROVE  at[n] = 0
  <1>1. ASSUME at[n] > 0 PROVE FALSE
    <2>1. PICK u \in Thread : older[u] = n
      BY <1>1 DEF SInv, TowerInv
    <2>2. u # t /\ n \in Node
      BY <2>1 DEF IInv, TypeOK, HeapTypeOK
    <2>3. HeldMode(u) = "exclusive"
      BY <2>1, <2>2, Exclusive, HeapAssumption
    <2> QED
      BY <2>1, <2>2, <2>3, OwnPointers, Locked
  <1>2. n \in Node
    BY DEF IInv, TypeOK, HeapTypeOK
  <1> QED
    BY <1>1, <1>2 DEF Level

\* A new call has no place in the list yet.
LEMMA CallKeeps ==
  ASSUME NEW at, NEW on, NEW t \in Thread, NEW o \in Ops(GenLevels), IInv, SInv(at, on), Call(t, o)
  PROVE  SInv(at, on)'
  <1>1. /\ pc[t] = "idle" /\ pc'[t] = "top" /\ op'[t] = o /\ height'[t] = MaxHeight - 1
        /\ prev'[t] = prev[t] /\ cur'[t] = cur[t] /\ older'[t] = older[t]
        /\ UNCHANGED <<key, next, down, alive>> /\ Others(t)
    BY DEF Call, Goto, heap, Others, IInv, TypeOK
  <1>2. o.key \in Key /\ o.name # "idle"
    BY DEF Ops
  <1>3. older[t] = Null
    BY <1>1 DEF SInv, ThreadInv, OlderInv
  <1>4. ThreadInv(at, on, t)'
    BY <1>1, <1>2, <1>3 DEF ThreadInv, CallInv, PrevInv, OlderInv, CurInv, FoundBelow, NothingBetween,
       TowersPassed, UsesPrev, Seeking, Removing, Leaving
  <1> QED
    BY <1>1, <1>4, QuietStep, StopsSeeking DEF Leaving, Seeking, UsesPrev

\* A call that is over has nothing in hand.
LEMMA EndsCall ==
  ASSUME NEW at, NEW on, NEW t \in Thread, SInv(at, on),
         UNCHANGED <<key, next, down, alive>>, Others(t), older'[t] = older[t],
         pc[t] \notin Leaving, older[t] = Null, pc'[t] \in {"idle", "ret"},
         pc'[t] = "ret" => op'[t] = op[t] /\ pc[t] # "idle"
  PROVE  SInv(at, on)'
  <1>1. ThreadInv(at, on, t)'
    BY DEF SInv, ThreadInv, CallInv, PrevInv, OlderInv, CurInv, FoundBelow, NothingBetween,
       TowersPassed, UsesPrev, Seeking, Removing, Leaving
  <1> QED
    BY <1>1, QuietStep, StopsSeeking DEF Leaving, Seeking, UsesPrev

\* A call that is over has no place in the list.
LEMMA ReturnKeeps ==
  ASSUME NEW at, NEW on, NEW t \in Thread, IInv, SInv(at, on), Return(t)
  PROVE  SInv(at, on)'
  <1>1. /\ pc[t] = "ret" /\ pc'[t] = "idle" /\ older'[t] = older[t]
        /\ UNCHANGED <<key, next, down, alive>> /\ Others(t)
    BY DEF Return, Goto, heap, Others, IInv, TypeOK
  <1>2. older[t] = Null
    BY <1>1 DEF SInv, ThreadInv, OlderInv
  <1> QED
    BY <1>1, <1>2, EndsCall DEF Leaving

\* Below the bottom level a search ends; nothing depends on its place.
LEMMA OffTheBottomKeeps ==
  ASSUME NEW at \in [Node -> Level], NEW on \in SUBSET Node, NEW t \in Thread, NEW r,
         IInv, SInv(at, on), OffTheBottom(t, r)
  PROVE  SInv(at, on)'
  <1>1. /\ pc[t] = "down" /\ pc'[t] = "ret" /\ older'[t] = older[t] /\ op'[t] = op[t]
        /\ down[prev[t]] = Null
        /\ UNCHANGED <<key, next, down, alive>> /\ Others(t)
    BY DEF OffTheBottom, Stand, Leave, Goto, heap, Others, IInv, TypeOK
  <1>2. prev[t] \in alive /\ at[prev[t]] = height[t] /\ prev[t] \in Node
    BY <1>1 DEF SInv, ListInv, ThreadInv, PrevInv, UsesPrev
  <1>3. height[t] = 0
    BY <1>1, <1>2, FootIsBottom, OwnPointers, Separate
  <1>4. older[t] = Null
    BY <1>1, <1>3 DEF SInv, ThreadInv, OlderInv
  <1> QED
    BY <1>1, <1>4, EndsCall DEF Leaving

\* At the foot of a tower a get and an insert end.
LEMMA ReadValueKeeps ==
  ASSUME NEW at, NEW on, NEW t \in Thread, IInv, SInv(at, on), ReadValue(t) \/ WriteValue(t)
  PROVE  SInv(at, on)'
  <1>1. /\ pc[t] = "tower" /\ pc'[t] = "ret" /\ older'[t] = older[t] /\ op'[t] = op[t]
        /\ UNCHANGED <<key, next, down, alive>> /\ Others(t)
    BY DEF ReadValue, WriteValue, AtTowerFoot, Stand, Leave, Goto, heap, Others, IInv, TypeOK
  <1>2. older[t] = Null
    BY <1>1 DEF SInv, ThreadInv, OlderInv
  <1> QED
    BY <1>1, <1>2, EndsCall DEF Leaving

\* A range that has enough values ends.
LEMMA RangeDoneKeeps ==
  ASSUME NEW at, NEW on, NEW t \in Thread, IInv, SInv(at, on), RangeDone(t)
  PROVE  SInv(at, on)'
  <1>1. /\ pc[t] = "emit" /\ pc'[t] = "ret" /\ older'[t] = older[t] /\ op'[t] = op[t]
        /\ UNCHANGED <<key, next, down, alive>> /\ Others(t)
    BY DEF RangeDone, Stand, Leave, Goto, heap, Others, IInv, TypeOK
  <1>2. older[t] = Null
    BY <1>1 DEF SInv, ThreadInv, OlderInv
  <1> QED
    BY <1>1, <1>2, EndsCall DEF Leaving

\* The node to the right of prev.
LEMMA NextOfPrev ==
  ASSUME NEW at \in [Node -> Level], NEW on \in SUBSET Node, NEW t \in Thread,
         SInv(at, on), pc[t] \in UsesPrev
  PROVE  /\ prev[t] \in on \ Tails /\ at[prev[t]] = height[t] /\ prev[t] \in alive
         /\ next[prev[t]] \in on \ Heads /\ at[next[prev[t]]] = height[t]
         /\ Left(key, prev[t], next[prev[t]])
         /\ \A n \in on : at[n] = height[t] /\ Left(key, prev[t], n)
                            => n = next[prev[t]] \/ Left(key, next[prev[t]], n)
         /\ KeysOf(key, alive) /\ on \subseteq alive /\ op[t].key \in Key
  <1>1. ListInv(at, on) /\ CallInv(t) /\ PrevInv(at, on, t)
    BY DEF SInv, ThreadInv
  <1>2. /\ prev[t] \in on \ Tails /\ at[prev[t]] = height[t]
        /\ op[t].key \in Key
    BY <1>1, SentinelSets DEF PrevInv, CallInv, Short, UsesPrev
  <1> QED
    BY <1>1, <1>2, SentinelSets DEF ListInv, Left

\* A call is about a key.
LEMMA KeyInKey ==
  ASSUME NEW at, NEW on, NEW t \in Thread, SInv(at, on), pc[t] # "idle"
  PROVE  op[t].key \in Key
  BY DEF SInv, ThreadInv, CallInv

\* A node to the right of prev that is past the key bounds what is past it.
LEMMA PastFromHere ==
  ASSUME NEW at \in [Node -> Level], NEW on \in SUBSET Node, NEW t \in Thread,
         SInv(at, on), pc[t] \in UsesPrev, op[t].key \in Key,
         key[next[prev[t]]] = op[t].key \/ Past(key, next[prev[t]], op[t].key)
  PROVE  \A n \in on : at[n] = height[t] /\ Left(key, prev[t], n) /\ n # next[prev[t]]
                         => Past(key, n, op[t].key)
  BY NextOfPrev, OrderOfKeys

\* One node to the right, still short of the key: what was passed stays
\* passed.
LEMMA MoveRightKeeps ==
  ASSUME NEW at \in [Node -> Level], NEW on \in SUBSET Node, NEW t \in Thread,
         IInv, SInv(at, on), MoveRight(t)
  PROVE  SInv(at, on)'
  <1>1. /\ pc[t] = "next" /\ pc'[t] = "next" /\ prev'[t] = next[prev[t]]
        /\ older'[t] = older[t] /\ op'[t] = op[t] /\ height'[t] = height[t]
        /\ UNCHANGED <<key, next, down, alive>> /\ Others(t)
        /\ Before(next[prev[t]], op[t].key)
    BY NextOfPrev DEF MoveRight, AtNext, Stand, Goto, heap, Others, IInv, TypeOK, UsesPrev
  <1>2. CanLock(next[prev[t]], HeldMode(t))
    BY <1>1, Exclusive DEF MoveRight, AtNext
  <1>3. next[prev[t]] \in on \ Heads /\ at[next[prev[t]]] = height[t] /\ op[t].key \in Key
    BY <1>1, NextOfPrev DEF UsesPrev
  <1>4. Short(key, next[prev[t]], op[t].key)
    BY <1>1, <1>3, Comparisons DEF SInv
  <1>5. TowersPassed(at, t)' /\ \A u \in Thread \ {t} : InFront(t, u)' /\ InFront(u, t)'
    BY <1>1, <1>2, StepsRight DEF Seeking, Removing, UsesPrev
  <1>6. ThreadInv(at, on, t)'
    BY <1>1, <1>3, <1>4, <1>5 DEF SInv, ThreadInv, CallInv, PrevInv, OlderInv, CurInv, FoundBelow,
       NothingBetween, Removing, Leaving, UsesPrev
  <1> QED
    BY <1>1, <1>5, <1>6, QuietStep DEF Leaving

\* The node to the right is past the key, so nothing is left between prev
\* and the place of the key (NothingBetween begins to hold).
LEMMA LeaveLevelKeeps ==
  ASSUME NEW at \in [Node -> Level], NEW on \in SUBSET Node, NEW t \in Thread,
         IInv, SInv(at, on), LeaveLevel(t),
         op[t].name = "insert" => op[t].level < height[t]
  PROVE  SInv(at, on)'
  <1>1. /\ pc[t] = "next" /\ pc'[t] = "down" /\ prev'[t] = prev[t]
        /\ cur'[t] = cur[t] /\ older'[t] = older[t] /\ op'[t] = op[t] /\ height'[t] = height[t]
        /\ UNCHANGED <<key, next, down, alive>> /\ Others(t)
        /\ Beyond(next[prev[t]], op[t].key)
    BY DEF LeaveLevel, AtNext, Goto, heap, locals, Others, IInv, TypeOK
  <1>2. /\ prev[t] \in on /\ at[prev[t]] = height[t] /\ next[prev[t]] \in on \ Heads
        /\ op[t].key \in Key
    BY <1>1, NextOfPrev DEF UsesPrev
  <1>3. Past(key, next[prev[t]], op[t].key)
    BY <1>1, <1>2, Comparisons DEF SInv
  <1>4. older[t] = Null
    <2>1. height[t] \in Int /\ op[t].level \in Int
      BY <1>2 DEF Level, IInv, TypeOK, OpType
    <2> QED
      BY <1>1, <2>1 DEF SInv, ThreadInv, OlderInv
  <1>5. NothingBetween(at, on, t)'
    BY <1>1, <1>2, <1>3, PastFromHere DEF NothingBetween, UsesPrev
  <1>6. ThreadInv(at, on, t)'
    BY <1>1, <1>4, <1>5, StopsSeeking DEF SInv, ThreadInv, CallInv, PrevInv, OlderInv, CurInv,
       FoundBelow, Removing, Leaving, UsesPrev, Seeking
  <1> QED
    BY <1>1, <1>6, QuietStep, StopsSeeking DEF Leaving, Seeking, UsesPrev

\* A get and a range that find the key leave the search for the tower.
LEMMA EnterTowerKeeps ==
  ASSUME NEW at \in [Node -> Level], NEW on \in SUBSET Node, NEW t \in Thread,
         IInv, SInv(at, on), EnterTower(t), op[t].name # "insert"
  PROVE  SInv(at, on)'
  <1>1. /\ pc[t] = "next" /\ pc'[t] = "tower" /\ cur'[t] = next[prev[t]]
        /\ older'[t] = older[t] /\ op'[t] = op[t] /\ height'[t] = height[t]
        /\ UNCHANGED <<key, next, down, alive>> /\ Others(t)
        /\ Equal(next[prev[t]], op[t].key)
    BY DEF EnterTower, AtNext, Stand, Goto, heap, Others, IInv, TypeOK
  <1>2. /\ next[prev[t]] \in on \ Heads /\ at[next[prev[t]]] = height[t]
        /\ op[t].key \in Key
    BY <1>1, NextOfPrev DEF UsesPrev
  <1>3. key[next[prev[t]]] = op[t].key
    BY <1>1, <1>2, Comparisons DEF SInv
  <1>4. ThreadInv(at, on, t)'
    BY <1>1, <1>2, <1>3, StopsSeeking DEF SInv, ThreadInv, CallInv, PrevInv, OlderInv, CurInv,
       FoundBelow, NothingBetween, Removing, Leaving, UsesPrev, Seeking
  <1> QED
    BY <1>1, <1>4, QuietStep, StopsSeeking DEF Leaving, Seeking, UsesPrev

\* Down a tower: the node below is linked and has the same key.
LEMMA DescendTowerKeeps ==
  ASSUME NEW at \in [Node -> Level], NEW on \in SUBSET Node, NEW t \in Thread,
         IInv, SInv(at, on), DescendTower(t)
  PROVE  SInv(at, on)'
  <1>1. /\ pc[t] = "tower" /\ pc'[t] = "tower" /\ cur'[t] = down[cur[t]] /\ cur'[t] # Null
        /\ older'[t] = older[t] /\ op'[t] = op[t] /\ height'[t] = height[t] - 1
        /\ UNCHANGED <<key, next, down, alive>> /\ Others(t)
    BY DEF DescendTower, Stand, Goto, heap, Others, IInv, TypeOK
  <1>2. /\ cur[t] \in on /\ on \subseteq alive /\ key[cur[t]] = op[t].key /\ at[cur[t]] = height[t]
    BY <1>1 DEF SInv, ListInv, ThreadInv, CurInv
  <1>3. /\ down[cur[t]] \in on /\ key[down[cur[t]]] = op[t].key
        /\ at[cur[t]] = at[down[cur[t]]] + 1
    BY <1>1, <1>2 DEF SInv, TowerInv
  <1>5. at[down[cur[t]]] = height[t] - 1
    BY <1>2, <1>3 DEF Level
  <1>4. ThreadInv(at, on, t)'
    BY <1>1, <1>3, <1>5, StopsSeeking DEF SInv, ThreadInv, CallInv, PrevInv, OlderInv, CurInv,
       FoundBelow, NothingBetween, Removing, Leaving, UsesPrev, Seeking
  <1> QED
    BY <1>1, <1>4, QuietStep, StopsSeeking DEF Leaving, Seeking, UsesPrev

\* A range that has a node in hand is on no way down.
LEMMA OnBottom ==
  ASSUME NEW at, NEW on, NEW t \in Thread, SInv(at, on),
         UNCHANGED <<key, next, down, alive>>, Others(t), older'[t] = older[t], older[t] = Null,
         pc[t] \notin Leaving, pc'[t] \in {"emit", "step"},
         pc[t] # "idle", op[t].name = "range", op'[t].name = "range", op'[t].key = op[t].key,
         cur'[t] \in on \ Heads, at[cur'[t]] = 0, pc'[t] = "emit" \/ cur'[t] \notin Tails
  PROVE  SInv(at, on)'
  <1>1. ThreadInv(at, on, t)'
    BY StopsSeeking DEF SInv, ThreadInv, CallInv, PrevInv, OlderInv, CurInv,
       FoundBelow, NothingBetween, Removing, Leaving, UsesPrev, Seeking
  <1> QED
    BY <1>1, QuietStep, StopsSeeking DEF Leaving, Seeking, UsesPrev

\* A range whose first key is missing begins at the node to the right.
LEMMA LandAfterKeeps ==
  ASSUME NEW at \in [Node -> Level], NEW on \in SUBSET Node, NEW t \in Thread,
         IInv, SInv(at, on), LandAfter(t), op[t].name = "range"
  PROVE  SInv(at, on)'
  <1>1. /\ pc[t] = "next" /\ pc'[t] = "emit" /\ cur'[t] = next[prev[t]]
        /\ older'[t] = older[t] /\ op'[t] = op[t]
        /\ UNCHANGED <<key, next, down, alive>> /\ Others(t)
        /\ down[next[prev[t]]] = Null
    BY DEF LandAfter, AtNext, Stand, Goto, heap, Others, IInv, TypeOK
  <1>2. next[prev[t]] \in on \ Heads
    BY <1>1, NextOfPrev DEF UsesPrev
  <1>5. older[t] = Null
    BY DEF SInv, ThreadInv, OlderInv
  <1>3. CanLock(next[prev[t]], "shared") /\ next[prev[t]] # older[t]
    BY <1>2, <1>5, Exclusive, HeapAssumption DEF LandAfter, AtNext
  <1>4. at[next[prev[t]]] = 0
    BY <1>1, <1>2, <1>3, FootIsBottom DEF SInv, ListInv
  <1> QED
    BY <1>1, <1>2, <1>4, <1>5, OnBottom DEF Leaving

\* A range that found its first key begins at the foot of the tower.
LEMMA LandOnKeeps ==
  ASSUME NEW at \in [Node -> Level], NEW on \in SUBSET Node, NEW t \in Thread,
         IInv, SInv(at, on), LandOn(t), op[t].name = "range"
  PROVE  SInv(at, on)'
  <1>1. /\ pc[t] = "tower" /\ pc'[t] = "emit" /\ cur'[t] = cur[t] /\ down[cur[t]] = Null
        /\ older'[t] = older[t] /\ op'[t] = op[t]
        /\ UNCHANGED <<key, next, down, alive>> /\ Others(t)
    BY DEF LandOn, AtTowerFoot, Goto, heap, locals, Others, IInv, TypeOK
  <1>2. cur[t] \in on /\ cur[t] \in alive /\ key[cur[t]] = op[t].key /\ op[t].key \in Key
    BY <1>1, KeyInKey DEF SInv, ListInv, ThreadInv, CurInv
  <1>3. cur[t] \notin Heads
    BY <1>2, OrderOfKeys, SentinelSets DEF SInv, ListInv
  <1>4. at[cur[t]] = 0
    BY <1>1, <1>2, FootIsBottom, OwnPointers, Separate
  <1>5. older[t] = Null
    BY DEF SInv, ThreadInv, OlderInv
  <1> QED
    BY <1>1, <1>2, <1>3, <1>4, <1>5, OnBottom DEF Leaving

\* A range takes a value and stays.
LEMMA EmitKeeps ==
  ASSUME NEW at \in [Node -> Level], NEW on \in SUBSET Node, NEW t \in Thread,
         IInv, SInv(at, on), Emit(t), op[t].name = "range"
  PROVE  SInv(at, on)'
  <1>1. /\ pc[t] = "emit" /\ pc'[t] = "step" /\ cur'[t] = cur[t] /\ key[cur[t]] # NoKey
        /\ older'[t] = older[t]
        /\ UNCHANGED <<key, next, down, alive>> /\ Others(t)
    BY DEF Emit, Goto, heap, locals, Others, IInv, TypeOK
  <1>2. op'[t].key = op[t].key /\ op'[t].name = op[t].name
    BY DEF Emit, IInv, TypeOK, OpType
  <1>3. cur[t] \in on \ Heads /\ at[cur[t]] = 0
    BY <1>1 DEF SInv, ThreadInv, CurInv
  <1>4. cur[t] \notin Tails
    BY <1>1, <1>3, SentinelSets DEF SInv, ListInv, KeysOf
  <1>5. older[t] = Null
    BY DEF SInv, ThreadInv, OlderInv
  <1> QED
    BY <1>1, <1>2, <1>3, <1>4, <1>5, OnBottom DEF Leaving

\* A range goes one node to the right on the bottom level.
LEMMA StepRightKeeps ==
  ASSUME NEW at \in [Node -> Level], NEW on \in SUBSET Node, NEW t \in Thread,
         IInv, SInv(at, on), StepRight(t), op[t].name = "range"
  PROVE  SInv(at, on)'
  <1>1. /\ pc[t] = "step" /\ pc'[t] = "emit" /\ cur'[t] = next[cur[t]]
        /\ older'[t] = older[t] /\ op'[t] = op[t]
        /\ UNCHANGED <<key, next, down, alive>> /\ Others(t)
    BY DEF StepRight, Stand, Goto, heap, Others, IInv, TypeOK
  <1>2. cur[t] \in on \ Tails /\ at[cur[t]] = 0
    BY <1>1 DEF SInv, ThreadInv, CurInv
  <1>3. next[cur[t]] \in on \ Heads /\ at[next[cur[t]]] = 0
    BY <1>2 DEF SInv, ListInv, Left
  <1>4. older[t] = Null
    BY DEF SInv, ThreadInv, OlderInv
  <1> QED
    BY <1>1, <1>3, <1>4, OnBottom DEF Leaving

\* A remove begins to delete: its key is to the right, on this level and on
\* every one below (FoundBelow), and it is in front of the others that look
\* for the key here (InFront).
LEMMA RemoveFoundKeeps ==
  ASSUME NEW at \in [Node -> Level], NEW on \in SUBSET Node, NEW t \in Thread,
         IInv, SInv(at, on), RemoveFound(t), op[t].name = "remove"
  PROVE  SInv(at, on)'
  <1>1. /\ pc[t] = "next" /\ pc'[t] = "unlink" /\ prev'[t] = prev[t]
        /\ cur'[t] = next[prev[t]] /\ older'[t] = older[t] /\ op'[t] = op[t]
        /\ height'[t] = height[t]
        /\ UNCHANGED <<key, next, down, alive>> /\ Others(t)
        /\ Equal(next[prev[t]], op[t].key)
    BY DEF RemoveFound, AtNext, Stand, Goto, heap, Others, IInv, TypeOK
  <1>2. /\ next[prev[t]] \in on \ Heads /\ op[t].key \in Key
        /\ prev[t] \in on /\ at[prev[t]] = height[t]
    BY <1>1, NextOfPrev DEF UsesPrev
  <1>3. key[next[prev[t]]] = op[t].key
    BY <1>1, <1>2, Comparisons DEF SInv
  <1>4. older[t] = Null
    BY DEF SInv, ThreadInv, OlderInv
  <1>5. ASSUME NEW u \in Thread \ {t}, pc[u] \in Seeking, height[u] = height[t],
               op[u].key = op[t].key
        PROVE  Left(key, prev[u], prev[t])
    <2>1. prev[u] \in on /\ at[prev[u]] = height[t] /\ prev[u] # prev[t]
      BY <1>1, <1>2, <1>5, Exclusive, Apart, NextOfPrev DEF Seeking
    <2>2. Short(key, prev[u], op[t].key)
      BY <1>5 DEF SInv, ThreadInv, PrevInv, Seeking
    <2>3. ASSUME Left(key, prev[t], prev[u]) PROVE FALSE
      <3>1. prev[u] # next[prev[t]] /\ ~Past(key, prev[u], op[t].key)
        BY <1>2, <1>3, <2>1, <2>2, OrderOfKeys DEF SInv, ListInv
      <3> QED
        BY <1>1, <1>2, <1>3, <2>1, <2>3, <3>1, PastFromHere DEF UsesPrev
    <2> QED
      BY <1>2, <2>1, <2>3 DEF SInv, ListInv
  <1>6. \A u \in Thread \ {t} : InFront(t, u)' /\ InFront(u, t)'
    <2> SUFFICES ASSUME NEW u \in Thread \ {t} PROVE InFront(t, u)' /\ InFront(u, t)'
      OBVIOUS
    <2>1. InFront(t, u) /\ InFront(u, t)
      BY DEF SInv
    <2> QED
      BY <1>1, <1>5, <2>1 DEF Others, InFront, Seeking, UsesPrev
  <1>7. TowersPassed(at, t)'
    BY <1>1 DEF SInv, ThreadInv, TowersPassed, Seeking, UsesPrev
  <1>8. ThreadInv(at, on, t)'
    BY <1>1, <1>2, <1>3, <1>4, <1>7 DEF SInv, ThreadInv, CallInv, PrevInv, OlderInv, CurInv,
       FoundBelow, NothingBetween, Removing, Leaving, UsesPrev
  <1> QED
    BY <1>1, <1>6, <1>8, QuietStep DEF Leaving

\* while(*cur->key < key): the node the remove goes for bounds the search.
LEMMA WhileFinds ==
  ASSUME NEW at \in [Node -> Level], NEW on \in SUBSET Node, NEW t \in Thread,
         SInv(at, on), FoundBelow(at, on, t), pc[t] \in Removing \ {"unlink"},
         NEW p \in on \ Tails, at[p] = height[t], Short(key, p, op[t].key), op[t].key \in Key
  PROVE  /\ AfterWhile(t, next[p]) = "seek" => Short(key, next[p], op[t].key)
         /\ AfterWhile(t, next[p]) = "unlink" => key[next[p]] = op[t].key
         /\ AfterWhile(t, next[p]) \in {"seek", "unlink"}
  <1>1. PICK c \in on : at[c] = height[t] /\ key[c] = op[t].key
    BY DEF FoundBelow
  <1>2. on \subseteq alive /\ KeysOf(key, alive)
    BY DEF SInv, ListInv
  <1>3. Left(key, p, c)
    BY <1>1, <1>2, OrderOfKeys
  <1>4. c = next[p] \/ Left(key, next[p], c)
    BY <1>1, <1>3 DEF SInv, ListInv
  <1>5. next[p] \in on \ Heads
    BY DEF SInv, ListInv, Left
  <1>6. key[next[p]] = op[t].key \/ Short(key, next[p], op[t].key)
    BY <1>1, <1>2, <1>4, <1>5, OrderOfKeys
  <1>7. key[next[p]] # NoKey
    BY <1>2, <1>5, <1>6, CallAssumption, SentinelSets DEF Short, KeysOf
  <1>8. CASE key[next[p]] = op[t].key
    <2>1. AfterWhile(t, next[p]) = "unlink"
      BY <1>7, <1>8, CallAssumption DEF AfterWhile
    <2> QED
      BY <1>8, <2>1
  <1>9. CASE Short(key, next[p], op[t].key)
    <2>1. next[p] \notin Heads /\ next[p] \notin Tails /\ key[next[p]] < op[t].key
      BY <1>5, <1>9 DEF Short
    <2>2. AfterWhile(t, next[p]) = "seek"
      BY <1>7, <2>1 DEF AfterWhile
    <2> QED
      BY <1>9, <2>2
  <1> QED
    BY <1>6, <1>8, <1>9

\* A remove has locked the node right of prev on the level below.
LEMMA ResumeBelowKeeps ==
  ASSUME NEW at \in [Node -> Level], NEW on \in SUBSET Node, NEW t \in Thread,
         IInv, SInv(at, on), ResumeBelow(t)
  PROVE  SInv(at, on)'
  <1>1. /\ pc[t] = "rmNext" /\ pc'[t] = AfterWhile(t, next[prev[t]]) /\ prev'[t] = prev[t]
        /\ cur'[t] = next[prev[t]] /\ older'[t] = older[t] /\ op'[t] = op[t]
        /\ height'[t] = height[t]
        /\ UNCHANGED <<key, next, down, alive>> /\ Others(t)
    BY DEF ResumeBelow, Stand, Goto, heap, Others, IInv, TypeOK
  <1>2. /\ prev[t] \in on \ Tails /\ at[prev[t]] = height[t] /\ op[t].key \in Key
        /\ Short(key, prev[t], op[t].key) /\ FoundBelow(at, on, t)
    BY <1>1, NextOfPrev DEF UsesPrev, SInv, ThreadInv, PrevInv
  <1>3. /\ pc'[t] = "seek" => Short(key, next[prev[t]], op[t].key)
        /\ pc'[t] = "unlink" => key[next[prev[t]]] = op[t].key
        /\ pc'[t] \in {"seek", "unlink"}
    BY <1>1, <1>2, WhileFinds DEF Removing
  <1>4. TowersPassed(at, t)' /\ \A u \in Thread \ {t} : InFront(t, u)' /\ InFront(u, t)'
    BY <1>1, <1>3, StaysPut DEF Seeking, Removing, UsesPrev
  <1>5. ThreadInv(at, on, t)'
    BY <1>1, <1>2, <1>3, <1>4 DEF SInv, ThreadInv, CallInv, PrevInv, OlderInv, CurInv,
       FoundBelow, NothingBetween, Removing, Leaving, UsesPrev
  <1> QED
    BY <1>1, <1>4, <1>5, QuietStep DEF Leaving

\* A remove goes right on a lower level, up to its key.
LEMMA SeekRightKeeps ==
  ASSUME NEW at \in [Node -> Level], NEW on \in SUBSET Node, NEW t \in Thread,
         IInv, SInv(at, on), SeekRight(t)
  PROVE  SInv(at, on)'
  <1>1. /\ pc[t] = "seek" /\ pc'[t] = AfterWhile(t, next[cur[t]]) /\ prev'[t] = cur[t]
        /\ cur'[t] = next[cur[t]] /\ older'[t] = older[t] /\ op'[t] = op[t]
        /\ height'[t] = height[t]
        /\ UNCHANGED <<key, next, down, alive>> /\ Others(t)
    BY DEF SeekRight, Stand, Goto, heap, Others, IInv, TypeOK
  <1>2. /\ cur[t] = next[prev[t]] /\ cur[t] \in on /\ at[cur[t]] = height[t] /\ op[t].key \in Key
        /\ Short(key, cur[t], op[t].key) /\ FoundBelow(at, on, t)
    BY <1>1, NextOfPrev DEF UsesPrev, SInv, ThreadInv, CurInv
  <1>3. cur[t] \notin Tails
    BY <1>2, SentinelSets DEF Short
  <1>4. /\ pc'[t] = "seek" => Short(key, next[cur[t]], op[t].key)
        /\ pc'[t] = "unlink" => key[next[cur[t]]] = op[t].key
        /\ pc'[t] \in {"seek", "unlink"}
    BY <1>1, <1>2, <1>3, WhileFinds DEF Removing
  <1>5. TowersPassed(at, t)' /\ \A u \in Thread \ {t} : InFront(t, u)' /\ InFront(u, t)'
    BY <1>1, <1>2, <1>3, <1>4, StepsRight DEF Seeking, Removing, UsesPrev
  <1>6. ThreadInv(at, on, t)'
    BY <1>1, <1>2, <1>4, <1>5 DEF SInv, ThreadInv, CallInv, PrevInv, OlderInv, CurInv,
       FoundBelow, NothingBetween, Removing, Leaving, UsesPrev
  <1> QED
    BY <1>1, <1>5, <1>6, QuietStep DEF Leaving

-----------------------------------------------------------------------------
(* Getting to a level.                                                     *)

\* The node below stands where the node above does.
LEMMA SamePlaceBelow ==
  ASSUME NEW at, NEW on, SInv(at, on), NEW n \in alive, down[n] # Null
  PROVE  /\ down[n] \in on /\ at[n] = at[down[n]] + 1
         /\ \A m : Left(key, m, down[n]) <=> Left(key, m, n)
         /\ \A m : Left(key, down[n], m) <=> Left(key, n, m)
         /\ \A k : Short(key, down[n], k) <=> Short(key, n, k)
  BY DEF SInv, TowerInv, Left, Short

\* A thread that is about to lock prev->down, the next level.
GoingDown(t) == pc[t] \in {"down", "rmDown"} /\ down[prev[t]] # Null

\* Where a thread on its way down will be.
LEMMA PlaceBelow ==
  ASSUME NEW at \in [Node -> Level], NEW on \in SUBSET Node, NEW t \in Thread,
         IInv, SInv(at, on), GoingDown(t)
  PROVE  /\ prev[t] \in on /\ at[prev[t]] = height[t] /\ down[prev[t]] # Null
         /\ down[prev[t]] \in on /\ at[down[prev[t]]] = height[t] - 1 /\ height[t] > 0
         /\ Short(key, prev[t], op[t].key)
         /\ Short(key, down[prev[t]], op[t].key)
  <1>1. prev[t] \in on /\ at[prev[t]] = height[t] /\ Short(key, prev[t], op[t].key)
    BY DEF GoingDown, SInv, ThreadInv, PrevInv, UsesPrev
  <1>2. down[prev[t]] # Null
    BY DEF GoingDown
  <1>3. /\ down[prev[t]] \in on /\ height[t] = at[down[prev[t]]] + 1
        /\ Short(key, down[prev[t]], op[t].key)
    BY <1>1, <1>2, SamePlaceBelow DEF SInv, ListInv
  <1> QED
    BY <1>1, <1>2, <1>3 DEF Level

\* A node another remove has unlinked and not yet deleted is past the key,
\* or its place has been passed.
LEMMA UnlinkedPassed ==
  ASSUME NEW at \in [Node -> Level], NEW on \in SUBSET Node,
         NEW t \in Thread, NEW u \in Thread \ {t},
         IInv, SInv(at, on), GoingDown(t), pc[u] \in Leaving,
         at[cur[u]] = height[t], Left(key, prev[t], cur[u])
  PROVE  Past(key, cur[u], op[t].key)
  <1> DEFINE n == cur[u]
             p == prev[u]
             q == next[p]
  <1>1. /\ prev[t] \in on /\ at[prev[t]] = height[t] /\ height[t] > 0 /\ op[t].key \in Key
    BY PlaceBelow, KeyInKey DEF GoingDown
  <1>2. /\ p \in on /\ at[p] = height[t] /\ q \in on /\ at[q] = height[t]
        /\ Left(key, p, q) /\ op[u].key \in Key
        /\ \A m \in on : at[m] = height[t] /\ Left(key, p, m) => m = q \/ Left(key, q, m)
        /\ Short(key, p, op[u].key) /\ height[u] = height[t]
    <2>1. at[n] = height[u]
      BY DEF SInv, ThreadInv, CurInv
    <2> QED
      BY <2>1, NextOfPrev, KeyInKey DEF UsesPrev, Leaving, SInv, ThreadInv, PrevInv
  <1>3. n \in alive /\ key[n] = op[u].key
    BY DEF SInv, ThreadInv, CurInv
  <1>4. on \subseteq alive /\ KeysOf(key, alive)
    BY DEF SInv, ListInv
  <1>5. Past(key, q, op[u].key)
    <2>1. older[u] = Null
      BY DEF SInv, ThreadInv, OlderInv, Leaving
    <2>2. q # Null
      BY <1>2, HeapAssumption
    <2> QED
      BY <1>1, <1>2, <2>1, <2>2 DEF SInv, ThreadInv, NothingBetween
  <1>6. Left(key, p, n) /\ Left(key, n, q)
    BY <1>2, <1>3, <1>4, <1>5, OrderOfKeys
  <1>7. p # prev[t] /\ p # older[t]
    BY <1>2, Exclusive, Apart
  <1>8. CASE Left(key, prev[t], p)
    <2>1. Past(key, p, op[t].key)
      BY <1>1, <1>2, <1>7, <1>8 DEF SInv, ThreadInv, NothingBetween, GoingDown, Leaving
    <2> QED
      BY <1>1, <1>2, <1>3, <1>4, <1>6, <2>1, OrderOfKeys
  <1>9. CASE Left(key, p, prev[t])
    <2>1. Left(key, n, prev[t])
      BY <1>1, <1>2, <1>3, <1>4, <1>6, <1>9, Order
    <2> QED
      BY <1>1, <1>3, <1>4, <2>1, Order
  <1> QED
    BY <1>1, <1>2, <1>7, <1>8, <1>9 DEF SInv, ListInv

\* Whoever goes down knows that it has passed every tower it had to.
LEMMA PassedBefore ==
  ASSUME NEW at \in [Node -> Level], NEW on \in SUBSET Node, NEW t \in Thread,
         IInv, SInv(at, on), GoingDown(t),
         NEW n \in alive, pc[t] \in Leaving => n # cur[t],
         at[n] = height[t], down[n] # Null, Left(key, down[prev[t]], n)
  PROVE  Past(key, n, op[t].key)
  <1>1. prev[t] \in on /\ prev[t] \in alive /\ down[prev[t]] # Null /\ height[t] > 0
    BY PlaceBelow DEF SInv, ListInv
  <1>2. Left(key, prev[t], n)
    BY <1>1, SamePlaceBelow
  <1>3. CASE n \in on
    <2>1. n # older[t]
      BY <1>3, HeapAssumption DEF SInv, ThreadInv, OlderInv
    <2> QED
      BY <1>1, <1>2, <1>3, <2>1 DEF SInv, ThreadInv, NothingBetween, GoingDown, Leaving
  <1>4. CASE n \notin on
    <2>1. PICK u \in Thread : pc[u] \in Leaving /\ cur[u] = n
      BY <1>4 DEF SInv, TowerInv
    <2>2. u # t
      BY <2>1
    <2> QED
      BY <1>2, <2>1, <2>2, UnlinkedPassed
  <1> QED
    BY <1>3, <1>4

\* Who was on the lower level before is in front.
LEMMA ArrivesBehind ==
  ASSUME NEW at \in [Node -> Level], NEW on \in SUBSET Node,
         NEW t \in Thread, NEW u \in Thread \ {t},
         IInv, SInv(at, on), GoingDown(t), pc[u] \in Seeking, height[u] = height[t] - 1,
         op[t].key <= op[u].key, prev[u] # down[prev[t]]
  PROVE  Left(key, down[prev[t]], prev[u])
  <1>1. /\ prev[t] \in on /\ at[prev[t]] = height[t] /\ down[prev[t]] # Null
        /\ down[prev[t]] \in on /\ at[down[prev[t]]] = height[t] - 1
        /\ Short(key, prev[t], op[t].key)
    BY PlaceBelow
  <1>2. /\ prev[u] \in on /\ at[prev[u]] = height[t] - 1 /\ op[u].key \in Key /\ op[t].key \in Key
    <2>1. pc[u] \in UsesPrev /\ pc[u] # "idle" /\ pc[t] # "idle"
      BY DEF Seeking, UsesPrev, GoingDown
    <2>2. op[u].key \in Key /\ op[t].key \in Key
      BY <2>1, KeyInKey
    <2>3. prev[u] \in on /\ at[prev[u]] = height[u]
      BY <2>1, NextOfPrev
    <2> QED
      BY <2>2, <2>3
  <1>3. on \subseteq alive /\ KeysOf(key, alive)
    BY DEF SInv, ListInv
  <1>4. ASSUME Left(key, prev[u], down[prev[t]]) PROVE FALSE
    <2>1. Left(key, prev[u], prev[t])
      BY <1>1, <1>3, <1>4, SamePlaceBelow
    <2>2. at[prev[t]] = height[u] + 1
      <3>1. height[t] \in Int /\ height[u] \in Int
        BY DEF IInv, TypeOK, Level
      <3> QED
        BY <1>1, <3>1
    <2>3. Past(key, prev[t], op[u].key)
      BY <1>1, <1>3, <2>1, <2>2 DEF SInv, ThreadInv, TowersPassed
    <2>4. Short(key, prev[t], op[u].key)
      BY <1>1, <1>2, <1>3, OrderOfTwoKeys
    <2> QED
      BY <1>1, <1>2, <1>3, <2>3, <2>4, OrderOfKeys
  <1> QED
    BY <1>1, <1>2, <1>4 DEF SInv, ListInv

\* An insert that has been overtaken on the level above stays behind.
LEMMA ArrivesInFront ==
  ASSUME NEW at \in [Node -> Level], NEW on \in SUBSET Node,
         NEW t \in Thread, NEW u \in Thread \ {t},
         IInv, SInv(at, on), GoingDown(t), pc[u] \in Seeking, height[u] = height[t] - 1,
         older[u] # Null, op[u].key <= op[t].key
  PROVE  Left(key, prev[u], down[prev[t]])
  <1> DEFINE o == older[u]
  <1>1. /\ prev[t] \in on /\ at[prev[t]] = height[t] /\ down[prev[t]] # Null /\ height[t] > 0
    BY PlaceBelow
  <1>2. /\ prev[u] \in on /\ op[u].key \in Key /\ op[t].key \in Key
        /\ Short(key, prev[u], op[u].key)
    BY NextOfPrev, KeyInKey DEF Seeking, UsesPrev, GoingDown, SInv, ThreadInv, PrevInv
  <1>3. on \subseteq alive /\ KeysOf(key, alive)
    BY DEF SInv, ListInv
  <1>4. o \in on /\ at[o] = height[t] /\ key[o] = op[u].key
    <2>1. height[t] \in Int /\ height[u] \in Int
      BY DEF IInv, TypeOK, Level
    <2> QED
      BY <2>1 DEF SInv, ThreadInv, OlderInv, Seeking
  <1>5. o # prev[t] /\ o # older[t]
    BY <1>4, HeapAssumption, Exclusive, Apart
  <1>6. Left(key, prev[u], o)
    BY <1>2, <1>3, <1>4, OrderOfKeys
  <1>7. ~Left(key, prev[t], o)
    <2> SUFFICES ASSUME Left(key, prev[t], o) PROVE FALSE
      OBVIOUS
    <2>1. Past(key, o, op[t].key)
      BY <1>1, <1>4, <1>5 DEF SInv, ThreadInv, NothingBetween, GoingDown, Leaving
    <2>2. Past(key, o, op[u].key)
      BY <1>2, <1>3, <1>4, <2>1, OrderOfTwoKeys
    <2> QED
      BY <1>2, <1>3, <1>4, <2>2, OrderOfKeys
  <1>8. Left(key, o, prev[t])
    BY <1>1, <1>4, <1>5, <1>7 DEF SInv, ListInv
  <1>9. Left(key, prev[u], prev[t])
    BY <1>1, <1>2, <1>3, <1>4, <1>6, <1>8, Order
  <1> QED
    BY <1>1, <1>3, <1>9, SamePlaceBelow

\* Where a remove arrives to delete the next node of its key, nobody is who
\* looks for that key.
LEMMA ArrivesAlone ==
  ASSUME NEW at \in [Node -> Level], NEW on \in SUBSET Node,
         NEW t \in Thread, NEW u \in Thread \ {t},
         IInv, SInv(at, on), pc[t] \in Leaving, pc[u] \in Seeking, height[u] = height[t] - 1
  PROVE  op[u].key # op[t].key
  <1> SUFFICES ASSUME op[u].key = op[t].key PROVE FALSE
    OBVIOUS
  <1>1. /\ cur[t] \in alive /\ key[cur[t]] = op[t].key /\ at[cur[t]] = height[t]
        /\ down[cur[t]] # Null
    BY DEF SInv, ThreadInv, CurInv
  <1>2. prev[u] \in alive /\ Short(key, prev[u], op[t].key) /\ op[t].key \in Key
    BY NextOfPrev, KeyInKey DEF Seeking, UsesPrev, Leaving, SInv, ThreadInv, PrevInv
  <1>3. KeysOf(key, alive)
    BY DEF SInv, ListInv
  <1>4. Left(key, prev[u], cur[t])
    BY <1>1, <1>2, <1>3, OrderOfKeys
  <1>5. at[cur[t]] = height[u] + 1
    <2>1. height[t] \in Int /\ height[u] \in Int
      BY DEF IInv, TypeOK, Level
    <2> QED
      BY <1>1, <2>1
  <1>6. Past(key, cur[t], op[t].key)
    BY <1>1, <1>4, <1>5 DEF SInv, ThreadInv, TowersPassed
  <1> QED
    BY <1>1, <1>2, <1>3, <1>6, OrderOfKeys

\* A search starts at the head of the top level, behind everyone.
LEMMA EnterKeeps ==
  ASSUME NEW at \in [Node -> Level], NEW on \in SUBSET Node, NEW t \in Thread,
         IInv, SInv(at, on), Enter(t)
  PROVE  SInv(at, on)'
  <1> DEFINE top == MaxHeight - 1
             h == Head[top]
  <1>1. /\ pc[t] = "top" /\ pc'[t] = "next" /\ prev'[t] = h
        /\ older'[t] = older[t] /\ op'[t] = op[t] /\ height'[t] = height[t]
        /\ UNCHANGED <<key, next, down, alive>> /\ Others(t)
    BY DEF Enter, Stand, Goto, heap, Others, IInv, TypeOK
  <1>2. /\ top \in Level /\ h \in Node /\ h \in Heads /\ h \notin Tails
        /\ h \in on /\ at[h] = top /\ height[t] = top
    BY <1>1, CallAssumption, HeapAssumption, SentinelSets
    DEF Level, Heads, SInv, ListInv, ThreadInv, CallInv
  <1>3. \A u \in Thread : pc[u] \in Removing => prev[u] # h
    <2>1. CanLock(h, mode[t]) /\ h \in alive
      BY <1>2 DEF Enter, SInv, ListInv
    <2> QED
      BY <2>1, Exclusive, Locked
  <1>4. older[t] = Null
    BY <1>1 DEF SInv, ThreadInv, OlderInv
  <1>5. \A n \in Node : at[n] # top + 1
    BY CallAssumption DEF Level
  <1>6. ASSUME NEW u \in Thread \ {t} PROVE InFront(t, u)' /\ InFront(u, t)'
    <2>1. ASSUME pc[u] \in Removing, height[u] = height[t] PROVE Left(key, h, prev[u])
      <3>1. prev[u] \in on /\ at[prev[u]] = top /\ prev[u] # h
        BY <1>2, <1>3, <2>1, NextOfPrev DEF Removing, UsesPrev
      <3>2. prev[u] \notin Heads
        BY <3>1 DEF Heads, SInv, ListInv
      <3> QED
        BY <1>2, <3>2 DEF Left
    <2>2. ASSUME pc[u] \in Seeking, height[u] = height[t] PROVE older[u] = Null
      BY <1>2, <1>5, <2>2, CallAssumption DEF SInv, ThreadInv, OlderInv, Seeking
    <2>3. pc'[t] \notin Removing
      BY <1>1 DEF Removing
    <2> QED
      BY <1>1, <1>4, <2>1, <2>2, <2>3 DEF Others, InFront
  <1>7. TowersPassed(at, t)'
    <2>1. alive \subseteq Node /\ height'[t] = top
      BY <1>1, <1>2 DEF IInv, TypeOK, HeapTypeOK
    <2> QED
      BY <1>1, <1>5, <2>1 DEF TowersPassed
  <1>8. Short(key, h, op[t].key)
    BY <1>2 DEF Short
  <1>9. ThreadInv(at, on, t)'
    BY <1>1, <1>2, <1>4, <1>7, <1>8 DEF SInv, ThreadInv, CallInv, PrevInv, OlderInv, CurInv,
       FoundBelow, NothingBetween, Removing, Leaving, UsesPrev
  <1> QED
    BY <1>1, <1>6, <1>9, QuietStep DEF Leaving

\* One level down: the place below prev is behind every node the search has
\* yet to reach, and behind whoever went down before.
LEMMA ArriveBelowKeeps ==
  ASSUME NEW at \in [Node -> Level], NEW on \in SUBSET Node, NEW t \in Thread,
         IInv, SInv(at, on), ArriveBelow(t)
  PROVE  SInv(at, on)'
  <1> DEFINE d == down[prev[t]]
  <1>1. /\ pc[t] = "down" /\ pc'[t] = "next" /\ prev'[t] = d
        /\ older'[t] = older[t] /\ op'[t] = op[t]
        /\ height'[t] = height[t] - 1 /\ height[t] \in Int
        /\ UNCHANGED <<key, next, down, alive>> /\ Others(t)
        /\ d # Null /\ CanLock(d, DownMode(t))
    BY DEF ArriveBelow, Stand, Goto, heap, Others, IInv, TypeOK, Level
  <1>2. /\ GoingDown(t) /\ pc[t] \notin Leaving
        /\ pc'[t] \in Seeking /\ pc'[t] \notin Removing
    BY <1>1 DEF GoingDown, Leaving, Seeking, Removing, UsesPrev
  <1>3. d \in on /\ at[d] = height[t] - 1 /\ Short(key, d, op[t].key)
    BY <1>2, PlaceBelow
  <1>4. op[t].key \in Int
    <2>1. op[t].key \in Key
      BY <1>1, KeyInKey
    <2> QED
      BY <2>1, CallAssumption
  <1>5. ASSUME NEW u \in Thread \ {t} PROVE InFront(t, u)' /\ InFront(u, t)'
    <2>1. ASSUME pc[u] \in Seeking, height[u] = height[t] - 1, op[t].key <= op[u].key,
                 older[t] # Null \/ pc[u] \in Removing
          PROVE  Left(key, d, prev[u])
      <3>1. older[t] # Null => DownMode(t) = "exclusive"
        BY Exclusive DEF DownMode
      <3>2. d \in alive
        BY <1>3 DEF SInv, ListInv
      <3>3. prev[u] # d
        BY <1>1, <2>1, <3>1, <3>2, Exclusive, Locked
      <3> QED
        BY <1>2, <2>1, <3>3, ArrivesBehind
    <2>2. ASSUME pc[u] \in Seeking, height[u] = height[t] - 1, older[u] # Null,
                 op[u].key <= op[t].key
          PROVE  Left(key, prev[u], d)
      BY <1>2, <2>2, ArrivesInFront
    <2>3. op[t].key = op[u].key => op[t].key <= op[u].key
      BY <1>4
    <2> QED
      BY <1>1, <1>2, <2>1, <2>2, <2>3 DEF Others, InFront
  <1>6. TowersPassed(at, t)'
    <2> SUFFICES ASSUME NEW n \in alive, at[n] = height[t] - 1 + 1, down[n] # Null, Left(key, d, n)
                 PROVE  Past(key, n, op[t].key)
      BY <1>1 DEF TowersPassed
    <2>1. at[n] = height[t]
      BY <1>1
    <2> QED
      BY <1>2, <2>1, PassedBefore
  <1>7. OlderInv(at, on, t)'
    BY <1>1 DEF SInv, ThreadInv, OlderInv
  <1>8. ThreadInv(at, on, t)'
    BY <1>1, <1>3, <1>6, <1>7 DEF SInv, ThreadInv, CallInv, PrevInv, CurInv,
       FoundBelow, NothingBetween, Removing, Leaving, UsesPrev
  <1> QED
    BY <1>1, <1>5, <1>8, QuietStep DEF Leaving

-----------------------------------------------------------------------------
(* The steps that change nodes.                                            *)

\* A step that changes nodes changes its own: what it has to show of the
\* other threads is what they know of nodes they have not locked.
LEMMA LoudStep ==
  ASSUME NEW at \in [Node -> Level], NEW on \in SUBSET Node,
         NEW at2 \in [Node -> Level], NEW on2 \in SUBSET Node, NEW t \in Thread,
         IInv, SInv(at, on), Frame(t), Others(t),
         \A n \in alive : owner[n] # t => (n \in on <=> n \in on2) /\ at2[n] = at[n],
         ListInv(at2, on2)', TowerInv(at2, on2)', ThreadInv(at2, on2, t)',
         \A u \in Thread \ {t} : /\ FoundBelow(at2, on2, u)' /\ NothingBetween(at2, on2, u)'
                                 /\ TowersPassed(at2, u)'
                                 /\ InFront(t, u)' /\ InFront(u, t)'
  PROVE  SInv(at2, on2)'
  <1>1. ASSUME NEW u \in Thread \ {t} PROVE ThreadInv(at2, on2, u)'
    <2>1. ThreadInv(at, on, u) /\ on \subseteq alive /\ Null \notin Node
      BY HeapAssumption DEF SInv, ListInv
    <2>2. UNCHANGED <<pc[u], op[u], prev[u], cur[u], older[u], height[u]>>
      BY DEF Others
    <2>3. ASSUME NEW n \in alive, n \in {prev[u], cur[u], older[u]}
          PROVE  /\ UNCHANGED <<key[n], next[n], down[n]>> /\ n \in alive'
                 /\ n \in on <=> n \in on2
                 /\ at2[n] = at[n]
      <3>1. owner[n] # t
        BY <2>3, OwnPointers DEF IInv, TypeOK, HeapTypeOK
      <3> QED
        BY <3>1 DEF Frame
    <2>4. CallInv(u)'
      BY <2>1, <2>2 DEF ThreadInv, CallInv
    <2>5. PrevInv(at2, on2, u)'
      <3> SUFFICES ASSUME pc[u] \in UsesPrev PROVE PrevInv(at2, on2, u)'
        BY <2>2 DEF PrevInv
      <3>1. prev[u] \in on /\ at[prev[u]] = height[u] /\ Short(key, prev[u], op[u].key)
        BY <2>1 DEF ThreadInv, PrevInv
      <3>2. prev[u] \in on2 /\ at2[prev[u]] = height[u] /\ key'[prev[u]] = key[prev[u]]
        BY <2>1, <2>3, <3>1
      <3> QED
        BY <2>2, <3>1, <3>2 DEF PrevInv, Short
    <2>6. OlderInv(at2, on2, u)'
      <3> SUFFICES ASSUME older[u] # Null PROVE OlderInv(at2, on2, u)'
        BY <2>2 DEF OlderInv
      <3>1. older[u] \in on
        BY <2>1 DEF ThreadInv, OlderInv
      <3> QED
        BY <2>1, <2>2, <2>3, <3>1 DEF ThreadInv, OlderInv
    <2>7. CurInv(at2, on2, u)'
      <3>1. /\ pc[u] \in {"seek", "unlink"} \cup Leaving => prev[u] \in alive
            /\ pc[u] \in {"seek", "unlink"} => cur[u] \in on
        <4>1. pc[u] \in UsesPrev => prev[u] \in alive /\ next[prev[u]] \in on
          BY NextOfPrev
        <4> QED
          BY <2>1, <4>1 DEF ThreadInv, CurInv, UsesPrev, Leaving
      <3>2. pc[u] = "tower" =>
              cur[u] \in on2 /\ key'[cur[u]] = op[u].key /\ at2[cur[u]] = height[u]
        BY <2>1, <2>3 DEF ThreadInv, CurInv
      <3>3. pc[u] \in {"emit", "step"} =>
              /\ cur[u] \in on2 \ Heads /\ at2[cur[u]] = 0
              /\ pc[u] # "emit" => cur[u] \notin Tails
        BY <2>1, <2>3 DEF ThreadInv, CurInv
      <3>4. /\ pc[u] = "seek" =>
                 cur[u] = next'[prev[u]] /\ Short(key', cur[u], op[u].key)
            /\ pc[u] = "unlink" => cur[u] = next'[prev[u]] /\ key'[cur[u]] = op[u].key
        BY <2>1, <2>3, <3>1 DEF ThreadInv, CurInv, Short
      <3>5. pc[u] \in Leaving =>
              /\ cur[u] \in alive' \ on2 /\ key'[cur[u]] = op[u].key /\ at2[cur[u]] = height[u]
              /\ next'[cur[u]] = next'[prev[u]] /\ down'[prev[u]] # Null /\ down'[cur[u]] # Null
        BY <2>1, <2>3, <3>1 DEF ThreadInv, CurInv
      <3> QED
        BY <2>2, <3>2, <3>3, <3>4, <3>5 DEF CurInv, Leaving
    <2> QED
      BY <2>4, <2>5, <2>6, <2>7 DEF ThreadInv
  <1>2. ASSUME NEW u \in Thread \ {t}, NEW v \in Thread \ {t}, u # v PROVE InFront(u, v)'
    <2>1. ASSUME NEW w \in {u, v}, pc[w] \in Seeking PROVE key'[prev[w]] = key[prev[w]]
      <3>1. prev[w] \in on /\ prev[w] \in alive /\ prev[w] \in Node
        BY <2>1 DEF SInv, ListInv, ThreadInv, PrevInv, Seeking
      <3>2. owner[prev[w]] # t
        BY <3>1, OwnPointers
      <3> QED
        BY <3>1, <3>2 DEF Frame
    <2>2. InFront(u, v)
      BY <1>2 DEF SInv
    <2> QED
      BY <2>1, <2>2 DEF Others, InFront, Left
  <1> QED
    BY <1>1, <1>2 DEF SInv

\* What an insert links below its node of the level above, nobody ahead of
\* it on this level needed to know of.
LEMMA TowerGrows ==
  ASSUME NEW at \in [Node -> Level], NEW on \in SUBSET Node,
         NEW t \in Thread, NEW u \in Thread \ {t},
         IInv, SInv(at, on), AtNext(t), older[t] # Null,
         Past(key, next[prev[t]], op[t].key) \/ key[next[prev[t]]] = op[t].key,
         pc[u] \in Seeking, at[older[t]] = height[u] + 1, Left(key, prev[u], older[t])
  PROVE  Past(key, older[t], op[u].key)
  <1> DEFINE c == next[prev[t]]
  <1> SUFFICES ASSUME ~Past(key, older[t], op[u].key) PROVE FALSE
    OBVIOUS
  <1>1. /\ prev[t] \in on /\ at[prev[t]] = height[t] /\ c \in on /\ at[c] = height[t]
        /\ \A n \in on : at[n] = height[t] /\ Left(key, prev[t], n) => n = c \/ Left(key, c, n)
        /\ op[t].key \in Key
    BY NextOfPrev DEF AtNext, UsesPrev
  <1>2. older[t] \in on /\ key[older[t]] = op[t].key /\ at[older[t]] = height[t] + 1
    BY DEF AtNext, SInv, ThreadInv, OlderInv
  <1>3. height[u] = height[t]
    BY <1>2 DEF IInv, TypeOK, Level
  <1>4. pc[u] \in UsesPrev /\ pc[u] # "idle"
    BY DEF Seeking, UsesPrev
  <1>5. prev[u] \in on /\ at[prev[u]] = height[t] /\ op[u].key \in Key
    BY <1>3, <1>4, NextOfPrev, KeyInKey
  <1>6. on \subseteq alive /\ KeysOf(key, alive)
    BY DEF SInv, ListInv
  <1>7. op[t].key <= op[u].key
    <2>1. older[t] \notin Heads /\ older[t] \notin Tails
      BY <1>1, <1>2, <1>6, OrderOfKeys, SentinelSets
    <2>2. op[t].key \in Int /\ op[u].key \in Int
      BY <1>1, <1>5, CallAssumption
    <2> QED
      BY <1>2, <2>1, <2>2 DEF Past
  <1>8. Left(key, prev[t], prev[u])
    BY <1>3, <1>7 DEF AtNext, SInv, InFront, Seeking, UsesPrev
  <1>9. c # prev[u]
    BY <1>1, <1>6, Exclusive, Locked DEF AtNext
  <1>10. Left(key, c, prev[u])
    BY <1>1, <1>5, <1>8, <1>9
  <1>11. Short(key, prev[u], op[t].key)
    BY <1>1, <1>2, <1>5, <1>6, OrderOfKeys
  <1>12. Short(key, c, op[t].key)
    BY <1>1, <1>5, <1>6, <1>10, <1>11, OrderOfKeys
  <1> QED
    BY <1>1, <1>6, <1>12, OrderOfKeys

\* An insert links its last new node to the tower that is already there.
LEMMA JoinTowerKeeps ==
  ASSUME NEW at \in [Node -> Level], NEW on \in SUBSET Node, NEW t \in Thread,
         IInv, SInv(at, on), JoinTower(t), Frame(t)
  PROVE  SInv(at, on)'
  <1> DEFINE c == next[prev[t]]
             o == older[t]
  <1>1. /\ pc[t] = "next" /\ pc'[t] = "tower" /\ cur'[t] = c /\ older'[t] = Null
        /\ op'[t] = op[t] /\ height'[t] = height[t] /\ AtNext(t)
        /\ UNCHANGED <<key, next, alive>> /\ Others(t)
        /\ Equal(c, op[t].key)
    BY DEF JoinTower, AtNext, Stand, Goto, Others, IInv, TypeOK
  <1>2. down' = [m \in Node |-> IF m = o THEN c ELSE down[m]]
    BY DEF JoinTower, Under
  <1>3. c \in on \ Heads /\ at[c] = height[t] /\ op[t].key \in Key
    BY <1>1, NextOfPrev DEF UsesPrev
  <1>4. key[c] = op[t].key
    BY <1>1, <1>3, Comparisons DEF SInv
  <1>5. on \subseteq alive /\ alive \subseteq Node /\ KeysOf(key, alive) /\ Null \notin Node
    BY HeapAssumption DEF SInv, ListInv, IInv, TypeOK, HeapTypeOK
  <1>6. o # Null => /\ o \in on /\ key[o] = op[t].key /\ down[o] = Null
                    /\ at[o] = height[t] + 1
    BY <1>1 DEF SInv, ThreadInv, OlderInv
  <1>7. \A n \in {c, o} : n # Null => n \notin Heads /\ n \notin Tails
    BY <1>3, <1>4, <1>5, <1>6, OrderOfKeys, SentinelSets
  <1>8. ListInv(at, on)'
    BY <1>1 DEF SInv, ListInv
  <1>9. TowerInv(at, on)'
    <2>1. ASSUME NEW n \in alive, down'[n] # Null
          PROVE  /\ down'[n] \in on /\ at[n] = at[down'[n]] + 1 /\ key[down'[n]] = key[n]
                 /\ n \in Heads <=> down'[n] \in Heads
                 /\ n \in Tails <=> down'[n] \in Tails
      <3>1. CASE n = o
        BY <1>2, <1>3, <1>4, <1>5, <1>6, <1>7, <3>1
      <3>2. CASE n # o
        BY <1>2, <1>5, <2>1, <3>2 DEF SInv, TowerInv
      <3> QED
        BY <3>1, <3>2
    <2>2. ASSUME NEW n \in alive, down'[n] = Null, at[n] > 0
          PROVE  \E u \in Thread : older'[u] = n
      <3>1. n # o /\ down[n] = Null
        BY <1>2, <1>3, <1>5, <2>2
      <3>2. PICK u \in Thread : older[u] = n
        BY <2>2, <3>1 DEF SInv, TowerInv
      <3> QED
        BY <1>1, <3>1, <3>2 DEF Others
    <2>3. \A n \in alive \ on : \E u \in Thread : pc'[u] \in Leaving /\ cur'[u] = n
      <3> SUFFICES ASSUME NEW n \in alive \ on
                   PROVE \E u \in Thread : pc'[u] \in Leaving /\ cur'[u] = n
        OBVIOUS
      <3>1. PICK u \in Thread : pc[u] \in Leaving /\ cur[u] = n
        BY DEF SInv, TowerInv
      <3>2. u # t
        BY <1>1, <3>1 DEF Leaving
      <3> QED
        BY <1>1, <3>1, <3>2 DEF Others
    <2>4. \A n \in Node \ alive : down'[n] = Null
      BY <1>2, <1>5, <1>6 DEF SInv, TowerInv
    <2> QED
      BY <1>1, <2>1, <2>2, <2>3, <2>4 DEF TowerInv
  <1>10. ASSUME NEW u \in Thread \ {t}
         PROVE  /\ FoundBelow(at, on, u)' /\ NothingBetween(at, on, u)' /\ TowersPassed(at, u)'
                /\ InFront(t, u)' /\ InFront(u, t)'
    <2>1. FoundBelow(at, on, u)' /\ NothingBetween(at, on, u)'
      BY <1>1 DEF SInv, ThreadInv, FoundBelow, NothingBetween, Others
    <2>2. TowersPassed(at, u)'
      <3> SUFFICES ASSUME pc[u] \in Seeking, NEW n \in alive, at[n] = height[u] + 1,
                          down'[n] # Null, Left(key, prev[u], n)
                   PROVE  Past(key, n, op[u].key)
        BY <1>1 DEF TowersPassed, Others
      <3>1. CASE n = o
        BY <1>1, <1>4, <1>5, <3>1, TowerGrows
      <3>2. CASE n # o
        BY <1>2, <1>5, <3>2 DEF SInv, ThreadInv, TowersPassed
      <3> QED
        BY <3>1, <3>2
    <2> QED
      BY <1>1, <2>1, <2>2, StopsSeeking DEF Seeking, UsesPrev
  <1>11. ThreadInv(at, on, t)'
    BY <1>1, <1>3, <1>4, StopsSeeking DEF SInv, ThreadInv, CallInv, PrevInv, OlderInv, CurInv,
       FoundBelow, NothingBetween, Removing, Leaving, UsesPrev, Seeking
  <1> QED
    BY <1>1, <1>8, <1>9, <1>10, <1>11, LoudStep

\* The node a remove is about to unlink, and its neighbours.
LEMMA UnlinkPlace ==
  ASSUME NEW at \in [Node -> Level], NEW on \in SUBSET Node, NEW t \in Thread,
         IInv, SInv(at, on), pc[t] = "unlink"
  PROVE  /\ prev[t] \in on \ Tails /\ at[prev[t]] = height[t]
         /\ cur[t] = next[prev[t]] /\ cur[t] \in on /\ at[cur[t]] = height[t]
         /\ cur[t] \notin Heads /\ cur[t] \notin Tails
         /\ key[cur[t]] = op[t].key /\ op[t].key \in Key
         /\ next[cur[t]] \in on /\ at[next[cur[t]]] = height[t]
         /\ Left(key, prev[t], cur[t]) /\ Left(key, cur[t], next[cur[t]])
         /\ prev[t] # cur[t] /\ next[cur[t]] # cur[t] /\ older[t] = Null
         /\ \A u \in Thread \ {t} : {prev[u], cur[u], older[u]} \cap {prev[t], cur[t]} = {}
         /\ \A n \in alive : down[n] # cur[t]
  <1>1. /\ prev[t] \in on \ Tails /\ at[prev[t]] = height[t]
        /\ next[prev[t]] \in on \ Heads /\ at[next[prev[t]]] = height[t]
        /\ Left(key, prev[t], next[prev[t]])
        /\ KeysOf(key, alive) /\ on \subseteq alive
    BY NextOfPrev DEF UsesPrev
  <1>2. op[t].key \in Key
    BY KeyInKey
  <1>3. cur[t] = next[prev[t]] /\ key[cur[t]] = op[t].key
    BY DEF SInv, ThreadInv, CurInv
  <1>4. cur[t] \notin Heads /\ cur[t] \notin Tails
    BY <1>1, <1>2, <1>3, OrderOfKeys, SentinelSets
  <1>5. /\ next[cur[t]] \in on /\ at[next[cur[t]]] = height[t]
        /\ Left(key, cur[t], next[cur[t]])
    BY <1>1, <1>3, <1>4 DEF SInv, ListInv
  <1>6. prev[t] # cur[t] /\ next[cur[t]] # cur[t]
    BY <1>1, <1>3, <1>5, Order
  <1>7. older[t] = Null
    BY DEF SInv, ThreadInv, OlderInv
  <1>8. \A u \in Thread \ {t} : {prev[u], cur[u], older[u]} \cap {prev[t], cur[t]} = {}
    BY <1>1, <1>3, HeapAssumption, Exclusive, Apart DEF Removing
  <1>9. ASSUME NEW n \in alive, down[n] = cur[t] PROVE FALSE
    <2>1. down[n] # Null
      BY <1>1, <1>3, <1>9, HeapAssumption
    <2>2. at[n] = height[t] + 1 /\ Left(key, prev[t], n) /\ key[n] = op[t].key
      BY <1>1, <1>3, <1>9, <2>1, SamePlaceBelow DEF SInv, TowerInv
    <2>3. Past(key, n, op[t].key)
      BY <2>1, <2>2 DEF SInv, ThreadInv, TowersPassed, Seeking, UsesPrev
    <2> QED
      BY <1>1, <1>2, <2>2, <2>3, OrderOfKeys
  <1> QED
    BY <1>1, <1>2, <1>3, <1>4, <1>5, <1>6, <1>7, <1>8, <1>9

\* What prev->next = cur->next does, and whether cur is deleted right away
\* or only later.
Unlinks(t) ==
  /\ pc[t] = "unlink" /\ Others(t) /\ older'[t] = older[t]
  /\ alive' \subseteq alive /\ alive \ {cur[t]} \subseteq alive'
  /\ \A n \in Node \ {cur[t]} :
       /\ UNCHANGED <<key[n], down[n]>>
       /\ next'[n] = IF n = prev[t] THEN next[cur[t]] ELSE next[n]
  /\ IF cur[t] \in alive'
     THEN UNCHANGED <<key[cur[t]], down[cur[t]], cur[t]>> /\ pc'[t] \in Leaving
     ELSE down'[cur[t]] = Null

\* The level closes over the node that is taken out.
LEMMA UnlinkList ==
  ASSUME NEW at \in [Node -> Level], NEW on \in SUBSET Node, NEW t \in Thread,
         IInv, SInv(at, on), Unlinks(t),
         NEW on2 \in SUBSET Node, on2 = on \ {cur[t]}
  PROVE  ListInv(at, on2)'
  <1>1. prev[t] \in on \ Tails /\ cur[t] = next[prev[t]] /\ cur[t] \notin Tails /\ ListInv(at, on)
    BY UnlinkPlace DEF Unlinks, SInv
  <1>2. Unlinked(prev[t], cur[t])
    BY DEF Unlinks, Unlinked, IInv, TypeOK, HeapTypeOK
  <1> QED
    BY <1>1, <1>2, ListShrinks

\* No tower stands on the node that is taken out, and only the thread that
\* takes it out may still have it.
LEMMA UnlinkTower ==
  ASSUME NEW at \in [Node -> Level], NEW on \in SUBSET Node, NEW t \in Thread,
         IInv, SInv(at, on), Unlinks(t),
         NEW on2 \in SUBSET Node, on2 = on \ {cur[t]}
  PROVE  TowerInv(at, on2)'
  <1> DEFINE c == cur[t]
  <1>1. /\ c \in on /\ older[t] = Null /\ \A n \in alive : down[n] # c
    BY UnlinkPlace DEF Unlinks
  <1>2. on \subseteq alive /\ alive \subseteq Node /\ Null \notin Node
    BY HeapAssumption DEF SInv, ListInv, IInv, TypeOK, HeapTypeOK
  <1>3. \A n \in alive' : n \in alive /\ UNCHANGED <<key[n], down[n]>>
    BY <1>2 DEF Unlinks
  <1>4. ASSUME NEW n \in alive', down'[n] # Null
        PROVE  /\ down'[n] \in on2 /\ at[n] = at[down'[n]] + 1 /\ key'[down'[n]] = key'[n]
               /\ n \in Heads <=> down'[n] \in Heads
               /\ n \in Tails <=> down'[n] \in Tails
    <2>1. /\ down[n] \in on /\ at[n] = at[down[n]] + 1 /\ key[down[n]] = key[n]
          /\ n \in Heads <=> down[n] \in Heads
          /\ n \in Tails <=> down[n] \in Tails
      BY <1>3, <1>4 DEF SInv, TowerInv
    <2>2. down[n] # c /\ key'[down[n]] = key[down[n]]
      BY <1>1, <1>3, <2>1 DEF Unlinks
    <2> QED
      BY <1>3, <2>1, <2>2
  <1>5. ASSUME NEW n \in alive', down'[n] = Null, at[n] > 0
        PROVE  \E u \in Thread : older'[u] = n
    BY <1>1, <1>2, <1>3, <1>5 DEF SInv, TowerInv, Unlinks, Others
  <1>6. ASSUME NEW n \in alive' \ on2
        PROVE  \E u \in Thread : pc'[u] \in Leaving /\ cur'[u] = n
    <2>1. CASE n = c
      BY <2>1 DEF Unlinks
    <2>2. CASE n # c
      <3>1. PICK u \in Thread : pc[u] \in Leaving /\ cur[u] = n
        BY <1>3, <2>2 DEF SInv, TowerInv
      <3> QED
        BY <2>2, <3>1 DEF Unlinks, Others
    <2> QED
      BY <2>1, <2>2
  <1>7. ASSUME NEW n \in Node \ alive' PROVE down'[n] = Null
    <2>1. CASE n = c
      BY <2>1 DEF Unlinks
    <2>2. CASE n # c
      BY <2>2 DEF Unlinks, SInv, TowerInv
    <2> QED
      BY <2>1, <2>2
  <1> QED
    BY <1>4, <1>5, <1>6, <1>7 DEF TowerInv

\* A remove that is still on its way finds its own node on the level: the
\* one that is taken out is of another key, for whoever takes it out would
\* be in front and already past it.
LEMMA UnlinkOthers ==
  ASSUME NEW at \in [Node -> Level], NEW on \in SUBSET Node, NEW t \in Thread,
         IInv, SInv(at, on), Unlinks(t), NEW u \in Thread \ {t},
         NEW on2 \in SUBSET Node, on2 = on \ {cur[t]}
  PROVE  /\ FoundBelow(at, on2, u)'
         /\ NothingBetween(at, on2, u)'
         /\ TowersPassed(at, u)'
  <1> DEFINE c == cur[t]
  <1>1. /\ prev[t] \in on /\ at[prev[t]] = height[t] /\ c \in on /\ at[c] = height[t]
        /\ key[c] = op[t].key /\ c = next[prev[t]]
        /\ {prev[u], cur[u], older[u]} \cap {prev[t], c} = {}
    BY UnlinkPlace DEF Unlinks
  <1>2. on \subseteq alive /\ alive \subseteq Node /\ KeysOf(key, alive) /\ Null \notin Node
    BY HeapAssumption DEF SInv, ListInv, IInv, TypeOK, HeapTypeOK
  <1>3. UNCHANGED <<pc[u], op[u], prev[u], cur[u], older[u], height[u]>>
    BY DEF Unlinks, Others
  <1>4. /\ \A n \in alive' : n \in alive /\ UNCHANGED <<key[n], down[n]>>
        /\ \A n \in on2 : n \in alive' /\ key'[n] = key[n]
    BY <1>2 DEF Unlinks
  <1>5. pc[u] \in UsesPrev =>
          /\ prev[u] \in on /\ prev[u] # c /\ at[prev[u]] = height[u] /\ key'[prev[u]] = key[prev[u]]
          /\ Short(key, prev[u], op[u].key)
    BY <1>1, <1>4 DEF SInv, ThreadInv, PrevInv
  <1>6. FoundBelow(at, on2, u)'
    <2> SUFFICES ASSUME pc[u] \in Removing \ {"unlink"}
                 PROVE  \E d \in on2 : at[d] = height[u] /\ key'[d] = op[u].key
      BY <1>3 DEF FoundBelow
    <2>1. PICK d \in on : at[d] = height[u] /\ key[d] = op[u].key
      BY DEF SInv, ThreadInv, FoundBelow
    <2>2. ASSUME d = c PROVE FALSE
      <3>1. pc[u] \in Seeking /\ pc[t] \in Seeking /\ pc[t] \in Removing
        BY DEF Removing, Seeking, UsesPrev, Unlinks
      <3>2. Left(key, prev[t], prev[u])
        BY <1>1, <2>1, <2>2, <3>1 DEF SInv, InFront
      <3>3. pc[u] \in UsesPrev /\ op[u].key \in Key
        BY <3>1, KeyInKey DEF Seeking, UsesPrev
      <3>4. Left(key, c, prev[u])
        BY <1>1, <1>5, <2>1, <2>2, <3>2, <3>3 DEF SInv, ListInv
      <3>5. Left(key, prev[u], c)
        BY <1>1, <1>2, <1>5, <2>1, <2>2, <3>3, OrderOfKeys
      <3> QED
        BY <1>1, <1>2, <1>5, <3>3, <3>4, <3>5, Order
    <2> QED
      BY <1>4, <2>1, <2>2
  <1>7. NothingBetween(at, on2, u)'
    <2> SUFFICES ASSUME pc[u] \in {"down"} \cup Leaving, height[u] > 0,
                        NEW n \in on2, at[n] = height[u], Left(key', prev[u], n)
                 PROVE  Past(key', n, op[u].key) \/ n = older[u]
      BY <1>3 DEF NothingBetween
    <2>1. Left(key, prev[u], n)
      BY <1>4, <1>5, SameOrder DEF UsesPrev, Leaving
    <2>2. Past(key, n, op[u].key) \/ n = older[u]
      BY <2>1 DEF SInv, ThreadInv, NothingBetween
    <2> QED
      BY <1>4, <2>2 DEF Past
  <1>8. TowersPassed(at, u)'
    <2> SUFFICES ASSUME pc[u] \in Seeking, NEW n \in alive', at[n] = height[u] + 1,
                        down'[n] # Null, Left(key', prev[u], n)
                 PROVE  Past(key', n, op[u].key)
      BY <1>3 DEF TowersPassed
    <2>1. Left(key, prev[u], n)
      BY <1>4, <1>5, SameOrder DEF Seeking
    <2>2. Past(key, n, op[u].key)
      BY <1>4, <2>1 DEF SInv, ThreadInv, TowersPassed
    <2> QED
      BY <1>4, <2>2 DEF Past
  <1> QED
    BY <1>6, <1>7, <1>8

\* A remove takes its node off an upper level and keeps it locked: the nodes
\* that stood on it are gone, as the remove would have met them on its way
\* down (TowersPassed).
LEMMA UnlinkUpperKeeps ==
  ASSUME NEW at \in [Node -> Level], NEW on \in SUBSET Node, NEW t \in Thread,
         IInv, SInv(at, on), UnlinkUpper(t), Frame(t),
         NEW on2 \in SUBSET Node, on2 = on \ {cur[t]}
  PROVE  SInv(at, on2)'
  <1> DEFINE p == prev[t]
             c == cur[t]
             q == next[c]
  <1>1. /\ pc[t] = "unlink" /\ pc'[t] = "rmDown" /\ prev'[t] = p /\ cur'[t] = c
        /\ older'[t] = older[t] /\ op'[t] = op[t] /\ height'[t] = height[t]
        /\ UNCHANGED <<key, down, alive>> /\ Others(t) /\ down[p] # Null
    BY DEF UnlinkUpper, Goto, locals, Others, IInv, TypeOK
  <1>2. next' = [next EXCEPT ![p] = q]
    BY DEF UnlinkUpper, Skip
  <1>3. /\ p \in on /\ at[p] = height[t] /\ c = next[p] /\ c \in on /\ at[c] = height[t]
        /\ key[c] = op[t].key /\ op[t].key \in Key /\ p # c /\ older[t] = Null
    BY <1>1, UnlinkPlace
  <1>4. on \subseteq alive /\ alive \subseteq Node /\ next \in [Node -> Pointer]
    BY DEF SInv, ListInv, IInv, TypeOK, HeapTypeOK
  <1>5. next'[p] = q /\ \A n \in Node : n # p => next'[n] = next[n]
    BY <1>2, <1>3, <1>4
  <1>6. Unlinks(t)
    BY <1>1, <1>3, <1>4, <1>5 DEF Unlinks, Leaving
  <1>7. down[c] # Null
    <2>1. c \in alive /\ c \in Node /\ c # older[t]
      BY <1>3, <1>4, HeapAssumption
    <2>2. Has(t, c)
      BY <2>1, OwnPointers
    <2>3. down[c] = Null => at[c] = 0
      BY <2>1, <2>2, FootIsBottom
    <2>4. down[p] \in on /\ at[p] = at[down[p]] + 1
      BY <1>1, <1>3, <1>4, SamePlaceBelow
    <2> QED
      BY <1>3, <2>3, <2>4 DEF Level
  <1>8. ASSUME NEW u \in Thread \ {t} PROVE InFront(t, u)' /\ InFront(u, t)'
    BY <1>1, StaysPut DEF Seeking, Removing, UsesPrev
  <1>9. NothingBetween(at, on2, t)'
    BY <1>1, <1>3, PastFromHere DEF NothingBetween, UsesPrev
  <1>10. TowersPassed(at, t)'
    BY <1>1, StaysPut DEF Seeking, Removing, UsesPrev
  <1>11. CurInv(at, on2, t)'
    BY <1>1, <1>3, <1>4, <1>5, <1>7 DEF CurInv, Leaving
  <1>12. ThreadInv(at, on2, t)'
    BY <1>1, <1>3, <1>9, <1>10, <1>11 DEF SInv, ThreadInv, CallInv, PrevInv, OlderInv,
       FoundBelow, Removing, Leaving, UsesPrev
  <1>13. \A n \in alive : owner[n] # t => (n \in on <=> n \in on2)
    BY <1>1, <1>3, <1>4, Exclusive, OwnPointers DEF Removing
  <1> QED
    BY <1>1, <1>6, <1>8, <1>12, <1>13, UnlinkList, UnlinkTower, UnlinkOthers, LoudStep

\* A remove unlinks and deletes the node of the bottom level in one step.
LEMMA DeleteBottomKeeps ==
  ASSUME NEW at \in [Node -> Level], NEW on \in SUBSET Node, NEW t \in Thread,
         IInv, SInv(at, on), DeleteBottom(t), Frame(t),
         NEW on2 \in SUBSET Node, on2 = on \ {cur[t]}
  PROVE  SInv(at, on2)'
  <1> DEFINE p == prev[t]
             c == cur[t]
  <1>1. /\ pc[t] = "unlink" /\ pc'[t] = "ret" /\ older'[t] = older[t] /\ op'[t] = op[t]
        /\ Others(t)
    BY DEF DeleteBottom, Stand, Leave, Goto, Answer, Others, IInv, TypeOK
  <1>2. /\ key' = [key EXCEPT ![c] = NoKey] /\ down' = [down EXCEPT ![c] = Null]
        /\ next' = [[next EXCEPT ![p] = next[c]] EXCEPT ![c] = Null] /\ alive' = alive \ {c}
    BY DEF DeleteBottom, Destroy, Skip
  <1>3. c \in on /\ p # c /\ older[t] = Null
    BY <1>1, UnlinkPlace
  <1>4. /\ on \subseteq alive /\ alive \subseteq Node /\ next \in [Node -> Pointer]
        /\ key \in [Node -> Key \cup {NoKey}] /\ down \in [Node -> Pointer]
    BY DEF SInv, ListInv, IInv, TypeOK, HeapTypeOK
  <1>5. Unlinks(t)
    BY <1>1, <1>2, <1>3, <1>4 DEF Unlinks
  <1>6. ThreadInv(at, on2, t)'
    BY <1>1, <1>3, StopsSeeking DEF SInv, ThreadInv, CallInv, PrevInv, OlderInv, CurInv,
       FoundBelow, NothingBetween, Removing, Leaving, UsesPrev, Seeking
  <1>7. \A n \in alive : owner[n] # t => (n \in on <=> n \in on2)
    BY <1>1, <1>3, <1>4, Exclusive, OwnPointers DEF Removing
  <1> QED
    BY <1>1, <1>5, <1>6, <1>7, StopsSeeking, UnlinkList, UnlinkTower, UnlinkOthers, LoudStep
    DEF Seeking, UsesPrev

\* A remove has locked the node below prev and deletes the one it unlinked:
\* whatever is off its level no pointer and no other thread leads to.
LEMMA DeleteUpperKeeps ==
  ASSUME NEW at \in [Node -> Level], NEW on \in SUBSET Node, NEW t \in Thread,
         IInv, SInv(at, on), DeleteUpper(t), Frame(t)
  PROVE  SInv(at, on)'
  <1> DEFINE p == prev[t]
             c == cur[t]
             d == down[p]
  <1>1. /\ pc[t] = "rmDown" /\ pc'[t] = "rmNext" /\ prev'[t] = d /\ cur'[t] = Null
        /\ older'[t] = older[t] /\ op'[t] = op[t]
        /\ height'[t] = height[t] - 1 /\ height[t] \in Int
        /\ Others(t) /\ CanLock(d, "exclusive")
    BY DEF DeleteUpper, Stand, Goto, Others, IInv, TypeOK, Level
  <1>2. /\ key' = [key EXCEPT ![c] = NoKey] /\ down' = [down EXCEPT ![c] = Null]
        /\ next' = [next EXCEPT ![c] = Null] /\ alive' = alive \ {c}
    BY DEF DeleteUpper, Destroy
  <1>3. /\ c \in alive \ on /\ key[c] = op[t].key /\ at[c] = height[t] /\ down[c] # Null
        /\ older[t] = Null /\ op[t].name = "remove"
    BY <1>1 DEF SInv, ThreadInv, CallInv, OlderInv, CurInv, Leaving
  <1>4. /\ on \subseteq alive /\ alive \subseteq Node /\ next \in [Node -> Pointer]
        /\ key \in [Node -> Key \cup {NoKey}] /\ down \in [Node -> Pointer]
    BY DEF SInv, ListInv, IInv, TypeOK, HeapTypeOK
  <1>5. \A n \in Node \ {c} : UNCHANGED <<key[n], next[n], down[n]>> /\ (n \in alive' <=> n \in alive)
    BY <1>2, <1>4
  <1>6. \A n \in on : n \in alive' /\ UNCHANGED <<key[n], next[n], down[n]>>
    BY <1>3, <1>4, <1>5
  <1>7. \A n \in alive' : n \in alive /\ n # c /\ UNCHANGED <<key[n], next[n], down[n]>>
    BY <1>2, <1>4, <1>5
  <1>8. ListInv(at, on)'
    <2>1. \A m, n \in on : Left(key', m, n) <=> Left(key, m, n)
      BY <1>6, SameOrder
    <2>2. KeysOf(key', alive')
      BY <1>7 DEF SInv, ListInv, KeysOf
    <2>3. ASSUME NEW n \in on \ Tails
          PROVE  next'[n] \in on /\ at[next'[n]] = at[n] /\ Left(key', n, next'[n])
      BY <1>6, <2>1 DEF SInv, ListInv
    <2>4. ASSUME NEW m \in on, NEW n \in on, at[m] = at[n], Left(key', m, n)
          PROVE  n = next'[m] \/ Left(key', next'[m], n)
      <3>1. m \notin Tails
        BY <2>4 DEF Left
      <3> QED
        BY <1>6, <2>1, <2>3, <2>4, <3>1 DEF SInv, ListInv
    <2>5. \A m, n \in on : at[m] = at[n] /\ m # n => Left(key', m, n) \/ Left(key', n, m)
      BY <2>1 DEF SInv, ListInv
    <2>6. /\ \A n \in on \cap Tails : next'[n] = Null
          /\ \A i \in Level : at[Head[i]] = i /\ at[Tail[i]] = i
          /\ Sentinel \subseteq on
      BY <1>6 DEF SInv, ListInv
    <2> QED
      BY <1>6, <2>2, <2>3, <2>4, <2>5, <2>6 DEF ListInv
  <1>9. TowerInv(at, on)'
    <2>1. ASSUME NEW n \in alive', down'[n] # Null
          PROVE  /\ down'[n] \in on /\ at[n] = at[down'[n]] + 1 /\ key'[down'[n]] = key'[n]
                 /\ n \in Heads <=> down'[n] \in Heads
                 /\ n \in Tails <=> down'[n] \in Tails
      BY <1>6, <1>7, <2>1 DEF SInv, TowerInv
    <2>2. \A n \in alive' : down'[n] = Null /\ at[n] > 0 => \E u \in Thread : older'[u] = n
      BY <1>1, <1>7 DEF SInv, TowerInv, Others
    <2>3. ASSUME NEW n \in alive' \ on
          PROVE  \E u \in Thread : pc'[u] \in Leaving /\ cur'[u] = n
      <3>1. n \in alive \ on /\ n # c
        BY <1>7
      <3>2. PICK u \in Thread : pc[u] \in Leaving /\ cur[u] = n
        BY <3>1 DEF SInv, TowerInv
      <3> QED
        BY <1>1, <3>1, <3>2 DEF Others
    <2>4. \A n \in Node \ alive' : down'[n] = Null
      BY <1>2, <1>4, <1>5 DEF SInv, TowerInv
    <2> QED
      BY <2>1, <2>2, <2>3, <2>4 DEF TowerInv
  <1>10. GoingDown(t) /\ pc[t] \in Leaving /\ pc'[t] \in Seeking
    BY <1>1 DEF SInv, ThreadInv, CurInv, GoingDown, Leaving, Seeking, UsesPrev
  <1>11. d \in on /\ at[d] = height[t] - 1 /\ Short(key, d, op[t].key)
    BY <1>10, PlaceBelow
  <1>12. ASSUME NEW u \in Thread \ {t} PROVE InFront(t, u)' /\ InFront(u, t)'
    <2>1. ASSUME pc[u] \in Seeking
          PROVE  Left(key', d, prev[u]) <=> Left(key, d, prev[u])
      <3>1. prev[u] \in on
        BY <2>1, NextOfPrev DEF Seeking
      <3> QED
        BY <1>6, <1>11, <3>1, SameOrder
    <2>2. ASSUME pc[u] \in Seeking
          PROVE  Left(key', prev[u], d) <=> Left(key, prev[u], d)
      <3>1. prev[u] \in on
        BY <2>2, NextOfPrev DEF Seeking
      <3> QED
        BY <1>6, <1>11, <3>1, SameOrder
    <2>3. ASSUME pc[u] \in Seeking, height[u] = height[t] - 1, op[t].key = op[u].key
          PROVE  Left(key, d, prev[u])
      <3>1. op[t].key \in Key
        BY <1>1, KeyInKey
      <3>2. op[t].key \in Int
        BY <3>1, CallAssumption
      <3>3. op[t].key <= op[u].key
        BY <2>3, <3>2
      <3>4. prev[u] # d
        BY <1>1, <1>4, <1>11, Locked
      <3> QED
        BY <1>10, <2>3, <3>3, <3>4, ArrivesBehind
    <2>4. ASSUME pc[u] \in Seeking, height[u] = height[t] - 1, older[u] # Null,
                 op[u].key <= op[t].key
          PROVE  Left(key, prev[u], d)
      BY <1>10, <2>4, ArrivesInFront
    <2>5. ASSUME pc[u] \in Seeking, height[u] = height[t] - 1 PROVE op[u].key # op[t].key
      BY <1>10, <2>5, ArrivesAlone
    <2>6. InFront(t, u)'
      BY <1>1, <1>3, <2>1, <2>3 DEF Others, InFront
    <2>7. InFront(u, t)'
      BY <1>1, <1>3, <2>2, <2>4, <2>5 DEF Others, InFront
    <2> QED
      BY <2>6, <2>7
  <1>13. TowersPassed(at, t)'
    <2> SUFFICES ASSUME NEW n \in alive', at[n] = height[t] - 1 + 1, down'[n] # Null,
                        Left(key', d, n)
                 PROVE  Past(key', n, op[t].key)
      BY <1>1 DEF TowersPassed
    <2>1. at[n] = height[t] /\ n \in alive /\ n # c /\ down[n] # Null
      BY <1>1, <1>7
    <2>2. Left(key, d, n)
      BY <1>6, <1>7, <1>11, SameOrder
    <2>3. Past(key, n, op[t].key)
      BY <1>10, <2>1, <2>2, PassedBefore
    <2> QED
      BY <1>7, <2>3 DEF Past
  <1>14. FoundBelow(at, on, t)'
    <2>1. down[c] \in on /\ at[c] = at[down[c]] + 1 /\ key[down[c]] = op[t].key
      BY <1>3 DEF SInv, TowerInv
    <2>2. at[down[c]] = height[t] - 1 /\ key'[down[c]] = op[t].key
      BY <1>3, <1>6, <2>1 DEF Level
    <2> QED
      BY <1>1, <2>1, <2>2 DEF FoundBelow
  <1>15. PrevInv(at, on, t)'
    BY <1>1, <1>6, <1>11 DEF PrevInv, Short
  <1>16. ThreadInv(at, on, t)'
    BY <1>1, <1>3, <1>13, <1>14, <1>15 DEF SInv, ThreadInv, CallInv, OlderInv, CurInv,
       NothingBetween, Removing, Leaving
  <1>17. ASSUME NEW u \in Thread \ {t}
         PROVE  /\ FoundBelow(at, on, u)' /\ NothingBetween(at, on, u)' /\ TowersPassed(at, u)'
    <2>1. UNCHANGED <<pc[u], op[u], prev[u], cur[u], older[u], height[u]>> /\ ThreadInv(at, on, u)
      BY <1>1 DEF Others, SInv
    <2>2. pc[u] \in UsesPrev => prev[u] \in on
      BY <2>1 DEF ThreadInv, PrevInv
    <2>3. FoundBelow(at, on, u)'
      BY <1>6, <2>1 DEF ThreadInv, FoundBelow
    <2>4. NothingBetween(at, on, u)'
      <3> SUFFICES ASSUME pc[u] \in {"down"} \cup Leaving, height[u] > 0,
                          NEW n \in on, at[n] = height[u], Left(key', prev[u], n)
                   PROVE  Past(key', n, op[u].key) \/ n = older[u]
        BY <2>1 DEF NothingBetween
      <3>1. Left(key, prev[u], n)
        BY <1>6, <2>2, SameOrder DEF UsesPrev, Leaving
      <3>2. Past(key, n, op[u].key) \/ n = older[u]
        BY <2>1, <3>1 DEF ThreadInv, NothingBetween
      <3> QED
        BY <1>6, <3>2 DEF Past
    <2>5. TowersPassed(at, u)'
      <3> SUFFICES ASSUME pc[u] \in Seeking, NEW n \in alive', at[n] = height[u] + 1,
                          down'[n] # Null, Left(key', prev[u], n)
                   PROVE  Past(key', n, op[u].key)
        BY <2>1 DEF TowersPassed
      <3>1. Left(key, prev[u], n)
        BY <1>6, <1>7, <2>2, SameOrder DEF Seeking
      <3>2. Past(key, n, op[u].key)
        BY <1>7, <2>1, <3>1 DEF ThreadInv, TowersPassed
      <3> QED
        BY <1>7, <3>2 DEF Past
    <2> QED
      BY <2>3, <2>4, <2>5
  <1> QED
    BY <1>1, <1>8, <1>9, <1>12, <1>16, <1>17, LoudStep

\* What linking a new node n does, on all levels alike.
Links(t, n) ==
  /\ AtNext(t) /\ op[t].name = "insert" /\ op[t].level >= height[t] /\ Others(t)
  /\ Beyond(next[prev[t]], op[t].key)
  /\ Linked(prev[t], n, op[t].key)
  /\ down' = [m \in Node |-> IF m = older[t] THEN n ELSE down[m]]
  /\ older'[t] = IF height[t] = 0 THEN Null ELSE n

\* The levels with the new node in place.
Grows(at, on, at2, on2, t, n) == Grown(at, on, at2, on2, height[t], n)

\* The new node stands right behind prev.
LEMMA LinkPlace ==
  ASSUME NEW at \in [Node -> Level], NEW on \in SUBSET Node, NEW t \in Thread,
         IInv, SInv(at, on), NEW n \in Node, Links(t, n)
  PROVE  /\ prev[t] \in on \ Tails /\ at[prev[t]] = height[t]
         /\ next[prev[t]] \in on /\ at[next[prev[t]]] = height[t]
         /\ Left(key, prev[t], next[prev[t]])
         /\ op[t].key \in Key /\ Past(key, next[prev[t]], op[t].key)
         /\ Short(key, prev[t], op[t].key)
         /\ on \subseteq alive /\ alive \subseteq Node /\ n \notin Heads /\ n \notin Tails
         /\ KeysOf(key', alive') /\ KeysOf(key, alive)
         /\ \A l, m \in alive : Left(key', l, m) <=> Left(key, l, m)
         /\ \A m \in on : at[m] = height[t] =>
              /\ Left(key', m, n) <=> (m = prev[t] \/ Left(key, m, prev[t]))
              /\ Left(key', n, m) <=> Left(key, prev[t], m)
  <1> DEFINE p == prev[t]
             c == next[p]
             k == op[t].key
  <1>1. /\ p \in on \ Tails /\ at[p] = height[t]
        /\ c \in on \ Heads /\ at[c] = height[t]
        /\ Left(key, p, c)
        /\ KeysOf(key, alive) /\ on \subseteq alive
    BY NextOfPrev DEF AtNext, UsesPrev, Links
  <1>2. k \in Key
    BY KeyInKey DEF AtNext, Links
  <1>3. Past(key, c, k)
    BY <1>1, <1>2, Comparisons DEF Links, SInv
  <1>4. Short(key, p, k)
    BY DEF SInv, ThreadInv, PrevInv, AtNext, Links, UsesPrev
  <1>5. alive \subseteq Node /\ ListInv(at, on) /\ Linked(p, n, k)
    BY DEF SInv, IInv, TypeOK, HeapTypeOK, Links
  <1>6. /\ n \notin Heads /\ n \notin Tails /\ KeysOf(key', alive')
        /\ \A l, m \in alive : Left(key', l, m) <=> Left(key, l, m)
        /\ \A m \in on : at[m] = at[p] =>
              /\ Left(key', m, n) <=> (m = p \/ Left(key, m, p))
              /\ Left(key', n, m) <=> Left(key, p, m)
    BY <1>1, <1>2, <1>3, <1>4, <1>5, LinkedPlace
  <1> QED
    BY <1>1, <1>2, <1>3, <1>4, <1>5, <1>6

\* A new node goes between prev and the node to its right.
LEMMA LinkList ==
  ASSUME NEW at \in [Node -> Level], NEW on \in SUBSET Node, NEW t \in Thread,
         IInv, SInv(at, on), NEW n \in Node, Links(t, n),
         NEW at2 \in [Node -> Level], NEW on2 \in SUBSET Node, Grows(at, on, at2, on2, t, n)
  PROVE  ListInv(at2, on2)'
  <1> DEFINE p == prev[t]
             k == op[t].key
  <1>1. /\ p \in on \ Tails /\ at[p] = height[t] /\ k \in Key /\ alive \subseteq Node
        /\ Short(key, p, k) /\ Past(key, next[p], k)
    BY LinkPlace
  <1>2. ListInv(at, on) /\ Linked(p, n, k) /\ Grown(at, on, at2, on2, at[p], n)
    BY <1>1 DEF SInv, Links, Grows
  <1> HIDE DEF p, k
  <1> QED
    BY <1>1, <1>2, ListGrows

\* The new node is below the one made before, and has none below it yet.
LEMMA LinkTower ==
  ASSUME NEW at \in [Node -> Level], NEW on \in SUBSET Node, NEW t \in Thread,
         IInv, SInv(at, on), NEW n \in Node, Links(t, n),
         NEW at2 \in [Node -> Level], NEW on2 \in SUBSET Node, Grows(at, on, at2, on2, t, n)
  PROVE  TowerInv(at2, on2)'
  <1> DEFINE o == older[t]
             h == height[t]
  <1>0. /\ at[prev[t]] = h /\ prev[t] \in on /\ op[t].key \in Key
        /\ on \subseteq alive /\ alive \subseteq Node /\ n \notin Heads /\ n \notin Tails
        /\ KeysOf(key, alive)
    BY LinkPlace
  <1>1. /\ at[prev[t]] = h /\ prev[t] \in on /\ op[t].key \in Key
        /\ on \subseteq alive /\ alive \subseteq Node /\ n \notin Heads /\ n \notin Tails
        /\ KeysOf(key, alive) /\ Null \notin Node
    BY <1>0, HeapAssumption
  <1>2. o # Null => o \in on /\ key[o] = op[t].key /\ down[o] = Null /\ at[o] = h + 1
    BY DEF SInv, ThreadInv, OlderInv, AtNext, Links
  <1>3. o # Null => o \notin Heads /\ o \notin Tails
    BY <1>1, <1>2, OrderOfKeys, SentinelSets
  <1>4. /\ n \notin alive /\ at2[n] = h /\ key'[n] = op[t].key /\ alive' = alive \cup {n}
        /\ \A m \in alive : at2[m] = at[m] /\ key'[m] = key[m]
        /\ \A m \in Node : down'[m] = IF m = o THEN n ELSE down[m]
        /\ on2 = on \cup {n}
    BY <1>1 DEF Links, Linked, Grows, Grown
  <1>5. down'[n] = Null
    BY <1>1, <1>2, <1>4 DEF SInv, TowerInv
  <1>6. ASSUME NEW m \in alive', down'[m] # Null
        PROVE  /\ down'[m] \in on2 /\ at2[m] = at2[down'[m]] + 1 /\ key'[down'[m]] = key'[m]
               /\ m \in Heads <=> down'[m] \in Heads
               /\ m \in Tails <=> down'[m] \in Tails
    <2>1. CASE m = o
      BY <1>1, <1>2, <1>3, <1>4, <2>1
    <2>2. CASE m # o
      <3>1. m \in alive /\ down'[m] = down[m]
        BY <1>1, <1>4, <1>5, <1>6, <2>2
      <3>2. /\ down[m] \in on /\ at[m] = at[down[m]] + 1 /\ key[down[m]] = key[m]
            /\ m \in Heads <=> down[m] \in Heads
            /\ m \in Tails <=> down[m] \in Tails
        BY <1>6, <3>1 DEF SInv, TowerInv
      <3> QED
        BY <1>1, <1>4, <3>1, <3>2
    <2> QED
      BY <2>1, <2>2
  <1>7. ASSUME NEW m \in alive', down'[m] = Null, at2[m] > 0
        PROVE  \E u \in Thread : older'[u] = m
    <2>1. CASE m = n
      BY <1>1, <1>4, <1>7, <2>1 DEF Links
    <2>2. CASE m # n
      <3>1. m \in alive /\ m # o /\ down[m] = Null /\ at[m] > 0
        BY <1>1, <1>4, <1>7, <2>2
      <3>2. PICK u \in Thread : older[u] = m
        BY <3>1 DEF SInv, TowerInv
      <3> QED
        BY <3>1, <3>2 DEF Links, Others
    <2> QED
      BY <2>1, <2>2
  <1>8. ASSUME NEW m \in alive' \ on2
        PROVE  \E u \in Thread : pc'[u] \in Leaving /\ cur'[u] = m
    <2>1. PICK u \in Thread : pc[u] \in Leaving /\ cur[u] = m
      BY <1>4 DEF SInv, TowerInv
    <2> QED
      BY <2>1 DEF AtNext, Links, Leaving, Others
  <1>9. \A m \in Node \ alive' : down'[m] = Null
    BY <1>1, <1>2, <1>4 DEF SInv, TowerInv
  <1> QED
    BY <1>6, <1>7, <1>8, <1>9 DEF TowerInv

\* Where the new node stands, nobody was who has already looked further.
LEMMA LinkOthers ==
  ASSUME NEW at \in [Node -> Level], NEW on \in SUBSET Node, NEW t \in Thread,
         IInv, SInv(at, on), NEW n \in Node, Links(t, n),
         NEW at2 \in [Node -> Level], NEW on2 \in SUBSET Node, Grows(at, on, at2, on2, t, n),
         NEW u \in Thread \ {t}
  PROVE  /\ FoundBelow(at2, on2, u)'
         /\ NothingBetween(at2, on2, u)'
         /\ TowersPassed(at2, u)'
  <1> DEFINE p == prev[t]
             h == height[t]
  <1>1. /\ p \in on /\ at[p] = h /\ Past(key, next[p], op[t].key)
        /\ on \subseteq alive /\ alive \subseteq Node /\ KeysOf(key', alive') /\ Null \notin Node
    BY LinkPlace, HeapAssumption
  <1>2. /\ \A l, m \in alive : Left(key', l, m) <=> Left(key, l, m)
        /\ \A m \in on : at[m] = h =>
              /\ Left(key', m, n) <=> (m = p \/ Left(key, m, p))
              /\ Left(key', n, m) <=> Left(key, p, m)
    BY LinkPlace
  <1>3. /\ n \notin alive /\ at2[n] = h /\ alive' = alive \cup {n}
        /\ \A m \in alive : at2[m] = at[m] /\ key'[m] = key[m]
        /\ \A m \in Node : down'[m] = IF m = older[t] THEN n ELSE down[m]
        /\ on2 = on \cup {n}
    BY <1>1 DEF Links, Linked, Grows, Grown
  <1>4. UNCHANGED <<pc[u], op[u], prev[u], cur[u], older[u], height[u]>>
    BY DEF Links, Others
  <1>5. pc[u] \in UsesPrev => prev[u] \in on /\ prev[u] \in alive /\ at[prev[u]] = height[u]
    BY <1>1 DEF SInv, ThreadInv, PrevInv
  <1>9. HeldMode(t) = "exclusive"
    BY Exclusive DEF Links, AtNext
  <1>6. FoundBelow(at2, on2, u)'
    BY <1>1, <1>3, <1>4 DEF SInv, ThreadInv, FoundBelow
  <1>7. NothingBetween(at2, on2, u)'
    <2> SUFFICES ASSUME pc[u] \in {"down"} \cup Leaving, height[u] > 0,
                        NEW m \in on2, at2[m] = height[u], Left(key', prev[u], m)
                 PROVE  Past(key', m, op[u].key) \/ m = older[u]
      BY <1>4 DEF NothingBetween
    <2>1. pc[u] \in UsesPrev /\ pc[u] # "idle"
      BY DEF UsesPrev, Leaving
    <2>2. op[u].key \in Key
      BY <2>1, KeyInKey
    <2>3. CASE m = n
      <3>1. Left(key, prev[u], p)
        <4>1. prev[u] # p
          BY <1>1, <1>9, Apart
        <4> QED
          BY <1>2, <1>3, <1>5, <2>1, <2>3, <4>1
      <3>2. p # older[u]
        BY <1>1, <1>9, Apart
      <3>3. Past(key, p, op[u].key)
        BY <1>1, <1>3, <2>3, <3>1, <3>2 DEF SInv, ThreadInv, NothingBetween
      <3>4. Past(key', p, op[u].key) /\ Left(key', p, n)
        BY <1>1, <1>2, <1>3, <3>3 DEF Past
      <3> QED
        BY <1>1, <1>3, <2>2, <2>3, <3>4, OrderOfKeys
    <2>4. CASE m \in on
      <3>1. Left(key, prev[u], m)
        BY <1>1, <1>2, <1>5, <2>1, <2>4
      <3>2. Past(key, m, op[u].key) \/ m = older[u]
        BY <1>1, <1>3, <2>4, <3>1 DEF SInv, ThreadInv, NothingBetween
      <3> QED
        BY <1>1, <1>3, <2>4, <3>2 DEF Past
    <2> QED
      BY <1>3, <2>3, <2>4
  <1>8. TowersPassed(at2, u)'
    <2> SUFFICES ASSUME pc[u] \in Seeking, NEW m \in alive', at2[m] = height[u] + 1,
                        down'[m] # Null, Left(key', prev[u], m)
                 PROVE  Past(key', m, op[u].key)
      BY <1>4 DEF TowersPassed
    <2>1. pc[u] \in UsesPrev
      BY DEF Seeking
    <2>2. older[t] # Null => older[t] \in on
      BY DEF SInv, ThreadInv, OlderInv, Links
    <2>3. m \in alive
      <3> SUFFICES ASSUME m = n PROVE FALSE
        BY <1>3
      <3> QED
        BY <1>1, <1>3, <2>2 DEF SInv, TowerInv
    <2>4. Left(key, prev[u], m)
      BY <1>2, <1>5, <2>1, <2>3
    <2>5. CASE m = older[t]
      <3>1. Past(key, m, op[u].key)
        BY <1>1, <1>3, <2>3, <2>4, <2>5, TowerGrows DEF Links
      <3> QED
        BY <1>3, <2>3, <3>1 DEF Past
    <2>6. CASE m # older[t]
      <3>1. Past(key, m, op[u].key)
        BY <1>1, <1>3, <2>3, <2>4, <2>6 DEF SInv, ThreadInv, TowersPassed
      <3> QED
        BY <1>3, <2>3, <3>1 DEF Past
    <2> QED
      BY <2>5, <2>6
  <1> QED
    BY <1>6, <1>7, <1>8

\* An insert links a new node: at and on grow by that node.
LEMMA LinkNewKeeps ==
  ASSUME NEW at \in [Node -> Level], NEW on \in SUBSET Node, NEW t \in Thread,
         IInv, SInv(at, on), LinkNew(t), op[t].name = "insert", Frame(t),
         NEW n \in Node, n = Fresh(op[t].key, height[t]),
         NEW at2 \in [Node -> Level], NEW on2 \in SUBSET Node, Grows(at, on, at2, on2, t, n)
  PROVE  SInv(at2, on2)'
  <1> DEFINE p == prev[t]
             h == height[t]
  <1>1. /\ AtNext(t) /\ pc[t] = "next" /\ pc'[t] = "down" /\ prev'[t] = p /\ height'[t] = h
        /\ op'[t] = op[t] /\ Others(t) /\ op[t].level >= h
        /\ older'[t] = IF h = 0 THEN Null ELSE n
    BY DEF LinkNew, AtNext, Goto, Others, IInv, TypeOK
  <1>2. n \in Node \ alive
    BY DEF LinkNew, Fresh, Vacant
  <1>3. /\ key' = [key EXCEPT ![n] = op[t].key] /\ alive' = alive \cup {n}
        /\ next' = [next EXCEPT ![n] = next[p], ![p] = n]
        /\ down' = [m \in Node |-> IF m = older[t] THEN n ELSE down[m]]
    BY DEF LinkNew, Create, Behind, Under
  <1>4. p \in on /\ p \in alive /\ at[p] = h /\ alive \subseteq Node
    BY <1>1, NextOfPrev DEF UsesPrev, IInv, TypeOK, HeapTypeOK
  <1>5. Links(t, n)
    <2>1. Beyond(next[p], op[t].key)
      BY DEF LinkNew
    <2> QED
      BY <1>1, <1>2, <1>3, <1>4, <2>1 DEF Links, Linked, IInv, TypeOK, HeapTypeOK
  <1>6. /\ op[t].key \in Key /\ Past(key, next[p], op[t].key) /\ on \subseteq alive
        /\ Short(key, p, op[t].key)
    BY <1>5, LinkPlace
  <1>7. /\ at2[n] = h /\ key'[n] = op[t].key
        /\ \A m \in alive : at2[m] = at[m] /\ key'[m] = key[m]
        /\ on2 = on \cup {n}
    BY <1>2, <1>4, <1>5 DEF Links, Linked, Grows, Grown
  <1>8. PrevInv(at2, on2, t)'
    BY <1>1, <1>4, <1>6, <1>7 DEF PrevInv, Short
  <1>9. OlderInv(at2, on2, t)'
    <2> SUFFICES ASSUME h # 0 PROVE OlderInv(at2, on2, t)'
      BY <1>1 DEF OlderInv
    <2>1. down'[n] = Null
      BY <1>2, <1>3, <1>4, HeapAssumption DEF SInv, TowerInv, ThreadInv, OlderInv, ListInv
    <2>2. h > 0
      BY <1>4 DEF Level
    <2> QED
      BY <1>1, <1>7, <2>1, <2>2 DEF OlderInv
  <1>10. NothingBetween(at2, on2, t)'
    <2> SUFFICES ASSUME h > 0, NEW m \in on2, at2[m] = h, Left(key', p, m)
                 PROVE  Past(key', m, op[t].key) \/ m = n
      BY <1>1 DEF NothingBetween
    <2> SUFFICES ASSUME m \in on PROVE Past(key', m, op[t].key)
      BY <1>7
    <2>1. Left(key, p, m)
      BY <1>4, <1>5, <1>6, LinkPlace
    <2>2. \A l \in on : at[l] = h /\ Left(key, p, l) /\ l # next[p] => Past(key, l, op[t].key)
      BY <1>1, <1>6, PastFromHere DEF UsesPrev
    <2>3. Past(key, m, op[t].key)
      BY <1>6, <1>7, <2>1, <2>2
    <2> QED
      BY <1>6, <1>7, <2>3 DEF Past
  <1>11. ThreadInv(at2, on2, t)'
    BY <1>1, <1>8, <1>9, <1>10, StopsSeeking DEF SInv, ThreadInv, CallInv, CurInv, FoundBelow,
       Removing, Leaving, Seeking, UsesPrev
  <1>12. \A m \in alive : owner[m] # t => (m \in on <=> m \in on2) /\ at2[m] = at[m]
    BY <1>2, <1>7
  <1>13. ListInv(at2, on2)' /\ TowerInv(at2, on2)'
    BY <1>5, LinkList, LinkTower
  <1>14. ASSUME NEW u \in Thread \ {t}
         PROVE  /\ FoundBelow(at2, on2, u)' /\ NothingBetween(at2, on2, u)'
                /\ TowersPassed(at2, u)'
                /\ InFront(t, u)' /\ InFront(u, t)'
    <2>1. FoundBelow(at2, on2, u)' /\ NothingBetween(at2, on2, u)' /\ TowersPassed(at2, u)'
      BY <1>5, LinkOthers
    <2>2. InFront(t, u)' /\ InFront(u, t)'
      BY <1>1, StopsSeeking DEF Seeking, UsesPrev
    <2> QED
      BY <2>1, <2>2
  <1> QED
    BY <1>1, <1>11, <1>12, <1>13, <1>14, LoudStep

-----------------------------------------------------------------------------
(* The invariant.                                                          *)


-----------------------------------------------------------------------------
(* The locks: each action of t takes and gives back what the invariant     *)
(* says.                                                                   *)

\* Where a thread may be.
Points == {"idle", "top", "next", "down", "tower", "unlink", "rmDown", "rmNext", "seek",
           "emit", "step", "ret", "crash"}

\* What a step of t is shown to do; for the other threads it is enough that
\* they still have what they had.
Sound(t) ==
  /\ TypeOK' /\ Alone' /\ Others(t)
  /\ Shape(t)' /\ ModeInv(t)'
  /\ \A u \in Thread : Holds(u)'

LEMMA SoundStep ==
  ASSUME IInv, NEW t \in Thread, Sound(t)
  PROVE  IInv'
  <1>1. ASSUME NEW u \in Thread \ {t} PROVE Shape(u)' /\ ModeInv(u)'
    BY DEF IInv, Local, Shape, ModeInv, Sound, Others
  <1> QED
    BY <1>1 DEF IInv, Local, Sound

\* The locks after a step that changes none.
LEMMA LocksSame ==
  ASSUME IInv, NEW t \in Thread, UNCHANGED locks, Others(t),
         Held(t)' = Held(t), Held(t) # {} => HeldMode(t)' = HeldMode(t)
  PROVE  Alone' /\ \A u \in Thread : Holds(u)'
  <1>1. \A n \in Node : owner'[n] = owner[n] /\ shared'[n] = shared[n]
    BY DEF locks
  <1>2. Holds(t)'
    <2>1. HeldMode(t) \in {"shared", "exclusive"}
      BY DEF HeldMode, IInv, TypeOK
    <2> QED
      BY <1>1, <2>1 DEF IInv, Local, Holds
  <1>3. ASSUME NEW u \in Thread \ {t} PROVE Holds(u)'
    <2>1. Held(u)' = Held(u) /\ HeldMode(u)' = HeldMode(u)
      BY DEF Others, Held, HeldMode
    <2> QED
      BY <1>1, <2>1 DEF IInv, Local, Holds
  <1> QED
    BY <1>1, <1>2, <1>3 DEF IInv, Alone

\* t locks the nodes of got, free, in mode m and unlocks those of left, and
\* its pointers follow.
Swaps(t, got, m, left) ==
  /\ Relock(t, got, m, left, HeldMode(t))
  /\ \A n \in got : n \in Node /\ owner[n] = NoThread /\ (m = "exclusive" => shared[n] = {})
  /\ \A n \in left : n \in Node => n \in Held(t) /\ n \notin got
  /\ Held(t)' = got \cup (Held(t) \ left)
  /\ got # {} => HeldMode(t)' = m
  /\ Held(t) \ left # {} => HeldMode(t)' = HeldMode(t)

LEMMA RelockSound ==
  ASSUME IInv, NEW t \in Thread, NEW got, NEW m \in {"shared", "exclusive"},
         NEW left, Swaps(t, got, m, left), Others(t)
  PROVE  /\ owner' \in [Node -> Thread \cup {NoThread}]
         /\ shared' \in [Node -> SUBSET Thread]
         /\ Alone' /\ \A u \in Thread : Holds(u)'
  <1>0. /\ \A n \in got : n \in Node /\ owner[n] = NoThread /\ (m = "exclusive" => shared[n] = {})
        /\ \A n \in left : n \in Node => n \in Held(t) /\ n \notin got
        /\ Held(t)' = got \cup (Held(t) \ left)
        /\ got # {} => HeldMode(t)' = m
        /\ Held(t) \ left # {} => HeldMode(t)' = HeldMode(t)
    BY DEF Swaps
  <1>1. /\ HeldMode(t) \in {"shared", "exclusive"}
        /\ owner \in [Node -> Thread \cup {NoThread}] /\ shared \in [Node -> SUBSET Thread]
    BY DEF HeldMode, IInv, TypeOK
  <1>2. /\ owner' = [n \in Node |->
                       IF HeldMode(t) = "exclusive" /\ n \in left THEN NoThread
                       ELSE IF m = "exclusive" /\ n \in got THEN t ELSE owner[n]]
        /\ shared' = [n \in Node |->
                        IF HeldMode(t) = "shared" /\ n \in left THEN shared[n] \ {t}
                        ELSE IF m = "shared" /\ n \in got THEN shared[n] \cup {t}
                        ELSE shared[n]]
    BY DEF Relock, Swaps
  <1>3. \A u \in Thread, n \in Node :
           /\ owner[n] = u <=> HeldMode(u) = "exclusive" /\ n \in Held(u)
           /\ u \in shared[n] <=> HeldMode(u) = "shared" /\ n \in Held(u)
    BY DEF IInv, Local, Holds
  <1>4. \A n \in Node : owner[n] # NoThread => shared[n] = {}
    BY DEF IInv, Alone
  <1>5. Alone'
    BY <1>0, <1>1, <1>2, <1>4 DEF Alone
  <1>6. Holds(t)'
    <2> SUFFICES ASSUME NEW n \in Node
                 PROVE  /\ owner'[n] = t <=> HeldMode(t)' = "exclusive" /\ n \in Held(t)'
                        /\ t \in shared'[n] <=> HeldMode(t)' = "shared" /\ n \in Held(t)'
      BY DEF Holds
    <2>1. CASE n \in left
      BY <1>0, <1>1, <1>2, <1>3, <2>1, ThreadAssumption
    <2>2. CASE n \in got /\ n \notin left
      <3>1. HeldMode(t)' = m /\ n \in Held(t)'
        BY <1>0, <2>2
      <3>2. owner[n] # t /\ (m = "exclusive" => t \notin shared[n])
        BY <1>0, <2>2, ThreadAssumption
      <3> QED
        BY <1>0, <1>2, <2>2, <3>1, <3>2
    <2>3. CASE n \notin got /\ n \notin left
      <3>1. n \in Held(t)' <=> n \in Held(t)
        BY <1>0, <2>3
      <3>2. n \in Held(t) => HeldMode(t)' = HeldMode(t)
        BY <1>0, <2>3
      <3>3. owner'[n] = owner[n] /\ shared'[n] = shared[n]
        BY <1>2, <2>3
      <3> QED
        BY <1>3, <3>1, <3>2, <3>3
    <2> QED
      BY <2>1, <2>2, <2>3
  <1>7. ASSUME NEW u \in Thread \ {t} PROVE Holds(u)'
    <2>1. Held(u)' = Held(u) /\ HeldMode(u)' = HeldMode(u)
      BY DEF Others, Held, HeldMode
    <2>2. ASSUME NEW n \in Node
          PROVE  /\ owner'[n] = u <=> owner[n] = u
                 /\ u \in shared'[n] <=> u \in shared[n]
      BY <1>0, <1>1, <1>2, <1>3, ThreadAssumption
    <2> QED
      BY <1>3, <2>1, <2>2 DEF Holds
  <1>8. /\ owner' \in [Node -> Thread \cup {NoThread}]
        /\ shared' \in [Node -> SUBSET Thread]
    BY <1>1, <1>2
  <1> QED
    BY <1>5, <1>6, <1>7, <1>8

\* t is granted the lock of n in mode m, unlocks left, and goes on at place
\* with p and c in prev and cur.
Grants(t, n, m, left, place, p, c) ==
  /\ n \in alive /\ m \in {"shared", "exclusive"} /\ CanLock(n, m)
  /\ Relock(t, {n}, m, left, HeldMode(t))
  /\ \A x \in left : x \in Node => x \in {prev[t], cur[t], older[t]} /\ x # n
  /\ p \in Pointer /\ c \in Pointer /\ Stand(t, place, p, c)
  /\ place \in {"next", "tower", "unlink", "rmNext", "seek", "emit"}
  /\ p \in Node <=> place \in UsesPrev
  /\ c \in Node <=> place \in UsesCur
  /\ \A x \in Node : x \in {p, c, older[t]} <=>
        x = n \/ (x \in {prev[t], cur[t], older[t]} /\ x \notin left)
  /\ UNCHANGED <<heap, op, older, reply>> /\ Others(t)
  /\ height' \in [Thread -> Level] /\ mode' \in [Thread -> {"shared", "exclusive"}]
  /\ HeldMode(t)' = m
  /\ \A x \in {prev[t], cur[t], older[t]} : x \in Node => x \in left \/ m = HeldMode(t)
  /\ ModeInv(t)'

\* Such a step keeps the invariant.
LEMMA GrantSound ==
  ASSUME IInv, NEW t \in Thread, NEW n, NEW m, NEW left, NEW place, NEW p, NEW c,
         Grants(t, n, m, left, place, p, c)
  PROVE  IInv'
  <1> USE DEF Grants
  <1>1. n \in Node /\ HeapTypeOK
    BY DEF IInv, TypeOK, HeapTypeOK
  <1>2. /\ prev[t] \in Pointer /\ cur[t] \in Pointer /\ older[t] \in Pointer
        /\ prev'[t] = p /\ cur'[t] = c /\ older'[t] = older[t] /\ pc'[t] = place
    BY DEF Stand, Goto, IInv, TypeOK
  <1>3. Held(t)' = {n} \cup (Held(t) \ left)
    <2>1. Held(t) \subseteq Node /\ Held(t)' \subseteq Node
      BY <1>2 DEF Held, Pointer
    <2>2. \A x \in Node : /\ x \in Held(t) <=> x \in {prev[t], cur[t], older[t]}
                          /\ x \in Held(t)' <=> x \in {p, c, older[t]}
      BY <1>2, HeapAssumption DEF Held
    <2> QED
      BY <1>1, <2>1, <2>2
  <1>4. /\ owner' \in [Node -> Thread \cup {NoThread}]
        /\ shared' \in [Node -> SUBSET Thread]
        /\ Alone' /\ \A u \in Thread : Holds(u)'
    <2>1. \A x \in {n} : owner[x] = NoThread /\ (m = "exclusive" => shared[x] = {})
      BY DEF CanLock
    <2>2. \A x \in left : x \in Node => x \in Held(t) /\ x \notin {n}
      BY HeapAssumption DEF Held
    <2>3. Held(t) \ left # {} => HeldMode(t)' = HeldMode(t)
      BY <1>2 DEF Held, Pointer
    <2>4. {n} \in SUBSET Node /\ ({n} # {} => HeldMode(t)' = m)
      BY <1>1
    <2>5. Swaps(t, {n}, m, left)
      BY <1>1, <1>3, <2>1, <2>2, <2>3, <2>4 DEF Swaps
    <2> QED
      BY <2>5, RelockSound
  <1>5. TypeOK'
    <2>1. HeapTypeOK'
      BY <1>1 DEF HeapTypeOK, heap
    <2>2. /\ pc' \in [Thread -> Points]
          /\ prev' \in [Thread -> Pointer] /\ cur' \in [Thread -> Pointer]
      BY DEF IInv, TypeOK, Stand, Goto, Points
    <2> QED
      BY <1>4, <2>1, <2>2 DEF IInv, TypeOK, Points
  <1>6. Shape(t)'
    BY <1>2 DEF Shape
  <1> QED
    BY <1>4, <1>5, <1>6, SoundStep DEF Sound

\* A step that ends a call with everything unlocked.
LEMMA LeaveSound ==
  ASSUME IInv, NEW t \in Thread, NEW r \in ReplyType, Leave(t, HeldMode(t), r),
         older[t] = Null, HeapTypeOK'
  PROVE  IInv'
  <1>1. /\ Relock(t, {}, HeldMode(t), {prev[t], cur[t]}, HeldMode(t))
        /\ pc' = [pc EXCEPT ![t] = "ret"]
        /\ prev' = [prev EXCEPT ![t] = Null] /\ cur' = [cur EXCEPT ![t] = Null]
        /\ reply' = [reply EXCEPT ![t] = r]
        /\ UNCHANGED <<op, older, height, mode>>
    BY DEF Leave, Unlock, Stand, Goto, Answer
  <1>2. Others(t)
    BY <1>1 DEF Others, IInv, TypeOK
  <1>3. /\ prev'[t] = Null /\ cur'[t] = Null /\ older'[t] = Null /\ pc'[t] = "ret"
    BY <1>1 DEF IInv, TypeOK
  <1>4. Held(t)' = {} /\ Held(t) \ {prev[t], cur[t]} = {}
    BY <1>3 DEF Held
  <1>5. /\ owner' \in [Node -> Thread \cup {NoThread}]
        /\ shared' \in [Node -> SUBSET Thread]
        /\ Alone' /\ \A u \in Thread : Holds(u)'
    <2>1. HeldMode(t) \in {"shared", "exclusive"}
      BY DEF HeldMode, IInv, TypeOK
    <2>2. \A x \in {prev[t], cur[t]} : x \in Node => x \in Held(t)
      BY HeapAssumption DEF Held
    <2>3. Held(t)' = {} \cup (Held(t) \ {prev[t], cur[t]})
      BY <1>4
    <2>4. Held(t) \ {prev[t], cur[t]} # {} => HeldMode(t)' = HeldMode(t)
      BY <1>4
    <2>5. \A x \in {prev[t], cur[t]} : x \in Node => x \in Held(t) /\ x \notin {}
      BY <2>2
    <2>6. Relock(t, {}, HeldMode(t), {prev[t], cur[t]}, HeldMode(t))
      BY <1>1
    <2>7. Swaps(t, {}, HeldMode(t), {prev[t], cur[t]})
      BY <2>3, <2>4, <2>5, <2>6 DEF Swaps
    <2> QED
      BY <1>2, <2>1, <2>7, RelockSound
  <1>6. TypeOK'
    <2>1. /\ pc' \in [Thread -> Points]
          /\ prev' \in [Thread -> Pointer] /\ cur' \in [Thread -> Pointer]
          /\ reply' \in [Thread -> ReplyType]
      BY <1>1 DEF IInv, TypeOK, Pointer, Points
    <2> QED
      BY <1>1, <1>5, <2>1 DEF IInv, TypeOK, Points
  <1>7. Shape(t)' /\ ModeInv(t)'
    <2>1. op'[t] = op[t] /\ mode'[t] = mode[t]
      BY <1>1
    <2> QED
      BY <1>3, <2>1, HeapAssumption DEF Shape, ModeInv, UsesPrev, UsesCur, IInv, Local
  <1> QED
    BY <1>2, <1>5, <1>6, <1>7, SoundStep DEF Sound

\* Nothing is older but what an insert has on its way down the levels.
LEMMA NothingOlder ==
  ASSUME NEW at, NEW on, SInv(at, on), NEW t \in Thread,
         op[t].name # "insert" \/ pc[t] \notin {"next", "down"}
  PROVE  older[t] = Null
  BY DEF SInv, ThreadInv, OlderInv

\* A thread whose prev is its only node, but for older, locks the one to the
\* right of it and leaves it.
LEMMA RightSound ==
  ASSUME NEW at \in [Node -> Level], NEW on \in SUBSET Node, IInv, SInv(at, on), NEW t \in Thread,
         AtNext(t), Relock(t, {next[prev[t]]}, mode[t], {prev[t]}, mode[t]),
         NEW place \in {"next", "tower", "emit"},
         IF place = "next" THEN Stand(t, place, next[prev[t]], Null)
         ELSE Stand(t, place, Null, next[prev[t]]),
         place = "next" \/ op[t].name \in {"get", "range"},
         UNCHANGED <<heap, op, older, height, mode, reply>>
  PROVE  IInv'
  <1> DEFINE n == next[prev[t]]
  <1>1. pc[t] = "next" /\ CanLock(n, mode[t])
    BY DEF AtNext
  <1>2. n \in on /\ on \subseteq alive /\ alive \subseteq Node
    BY <1>1, NextOfPrev DEF UsesPrev, IInv, TypeOK, HeapTypeOK
  <1>3. prev[t] \in Node /\ cur[t] \notin Node /\ prev[t] # n /\ prev[t] # older[t]
    <2>1. Left(key, prev[t], n) /\ KeysOf(key, alive) /\ prev[t] \in alive
      BY <1>1, NextOfPrev DEF UsesPrev
    <2>2. prev[t] \in Node /\ cur[t] \notin Node
      BY <1>1 DEF IInv, Local, Shape, UsesPrev, UsesCur
    <2> QED
      BY <2>1, <2>2, Order, Separate
  <1>4. HeldMode(t) = mode[t] /\ mode[t] \in {"shared", "exclusive"}
    BY <1>1, Exclusive DEF IInv, TypeOK
  <1>5. /\ Others(t) /\ pc'[t] = place /\ op'[t] = op[t] /\ mode'[t] = mode[t]
        /\ height'[t] = height[t]
        /\ height' \in [Thread -> Level] /\ mode' \in [Thread -> {"shared", "exclusive"}]
    BY DEF Stand, Goto, Others, IInv, TypeOK
  <1>6. HeldMode(t)' = mode[t] /\ ModeInv(t)'
    BY <1>1, <1>5 DEF HeldMode, ModeInv, IInv, Local
  <1>7. place # "next" => older[t] = Null
    BY NothingOlder
  <1>8. /\ n \in Pointer /\ Null \in Pointer /\ Null \notin Node
        /\ "next" \in UsesPrev \ UsesCur /\ {"tower", "emit"} \subseteq UsesCur \ UsesPrev
    BY <1>2, HeapAssumption DEF Pointer, UsesPrev, UsesCur
  <1> HIDE DEF n
  <1>9. CASE place = "next"
    <2>1. \A x \in Node : x \in {n, Null, older[t]} <=>
             x = n \/ (x \in {prev[t], cur[t], older[t]} /\ x \notin {prev[t]})
      BY <1>3, <1>8
    <2>2. Relock(t, {n}, mode[t], {prev[t]}, HeldMode(t)) /\ Stand(t, place, n, Null)
      BY <1>4, <1>9 DEF n
    <2>3. Grants(t, n, mode[t], {prev[t]}, place, n, Null)
      BY <1>1, <1>2, <1>3, <1>4, <1>5, <1>6, <1>8, <1>9, <2>1, <2>2 DEF Grants
    <2> QED
      BY <2>3, GrantSound
  <1>10. CASE place # "next"
    <2>1. \A x \in Node : x \in {Null, n, older[t]} <=>
             x = n \/ (x \in {prev[t], cur[t], older[t]} /\ x \notin {prev[t]})
      BY <1>3, <1>7, <1>8, <1>10
    <2>2. Relock(t, {n}, mode[t], {prev[t]}, HeldMode(t)) /\ Stand(t, place, Null, n)
      BY <1>4, <1>10 DEF n
    <2>3. Grants(t, n, mode[t], {prev[t]}, place, Null, n)
      BY <1>1, <1>2, <1>3, <1>4, <1>5, <1>6, <1>7, <1>8, <1>10, <2>1, <2>2 DEF Grants
    <2> QED
      BY <2>3, GrantSound
  <1> QED
    BY <1>9, <1>10

LEMMA MoveRightSound ==
  ASSUME NEW at \in [Node -> Level], NEW on \in SUBSET Node, IInv, SInv(at, on), NEW t \in Thread,
         MoveRight(t)
  PROVE  IInv'
  BY RightSound DEF MoveRight, LeftBehind

LEMMA EnterTowerSound ==
  ASSUME NEW at \in [Node -> Level], NEW on \in SUBSET Node, IInv, SInv(at, on), NEW t \in Thread,
         EnterTower(t), op[t].name \in {"get", "range"}
  PROVE  IInv'
  BY RightSound DEF EnterTower, LeftBehind

LEMMA LandAfterSound ==
  ASSUME NEW at \in [Node -> Level], NEW on \in SUBSET Node, IInv, SInv(at, on), NEW t \in Thread,
         LandAfter(t), op[t].name = "range"
  PROVE  IInv'
  <1>1. mode[t] = "shared"
    BY Exclusive
  <1> QED
    BY <1>1, RightSound DEF LandAfter, LeftBehind

LEMMA EnterSound ==
  ASSUME NEW at \in [Node -> Level], NEW on \in SUBSET Node, IInv, SInv(at, on), NEW t \in Thread,
         Enter(t)
  PROVE  IInv'
  <1>1. PICK n : n = Head[MaxHeight - 1]
    OBVIOUS
  <1>2. /\ pc[t] = "top" /\ CanLock(n, mode[t]) /\ Stand(t, "next", n, Null)
        /\ Relock(t, {n}, mode[t], {}, mode[t])
        /\ UNCHANGED <<heap, op, older, height, mode, reply>>
    BY <1>1 DEF Enter
  <1>3. n \in alive /\ n \in Node
    <2>1. MaxHeight - 1 \in Level
      BY CallAssumption DEF Level
    <2> QED
      BY <1>1, <2>1, SentinelSets, HeapAssumption DEF SInv, ListInv, Heads
  <1>4. /\ HeldMode(t) = mode[t] /\ mode[t] \in {"shared", "exclusive"}
        /\ Others(t) /\ pc'[t] = "next" /\ op'[t] = op[t] /\ mode'[t] = mode[t]
        /\ height'[t] = height[t]
        /\ height' \in [Thread -> Level] /\ mode' \in [Thread -> {"shared", "exclusive"}]
    BY <1>2, Exclusive DEF Stand, Goto, Others, IInv, TypeOK
  <1>5. HeldMode(t)' = mode[t] /\ ModeInv(t)'
    BY <1>2, <1>4 DEF HeldMode, ModeInv, IInv, Local
  <1>6. prev[t] \notin Node /\ cur[t] \notin Node /\ older[t] = Null
    BY <1>2, NothingOlder DEF IInv, Local, Shape, UsesPrev, UsesCur
  <1>7. Grants(t, n, mode[t], {}, "next", n, Null)
    BY <1>2, <1>3, <1>4, <1>5, <1>6, HeapAssumption DEF Grants, Pointer, UsesPrev, UsesCur
  <1> QED
    BY <1>7, GrantSound

LEMMA ArriveBelowSound ==
  ASSUME NEW at \in [Node -> Level], NEW on \in SUBSET Node, IInv, SInv(at, on), NEW t \in Thread,
         ArriveBelow(t)
  PROVE  IInv'
  <1>1. PICK n : n = down[prev[t]]
    OBVIOUS
  <1>2. PICK m : m = DownMode(t)
    OBVIOUS
  <1>3. /\ pc[t] = "down" /\ n # Null /\ CanLock(n, m) /\ Stand(t, "next", n, Null)
        /\ Relock(t, {n}, m, {prev[t]}, mode[t])
        /\ height' = [height EXCEPT ![t] = @ - 1]
        /\ mode' = [mode EXCEPT ![t] = m]
        /\ UNCHANGED <<heap, op, older, reply>>
    BY <1>1, <1>2 DEF ArriveBelow, LeftBehind
  <1>4. /\ n \in on /\ on \subseteq alive /\ alive \subseteq Node /\ n # prev[t]
        /\ height[t] - 1 \in Level /\ height[t] \in Int
    <2>1. /\ GoingDown(t) /\ height[t] \in Level /\ on \subseteq alive
      BY <1>1, <1>3 DEF GoingDown, IInv, TypeOK, SInv, ListInv
    <2>2. n \in on /\ at[n] = height[t] - 1 /\ at[prev[t]] = height[t] /\ height[t] > 0
      BY <1>1, <2>1, PlaceBelow
    <2>3. height[t] \in Int /\ height[t] - 1 \in Level
      BY <2>1, <2>2 DEF Level
    <2> QED
      BY <2>1, <2>2, <2>3 DEF IInv, TypeOK, HeapTypeOK
  <1>5. /\ HeldMode(t) = mode[t] /\ mode[t] \in {"shared", "exclusive"}
        /\ m \in {"shared", "exclusive"} /\ (older[t] # Null => m = mode[t])
    BY <1>2, <1>3, Exclusive DEF IInv, TypeOK, DownMode
  <1>6. /\ Others(t) /\ pc'[t] = "next" /\ op'[t] = op[t] /\ mode'[t] = m
        /\ height'[t] = height[t] - 1
        /\ height' \in [Thread -> Level] /\ mode' \in [Thread -> {"shared", "exclusive"}]
    BY <1>3, <1>4, <1>5 DEF Stand, Goto, Others, IInv, TypeOK
  <1>7. HeldMode(t)' = m
    BY <1>6 DEF HeldMode
  <1>8. ModeInv(t)'
    <2>1. ModeInv(t) /\ op[t].level \in Int
      BY DEF IInv, Local, TypeOK, OpType, Level
    <2>2. ASSUME op[t].name = "insert"
          PROVE  m = "exclusive" <=> op[t].level >= height[t] - 1
      <3>1. mode[t] = "exclusive" <=> op[t].level >= height[t]
        BY <1>3, <2>1, <2>2 DEF ModeInv
      <3> QED
        BY <1>2, <1>4, <2>1, <2>2, <3>1 DEF DownMode
    <2>3. op[t].name # "insert" => m = mode[t]
      BY <1>2 DEF DownMode
    <2> QED
      BY <1>6, <2>1, <2>2, <2>3 DEF ModeInv
  <1>9. /\ prev[t] \in Node /\ cur[t] \notin Node /\ prev[t] # older[t]
    <2>1. prev[t] \in Node /\ cur[t] \notin Node
      BY <1>3 DEF IInv, Local, Shape, UsesPrev, UsesCur
    <2> QED
      BY <2>1, Separate
  <1>10. Grants(t, n, m, {prev[t]}, "next", n, Null)
    BY <1>3, <1>4, <1>5, <1>6, <1>7, <1>8, <1>9, HeapAssumption
    DEF Grants, Pointer, UsesPrev, UsesCur
  <1> QED
    BY <1>10, GrantSound

LEMMA DescendTowerSound ==
  ASSUME NEW at \in [Node -> Level], NEW on \in SUBSET Node, IInv, SInv(at, on), NEW t \in Thread,
         DescendTower(t), op[t].name # "remove"
  PROVE  IInv'
  <1>1. PICK n : n = down[cur[t]]
    OBVIOUS
  <1>2. PICK m : m = TowerMode(t)
    OBVIOUS
  <1>3. /\ pc[t] = "tower" /\ n # Null /\ CanLock(n, m) /\ Stand(t, "tower", Null, n)
        /\ Relock(t, {n}, m, {cur[t]}, mode[t])
        /\ height' = [height EXCEPT ![t] = @ - 1]
        /\ mode' = [mode EXCEPT ![t] = "shared"]
        /\ UNCHANGED <<heap, op, older, reply>>
    BY <1>1, <1>2 DEF DescendTower
  <1>4. /\ n \in on /\ on \subseteq alive /\ alive \subseteq Node /\ n # cur[t]
        /\ height[t] - 1 \in Level /\ height[t] \in Int /\ height[t] > 0
    <2>1. /\ cur[t] \in on /\ at[cur[t]] = height[t] /\ on \subseteq alive
      BY <1>3 DEF SInv, ListInv, ThreadInv, CurInv
    <2>2. n \in on /\ at[cur[t]] = at[n] + 1
      BY <1>1, <1>3, <2>1 DEF SInv, TowerInv
    <2>3. at[n] \in Level /\ height[t] \in Level
      BY <2>2 DEF IInv, TypeOK
    <2> QED
      BY <2>1, <2>2, <2>3 DEF Level, IInv, TypeOK, HeapTypeOK
  <1>5. HeldMode(t) = mode[t]
    BY <1>4 DEF HeldMode
  <1>6. /\ Others(t) /\ pc'[t] = "tower" /\ op'[t] = op[t] /\ mode'[t] = "shared"
        /\ height'[t] = height[t] - 1
        /\ height' \in [Thread -> Level] /\ mode' \in [Thread -> {"shared", "exclusive"}]
    BY <1>3, <1>4 DEF Stand, Goto, Others, IInv, TypeOK
  <1>7. HeldMode(t)' = m /\ m \in {"shared", "exclusive"}
    BY <1>2, <1>4, <1>6 DEF HeldMode, TowerMode
  <1>8. ModeInv(t)'
    BY <1>6 DEF ModeInv
  <1>9. /\ prev[t] \notin Node /\ cur[t] \in Node /\ older[t] = Null
    BY <1>3, NothingOlder DEF IInv, Local, Shape, UsesPrev, UsesCur
  <1>10. Grants(t, n, m, {cur[t]}, "tower", Null, n)
    BY <1>3, <1>4, <1>5, <1>6, <1>7, <1>8, <1>9, HeapAssumption
    DEF Grants, Pointer, UsesPrev, UsesCur
  <1> QED
    BY <1>10, GrantSound

LEMMA StepRightSound ==
  ASSUME NEW at \in [Node -> Level], NEW on \in SUBSET Node, IInv, SInv(at, on), NEW t \in Thread,
         StepRight(t), op[t].name = "range"
  PROVE  IInv'
  <1>1. PICK n : n = next[cur[t]]
    OBVIOUS
  <1>2. /\ pc[t] = "step" /\ CanLock(n, "shared") /\ Stand(t, "emit", Null, n)
        /\ Relock(t, {n}, "shared", {cur[t]}, "shared")
        /\ UNCHANGED <<heap, op, older, height, mode, reply>>
    BY <1>1 DEF StepRight
  <1>3. n \in on /\ on \subseteq alive /\ alive \subseteq Node /\ n # cur[t]
    <2>1. cur[t] \in on \ Tails
      BY <1>2 DEF SInv, ThreadInv, CurInv
    <2>2. next[cur[t]] \in on /\ Left(key, cur[t], next[cur[t]]) /\ KeysOf(key, alive)
          /\ on \subseteq alive
      BY <2>1 DEF SInv, ListInv
    <2> QED
      BY <1>1, <2>1, <2>2, Order DEF IInv, TypeOK, HeapTypeOK
  <1>4. /\ HeldMode(t) = "shared"
        /\ Others(t) /\ pc'[t] = "emit" /\ op'[t] = op[t] /\ mode'[t] = mode[t]
        /\ height' \in [Thread -> Level] /\ mode' \in [Thread -> {"shared", "exclusive"}]
    BY <1>2, Exclusive DEF Stand, Goto, Others, IInv, TypeOK
  <1>5. HeldMode(t)' = "shared" /\ ModeInv(t)'
    <2>1. mode[t] = "shared"
      BY Exclusive
    <2> QED
      BY <1>2, <1>4, <2>1 DEF HeldMode, ModeInv
  <1>6. prev[t] \notin Node /\ cur[t] \in Node /\ older[t] = Null
    BY <1>2, NothingOlder DEF IInv, Local, Shape, UsesPrev, UsesCur
  <1>7. Grants(t, n, "shared", {cur[t]}, "emit", Null, n)
    BY <1>2, <1>3, <1>4, <1>5, <1>6, HeapAssumption DEF Grants, Pointer, UsesPrev, UsesCur
  <1> QED
    BY <1>7, GrantSound

\* A remove locks the next node; it keeps prev, or moves it on to cur.
LEMMA RemoveSound ==
  ASSUME NEW at \in [Node -> Level], NEW on \in SUBSET Node, IInv, SInv(at, on), NEW t \in Thread,
         op[t].name = "remove", NEW p \in Node, NEW left,
         \/ pc[t] \in {"next", "rmNext"} /\ p = prev[t] /\ left = {}
         \/ pc[t] = "seek" /\ p = cur[t] /\ left = {prev[t]},
         NEW n \in on, CanLock(n, "exclusive"), Relock(t, {n}, "exclusive", left, "exclusive"),
         NEW place \in {"seek", "unlink"}, Stand(t, place, p, n),
         UNCHANGED <<heap, op, older, height, mode, reply>>
  PROVE  IInv'
  <1>1. n \in alive /\ n \in Node /\ n \in Pointer /\ p \in Pointer
    BY DEF SInv, ListInv, Pointer
  <1>2. /\ HeldMode(t) = "exclusive" /\ mode[t] = "exclusive"
        /\ Others(t) /\ pc'[t] = place /\ op'[t] = op[t] /\ mode'[t] = mode[t]
        /\ height' \in [Thread -> Level] /\ mode' \in [Thread -> {"shared", "exclusive"}]
    BY Exclusive DEF Stand, Goto, Others, IInv, TypeOK
  <1>3. HeldMode(t)' = "exclusive" /\ ModeInv(t)'
    BY <1>2 DEF HeldMode, ModeInv
  <1>4. n \notin {prev[t], cur[t], older[t]} /\ older[t] = Null
    BY <1>1, <1>2, Locked, NothingOlder
  <1>5. /\ prev[t] \in Node /\ (cur[t] \in Node <=> pc[t] = "seek")
        /\ (cur[t] \in Node => cur[t] # prev[t])
    <2>1. prev[t] \in Node /\ (cur[t] \in Node <=> pc[t] = "seek")
      BY DEF IInv, Local, Shape, UsesPrev, UsesCur
    <2> QED
      BY <2>1, Separate
  <1>6. Grants(t, n, "exclusive", left, place, p, n)
    BY <1>1, <1>2, <1>3, <1>4, <1>5, HeapAssumption DEF Grants, Pointer, UsesPrev, UsesCur
  <1> QED
    BY <1>6, GrantSound

LEMMA RemoveFoundSound ==
  ASSUME NEW at \in [Node -> Level], NEW on \in SUBSET Node, IInv, SInv(at, on), NEW t \in Thread,
         RemoveFound(t), op[t].name = "remove"
  PROVE  IInv'
  <1>1. mode[t] = "exclusive"
    BY Exclusive
  <1>2. pc[t] = "next" /\ prev[t] \in Node /\ next[prev[t]] \in on
    BY NextOfPrev DEF RemoveFound, AtNext, UsesPrev
  <1> QED
    BY <1>1, <1>2, RemoveSound DEF RemoveFound, AtNext

LEMMA ResumeBelowSound ==
  ASSUME NEW at \in [Node -> Level], NEW on \in SUBSET Node, IInv, SInv(at, on), NEW t \in Thread,
         ResumeBelow(t), op[t].name = "remove"
  PROVE  IInv'
  <1>1. /\ pc[t] = "rmNext" /\ prev[t] \in on \ Tails /\ prev[t] \in Node
        /\ next[prev[t]] \in on /\ at[prev[t]] = height[t] /\ op[t].key \in Key
    BY NextOfPrev DEF ResumeBelow, UsesPrev
  <1>2. Short(key, prev[t], op[t].key) /\ FoundBelow(at, on, t)
    BY <1>1 DEF UsesPrev, SInv, ThreadInv, PrevInv
  <1>3. AfterWhile(t, next[prev[t]]) \in {"seek", "unlink"}
    BY <1>1, <1>2, WhileFinds DEF Removing
  <1> QED
    BY <1>1, <1>3, RemoveSound DEF ResumeBelow

LEMMA SeekRightSound ==
  ASSUME NEW at \in [Node -> Level], NEW on \in SUBSET Node, IInv, SInv(at, on), NEW t \in Thread,
         SeekRight(t), op[t].name = "remove"
  PROVE  IInv'
  <1>1. /\ pc[t] = "seek" /\ cur[t] \in on /\ at[cur[t]] = height[t] /\ op[t].key \in Key
        /\ Short(key, cur[t], op[t].key) /\ FoundBelow(at, on, t)
    BY NextOfPrev DEF SeekRight, UsesPrev, SInv, ThreadInv, CurInv
  <1>2. cur[t] \in on \ Tails
    BY <1>1, SentinelSets DEF Short
  <1>3. next[cur[t]] \in on
    BY <1>2 DEF SInv, ListInv
  <1>4. AfterWhile(t, next[cur[t]]) \in {"seek", "unlink"}
    BY <1>1, <1>2, WhileFinds DEF Removing
  <1> QED
    BY <1>1, <1>3, <1>4, RemoveSound DEF SeekRight, LeftBehind

LEMMA OffTheBottomSound ==
  ASSUME NEW at \in [Node -> Level], NEW on \in SUBSET Node, IInv, SInv(at, on), NEW t \in Thread,
         NEW r \in ReplyType, OffTheBottom(t, r)
  PROVE  IInv'
  <1>1. /\ pc[t] = "down" /\ down[prev[t]] = Null /\ Leave(t, mode[t], r) /\ UNCHANGED heap
    BY DEF OffTheBottom
  <1>2. HeldMode(t) = mode[t]
    BY <1>1, Exclusive
  <1>3. older[t] = Null
    <2>1. prev[t] \in alive /\ prev[t] \in Node /\ at[prev[t]] = height[t]
      BY <1>1, NextOfPrev DEF UsesPrev
    <2>2. Has(t, prev[t]) /\ prev[t] # older[t]
      BY <2>1, OwnPointers, Separate
    <2>3. height[t] = 0
      BY <1>1, <2>1, <2>2, FootIsBottom
    <2> QED
      BY <1>1, <2>3 DEF SInv, ThreadInv, OlderInv
  <1>4. HeapTypeOK'
    BY <1>1 DEF IInv, TypeOK, HeapTypeOK, heap
  <1> QED
    BY <1>1, <1>2, <1>3, <1>4, LeaveSound

LEMMA ReadValueSound ==
  ASSUME NEW at \in [Node -> Level], NEW on \in SUBSET Node, IInv, SInv(at, on), NEW t \in Thread,
         ReadValue(t), op[t].name = "get"
  PROVE  IInv'
  <1>1. HeldMode(t) = "shared" /\ older[t] = Null
    BY Exclusive, NothingOlder
  <1>2. <<"get", op[t].key, val[cur[t]]>> \in ReplyType
    <2>1. cur[t] \in Node
      BY DEF ReadValue, AtTowerFoot, IInv, Local, Shape, UsesCur
    <2> QED
      BY <2>1 DEF IInv, TypeOK, HeapTypeOK, OpType, ReplyType
  <1>3. HeapTypeOK'
    BY DEF ReadValue, IInv, TypeOK, HeapTypeOK, heap
  <1> QED
    BY <1>1, <1>2, <1>3, LeaveSound DEF ReadValue

\* The foot of a tower is on the bottom level, so an insert has it exclusively.
LEMMA FootExclusive ==
  ASSUME NEW at \in [Node -> Level], NEW on \in SUBSET Node, IInv, SInv(at, on), NEW t \in Thread,
         AtTowerFoot(t), op[t].name = "insert"
  PROVE  HeldMode(t) = "exclusive" /\ cur[t] \in Node /\ older[t] = Null
  <1>1. pc[t] = "tower" /\ down[cur[t]] = Null
    BY DEF AtTowerFoot
  <1>2. older[t] = Null /\ cur[t] \in Node
    BY <1>1, NothingOlder DEF IInv, Local, Shape, UsesCur
  <1>3. cur[t] \in alive /\ at[cur[t]] = height[t]
    BY <1>1 DEF SInv, ThreadInv, CurInv, ListInv
  <1>4. Has(t, cur[t]) /\ cur[t] # older[t]
    BY <1>2, OwnPointers, HeapAssumption
  <1>5. height[t] = 0
    BY <1>1, <1>3, <1>4, FootIsBottom
  <1> QED
    BY <1>1, <1>2, <1>5 DEF HeldMode

LEMMA WriteValueSound ==
  ASSUME NEW at \in [Node -> Level], NEW on \in SUBSET Node, IInv, SInv(at, on), NEW t \in Thread,
         WriteValue(t), op[t].name = "insert"
  PROVE  IInv'
  <1>1. HeldMode(t) = "exclusive" /\ cur[t] \in Node /\ older[t] = Null
    BY FootExclusive DEF WriteValue
  <1>2. HeapTypeOK'
    <2>1. op[t].val \in Value \cup {NoValue}
      BY DEF IInv, TypeOK, OpType
    <2> QED
      BY <2>1 DEF WriteValue, IInv, TypeOK, HeapTypeOK
  <1>3. NoReply \in ReplyType
    BY DEF NoReply, ReplyType
  <1> QED
    BY <1>1, <1>2, <1>3, LeaveSound DEF WriteValue

LEMMA RangeDoneSound ==
  ASSUME NEW at \in [Node -> Level], NEW on \in SUBSET Node, IInv, SInv(at, on), NEW t \in Thread,
         RangeDone(t), op[t].name = "range"
  PROVE  IInv'
  <1>1. HeldMode(t) = "shared" /\ older[t] = Null
    BY Exclusive, NothingOlder
  <1>2. reply[t] \in ReplyType /\ HeapTypeOK'
    BY DEF RangeDone, IInv, TypeOK, HeapTypeOK, heap
  <1> QED
    BY <1>1, <1>2, LeaveSound DEF RangeDone

\* What is left of the memory when a node has been deleted.
LEMMA DestroyTyped ==
  ASSUME HeapTypeOK, NEW n \in Node, NEW nx \in [Node -> Pointer], Destroy(n, nx)
  PROVE  HeapTypeOK'
  BY DEF HeapTypeOK, Destroy, Pointer

LEMMA DeleteBottomSound ==
  ASSUME NEW at \in [Node -> Level], NEW on \in SUBSET Node, IInv, SInv(at, on), NEW t \in Thread,
         DeleteBottom(t), op[t].name = "remove"
  PROVE  IInv'
  <1>1. HeldMode(t) = "exclusive" /\ older[t] = Null
    BY Exclusive, NothingOlder
  <1>2. prev[t] \in Node /\ cur[t] \in Node
    BY DEF DeleteBottom, IInv, Local, Shape, UsesPrev, UsesCur
  <1>3. HeapTypeOK'
    <2>1. HeapTypeOK /\ next \in [Node -> Pointer]
      BY DEF IInv, TypeOK, HeapTypeOK
    <2>2. Skip(prev[t], cur[t]) \in [Node -> Pointer]
      BY <1>2, <2>1 DEF Skip
    <2> QED
      BY <1>2, <2>1, <2>2, DestroyTyped DEF DeleteBottom
  <1>4. <<"removed", op[t].key, NoValue>> \in ReplyType
    BY DEF IInv, TypeOK, OpType, ReplyType
  <1> QED
    BY <1>1, <1>3, <1>4, LeaveSound DEF DeleteBottom

\* A step that leaves locks and pointers alone.
StaysAt(t) ==
  /\ UNCHANGED locks /\ Others(t)
  /\ prev' = prev /\ cur' = cur /\ older' = older
  /\ pc'[t] \in UsesPrev <=> pc[t] \in UsesPrev
  /\ pc'[t] \in UsesCur <=> pc[t] \in UsesCur

LEMMA StaySound ==
  ASSUME IInv, NEW t \in Thread, StaysAt(t), HeapTypeOK',
         pc' \in [Thread -> Points],
         op' \in [Thread -> OpType], height' \in [Thread -> Level],
         mode' \in [Thread -> {"shared", "exclusive"}], reply' \in [Thread -> ReplyType],
         Held(t) # {} => HeldMode(t)' = HeldMode(t), ModeInv(t)'
  PROVE  IInv'
  <1>1. Held(t)' = Held(t)
    BY DEF Held, StaysAt
  <1>2. Alone' /\ \A u \in Thread : Holds(u)'
    BY <1>1, LocksSame DEF StaysAt
  <1>3. TypeOK'
    BY DEF IInv, TypeOK, StaysAt, locks, Points
  <1>4. Shape(t)'
    BY DEF IInv, Local, Shape, StaysAt
  <1> QED
    BY <1>2, <1>3, <1>4, SoundStep DEF Sound, StaysAt

LEMMA CallSound ==
  ASSUME IInv, NEW t \in Thread, NEW o \in Ops(GenLevels), Call(t, o), older[t] = Null
  PROVE  IInv'
  <1>1. /\ o \in OpType
        /\ o.name = "insert" => o.level \in Level
    <2>1. 0 \in Level /\ GenLevels = Level
      BY CallAssumption DEF GenLevels, Level
    <2>2. CASE o \in [name : {"get", "remove"}, key : Key, val : {NoValue},
                      level : {0}, len : {0}]
      BY <2>1, <2>2 DEF OpType
    <2>3. CASE o \in [name : {"insert"}, key : Key, val : Value, level : GenLevels,
                      len : {0}]
      BY <2>1, <2>3 DEF OpType
    <2>4. CASE o \in [name : {"range"}, key : Key, val : {NoValue}, level : {0},
                      len : Length]
      BY <2>1, <2>4, CallAssumption DEF OpType
    <2> QED
      BY <2>2, <2>3, <2>4 DEF Ops
  <1>2. /\ pc[t] = "idle" /\ pc'[t] = "top" /\ op'[t] = o /\ height'[t] = MaxHeight - 1
        /\ mode'[t] = FirstMode(o)
    BY DEF Call, Goto, IInv, TypeOK
  <1>3. StaysAt(t)
    BY <1>2 DEF StaysAt, Call, Goto, Others, IInv, TypeOK, UsesPrev, UsesCur
  <1>4. /\ HeapTypeOK' /\ op' \in [Thread -> OpType] /\ height' \in [Thread -> Level]
        /\ mode' \in [Thread -> {"shared", "exclusive"}] /\ reply' \in [Thread -> ReplyType]
    <2>1. MaxHeight - 1 \in Level
      BY CallAssumption DEF Level
    <2> QED
      BY <1>1, <2>1 DEF Call, FirstMode, IInv, TypeOK, HeapTypeOK, heap
  <1>5. pc' \in [Thread -> Points]
    BY DEF Call, Goto, IInv, TypeOK, Points
  <1>6. Held(t) = {}
    BY <1>2 DEF Held, IInv, TypeOK, Pointer, Local, Shape, UsesPrev, UsesCur
  <1>7. ModeInv(t)'
    BY <1>2 DEF ModeInv, FirstMode
  <1> QED
    BY <1>3, <1>4, <1>5, <1>6, <1>7, StaySound

LEMMA ReturnSound ==
  ASSUME IInv, NEW t \in Thread, Return(t), older[t] = Null
  PROVE  IInv'
  <1>1. /\ pc[t] = "ret" /\ pc'[t] = "idle" /\ op'[t] = IdleOp
    BY DEF Return, Goto, IInv, TypeOK
  <1>2. StaysAt(t)
    BY <1>1 DEF StaysAt, Return, Goto, Answer, Others, IInv, TypeOK, UsesPrev, UsesCur
  <1>3. /\ HeapTypeOK' /\ op' \in [Thread -> OpType] /\ height' \in [Thread -> Level]
        /\ mode' \in [Thread -> {"shared", "exclusive"}] /\ reply' \in [Thread -> ReplyType]
    <2>1. 0 \in Level /\ IdleOp \in OpType /\ NoReply \in ReplyType
      BY CallAssumption DEF Level, IdleOp, OpType, NoReply, ReplyType
    <2> QED
      BY <2>1 DEF Return, Answer, IInv, TypeOK, HeapTypeOK, heap
  <1>4. pc' \in [Thread -> Points]
    BY DEF Return, Goto, IInv, TypeOK, Points
  <1>5. Held(t) = {}
    BY <1>1 DEF Held, IInv, TypeOK, Pointer, Local, Shape, UsesPrev, UsesCur
  <1>6. ModeInv(t)'
    BY <1>1 DEF ModeInv, IdleOp
  <1> QED
    BY <1>2, <1>3, <1>4, <1>5, <1>6, StaySound

LEMMA LeaveLevelSound ==
  ASSUME IInv, NEW t \in Thread, LeaveLevel(t)
  PROVE  IInv'
  <1>1. /\ pc[t] = "next" /\ pc'[t] = "down"
        /\ UNCHANGED <<heap, locks, op, locals, reply>>
    BY DEF LeaveLevel, AtNext, Goto, IInv, TypeOK
  <1>2. StaysAt(t)
    BY <1>1 DEF StaysAt, LeaveLevel, Goto, Others, locals, IInv, TypeOK, UsesPrev, UsesCur
  <1>3. HeapTypeOK' /\ HeldMode(t)' = HeldMode(t) /\ ModeInv(t)'
    BY <1>1 DEF HeldMode, ModeInv, locals, heap, IInv, TypeOK, HeapTypeOK, Local
  <1>4. pc' \in [Thread -> Points]
    BY DEF LeaveLevel, Goto, IInv, TypeOK, Points
  <1> QED
    BY <1>1, <1>2, <1>3, <1>4, StaySound DEF locals, IInv, TypeOK

LEMMA LandOnSound ==
  ASSUME IInv, NEW t \in Thread, LandOn(t), op[t].name = "range"
  PROVE  IInv'
  <1>1. /\ pc[t] = "tower" /\ pc'[t] = "emit"
        /\ UNCHANGED <<heap, locks, op, locals, reply>>
    BY DEF LandOn, AtTowerFoot, Goto, IInv, TypeOK
  <1>2. StaysAt(t)
    BY <1>1 DEF StaysAt, LandOn, Goto, Others, locals, IInv, TypeOK, UsesPrev, UsesCur
  <1>3. HeapTypeOK' /\ HeldMode(t)' = HeldMode(t) /\ ModeInv(t)'
    BY <1>1 DEF HeldMode, ModeInv, locals, heap, IInv, TypeOK, HeapTypeOK, Local
  <1>4. pc' \in [Thread -> Points]
    BY DEF LandOn, Goto, IInv, TypeOK, Points
  <1> QED
    BY <1>1, <1>2, <1>3, <1>4, StaySound DEF locals, IInv, TypeOK

LEMMA UnlinkUpperSound ==
  ASSUME IInv, NEW t \in Thread, UnlinkUpper(t)
  PROVE  IInv'
  <1>1. /\ pc[t] = "unlink" /\ pc'[t] = "rmDown" /\ next' = Skip(prev[t], cur[t])
        /\ UNCHANGED <<key, val, down, alive, locks, op, locals, reply>>
    BY DEF UnlinkUpper, Goto, IInv, TypeOK
  <1>2. StaysAt(t)
    BY <1>1 DEF StaysAt, UnlinkUpper, Goto, Others, locals, IInv, TypeOK, UsesPrev, UsesCur
  <1>3. HeldMode(t)' = HeldMode(t) /\ ModeInv(t)'
    BY <1>1 DEF HeldMode, ModeInv, locals, IInv, Local
  <1>4. HeapTypeOK'
    <2>1. cur[t] \in Node
      BY <1>1 DEF IInv, Local, Shape, UsesCur
    <2> QED
      BY <1>1, <2>1 DEF Skip, IInv, TypeOK, HeapTypeOK
  <1>5. pc' \in [Thread -> Points]
    BY DEF UnlinkUpper, Goto, IInv, TypeOK, Points
  <1> QED
    BY <1>1, <1>2, <1>3, <1>4, <1>5, StaySound DEF locals, IInv, TypeOK

\* A range that has handed out one more pair still has a length to go.
LEMMA ShorterOp ==
  ASSUME NEW o \in OpType, o.len > 0
  PROVE  [o EXCEPT !.len = @ - 1] \in OpType
  BY DEF OpType

LEMMA EmitSound ==
  ASSUME IInv, NEW t \in Thread, Emit(t), op[t].name = "range"
  PROVE  IInv'
  <1>1. /\ pc[t] = "emit" /\ pc'[t] = "step" /\ cur[t] \in Node
        /\ UNCHANGED <<heap, locks, locals>>
    BY DEF Emit, Goto, IInv, TypeOK, Local, Shape, UsesCur
  <1>2. op' \in [Thread -> OpType] /\ op'[t].name = "range"
    <2>1. op[t] \in OpType /\ op[t].len > 0
      BY DEF Emit, IInv, TypeOK
    <2>2. [op[t] EXCEPT !.len = @ - 1] \in OpType
      BY <2>1, ShorterOp
    <2> QED
      BY <2>2 DEF Emit, IInv, TypeOK, OpType
  <1>3. StaysAt(t)
    BY <1>1 DEF StaysAt, Emit, Goto, Others, locals, IInv, TypeOK, UsesPrev, UsesCur
  <1>4. HeapTypeOK' /\ HeldMode(t)' = HeldMode(t) /\ ModeInv(t)'
    BY <1>1, <1>2 DEF HeldMode, ModeInv, locals, heap, IInv, TypeOK, HeapTypeOK, Local
  <1>5. reply' \in [Thread -> ReplyType]
    BY <1>1 DEF Emit, Answer, IInv, TypeOK, HeapTypeOK, ReplyType
  <1>6. pc' \in [Thread -> Points]
    BY DEF Emit, Goto, IInv, TypeOK, Points
  <1> QED
    BY <1>1, <1>2, <1>3, <1>4, <1>5, <1>6, StaySound DEF locals, IInv, TypeOK

-----------------------------------------------------------------------------
(* The same for the steps that link and delete nodes.                      *)

\* Every node a thread has is allocated.
LEMMA HeldLive ==
  ASSUME NEW at \in [Node -> Level], NEW on \in SUBSET Node, IInv, SInv(at, on), NEW t \in Thread
  PROVE  Held(t) \subseteq alive
  <1>1. Shape(t) /\ ThreadInv(at, on, t) /\ on \subseteq alive
    BY DEF IInv, Local, SInv, ListInv
  <1>2. prev[t] \in Node => prev[t] \in alive
    BY <1>1 DEF Shape, ThreadInv, PrevInv
  <1>3. cur[t] \in Node => cur[t] \in alive
    <2>1. pc[t] \in {"unlink", "seek"} => next[prev[t]] \in alive
      BY NextOfPrev DEF UsesPrev
    <2>2. pc[t] = "rmDown" => cur[t] \in alive
      BY <1>1 DEF ThreadInv, CurInv, Leaving
    <2>3. pc[t] \in {"tower", "emit", "step"} => cur[t] \in alive
      BY <1>1 DEF ThreadInv, CurInv
    <2>4. pc[t] \in {"unlink", "seek"} => cur[t] = next[prev[t]]
      BY <1>1 DEF ThreadInv, CurInv
    <2> QED
      BY <1>1, <2>1, <2>2, <2>3, <2>4 DEF Shape, UsesCur
  <1>4. older[t] # Null => older[t] \in alive
    BY <1>1 DEF ThreadInv, OlderInv
  <1> QED
    BY <1>2, <1>3, <1>4 DEF Held, IInv, TypeOK, Pointer

\* So nobody has the mutex of a new node.
LEMMA NewIsFree ==
  ASSUME NEW at \in [Node -> Level], NEW on \in SUBSET Node, IInv, SInv(at, on),
         NEW n \in Node, n \notin alive
  PROVE  owner[n] = NoThread /\ shared[n] = {}
  <1>1. \A u \in Thread : n \notin Held(u)
    BY HeldLive
  <1>2. \A u \in Thread : owner[n] # u /\ u \notin shared[n]
    BY <1>1 DEF IInv, Local, Holds
  <1> QED
    BY <1>2 DEF IInv, TypeOK

LEMMA JoinTowerSound ==
  ASSUME NEW at \in [Node -> Level], NEW on \in SUBSET Node, IInv, SInv(at, on), NEW t \in Thread,
         JoinTower(t), op[t].name = "insert"
  PROVE  IInv'
  <1>1. PICK n : n = next[prev[t]]
    OBVIOUS
  <1>2. /\ pc[t] = "next" /\ CanLock(n, mode[t]) /\ Stand(t, "tower", Null, n)
        /\ Relock(t, {n}, mode[t], {prev[t], older[t]}, mode[t])
        /\ down' = Under(older[t], n) /\ older' = [older EXCEPT ![t] = Null]
        /\ UNCHANGED <<key, val, next, alive, op, height, mode, reply>>
    BY <1>1 DEF JoinTower, AtNext
  <1>3. /\ n \in on /\ n \in alive /\ n \in Node /\ n # prev[t]
        /\ prev[t] \in Node /\ cur[t] \notin Node
    <2>1. Left(key, prev[t], n) /\ KeysOf(key, alive) /\ prev[t] \in alive /\ n \in on /\ n \in alive
      BY <1>1, <1>2, NextOfPrev DEF UsesPrev
    <2>2. prev[t] \in Node /\ cur[t] \notin Node
      BY <1>2 DEF IInv, Local, Shape, UsesPrev, UsesCur
    <2> QED
      BY <2>1, <2>2, Order DEF IInv, TypeOK, HeapTypeOK
  <1>4. /\ HeldMode(t) = mode[t] /\ mode[t] \in {"shared", "exclusive"}
        /\ op[t].level >= height[t] => mode[t] = "exclusive"
    BY <1>2, Exclusive DEF IInv, TypeOK
  <1>5. n # older[t]
    <2>1. older[t] # Null => HeldMode(t) = "exclusive"
      BY Exclusive
    <2> QED
      BY <1>2, <1>3, <2>1, Locked, HeapAssumption
  <1>6. /\ Others(t) /\ pc'[t] = "tower" /\ prev'[t] = Null /\ cur'[t] = n /\ older'[t] = Null
        /\ op'[t] = op[t] /\ mode'[t] = mode[t] /\ height'[t] = height[t]
    BY <1>2 DEF Stand, Goto, Others, IInv, TypeOK
  <1>7. HeldMode(t)' = mode[t]
    <2>1. height[t] = 0 => op[t].level >= height[t]
      BY DEF IInv, TypeOK, OpType, Level
    <2> QED
      BY <1>4, <1>6, <2>1 DEF HeldMode
  <1>8. Swaps(t, {n}, mode[t], {prev[t], older[t]})
    <2>1. owner[n] = NoThread /\ (mode[t] = "exclusive" => shared[n] = {})
      BY <1>2, <1>3 DEF CanLock
    <2>2. \A x \in {prev[t], older[t]} : x \in Node => x \in Held(t) /\ x \notin {n}
      BY <1>3, <1>5, HeapAssumption DEF Held
    <2>3. Held(t)' = {n} /\ Held(t) \ {prev[t], older[t]} = {}
      BY <1>3, <1>6, HeapAssumption DEF Held, IInv, TypeOK, Pointer
    <2> QED
      BY <1>2, <1>3, <1>4, <1>7, <2>1, <2>2, <2>3 DEF Swaps
  <1>9. /\ owner' \in [Node -> Thread \cup {NoThread}]
        /\ shared' \in [Node -> SUBSET Thread]
        /\ Alone' /\ \A u \in Thread : Holds(u)'
    BY <1>4, <1>6, <1>8, RelockSound
  <1>10. TypeOK'
    <2>1. HeapTypeOK'
      BY <1>2, <1>3 DEF Under, IInv, TypeOK, HeapTypeOK, Pointer
    <2>2. /\ pc' \in [Thread -> Points] /\ prev' \in [Thread -> Pointer]
          /\ cur' \in [Thread -> Pointer] /\ older' \in [Thread -> Pointer]
      BY <1>2, <1>3 DEF Stand, Goto, IInv, TypeOK, Pointer, Points
    <2> QED
      BY <1>2, <1>9, <2>1, <2>2 DEF IInv, TypeOK, Points
  <1>11. Shape(t)' /\ ModeInv(t)'
    BY <1>3, <1>6, HeapAssumption DEF Shape, ModeInv, UsesPrev, UsesCur
  <1> QED
    BY <1>6, <1>9, <1>10, <1>11, SoundStep DEF Sound

LEMMA DeleteUpperSound ==
  ASSUME NEW at \in [Node -> Level], NEW on \in SUBSET Node, IInv, SInv(at, on), NEW t \in Thread,
         DeleteUpper(t), op[t].name = "remove"
  PROVE  IInv'
  <1>1. PICK n : n = down[prev[t]]
    OBVIOUS
  <1>2. /\ pc[t] = "rmDown" /\ CanLock(n, "exclusive") /\ Stand(t, "rmNext", n, Null)
        /\ Relock(t, {n}, "exclusive", {cur[t], prev[t]}, "exclusive")
        /\ Destroy(cur[t], next) /\ height' = [height EXCEPT ![t] = @ - 1]
        /\ UNCHANGED <<op, older, mode, reply>>
    BY <1>1 DEF DeleteUpper
  <1>3. /\ prev[t] \in Node /\ cur[t] \in Node /\ older[t] = Null
        /\ HeldMode(t) = "exclusive" /\ mode[t] = "exclusive"
    BY <1>2, Exclusive, NothingOlder DEF IInv, Local, Shape, UsesPrev, UsesCur
  <1>4. n \in alive /\ n \in Node /\ height[t] - 1 \in Level
    <2>1. GoingDown(t) /\ height[t] \in Level /\ on \subseteq alive
      BY <1>2 DEF GoingDown, IInv, TypeOK, SInv, ListInv, ThreadInv, CurInv, Leaving
    <2>2. n \in on /\ height[t] > 0
      BY <1>1, <2>1, PlaceBelow
    <2>3. height[t] - 1 \in Level
      BY <2>1, <2>2, CallAssumption DEF Level
    <2> QED
      BY <2>1, <2>2, <2>3
  <1>5. n \notin {prev[t], cur[t], older[t]}
    BY <1>2, <1>3, <1>4, Locked
  <1>6. /\ Others(t) /\ pc'[t] = "rmNext" /\ prev'[t] = n /\ cur'[t] = Null /\ older'[t] = Null
        /\ op'[t] = op[t] /\ mode'[t] = "exclusive"
    BY <1>2, <1>3 DEF Stand, Goto, Others, IInv, TypeOK
  <1>7. HeldMode(t)' = "exclusive"
    BY <1>6 DEF HeldMode
  <1>8. Swaps(t, {n}, "exclusive", {cur[t], prev[t]})
    <2>1. owner[n] = NoThread /\ shared[n] = {}
      BY <1>2, <1>4 DEF CanLock
    <2>2. \A x \in {cur[t], prev[t]} : x \in Node => x \in Held(t) /\ x \notin {n}
      BY <1>5, HeapAssumption DEF Held
    <2>3. Held(t)' = {n} /\ Held(t) \ {cur[t], prev[t]} = {}
      BY <1>3, <1>4, <1>6, HeapAssumption DEF Held
    <2> QED
      BY <1>2, <1>3, <1>4, <1>7, <2>1, <2>2, <2>3 DEF Swaps
  <1>9. /\ owner' \in [Node -> Thread \cup {NoThread}]
        /\ shared' \in [Node -> SUBSET Thread]
        /\ Alone' /\ \A u \in Thread : Holds(u)'
    BY <1>6, <1>8, RelockSound
  <1>10. TypeOK'
    <2>1. HeapTypeOK'
      BY <1>2, <1>3, DestroyTyped DEF IInv, TypeOK, HeapTypeOK
    <2>2. /\ pc' \in [Thread -> Points] /\ prev' \in [Thread -> Pointer]
          /\ cur' \in [Thread -> Pointer] /\ height' \in [Thread -> Level]
      BY <1>2, <1>4 DEF Stand, Goto, IInv, TypeOK, Pointer, Points
    <2> QED
      BY <1>2, <1>9, <2>1, <2>2 DEF IInv, TypeOK, Points
  <1>11. Shape(t)' /\ ModeInv(t)'
    BY <1>4, <1>6, HeapAssumption DEF Shape, ModeInv, UsesPrev, UsesCur, IInv, Local
  <1> QED
    BY <1>6, <1>9, <1>10, <1>11, SoundStep DEF Sound

LEMMA LinkNewSound ==
  ASSUME NEW at \in [Node -> Level], NEW on \in SUBSET Node, IInv, SInv(at, on), NEW t \in Thread,
         LinkNew(t), op[t].name = "insert"
  PROVE  IInv'
  <1>1. PICK n \in Node : n = Fresh(op[t].key, height[t]) /\ n \notin alive
    BY DEF LinkNew, Fresh, Vacant
  <1>2. PICK kept : kept = IF height[t] = 0 THEN {} ELSE {n}
    OBVIOUS
  <1>3. /\ pc[t] = "next" /\ Goto(t, "down")
        /\ Create(n, op[t].key, height[t], op[t].val)
        /\ next' = Behind(prev[t], n) /\ down' = Under(older[t], n)
        /\ Relock(t, kept, mode[t], {older[t]}, mode[t])
        /\ older' = [older EXCEPT ![t] = IF height[t] = 0 THEN Null ELSE n]
        /\ UNCHANGED <<op, prev, cur, height, mode, reply>>
    BY <1>1, <1>2 DEF LinkNew, AtNext
  <1>4. /\ prev[t] \in Node /\ cur[t] \notin Node /\ prev[t] \in alive
        /\ prev[t] # older[t] /\ n # prev[t] /\ n # older[t]
    <2>1. prev[t] \in Node /\ cur[t] \notin Node
      BY <1>3 DEF IInv, Local, Shape, UsesPrev, UsesCur
    <2>2. prev[t] # older[t]
      BY <2>1, Separate
    <2>3. prev[t] \in alive /\ (older[t] # Null => older[t] \in alive)
      BY <2>1, HeldLive, HeapAssumption DEF Held
    <2> QED
      BY <1>1, <2>1, <2>2, <2>3, HeapAssumption
  <1>5. HeldMode(t) = mode[t] /\ mode[t] \in {"shared", "exclusive"}
    BY <1>3, Exclusive DEF IInv, TypeOK
  <1>6. /\ Others(t) /\ pc'[t] = "down" /\ prev'[t] = prev[t] /\ cur'[t] = cur[t]
        /\ older'[t] = (IF height[t] = 0 THEN Null ELSE n)
        /\ op'[t] = op[t] /\ mode'[t] = mode[t] /\ height'[t] = height[t]
    BY <1>3 DEF Goto, Others, IInv, TypeOK
  <1>7. HeldMode(t)' = mode[t]
    BY <1>6 DEF HeldMode
  <1>8. Swaps(t, kept, mode[t], {older[t]})
    <2>1. owner[n] = NoThread /\ shared[n] = {}
      BY <1>1, NewIsFree
    <2>2. \A x \in {older[t]} : x \in Node => x \in Held(t) /\ x \notin kept
      BY <1>2, <1>4, HeapAssumption DEF Held
    <2>3. Held(t)' = kept \cup (Held(t) \ {older[t]})
      <3>1. Held(t) = {prev[t], cur[t], older[t]} \ {Null}
            /\ Held(t)' = {prev[t], cur[t], older'[t]} \ {Null} /\ cur[t] = Null
        BY <1>4, <1>6 DEF Held, IInv, TypeOK, Pointer
      <3> QED
        BY <1>2, <1>4, <1>6, <3>1, HeapAssumption
    <2> QED
      BY <1>2, <1>3, <1>5, <1>7, <2>1, <2>2, <2>3 DEF Swaps
  <1>9. /\ owner' \in [Node -> Thread \cup {NoThread}]
        /\ shared' \in [Node -> SUBSET Thread]
        /\ Alone' /\ \A u \in Thread : Holds(u)'
    BY <1>5, <1>6, <1>8, RelockSound
  <1>10. TypeOK'
    <2>1. /\ key' \in [Node -> Key \cup {NoKey}] /\ val' \in [Node -> Value \cup {NoValue}]
          /\ alive' \subseteq Node
      BY <1>1, <1>3 DEF Create, IInv, TypeOK, HeapTypeOK, OpType
    <2>2. next' \in [Node -> Pointer] /\ down' \in [Node -> Pointer]
      BY <1>1, <1>3, <1>4 DEF Behind, Under, IInv, TypeOK, HeapTypeOK, Pointer
    <2>3. pc' \in [Thread -> Points] /\ older' \in [Thread -> Pointer]
      BY <1>1, <1>3 DEF Goto, IInv, TypeOK, Pointer, Points
    <2> QED
      BY <1>3, <1>9, <2>1, <2>2, <2>3 DEF IInv, TypeOK, HeapTypeOK, Points
  <1>11. Shape(t)' /\ ModeInv(t)'
    BY <1>3, <1>4, <1>6 DEF Shape, ModeInv, UsesPrev, UsesCur, IInv, Local
  <1> QED
    BY <1>6, <1>9, <1>10, <1>11, SoundStep DEF Sound

-----------------------------------------------------------------------------
(* The invariant.                                                          *)

LEMMA InitIInv == Init => IInv
  <1> SUFFICES ASSUME Init PROVE IInv
    OBVIOUS
  <1> USE CallAssumption, HeapAssumption, ThreadAssumption DEF Init
  <1>1. HeapTypeOK
    <2>1. \A i \in Level \ {0} : i - 1 \in Level
      BY DEF Level
    <2>2. Sentinel \subseteq Node
      BY DEF Sentinel
    <2>3. key \in [Node -> Key \cup {NoKey}] /\ val \in [Node -> Value \cup {NoValue}]
      BY DEF HeapInit
    <2>4. next \in [Node -> Pointer] /\ alive \subseteq Node
      BY <2>2 DEF HeapInit, Pointer
    <2>5. down \in [Node -> Pointer]
      <3> SUFFICES ASSUME NEW n \in Node PROVE down[n] \in Pointer
        BY DEF HeapInit
      <3>1. ASSUME NEW i \in Level, n = Head[i] \/ n = Tail[i] PROVE down[n] \in Pointer
        BY <2>1, <3>1, EmptyList DEF Pointer
      <3>2. CASE n \notin Sentinel
        BY <3>2, EmptyMemory DEF Pointer
      <3> QED
        BY <3>1, <3>2 DEF Sentinel
    <2> QED
      BY <2>3, <2>4, <2>5 DEF HeapTypeOK
  <1>2. TypeOK
    <2>1. IdleOp \in OpType /\ NoReply \in ReplyType /\ 0 \in Level
      BY DEF IdleOp, OpType, Level, NoReply, ReplyType
    <2> QED
      BY <1>1, <2>1 DEF TypeOK, Pointer
  <1>3. Alone
    BY DEF Alone
  <1>4. ASSUME NEW t \in Thread PROVE Local(t)
    <2>1. pc[t] = "idle" /\ prev[t] = Null /\ cur[t] = Null /\ older[t] = Null
      OBVIOUS
    <2>2. Shape(t)
      BY <2>1 DEF Shape, UsesPrev, UsesCur
    <2>3. Holds(t)
      BY <2>1 DEF Holds, Held
    <2>4. ModeInv(t)
      BY DEF ModeInv, IdleOp
    <2> QED
      BY <2>2, <2>3, <2>4 DEF Local
  <1> QED
    BY <1>2, <1>3, <1>4 DEF IInv

\* A step of t writes to no node but those it has exclusively.
LEMMA StepFrame ==
  ASSUME NEW at \in [Node -> Level], NEW on \in SUBSET Node, IInv, SInv(at, on), NEW t \in Thread,
         Step(t) \/ \E o \in Ops(GenLevels) : Call(t, o)
  PROVE  Frame(t)
  <1>1. UNCHANGED heap => Frame(t)
    BY DEF heap, Frame
  <1>2. HeldMode(t) = "exclusive" =>
          /\ prev[t] \in Node => owner[prev[t]] = t
          /\ cur[t] \in Node => owner[cur[t]] = t
          /\ older[t] \in Node => owner[older[t]] = t
    BY OwnPointers
  <1>3. alive \subseteq Node /\ HeapTypeOK
    BY DEF IInv, TypeOK, HeapTypeOK
  <1>4. ASSUME LinkNew(t), op[t].name = "insert" PROVE Frame(t)
    <2>1. HeldMode(t) = "exclusive"
      BY <1>4, Exclusive DEF LinkNew, AtNext
    <2>2. PICK n : n = Fresh(op[t].key, height[t]) /\ n \notin alive
      BY <1>4 DEF LinkNew, Fresh, Vacant
    <2>3. /\ pc[t] = "next" /\ pc'[t] = "down" /\ prev[t] \in Node
          /\ Create(n, op[t].key, height[t], op[t].val)
          /\ next' = Behind(prev[t], n) /\ down' = Under(older[t], n)
      BY <1>4, <2>2 DEF LinkNew, AtNext, Goto, IInv, TypeOK, Local, Shape, UsesPrev
    <2>4. ASSUME NEW x \in alive, x # prev[t], x # older[t]
          PROVE  x \in alive' /\ UNCHANGED <<key[x], val[x], next[x], down[x]>>
      BY <1>3, <2>2, <2>3, <2>4 DEF Create, Behind, Under, HeapTypeOK
    <2> QED
      BY <1>2, <1>3, <2>1, <2>3, <2>4 DEF Frame
  <1>5. ASSUME JoinTower(t) PROVE Frame(t)
    <2>1. /\ pc[t] = "next" /\ pc'[t] = "tower" /\ down' = Under(older[t], next[prev[t]])
          /\ UNCHANGED <<key, val, next, alive>>
      BY <1>5 DEF JoinTower, AtNext, Stand, Goto, IInv, TypeOK
    <2>2. older[t] \in Node => owner[older[t]] = t
      BY <1>2, Exclusive, HeapAssumption
    <2>3. ASSUME NEW x \in alive, x # older[t] PROVE down'[x] = down[x]
      BY <1>3, <2>1, <2>3 DEF Under
    <2> QED
      BY <1>3, <2>1, <2>2, <2>3 DEF Frame
  <1>6. ASSUME WriteValue(t), op[t].name = "insert" PROVE Frame(t)
    <2>1. owner[cur[t]] = t
      BY <1>2, <1>6, FootExclusive DEF WriteValue
    <2>2. /\ pc[t] = "tower" /\ pc'[t] = "ret" /\ val' = [val EXCEPT ![cur[t]] = op[t].val]
          /\ UNCHANGED <<key, next, down, alive>>
      BY <1>6 DEF WriteValue, AtTowerFoot, Leave, Stand, Goto, IInv, TypeOK
    <2> QED
      BY <1>3, <2>1, <2>2 DEF Frame, HeapTypeOK
  <1>7. ASSUME UnlinkUpper(t) \/ DeleteUpper(t) \/ DeleteBottom(t) PROVE Frame(t)
    <2>1. HeldMode(t) = "exclusive" /\ prev[t] \in Node /\ cur[t] \in Node
      BY <1>7, Exclusive
      DEF UnlinkUpper, DeleteUpper, DeleteBottom, Removing, Leaving, IInv, Local, Shape,
          UsesPrev, UsesCur
    <2>2. owner[prev[t]] = t /\ owner[cur[t]] = t
      BY <1>2, <2>1
    <2>3. pc'[t] # pc[t]
      BY <1>7 DEF UnlinkUpper, DeleteUpper, DeleteBottom, Leave, Stand, Goto, IInv, TypeOK
    <2>4. ASSUME NEW x \in alive, x # prev[t], x # cur[t]
          PROVE  x \in alive' /\ UNCHANGED <<key[x], val[x], next[x], down[x]>>
      BY <1>3, <1>7, <2>4 DEF UnlinkUpper, DeleteUpper, DeleteBottom, Destroy, Skip, HeapTypeOK
    <2> QED
      BY <2>2, <2>3, <2>4 DEF Frame
  <1>8. ASSUME Get(t) PROVE UNCHANGED heap
    BY <1>8 DEF Get, Enter, MoveRight, LeaveLevel, ArriveBelow, OffTheBottom, EnterTower,
       DescendTower, ReadValue
  <1>9. ASSUME Insert(t), ~LinkNew(t), ~JoinTower(t), ~WriteValue(t) PROVE UNCHANGED heap
    BY <1>9 DEF Insert, Enter, MoveRight, LeaveLevel, ArriveBelow, OffTheBottom, DescendTower
  <1>10. ASSUME Remove(t), ~UnlinkUpper(t), ~DeleteUpper(t), ~DeleteBottom(t) PROVE UNCHANGED heap
    BY <1>10 DEF Remove, Enter, MoveRight, LeaveLevel, ArriveBelow, OffTheBottom, RemoveFound,
       ResumeBelow, SeekRight
  <1>11. ASSUME RangeCall(t) PROVE UNCHANGED heap
    BY <1>11 DEF RangeCall, Enter, MoveRight, LeaveLevel, ArriveBelow, LandAfter, EnterTower,
       DescendTower, LandOn, Emit, StepRight, RangeDone
  <1>12. ASSUME Return(t) \/ \E o \in Ops(GenLevels) : Call(t, o) PROVE UNCHANGED heap
    BY <1>12 DEF Return, Call
  <1>13. Insert(t) => op[t].name = "insert"
    BY DEF Insert
  <1> QED
    BY <1>1, <1>4, <1>5, <1>6, <1>7, <1>8, <1>9, <1>10, <1>11, <1>12, <1>13 DEF Step

\* Every step of a thread keeps the locks in order, the lists being so.
LEMMA StepSound ==
  ASSUME NEW at \in [Node -> Level], NEW on \in SUBSET Node, IInv, SInv(at, on), NEW t \in Thread,
         Step(t) \/ \E o \in Ops(GenLevels) : Call(t, o)
  PROVE  IInv'
  <1>1. op[t] \in OpType
    BY DEF IInv, TypeOK
  <1>2. ASSUME Get(t) PROVE IInv'
    <2>1. op[t].name = "get" /\ <<"get", op[t].key, NoValue>> \in ReplyType
      BY <1>1, <1>2 DEF OpType, ReplyType, Get
    <2> QED
      BY <1>2, <2>1, EnterSound, MoveRightSound, LeaveLevelSound, ArriveBelowSound,
         OffTheBottomSound, EnterTowerSound, DescendTowerSound, ReadValueSound DEF Get
  <1>3. ASSUME Insert(t) PROVE IInv'
    <2>1. op[t].name = "insert" /\ NoReply \in ReplyType
      BY <1>3 DEF NoReply, ReplyType, Insert
    <2> QED
      BY <1>3, <2>1, EnterSound, MoveRightSound, LeaveLevelSound, LinkNewSound,
         ArriveBelowSound, OffTheBottomSound, JoinTowerSound, DescendTowerSound,
         WriteValueSound DEF Insert
  <1>4. ASSUME Remove(t) PROVE IInv'
    <2>1. op[t].name = "remove" /\ <<"absent", op[t].key, NoValue>> \in ReplyType
      BY <1>1, <1>4 DEF OpType, ReplyType, Remove
    <2> QED
      BY <1>4, <2>1, EnterSound, MoveRightSound, LeaveLevelSound, ArriveBelowSound,
         OffTheBottomSound, RemoveFoundSound, UnlinkUpperSound, DeleteUpperSound,
         DeleteBottomSound, ResumeBelowSound, SeekRightSound DEF Remove
  <1>5. ASSUME RangeCall(t) PROVE IInv'
    <2>1. op[t].name = "range"
      BY <1>5 DEF RangeCall
    <2> QED
      BY <1>5, <2>1, EnterSound, MoveRightSound, LeaveLevelSound, ArriveBelowSound, LandAfterSound,
         EnterTowerSound, DescendTowerSound, LandOnSound, EmitSound, StepRightSound,
         RangeDoneSound DEF RangeCall
  <1>6. ASSUME Return(t) \/ \E o \in Ops(GenLevels) : Call(t, o) PROVE IInv'
    <2>1. older[t] = Null
      BY <1>6, NothingOlder DEF Return, Call
    <2> QED
      BY <1>6, <2>1, CallSound, ReturnSound
  <1> QED
    BY <1>2, <1>3, <1>4, <1>5, <1>6 DEF Step

\* The constructor builds empty levels.
LEMMA InitStructure == Init => StructureInv
  <1> SUFFICES ASSUME Init PROVE StructureInv
    OBVIOUS
  <1>1. PICK at \in [Node -> Level] :
           /\ ListInv(at, Sentinel) /\ DownInv(at, Sentinel)
           /\ \A n \in alive : down[n] = Null => at[n] = 0
    BY EmptyHeap DEF Init
  <1>2. alive = Sentinel /\ Sentinel \in SUBSET Node
    BY HeapAssumption DEF Init, HeapInit, Sentinel
  <1>3. TowerInv(at, Sentinel)
    BY <1>1, <1>2 DEF DownInv, TowerInv
  <1>4. \A t \in Thread : pc[t] = "idle" /\ older[t] = Null
    BY DEF Init
  <1>5. ASSUME NEW t \in Thread PROVE ThreadInv(at, Sentinel, t)
    BY <1>4 DEF ThreadInv, CallInv, PrevInv, OlderInv, CurInv, FoundBelow, NothingBetween,
       TowersPassed, Seeking, UsesPrev, Removing, Leaving
  <1>6. ASSUME NEW t \in Thread, NEW u \in Thread PROVE InFront(t, u)
    BY <1>4 DEF InFront, Seeking, UsesPrev
  <1>7. SInv(at, Sentinel)
    BY <1>1, <1>3, <1>5, <1>6 DEF SInv
  <1> QED
    BY <1>2, <1>7 DEF StructureInv

\* Every step of a thread keeps the structure.
LEMMA StepKeeps ==
  ASSUME IInv, StructureInv, NEW t \in Thread, Step(t) \/ \E o \in Ops(GenLevels) : Call(t, o)
  PROVE  StructureInv'
  <1>1. PICK at \in [Node -> Level], on \in SUBSET Node : SInv(at, on)
    BY DEF StructureInv
  <1>2. Frame(t)
    BY <1>1, StepFrame
  <1>3. ASSUME SInv(at, on)' PROVE StructureInv'
    BY <1>3 DEF StructureInv
  <1>4. ASSUME Get(t) PROVE StructureInv'
    <2>1. op[t].name = "get"
      BY <1>4 DEF Get
    <2>2. SInv(at, on)'
      BY <1>1, <1>4, <2>1, EnterKeeps, MoveRightKeeps, LeaveLevelKeeps, ArriveBelowKeeps,
         OffTheBottomKeeps, EnterTowerKeeps, DescendTowerKeeps, ReadValueKeeps DEF Get
    <2> QED
      BY <1>3, <2>2
  <1>5. ASSUME Insert(t), ~LinkNew(t) PROVE StructureInv'
    <2>1. SInv(at, on)'
      BY <1>1, <1>2, <1>5, EnterKeeps, MoveRightKeeps, LeaveLevelKeeps, ArriveBelowKeeps,
         OffTheBottomKeeps, JoinTowerKeeps, DescendTowerKeeps, ReadValueKeeps DEF Insert
    <2> QED
      BY <1>3, <2>1
  <1>6. ASSUME Insert(t), LinkNew(t) PROVE StructureInv'
    <2>1. op[t].name = "insert" /\ pc[t] = "next"
      BY <1>6 DEF Insert, LinkNew, AtNext
    <2>2. PICK n \in Node : n = Fresh(op[t].key, height[t])
      BY <1>6 DEF LinkNew, Fresh, Vacant
    <2>3. PICK at2 \in [Node -> Level], on2 \in SUBSET Node : Grows(at, on, at2, on2, t, n)
      <3>1. height[t] \in Level
        <4>1. prev[t] \in on /\ at[prev[t]] = height[t]
          BY <1>1, <2>1, NextOfPrev DEF UsesPrev
        <4> QED
          BY <4>1
      <3>2. [at EXCEPT ![n] = height[t]] \in [Node -> Level] /\ on \cup {n} \in SUBSET Node
        BY <3>1
      <3>3. Grows(at, on, [at EXCEPT ![n] = height[t]], on \cup {n}, t, n)
        BY DEF Grows, Grown
      <3> QED
        BY <3>2, <3>3
    <2>4. SInv(at2, on2)'
      BY <1>1, <1>2, <1>6, <2>1, <2>2, <2>3, LinkNewKeeps
    <2> QED
      BY <2>4 DEF StructureInv
  <1>7. ASSUME Remove(t), ~UnlinkUpper(t), ~DeleteBottom(t) PROVE StructureInv'
    <2>1. op[t].name = "remove"
      BY <1>7 DEF Remove
    <2>2. SInv(at, on)'
      BY <1>1, <1>2, <1>7, <2>1, EnterKeeps, MoveRightKeeps, LeaveLevelKeeps, ArriveBelowKeeps,
         OffTheBottomKeeps, RemoveFoundKeeps, DeleteUpperKeeps, ResumeBelowKeeps, SeekRightKeeps
      DEF Remove
    <2> QED
      BY <1>3, <2>2
  <1>8. ASSUME UnlinkUpper(t) \/ DeleteBottom(t) PROVE StructureInv'
    <2>1. PICK on2 \in SUBSET Node : on2 = on \ {cur[t]}
      OBVIOUS
    <2>2. SInv(at, on2)'
      BY <1>1, <1>2, <1>8, <2>1, UnlinkUpperKeeps, DeleteBottomKeeps
    <2> QED
      BY <2>2 DEF StructureInv
  <1>9. ASSUME RangeCall(t) PROVE StructureInv'
    <2>1. op[t].name = "range"
      BY <1>9 DEF RangeCall
    <2>2. SInv(at, on)'
      BY <1>1, <1>9, <2>1, EnterKeeps, MoveRightKeeps, LeaveLevelKeeps, ArriveBelowKeeps,
         LandAfterKeeps, EnterTowerKeeps, DescendTowerKeeps, LandOnKeeps, EmitKeeps,
         StepRightKeeps, RangeDoneKeeps DEF RangeCall
    <2> QED
      BY <1>3, <2>2
  <1>10. ASSUME Return(t) \/ \E o \in Ops(GenLevels) : Call(t, o) PROVE StructureInv'
    <2>1. SInv(at, on)'
      BY <1>1, <1>10, ReturnKeeps, CallKeeps
    <2> QED
      BY <1>3, <2>1
  <1> QED
    BY <1>4, <1>5, <1>6, <1>7, <1>8, <1>9, <1>10 DEF Step

\* Every step keeps the invariant; neither half of it is kept without the
\* other.
LEMMA NextInvariant == IInv /\ StructureInv /\ [Next]_vars => (IInv /\ StructureInv)'
  <1> SUFFICES ASSUME IInv, StructureInv, [Next]_vars PROVE IInv' /\ StructureInv'
    OBVIOUS
  <1>1. PICK at \in [Node -> Level], on \in SUBSET Node : SInv(at, on)
    BY DEF StructureInv
  <1>2. CASE Next
    BY <1>1, <1>2, StepSound, StepKeeps DEF Next
  <1>3. CASE UNCHANGED vars
    <2>1. SInv(at, on)'
      BY <1>1, <1>3 DEF vars, heap, locals, SInv, ListInv, TowerInv, ThreadInv, InFront, CallInv,
         PrevInv, OlderInv, CurInv, FoundBelow, NothingBetween, TowersPassed
    <2>2. \A t \in Thread : Local(t)' <=> Local(t)
      BY <1>3 DEF vars, heap, locals, locks, Local, Shape, ModeInv, Holds, Held, HeldMode
    <2>3. IInv'
      BY <1>3, <2>2 DEF vars, heap, locals, locks, IInv, TypeOK, HeapTypeOK, Alone
    <2> QED
      BY <2>1, <2>3 DEF StructureInv
  <1> QED
    BY <1>2, <1>3

\* So it holds at every moment.
LEMMA AlwaysInvariant == Spec => [](IInv /\ StructureInv)
  <1>1. Init => IInv /\ StructureInv
    BY InitIInv, InitStructure
  <1> QED
    BY <1>1, NextInvariant, PTL DEF Spec

-----------------------------------------------------------------------------
(* The theorems.                                                           *)

\* Every variable keeps its type; in particular no call asks for a level
\* below the lowest.
THEOREM TypeCorrect == Spec => []TypeOK
  BY AlwaysInvariant, PTL DEF IInv

\* At every moment a thread has the mutexes of exactly the nodes its pointers
\* name, in the mode its unlock() will be of, and none outside a call; and
\* whoever has one exclusively has it alone.
THEOREM LockDiscipline == Spec => []LocksHeld
  <1>1. IInv /\ StructureInv => LocksHeld
    <2> SUFFICES ASSUME IInv, StructureInv PROVE LocksHeld
      OBVIOUS
    <2>1. PICK at \in [Node -> Level], on \in SUBSET Node : SInv(at, on)
      BY DEF StructureInv
    <2>2. ASSUME NEW t \in Thread
          PROVE  /\ {n \in Node : owner[n] = t} = IF HeldMode(t) = "exclusive" THEN Held(t) ELSE {}
                 /\ {n \in Node : t \in shared[n]} = IF HeldMode(t) = "shared" THEN Held(t) ELSE {}
      <3>1. Held(t) \subseteq Node
        BY DEF Held, IInv, TypeOK, Pointer
      <3> QED
        BY <3>1 DEF IInv, Local, Holds
    <2>3. ASSUME NEW t \in Thread, pc[t] \in {"idle", "top", "ret"} PROVE Held(t) = {}
      <3>1. prev[t] \notin Node /\ cur[t] \notin Node /\ older[t] = Null
        BY <2>1, <2>3, NothingOlder DEF IInv, Local, Shape, UsesPrev, UsesCur
      <3> QED
        BY <3>1 DEF Held, IInv, TypeOK, Pointer
    <2> QED
      BY <2>2, <2>3 DEF LocksHeld, IInv, Alone
  <1> QED
    BY <1>1, AlwaysInvariant, PTL

\* No thread changes or deletes a node it has not locked exclusively.
THEOREM WritesAreGuarded == Spec => WritesGuarded
  <1> DEFINE Guarded ==
        \A n \in alive :
          \/ n \in alive' /\ UNCHANGED <<key[n], val[n], next[n], down[n]>>
          \/ \E t \in Thread : owner[n] = t /\ pc'[t] # pc[t]
  <1>1. IInv /\ StructureInv /\ [Next]_vars => [Guarded]_vars
    <2> SUFFICES ASSUME IInv, StructureInv, Next PROVE Guarded
      OBVIOUS
    <2>1. PICK t \in Thread : Step(t) \/ \E o \in Ops(GenLevels) : Call(t, o)
      BY DEF Next
    <2>2. Frame(t)
      BY <2>1, StepFrame DEF StructureInv
    <2> QED
      BY <2>2 DEF Frame
  <1> QED
    BY <1>1, AlwaysInvariant, PTL DEF Spec, WritesGuarded

\* delete in remove pulls nothing away from under anyone: no link of the
\* skiplist and no pointer of a running call leads to a deleted node, and no
\* null key is dereferenced.
THEOREM MemoryIsSafe == Spec => []MemorySafe
  <1>1. IInv /\ StructureInv => MemorySafe
    <2> SUFFICES ASSUME IInv, StructureInv PROVE MemorySafe
      OBVIOUS
    <2>1. PICK at \in [Node -> Level], on \in SUBSET Node : SInv(at, on)
      BY DEF StructureInv
    <2>2. on \subseteq alive /\ Sentinel \subseteq on
      BY <2>1 DEF SInv, ListInv
    <2>3. ASSUME NEW n \in alive PROVE {next[n], down[n]} \subseteq alive \cup {Null}
      <3>1. down[n] \in alive \cup {Null}
        BY <2>1, <2>2 DEF SInv, TowerInv
      <3>2. CASE n \in on
        BY <2>1, <2>2, <3>1, <3>2 DEF SInv, ListInv
      <3>3. CASE n \notin on
        <4>1. PICK t \in Thread : pc[t] \in Leaving /\ cur[t] = n
          BY <2>1, <3>3 DEF SInv, TowerInv
        <4>2. next[n] = next[prev[t]]
          BY <2>1, <4>1 DEF SInv, ThreadInv, CurInv
        <4>3. next[prev[t]] \in on
          BY <2>1, <4>1, NextOfPrev DEF UsesPrev, Leaving
        <4> QED
          BY <2>2, <3>1, <4>2, <4>3
      <3> QED
        BY <3>2, <3>3
    <2>4. \A t \in Thread : Held(t) \subseteq alive
      BY <2>1, HeldLive
    <2>5. \A t \in Thread : pc[t] # "crash"
      BY <2>1 DEF SInv, ThreadInv, CallInv
    <2> QED
      BY <2>2, <2>3, <2>4, <2>5 DEF MemorySafe, LinksLive
  <1> QED
    BY <1>1, AlwaysInvariant, PTL

\* At every moment each level is a sorted list from its head to its tail, and
\* every node above the bottom level stands on the node of the same key one
\* level down, unless it is a new node whose insert has not built the lower
\* one yet, and still has it locked exclusively.
THEOREM SkiplistShape == Spec => []Structure
  <1>1. IInv /\ StructureInv => Structure
    <2> SUFFICES ASSUME IInv, NEW at \in [Node -> Level], NEW on \in SUBSET Node, SInv(at, on)
                 PROVE  Structure
      BY DEF StructureInv
    <2>1. HeapTypeOK
      BY DEF IInv, TypeOK
    <2>2. LevelsSorted
      BY <2>1, ListIsSorted DEF SInv
    <2>3. ASSUME NEW i \in Level \ {0}, NEW n \in Chain(i)
          PROVE  \/ down[n] \in Chain(i - 1) /\ key[down[n]] = key[n]
                 \/ down[n] = Null /\ \E t \in Thread : older[t] = n /\ owner[n] = t
      <3>1. i - 1 \in Level /\ i \in Int /\ i > 0
        BY CallAssumption DEF Level
      <3>2. n \in on /\ at[n] = i /\ n \in alive
        <4>1. ListInv(at, on)
          BY DEF SInv
        <4>2. Chain(i) = {m \in on : at[m] = i}
          BY <2>1, <4>1, ChainOfList
        <4> QED
          BY <4>1, <4>2 DEF ListInv
      <3>3. CASE down[n] # Null
        <4>1. down[n] \in on /\ at[n] = at[down[n]] + 1 /\ key[down[n]] = key[n]
          BY <3>2, <3>3 DEF SInv, TowerInv
        <4>2. at[down[n]] \in Int
          BY <4>1 DEF Level
        <4>3. at[down[n]] = i - 1
          BY <3>1, <3>2, <4>1, <4>2
        <4>4. ListInv(at, on)
          BY DEF SInv
        <4>5. Chain(i - 1) = {m \in on : at[m] = i - 1}
          BY <2>1, <3>1, <4>4, ChainOfList
        <4> QED
          BY <4>1, <4>3, <4>5
      <3>4. CASE down[n] = Null
        <4>1. PICK t \in Thread : older[t] = n
          BY <3>1, <3>2, <3>4 DEF SInv, TowerInv
        <4>2. owner[n] = t
          BY <3>2, <4>1, HeapAssumption, OwnPointers, Exclusive
        <4> QED
          BY <3>4, <4>1, <4>2
      <3> QED
        BY <3>3, <3>4
    <2>4. ASSUME NEW i \in Level \ {0}, NEW n \in Chain(i) PROVE n \in Node
      BY <2>1, ChainClosed DEF HeapTypeOK
    <2> QED
      BY <2>2, <2>3, <2>4 DEF Structure, Stacked
  <1> QED
    BY <1>1, AlwaysInvariant, PTL

-----------------------------------------------------------------------------
(* What the shape means to the threads.  No set of them waits for each     *)
(* other in a circle: every call locks nodes in one order, downwards and   *)
(* to the right, whichever modes it locks them in, and has only nodes that *)
(* come before the one it waits for.  Of the nodes a set of threads waits  *)
(* for one comes last; who has that one waits for none of them.            *)

\* The node below a node comes after it.
LEMMA DownIsAfter ==
  ASSUME NEW at \in [Node -> Level], NEW on \in SUBSET Node, TowerInv(at, on),
         NEW n \in alive, n \in Node, down[n] # Null
  PROVE  down[n] \in on /\ at[n] = at[down[n]] + 1 /\ After(at, n, down[n])
  <1>1. down[n] \in on /\ at[n] = at[down[n]] + 1
    BY DEF TowerInv
  <1>2. at[n] \in Int /\ at[down[n]] \in Int
    BY <1>1 DEF Level
  <1> QED
    BY <1>1, <1>2 DEF After

\* A thread that waits holds only nodes that come before the one it waits for.
LEMMA WaitsForLater ==
  ASSUME NEW at \in [Node -> Level], NEW on \in SUBSET Node, NEW t \in Thread,
         IInv, SInv(at, on), Target(t) # Null, NEW n \in Node, Has(t, n)
  PROVE  After(at, n, Target(t))
  <1>1. pc[t] \in {"top", "next", "down", "tower", "seek", "rmDown", "step", "rmNext"}
    BY DEF Target
  <1>2. n \in {prev[t], cur[t], older[t]}
    BY OwnPointers
  <1>3. Local(t) /\ ThreadInv(at, on, t) /\ ListInv(at, on) /\ TowerInv(at, on)
    BY DEF IInv, SInv
  <1>4. on \subseteq alive /\ alive \subseteq Node /\ Null \notin Node
    BY <1>3, HeapAssumption DEF ListInv, IInv, TypeOK, HeapTypeOK
  <1>5. /\ n = prev[t] => pc[t] \in UsesPrev
        /\ n = cur[t] => pc[t] \in UsesCur
        /\ n = older[t] => pc[t] \in {"next", "down"}
    BY <1>1, <1>3, <1>4 DEF Local, Shape, ThreadInv, OlderInv
  <1>6. \A m \in on : at[m] \in Int
    BY DEF Level
  <1>7. CASE pc[t] = "next"
    <2>1. prev[t] \in on /\ Target(t) = next[prev[t]] /\ at[prev[t]] = height[t]
      BY <1>3, <1>7 DEF Target, UsesPrev, ThreadInv, PrevInv
    <2>2. /\ Target(t) \in on /\ at[Target(t)] = height[t]
          /\ After(at, prev[t], Target(t))
      BY <1>3, <2>1, NextIsAfter
    <2>3. n # cur[t]
      BY <1>5, <1>7 DEF UsesCur
    <2>4. CASE n = older[t]
      <3>1. at[n] = height[t] + 1
        BY <1>3, <1>4, <1>7, <2>4 DEF ThreadInv, OlderInv
      <3> QED
        BY <1>6, <2>2, <3>1 DEF After
    <2> QED
      BY <1>2, <2>2, <2>3, <2>4
  <1>8. CASE pc[t] = "down"
    <2>1. prev[t] \in on /\ Target(t) = down[prev[t]] /\ at[prev[t]] = height[t]
      BY <1>3, <1>8 DEF Target, UsesPrev, ThreadInv, PrevInv
    <2>2. /\ Target(t) \in on /\ height[t] = at[Target(t)] + 1
          /\ After(at, prev[t], Target(t))
      BY <1>1, <1>3, <1>4, <2>1, DownIsAfter
    <2>3. n # cur[t]
      BY <1>5, <1>8 DEF UsesCur
    <2>4. CASE n = older[t]
      <3>1. at[n] = height[t]
        BY <1>3, <1>4, <1>8, <2>4 DEF ThreadInv, OlderInv
      <3> QED
        BY <1>6, <2>2, <3>1 DEF After
    <2> QED
      BY <1>2, <2>2, <2>3, <2>4
  <1>9. CASE pc[t] = "rmNext"
    <2>1. prev[t] \in on /\ Target(t) = next[prev[t]]
      BY <1>3, <1>9 DEF Target, UsesPrev, ThreadInv, PrevInv
    <2>2. n = prev[t]
      BY <1>2, <1>5, <1>9 DEF UsesCur
    <2> QED
      BY <1>1, <1>3, <2>1, <2>2, NextIsAfter
  <1>10. CASE pc[t] = "rmDown"
    <2>1. prev[t] \in on /\ Target(t) = down[prev[t]] /\ at[prev[t]] = height[t]
      BY <1>3, <1>10 DEF Target, UsesPrev, ThreadInv, PrevInv
    <2>2. /\ Target(t) \in on /\ height[t] = at[Target(t)] + 1
          /\ After(at, prev[t], Target(t))
      BY <1>1, <1>3, <1>4, <2>1, DownIsAfter
    <2>3. n # older[t]
      BY <1>5, <1>10
    <2>4. CASE n = cur[t]
      <3>1. at[n] = height[t]
        BY <1>3, <1>10, <2>4 DEF ThreadInv, CurInv, Leaving
      <3> QED
        BY <1>6, <2>2, <3>1 DEF After
    <2> QED
      BY <1>2, <2>2, <2>3, <2>4
  <1>11. CASE pc[t] = "tower"
    <2>1. cur[t] \in on /\ Target(t) = down[cur[t]]
      BY <1>3, <1>11 DEF Target, ThreadInv, CurInv
    <2>2. n = cur[t]
      BY <1>2, <1>5, <1>11 DEF UsesPrev
    <2> QED
      BY <1>1, <1>3, <1>4, <2>1, <2>2, DownIsAfter
  <1>12. CASE pc[t] = "step"
    <2>1. cur[t] \in on /\ Target(t) = next[cur[t]]
      BY <1>3, <1>12 DEF Target, ThreadInv, CurInv
    <2>2. n = cur[t]
      BY <1>2, <1>5, <1>12 DEF UsesPrev
    <2> QED
      BY <1>1, <1>3, <2>1, <2>2, NextIsAfter
  <1>13. CASE pc[t] = "seek"
    <2>1. /\ prev[t] \in on /\ cur[t] = next[prev[t]] /\ Target(t) = next[cur[t]]
          /\ pc[t] \in UsesCur
      BY <1>3, <1>13 DEF Target, UsesPrev, UsesCur, ThreadInv, PrevInv, CurInv
    <2>2. cur[t] \in Node
      BY <1>3, <1>13, <2>1 DEF Local, Shape
    <2>3. cur[t] \in on /\ After(at, prev[t], cur[t])
      BY <1>3, <1>4, <2>1, <2>2, NextIsAfter
    <2>4. Target(t) \in on /\ After(at, cur[t], Target(t))
      BY <1>1, <1>3, <2>1, <2>3, NextIsAfter
    <2>5. After(at, prev[t], Target(t))
      <3>1. KeysOf(key, on)
        BY <1>3, <1>4 DEF ListInv, KeysOf
      <3> QED
        BY <2>1, <2>3, <2>4, <3>1, AfterIsAnOrder
    <2>6. n # older[t]
      BY <1>5, <1>13
    <2> QED
      BY <1>2, <2>4, <2>5, <2>6
  <1>14. CASE pc[t] = "top"
    BY <1>2, <1>5, <1>14 DEF UsesPrev, UsesCur
  <1> QED
    BY <1>1, <1>7, <1>8, <1>9, <1>10, <1>11, <1>12, <1>13, <1>14

\* Among threads that wait for one another one waits for none of the others.
\* The node a thread waits for is there.
LEMMA TargetLives ==
  ASSUME NEW at \in [Node -> Level], NEW on \in SUBSET Node, NEW t \in Thread,
         IInv, SInv(at, on), Target(t) # Null
  PROVE  Target(t) \in alive
  <1>1. /\ ListInv(at, on) /\ TowerInv(at, on) /\ ThreadInv(at, on, t) /\ Shape(t)
        /\ on \subseteq alive /\ Sentinel \subseteq on
    BY DEF SInv, ListInv, IInv, Local
  <1>2. \A m \in alive : down[m] # Null => down[m] \in alive
    BY <1>1 DEF TowerInv
  <1>3. CASE pc[t] = "top"
    BY <1>1, <1>3, CallAssumption DEF Target, Sentinel, Level
  <1>4. CASE pc[t] \in {"next", "rmNext"}
    BY <1>1, <1>4, NextOfPrev DEF Target, UsesPrev
  <1>5. CASE pc[t] \in {"down", "rmDown"}
    <2>1. prev[t] \in alive
      BY <1>5, NextOfPrev DEF UsesPrev
    <2> QED
      BY <1>2, <1>5, <2>1 DEF Target
  <1>6. CASE pc[t] = "tower"
    <2>1. cur[t] \in alive
      BY <1>1, <1>6 DEF ThreadInv, CurInv
    <2> QED
      BY <1>2, <1>6, <2>1 DEF Target
  <1>7. CASE pc[t] = "seek"
    <2>1. cur[t] = next[prev[t]] /\ cur[t] \in Node
      BY <1>1, <1>7 DEF ThreadInv, CurInv, Shape, UsesCur
    <2>2. cur[t] \in on
      BY <1>7, <2>1, NextOfPrev DEF UsesPrev
    <2> QED
      BY <1>1, <1>7, <2>2 DEF Target, ListInv
  <1>8. CASE pc[t] = "step"
    BY <1>1, <1>8 DEF Target, ThreadInv, CurInv, ListInv
  <1> QED
    BY <1>3, <1>4, <1>5, <1>6, <1>7, <1>8 DEF Target

\* Among threads that wait for one another one waits for none of the others.
LEMMA SomeoneGoesOn ==
  ASSUME IInv, StructureInv, NEW S \in SUBSET Thread, S # {}
  PROVE  \E t \in S : \A u \in S : ~WaitsFor(t, u)
  <1> SUFFICES ASSUME \A t \in S : \E u \in S : WaitsFor(t, u) PROVE FALSE
    OBVIOUS
  <1>1. PICK at \in [Node -> Level], on \in SUBSET Node : SInv(at, on)
    BY DEF StructureInv
  <1> DEFINE T == {Target(t) : t \in S}
  <1>2. \A t \in S : t \in Thread /\ Target(t) # Null /\ Target(t) \in alive
    BY <1>1, TargetLives DEF WaitsFor
  <1>3. alive \in SUBSET Node /\ KeysOf(key, alive)
    BY <1>1 DEF IInv, TypeOK, HeapTypeOK, SInv, ListInv
  <1>4. T \in SUBSET alive /\ T # {}
    BY <1>2
  <1>5. PICK x \in T : \A y \in T : ~After(at, x, y)
    <2> HIDE DEF T
    <2> QED
      BY <1>3, <1>4, LastNode
  <1>6. x \in Node /\ \A t \in S : Target(t) \in T
    BY <1>3, <1>4
  <1>7. ASSUME NEW u \in S PROVE ~Has(u, x)
    BY <1>1, <1>2, <1>5, <1>6, WaitsForLater
  <1>8. ASSUME NEW t \in S, Target(t) = x PROVE TargetMode(t) = "shared"
    <2>1. PICK u \in S : WaitsFor(t, u)
      OBVIOUS
    <2> QED
      BY <1>7, <1>8, <2>1 DEF WaitsFor, Has
  <1>9. PICK t \in S : x = Target(t)
    OBVIOUS
  <1>10. PICK u \in S : WaitsFor(t, u)
    OBVIOUS
  <1>11. Target(u) = x /\ TargetMode(u) = "exclusive"
    BY <1>7, <1>9, <1>10 DEF WaitsFor, Has
  <1> QED
    BY <1>8, <1>11

\* No lock() waits for ever on account of the skiplist, whether or not its
\* mutexes let readers wait behind writers: at no moment does a set of
\* threads wait for one another in a circle, or a thread for itself.
THEOREM NoDeadlock == Spec => []NoWaitCycle
  <1>1. IInv /\ StructureInv => NoWaitCycle
    <2> SUFFICES ASSUME IInv, StructureInv, NEW S \in (SUBSET Thread) \ {{}}
                 PROVE  \E t \in S : \A u \in S : ~WaitsFor(t, u)
      BY DEF NoWaitCycle
    <2>1. S \in SUBSET Thread /\ S # {}
      OBVIOUS
    <2> QED
      BY <2>1, SomeoneGoesOn
  <1> QED
    BY <1>1, AlwaysInvariant, PTL

-----------------------------------------------------------------------------
(* When all threads have been joined, the destructor finds every node.     *)

\* Until the destructor has run the skiplist is what calls make of it; then
\* nothing is left of it, and no call begins.
ClientInv ==
  /\ phase \in {"running", "destroyed"}
  /\ phase = "running" => IInv /\ StructureInv
  /\ phase = "destroyed" => alive = {} /\ Joined

\* With no call under way every node that is allocated is linked on its level.
LEMMA AllLinked ==
  ASSUME IInv, StructureInv, Joined
  PROVE  alive \subseteq UNION {Chain(i) : i \in Level}
  <1>1. PICK at \in [Node -> Level], on \in SUBSET Node : SInv(at, on)
    BY DEF StructureInv
  <1>2. alive \in SUBSET Node /\ HeapTypeOK
    BY DEF IInv, TypeOK, HeapTypeOK
  <1>3. ASSUME NEW n \in alive PROVE n \in on
    <2>1. \A t \in Thread : pc[t] \notin Leaving
      BY DEF Joined, Leaving
    <2> QED
      BY <1>1, <2>1 DEF SInv, TowerInv
  <1>4. ASSUME NEW i \in Level PROVE Chain(i) = {n \in on : at[n] = i}
    BY <1>1, <1>2, ChainOfList DEF SInv
  <1>5. ASSUME NEW n \in alive PROVE \E i \in Level : n \in Chain(i)
    <2>1. n \in on /\ at[n] \in Level
      BY <1>2, <1>3
    <2> QED
      BY <1>4, <2>1
  <1> QED
    BY <1>5

\* A thread that is not in a call takes no step of one.
LEMMA IdleStays ==
  ASSUME NEW t \in Thread, pc[t] = "idle"
  PROVE  ~Step(t)
  <1>1. ~Return(t)
    BY DEF Return
  <1>2. ~Enter(t) /\ ~MoveRight(t) /\ ~LeaveLevel(t) /\ ~ArriveBelow(t) /\ ~EnterTower(t)
        /\ ~DescendTower(t) /\ \A r : ~OffTheBottom(t, r)
    BY DEF Enter, MoveRight, LeaveLevel, ArriveBelow, EnterTower, DescendTower, OffTheBottom, AtNext
  <1>3. ~ReadValue(t) /\ ~LinkNew(t) /\ ~JoinTower(t) /\ ~WriteValue(t)
    BY DEF ReadValue, LinkNew, JoinTower, WriteValue, AtTowerFoot, AtNext
  <1>4. ~RemoveFound(t) /\ ~UnlinkUpper(t) /\ ~DeleteUpper(t) /\ ~DeleteBottom(t)
        /\ ~ResumeBelow(t) /\ ~SeekRight(t)
    BY DEF RemoveFound, UnlinkUpper, DeleteUpper, DeleteBottom, ResumeBelow, SeekRight, AtNext
  <1>5. ~LandAfter(t) /\ ~LandOn(t) /\ ~Emit(t) /\ ~StepRight(t) /\ ~RangeDone(t)
    BY DEF LandAfter, LandOn, Emit, StepRight, RangeDone, AtTowerFoot, AtNext
  <1> QED
    BY <1>1, <1>2, <1>3, <1>4, <1>5, Zenon DEF Step, Get, Insert, Remove, RangeCall

LEMMA ClientStep ==
  ASSUME ClientInv, [ClientNext]_clientVars
  PROVE  ClientInv'
  <1>1. CASE UNCHANGED clientVars
    <2>1. UNCHANGED vars /\ UNCHANGED phase /\ UNCHANGED alive /\ UNCHANGED pc
      BY <1>1 DEF clientVars, vars, heap
    <2>2. phase = "running" => IInv' /\ StructureInv'
      BY <2>1, NextInvariant DEF ClientInv
    <2> QED
      BY <2>1, <2>2 DEF ClientInv, Joined
  <1>2. ASSUME NEW t \in Thread, StartCall(t) \/ RunCall(t)
        PROVE  ClientInv'
    <2>1. Next /\ UNCHANGED phase
      BY <1>2, Zenon DEF StartCall, RunCall, Next
    <2>2. phase = "running"
      <3>1. Joined => ~RunCall(t)
        BY IdleStays DEF RunCall, Joined
      <3> QED
        BY <1>2, <3>1 DEF ClientInv, StartCall
    <2>3. IInv' /\ StructureInv'
      BY <2>1, <2>2, NextInvariant DEF ClientInv
    <2> QED
      BY <2>1, <2>2, <2>3 DEF ClientInv
  <1>3. CASE Destructor
    <2>1. alive \subseteq UNION {Chain(i) : i \in Level}
      BY <1>3, AllLinked DEF Destructor, ClientInv
    <2>2. alive' = {} /\ phase' = "destroyed"
      BY <1>3, <2>1 DEF Destructor
    <2>3. Joined'
      BY <1>3 DEF Destructor, Joined
    <2> QED
      BY <2>2, <2>3 DEF ClientInv
  <1> QED
    BY <1>1, <1>2, <1>3, Zenon DEF ClientNext

\* Whatever calls were made and however they ran side by side: when they are
\* all over, ~SimpleSkiplist finds every node that was allocated and not
\* deleted by a remove, and deletes it.
THEOREM DestructorFindsAll == ClientSpec => []NoNodeLeaks
  <1>1. ClientInit => ClientInv
    BY InitIInv, InitStructure DEF ClientInit, ClientInv
  <1>2. ClientInv /\ [ClientNext]_clientVars => ClientInv'
    BY ClientStep
  <1>3. ClientInv => NoNodeLeaks
    BY DEF ClientInv, NoNodeLeaks
  <1> QED
    BY <1>1, <1>2, <1>3, PTL DEF ClientSpec

-----------------------------------------------------------------------------
(***************************************************************************)
(* The read-write skiplist implements OrderedMap: each step of a call      *)
(* is a step of the map it stands for or changes nothing a caller can see. *)
(*                                                                         *)
(* Over the shape of the lists the proof needs three facts: the valued     *)
(* nodes are those of the bottom level (ValuesInv), an answer is given     *)
(* once (ReplyInv), and a call about to report that its key is not there   *)
(* still stands right before the place of the key (AbsentInv).             *)
(***************************************************************************)

\* The nodes of the bottom level, without naming levels: nothing is below
\* them, and no insert is about to put something there.
AtBottom(n) == /\ n \in alive \ Sentinel /\ down[n] = Null
               /\ \A t \in Thread : older[t] # n

ValuesInv == \A n \in Node : val[n] # NoValue <=> AtBottom(n)

ReplyInv(t) ==
  /\ pc[t] = "idle" => op[t] = IdleOp
  /\ pc[t] # "idle" /\ op[t].name = "insert" => op[t].val \in Value
  /\ pc[t] # "ret" /\ op[t].name # "range" => reply[t] = NoReply

AbsentInv(t) ==
  pc[t] = "down" /\ height[t] = 0 /\ op[t].name # "insert"
    => Past(key, next[prev[t]], op[t].key)

MapInv == ValuesInv /\ \A t \in Thread : ReplyInv(t) /\ AbsentInv(t)

\* What no step of t does: move another thread, answer for it, or give a
\* live node a new key.
Private(t) ==
  /\ Others(t)
  /\ \A u \in Thread \ {t} : reply'[u] = reply[u]
  /\ \A n \in alive \cap alive' : key'[n] = key[n]

LEMMA StepIsPrivate ==
  ASSUME IInv, NEW t \in Thread, Step(t) \/ \E o \in Ops(GenLevels) : Call(t, o)
  PROVE  Private(t)
  <1> USE DEF Private, Others, AtNext, Stand, Goto, Leave, Answer, heap, locals, IInv, TypeOK
  <1>1. ASSUME \/ Enter(t) \/ MoveRight(t) \/ LeaveLevel(t) \/ ArriveBelow(t)
               \/ EnterTower(t) \/ DescendTower(t)
        PROVE  Private(t)
    BY <1>1 DEF Enter, MoveRight, LeaveLevel, ArriveBelow, EnterTower, DescendTower
  <1>2. ASSUME NEW r, OffTheBottom(t, r) PROVE Private(t)
    BY <1>2 DEF OffTheBottom
  <1>3. ASSUME ReadValue(t) \/ WriteValue(t) \/ JoinTower(t) PROVE Private(t)
    BY <1>3 DEF ReadValue, WriteValue, JoinTower
  <1>4. ASSUME LinkNew(t) PROVE Private(t)
    <2>1. Fresh(op[t].key, height[t]) \notin alive
      BY <1>4 DEF LinkNew, Fresh, Vacant
    <2> QED
      BY <1>4, <2>1 DEF LinkNew, Create, HeapTypeOK
  <1>5. ASSUME RemoveFound(t) \/ UnlinkUpper(t) \/ ResumeBelow(t) \/ SeekRight(t) PROVE Private(t)
    BY <1>5 DEF RemoveFound, UnlinkUpper, ResumeBelow, SeekRight
  <1>6. ASSUME DeleteUpper(t) \/ DeleteBottom(t) PROVE Private(t)
    BY <1>6 DEF DeleteUpper, DeleteBottom, Destroy, HeapTypeOK
  <1>7. ASSUME LandAfter(t) \/ LandOn(t) \/ Emit(t) \/ StepRight(t) \/ RangeDone(t) PROVE Private(t)
    BY <1>7 DEF LandAfter, LandOn, Emit, StepRight, RangeDone
  <1>8. ASSUME Return(t) PROVE Private(t)
    BY <1>8 DEF Return
  <1>9. ASSUME NEW o, Call(t, o) PROVE Private(t)
    BY <1>9 DEF Call
  <1> QED
    BY <1>1, <1>2, <1>3, <1>4, <1>5, <1>6, <1>7, <1>8, <1>9, Zenon
    DEF Step, Get, Insert, Remove, RangeCall

-----------------------------------------------------------------------------
(* The invariant.                                                          *)

\* The node to the right of a thread about to give up stays where it is.
LEMMA AbsentStays ==
  ASSUME IInv, StructureInv, StructureInv', NEW t \in Thread, NEW u \in Thread \ {t},
         Frame(t), Private(t), AbsentInv(u)
  PROVE  AbsentInv(u)'
  <1> SUFFICES ASSUME pc[u] = "down", height[u] = 0, op[u].name # "insert"
               PROVE  Past(key, next[prev[u]], op[u].key)'
    BY DEF Private, Others, AbsentInv
  <1>1. UNCHANGED <<pc[u], op[u], prev[u]>>
    BY DEF Private, Others
  <1>2. PICK at \in [Node -> Level], on \in SUBSET Node : SInv(at, on)
    BY DEF StructureInv
  <1>3. prev[u] \in alive /\ next[prev[u]] \in alive /\ alive \subseteq Node
    BY <1>2, NextOfPrev DEF UsesPrev, IInv, TypeOK, HeapTypeOK
  <1>4. owner[prev[u]] # t
    BY <1>3, OwnPointers
  <1>5. next'[prev[u]] = next[prev[u]]
    BY <1>3, <1>4 DEF Frame
  <1>6. next[prev[u]] \in alive'
    <2>1. PICK at2 \in [Node -> Level], on2 \in SUBSET Node : SInv(at2, on2)'
      BY DEF StructureInv
    <2>2. /\ prev'[u] \in on2 \ Tails
          /\ on2 \subseteq alive'
          /\ \A n \in on2 \ Tails : next'[n] \in on2
      BY <1>1, <2>1, SentinelSets DEF SInv, ListInv, ThreadInv, PrevInv, Short, UsesPrev
    <2> QED
      BY <1>1, <1>5, <2>2
  <1>7. key'[next[prev[u]]] = key[next[prev[u]]]
    BY <1>3, <1>6 DEF Private
  <1>8. Past(key, next[prev[u]], op[u].key)
    BY DEF AbsentInv
  <1> QED
    BY <1>1, <1>5, <1>7, <1>8 DEF Past

\* So a step has to show the facts about its own thread and about values.
LEMMA MapStep ==
  ASSUME IInv, StructureInv, StructureInv', MapInv, NEW t \in Thread, Frame(t), Private(t),
         ValuesInv', ReplyInv(t)', AbsentInv(t)'
  PROVE  MapInv'
  <1>1. ASSUME NEW u \in Thread \ {t} PROVE ReplyInv(u)' /\ AbsentInv(u)'
    <2>1. ReplyInv(u)'
      BY DEF MapInv, ReplyInv, Private, Others
    <2>2. AbsentInv(u)'
      BY AbsentStays DEF MapInv
    <2> QED
      BY <2>1, <2>2
  <1> QED
    BY <1>1 DEF MapInv

\* AtBottom is what it says.
LEMMA BottomNodes ==
  ASSUME IInv, NEW at \in [Node -> Level], NEW on \in SUBSET Node, SInv(at, on)
  PROVE  \A n \in Node : AtBottom(n) <=> n \in on \ Sentinel /\ at[n] = 0
  <1>1. ASSUME NEW n \in Node, AtBottom(n) PROVE n \in on \ Sentinel /\ at[n] = 0
    <2>1. n \in alive \ Sentinel /\ down[n] = Null /\ \A t \in Thread : older[t] # n
      BY <1>1 DEF AtBottom
    <2>2. at[n] = 0
      BY <2>1 DEF SInv, TowerInv, Level
    <2>3. n \in on
      <3> SUFFICES ASSUME n \notin on PROVE FALSE
        OBVIOUS
      <3>1. PICK t \in Thread : pc[t] \in Leaving /\ cur[t] = n
        BY <2>1 DEF SInv, TowerInv
      <3> QED
        BY <2>1, <3>1 DEF SInv, ThreadInv, CurInv
    <2> QED
      BY <2>1, <2>2, <2>3
  <1>2. ASSUME NEW n \in on \ Sentinel, at[n] = 0 PROVE AtBottom(n)
    <2>1. n \in alive
      BY DEF SInv, ListInv
    <2>2. down[n] = Null
      <3> SUFFICES ASSUME down[n] # Null PROVE FALSE
        OBVIOUS
      <3>1. down[n] \in on /\ at[n] = at[down[n]] + 1
        BY <2>1 DEF SInv, TowerInv
      <3> QED
        BY <1>2, <3>1 DEF Level
    <2>3. \A t \in Thread : older[t] # n
      <3> SUFFICES ASSUME NEW t \in Thread, older[t] = n PROVE FALSE
        OBVIOUS
      <3>1. older[t] # Null
        BY HeapAssumption
      <3>2. at[n] > 0
        BY <3>1 DEF SInv, ThreadInv, OlderInv
      <3> QED
        BY <1>2, <3>2
    <2> QED
      BY <2>1, <2>2, <2>3 DEF AtBottom
  <1> QED
    BY <1>1, <1>2

\* Where a thread is on the bottom level.
LEMMA BottomPlace ==
  ASSUME IInv, NEW at \in [Node -> Level], NEW on \in SUBSET Node, NEW t \in Thread,
         SInv(at, on), pc[t] \in UsesPrev
  PROVE  down[prev[t]] = Null <=> height[t] = 0
  <1>1. /\ prev[t] \in on /\ prev[t] \in alive /\ at[prev[t]] = height[t]
        /\ alive \subseteq Node
    BY NextOfPrev DEF IInv, TypeOK, HeapTypeOK
  <1>2. Has(t, prev[t]) /\ prev[t] # older[t]
    BY <1>1, OwnPointers, Separate
  <1>3. ASSUME down[prev[t]] # Null PROVE height[t] # 0
    <2>1. down[prev[t]] \in on /\ at[prev[t]] = at[down[prev[t]]] + 1
      BY <1>1, <1>3 DEF SInv, TowerInv
    <2> QED
      BY <1>1, <2>1 DEF Level
  <1>4. ASSUME down[prev[t]] = Null PROVE height[t] = 0
    BY <1>1, <1>2, <1>4, FootIsBottom
  <1> QED
    BY <1>3, <1>4

\* A step that changes no value, no tower and no allocation.
LEMMA SameValues ==
  ASSUME ValuesInv, UNCHANGED <<val, alive, down, older>>
  PROVE  ValuesInv'
  BY DEF ValuesInv, AtBottom

\* An insert puts a value into a new node of the bottom level.
LEMMA LinkNewValues ==
  ASSUME IInv, StructureInv, MapInv, NEW t \in Thread, LinkNew(t), op[t].name = "insert"
  PROVE  ValuesInv'
  <1>1. PICK at \in [Node -> Level], on \in SUBSET Node : SInv(at, on)
    BY DEF StructureInv
  <1>2. PICK n \in Node \ alive : n = Fresh(op[t].key, height[t])
    BY DEF LinkNew, Fresh, Vacant
  <1>3. /\ pc[t] = "next" /\ alive' = alive \cup {n}
        /\ val' = [val EXCEPT ![n] = IF height[t] = 0 THEN op[t].val ELSE NoValue]
        /\ down' = [m \in Node |-> IF m = older[t] THEN n ELSE down[m]]
        /\ older' = [older EXCEPT ![t] = IF height[t] = 0 THEN Null ELSE n]
    BY <1>2 DEF LinkNew, AtNext, Create, Under
  <1>4. op[t].val \in Value /\ NoValue \notin Value /\ Null \notin Node
    BY <1>3, CallAssumption, HeapAssumption DEF MapInv, ReplyInv
  <1>5. n \notin Sentinel /\ down[n] = Null /\ (older[t] # Null => older[t] \in alive)
    BY <1>1, <1>2, <1>4 DEF SInv, ListInv, TowerInv, ThreadInv, OlderInv
  <1>6. older[t] # n /\ \A u \in Thread \ {t} : older[u] # n
    BY <1>1, <1>2, <1>4 DEF SInv, ListInv, ThreadInv, OlderInv
  <1>7. val'[n] # NoValue <=> AtBottom(n)'
    <2>1. val'[n] # NoValue <=> height[t] = 0
      BY <1>3, <1>4 DEF IInv, TypeOK, HeapTypeOK
    <2>2. down'[n] = Null /\ n \in alive' \ Sentinel /\ older'[t] = (IF height[t] = 0 THEN Null ELSE n)
          /\ \A u \in Thread \ {t} : older'[u] = older[u]
      BY <1>3, <1>5, <1>6 DEF IInv, TypeOK
    <2> QED
      BY <1>4, <1>6, <2>1, <2>2 DEF AtBottom
  <1>8. ASSUME NEW m \in Node \ {n} PROVE val'[m] # NoValue <=> AtBottom(m)'
    <2>1. val'[m] = val[m] /\ (val[m] # NoValue <=> AtBottom(m))
      BY <1>3 DEF MapInv, ValuesInv, IInv, TypeOK, HeapTypeOK
    <2>2. m \in alive' <=> m \in alive
      BY <1>3
    <2>3. \A u \in Thread \ {t} : older'[u] = older[u]
      BY <1>3 DEF IInv, TypeOK
    <2>4. CASE m = older[t]
      <3>1. down'[m] = n
        BY <1>3, <2>4
      <3> QED
        BY <1>4, <2>1, <2>4, <3>1 DEF AtBottom
    <2>5. CASE m # older[t]
      <3>1. down'[m] = down[m] /\ older'[t] # m
        BY <1>3, <1>4, <2>5 DEF IInv, TypeOK
      <3> QED
        BY <2>1, <2>2, <2>3, <2>5, <3>1 DEF AtBottom
    <2> QED
      BY <2>4, <2>5
  <1> QED
    BY <1>7, <1>8 DEF ValuesInv

\* A tower that is put on top of another one does not reach the bottom.
LEMMA JoinTowerValues ==
  ASSUME IInv, StructureInv, MapInv, NEW t \in Thread, JoinTower(t)
  PROVE  ValuesInv'
  <1>1. /\ UNCHANGED <<val, alive>> /\ older' = [older EXCEPT ![t] = Null]
        /\ down' = [m \in Node |-> IF m = older[t] THEN next[prev[t]] ELSE down[m]]
    BY DEF JoinTower, Under
  <1>2. next[prev[t]] \in Node /\ Null \notin Node
    <2>1. PICK at \in [Node -> Level], on \in SUBSET Node : SInv(at, on)
      BY DEF StructureInv
    <2>2. next[prev[t]] \in on
      BY <2>1, NextOfPrev DEF JoinTower, AtNext, UsesPrev
    <2> QED
      BY <2>2, HeapAssumption
  <1>3. ASSUME NEW m \in Node PROVE AtBottom(m)' <=> AtBottom(m)
    <2>1. \A u \in Thread \ {t} : older'[u] = older[u]
      BY <1>1 DEF IInv, TypeOK
    <2>2. older'[t] # m
      BY <1>1, <1>2 DEF IInv, TypeOK
    <2>3. CASE m = older[t]
      BY <1>1, <1>2, <2>3 DEF AtBottom
    <2>4. CASE m # older[t]
      BY <1>1, <2>1, <2>2, <2>4 DEF AtBottom
    <2> QED
      BY <2>3, <2>4
  <1> QED
    BY <1>1, <1>3 DEF MapInv, ValuesInv

\* At the foot of a tower an insert writes to a node that has a value.
LEMMA AtFoot ==
  ASSUME IInv, NEW at \in [Node -> Level], NEW on \in SUBSET Node, NEW t \in Thread,
         SInv(at, on), AtTowerFoot(t)
  PROVE  cur[t] \in on \ Sentinel /\ cur[t] \in Node /\ at[cur[t]] = 0 /\ key[cur[t]] = op[t].key
         /\ op[t].key \in Key
  <1>1. cur[t] \in on /\ cur[t] \in alive /\ cur[t] \in Node /\ key[cur[t]] = op[t].key
    BY DEF AtTowerFoot, SInv, ListInv, ThreadInv, CurInv
  <1>2. Has(t, cur[t]) /\ cur[t] # older[t]
    BY <1>1, OwnPointers, Separate
  <1>3. at[cur[t]] = 0
    BY <1>1, <1>2, FootIsBottom DEF AtTowerFoot
  <1>4. op[t].key \in Key
    BY KeyInKey DEF AtTowerFoot
  <1>5. cur[t] \notin Sentinel
    BY <1>1, <1>4, OrderOfKeys DEF SInv, ListInv
  <1> QED
    BY <1>1, <1>3, <1>4, <1>5

LEMMA WriteValues ==
  ASSUME IInv, StructureInv, MapInv, NEW t \in Thread, WriteValue(t), op[t].name = "insert"
  PROVE  ValuesInv'
  <1>1. PICK at \in [Node -> Level], on \in SUBSET Node : SInv(at, on)
    BY DEF StructureInv
  <1>2. /\ UNCHANGED <<alive, down, older>> /\ val' = [val EXCEPT ![cur[t]] = op[t].val]
        /\ AtTowerFoot(t)
    BY DEF WriteValue, Leave
  <1>3. cur[t] \in Node /\ AtBottom(cur[t])
    BY <1>1, <1>2, AtFoot, BottomNodes
  <1>4. op[t].val \in Value /\ NoValue \notin Value
    BY <1>2, CallAssumption DEF MapInv, ReplyInv, AtTowerFoot
  <1> QED
    BY <1>2, <1>3, <1>4 DEF MapInv, ValuesInv, AtBottom, IInv, TypeOK, HeapTypeOK

\* Deletion takes a node and its value away.
LEMMA DestroyValues ==
  ASSUME IInv, ValuesInv, NEW c \in Node, NEW nx, Destroy(c, nx), older' = older
  PROVE  ValuesInv'
  <1>1. /\ alive' = alive \ {c} /\ val' = [val EXCEPT ![c] = NoValue]
        /\ down' = [down EXCEPT ![c] = Null]
    BY DEF Destroy
  <1> QED
    BY <1>1 DEF ValuesInv, AtBottom, IInv, TypeOK, HeapTypeOK

\* A call that searches, waits or hands back a pair.
LEMMA QuietMap ==
  ASSUME IInv, StructureInv, StructureInv', MapInv, NEW t \in Thread, Frame(t), Private(t),
         UNCHANGED <<val, alive, down, older>>,
         \/ pc'[t] = "ret"
         \/ /\ pc[t] \notin {"idle", "ret"} /\ pc'[t] # "idle"
            /\ op'[t].name = op[t].name /\ op'[t].val = op[t].val
            /\ op[t].name # "range" => reply'[t] = reply[t],
         op'[t].name = op[t].name /\ op'[t].val = op[t].val /\ pc[t] # "idle",
         pc'[t] = "down" => AbsentInv(t)'
  PROVE  MapInv'
  <1>1. ValuesInv'
    BY SameValues DEF MapInv
  <1>2. ReplyInv(t)'
    BY DEF MapInv, ReplyInv
  <1>3. AbsentInv(t)'
    BY DEF AbsentInv
  <1> QED
    BY <1>1, <1>2, <1>3, MapStep

\* Every step keeps the invariant.
LEMMA StepKeepsMap ==
  ASSUME IInv, StructureInv, StructureInv', MapInv, NEW t \in Thread,
         Step(t) \/ \E o \in Ops(GenLevels) : Call(t, o)
  PROVE  MapInv'
  <1>1. PICK at \in [Node -> Level], on \in SUBSET Node : SInv(at, on)
    BY DEF StructureInv
  <1>2. Frame(t) /\ Private(t)
    BY <1>1, StepFrame, StepIsPrivate
  <1>3. ASSUME \/ Enter(t) \/ MoveRight(t) \/ ArriveBelow(t) \/ EnterTower(t) \/ DescendTower(t)
               \/ RemoveFound(t) \/ UnlinkUpper(t) \/ LandOn(t) \/ LandAfter(t) \/ StepRight(t)
        PROVE  MapInv'
    <2>1. /\ UNCHANGED <<val, alive, down, older>> /\ op'[t] = op[t] /\ reply'[t] = reply[t]
          /\ pc[t] \notin {"idle", "ret"} /\ pc'[t] \notin {"idle", "down"}
      BY <1>3 DEF Enter, MoveRight, ArriveBelow, EnterTower, DescendTower, RemoveFound, UnlinkUpper,
         LandOn, LandAfter, StepRight, AtNext, AtTowerFoot, heap, locals, Stand, Goto, IInv, TypeOK
    <2> QED
      BY <1>2, <2>1, QuietMap
  <1>4. ASSUME ResumeBelow(t) \/ SeekRight(t) PROVE MapInv'
    <2>1. /\ UNCHANGED <<val, alive, down, older>> /\ op'[t] = op[t] /\ reply'[t] = reply[t]
          /\ pc[t] \notin {"idle", "ret"} /\ pc'[t] \notin {"idle", "down"}
      BY <1>4 DEF ResumeBelow, SeekRight, AfterWhile, heap, Stand, Goto, IInv, TypeOK
    <2> QED
      BY <1>2, <2>1, QuietMap
  <1>5. ASSUME LeaveLevel(t) PROVE MapInv'
    <2>1. /\ UNCHANGED <<key, next, val, alive, down, older>> /\ op'[t] = op[t] /\ reply'[t] = reply[t]
          /\ pc[t] = "next" /\ pc'[t] = "down" /\ prev'[t] = prev[t]
          /\ Beyond(next[prev[t]], op[t].key)
      BY <1>5 DEF LeaveLevel, AtNext, heap, locals, Goto, IInv, TypeOK
    <2>2. next[prev[t]] \in on \ Heads /\ op[t].key \in Key /\ ListInv(at, on)
      BY <1>1, <2>1, NextOfPrev, KeyInKey DEF UsesPrev, SInv
    <2>3. Past(key, next[prev[t]], op[t].key)
      BY <2>1, <2>2, Comparisons
    <2>4. AbsentInv(t)'
      BY <2>1, <2>3 DEF AbsentInv
    <2> QED
      BY <1>2, <2>1, <2>4, QuietMap
  <1>6. ASSUME \/ \E r : OffTheBottom(t, r)
               \/ ReadValue(t) \/ RangeDone(t)
        PROVE  MapInv'
    <2>1. /\ UNCHANGED <<val, alive, down, older>> /\ op'[t] = op[t]
          /\ pc[t] \notin {"idle", "ret"} /\ pc'[t] = "ret"
      BY <1>6 DEF OffTheBottom, ReadValue, RangeDone, AtTowerFoot, Leave, Stand, heap, Goto, IInv, TypeOK
    <2> QED
      BY <1>2, <2>1, QuietMap
  <1>7. ASSUME Emit(t), op[t].name = "range" PROVE MapInv'
    <2>1. /\ UNCHANGED <<val, alive, down, older>> /\ op'[t].name = op[t].name /\ op'[t].val = op[t].val
          /\ pc[t] = "emit" /\ pc'[t] = "step"
      BY <1>7 DEF Emit, heap, locals, Goto, IInv, TypeOK, OpType
    <2> QED
      BY <1>2, <1>7, <2>1, QuietMap
  <1>8. ASSUME Insert(t), LinkNew(t) \/ JoinTower(t) \/ WriteValue(t) PROVE MapInv'
    <2>1. /\ op[t].name = "insert" /\ op'[t] = op[t] /\ reply'[t] \in {reply[t], NoReply}
          /\ pc[t] \notin {"idle", "ret"} /\ pc'[t] \in {"down", "tower", "ret"}
      BY <1>8 DEF Insert, LinkNew, JoinTower, WriteValue, AtNext, AtTowerFoot, Leave, Stand, Goto,
         Answer, IInv, TypeOK
    <2>2. ReplyInv(t)' /\ AbsentInv(t)'
      BY <2>1 DEF MapInv, ReplyInv, AbsentInv
    <2>3. ValuesInv'
      BY <1>8, <2>1, LinkNewValues, JoinTowerValues, WriteValues
    <2> QED
      BY <1>2, <2>2, <2>3, MapStep
  <1>9. ASSUME Remove(t), DeleteUpper(t) \/ DeleteBottom(t) PROVE MapInv'
    <2>1. /\ op[t].name = "remove" /\ op'[t] = op[t] /\ older' = older
          /\ pc[t] \notin {"idle", "ret"} /\ pc'[t] \in {"rmNext", "ret"}
          /\ pc'[t] = "rmNext" => reply'[t] = reply[t]
          /\ \E nx : Destroy(cur[t], nx)
      BY <1>9 DEF Remove, DeleteUpper, DeleteBottom, Leave, Stand, Goto, IInv, TypeOK
    <2>2. ReplyInv(t)' /\ AbsentInv(t)'
      BY <2>1 DEF MapInv, ReplyInv, AbsentInv
    <2>3. cur[t] \in Node
      BY <1>9 DEF DeleteUpper, DeleteBottom, IInv, Local, Shape, UsesCur
    <2>4. ValuesInv'
      BY <2>1, <2>3, DestroyValues DEF MapInv
    <2> QED
      BY <1>2, <2>2, <2>4, MapStep
  <1>10. ASSUME Return(t) PROVE MapInv'
    <2>1. /\ UNCHANGED <<val, alive, down, older>> /\ op'[t] = IdleOp /\ reply'[t] = NoReply
          /\ pc'[t] = "idle"
      BY <1>10 DEF Return, Goto, Answer, heap, IInv, TypeOK
    <2>2. ValuesInv' /\ ReplyInv(t)' /\ AbsentInv(t)'
      BY <2>1, SameValues DEF MapInv, ReplyInv, AbsentInv
    <2> QED
      BY <1>2, <2>2, MapStep
  <1>11. ASSUME NEW o \in Ops(GenLevels), Call(t, o) PROVE MapInv'
    <2>1. /\ UNCHANGED <<val, alive, down, older>> /\ op'[t] = o /\ reply'[t] = reply[t]
          /\ pc[t] = "idle" /\ pc'[t] = "top"
      BY <1>11 DEF Call, Goto, heap, IInv, TypeOK
    <2>2. o.name = "insert" => o.val \in Value
      BY DEF Ops
    <2>3. reply[t] = NoReply
      BY <2>1 DEF MapInv, ReplyInv, IdleOp
    <2>4. ValuesInv' /\ ReplyInv(t)' /\ AbsentInv(t)'
      BY <2>1, <2>2, <2>3, SameValues DEF MapInv, ReplyInv, AbsentInv
    <2> QED
      BY <1>2, <2>4, MapStep
  <1>12. ASSUME Get(t) PROVE MapInv'
    BY <1>3, <1>5, <1>6, <1>12, Zenon DEF Get
  <1>13. ASSUME Insert(t) PROVE MapInv'
    BY <1>3, <1>5, <1>6, <1>8, <1>13, Zenon DEF Insert
  <1>14. ASSUME Remove(t) PROVE MapInv'
    BY <1>3, <1>4, <1>5, <1>6, <1>9, <1>14, Zenon DEF Remove
  <1>15. ASSUME RangeCall(t) PROVE MapInv'
    BY <1>3, <1>5, <1>6, <1>7, <1>15, Zenon DEF RangeCall
  <1> QED
    BY <1>10, <1>11, <1>12, <1>13, <1>14, <1>15, Zenon DEF Step

LEMMA InitMap == Init => MapInv
  <1> SUFFICES ASSUME Init PROVE MapInv
    OBVIOUS
  <1>1. ValuesInv
    BY DEF Init, HeapInit, ValuesInv, AtBottom
  <1>2. ASSUME NEW t \in Thread PROVE ReplyInv(t) /\ AbsentInv(t)
    BY DEF Init, ReplyInv, AbsentInv, IdleOp
  <1> QED
    BY <1>1, <1>2 DEF MapInv

Inv == IInv /\ StructureInv /\ MapInv

LEMMA AlwaysMap == Spec => []Inv
  <1>1. Init => Inv
    BY InitIInv, InitStructure, InitMap DEF Inv
  <1>2. Inv /\ [Next]_vars => Inv'
    <2> SUFFICES ASSUME Inv, [Next]_vars PROVE Inv'
      OBVIOUS
    <2>1. IInv' /\ StructureInv'
      BY NextInvariant DEF Inv
    <2>2. CASE Next
      BY <2>1, <2>2, StepKeepsMap DEF Next, Inv
    <2>3. CASE UNCHANGED vars
      <3>1. MapInv'
        BY <2>3 DEF Inv, MapInv, ValuesInv, AtBottom, ReplyInv, AbsentInv, vars, heap, locals
      <3> QED
        BY <2>1, <3>1 DEF Inv
    <2> QED
      BY <2>2, <2>3
  <1> QED
    BY <1>1, <1>2, PTL DEF Spec

-----------------------------------------------------------------------------
(* What the map sees of a step.                                            *)

\* The valued nodes are those of the bottom level.
LEMMA ValuesAlways ==
  ASSUME Inv, NEW at \in [Node -> Level], NEW on \in SUBSET Node, SInv(at, on)
  PROVE  ListInv(at, on) /\ ValuesAt(at, on)
  BY BottomNodes DEF Inv, MapInv, ValuesInv, ValuesAt, SInv

LEMMA OneHolderAlways ==
  ASSUME Inv
  PROVE  OneHolder(key, val)
  <1>1. PICK at \in [Node -> Level], on \in SUBSET Node : SInv(at, on)
    BY DEF Inv, StructureInv
  <1> QED
    BY <1>1, ValuesAlways, ListHoldsOnce

\* Other threads have asked for what they had asked for, and their ranges
\* are where they were.
LEMMA OthersAsk ==
  ASSUME Inv, NEW t \in Thread, Frame(t), Private(t), NEW u \in Thread \ {t}
  PROVE  Asked(u)' = Asked(u) /\ Cursor(u)' = Cursor(u)
  <1>1. UNCHANGED <<pc[u], op[u], cur[u], height[u]>>
    BY DEF Private, Others
  <1>2. Asked(u)' = Asked(u)
    BY <1>1 DEF Asked, InsertTookEffect, Request
  <1>3. ASSUME pc[u] \in {"emit", "step"} PROVE key'[cur[u]] = key[cur[u]]
    <2>1. cur[u] \in alive /\ cur[u] \in Node
      BY <1>3 DEF Inv, StructureInv, SInv, ListInv, ThreadInv, CurInv
    <2>2. owner[cur[u]] # t
      BY <2>1, OwnPointers DEF Inv
    <2> QED
      BY <2>1, <2>2 DEF Frame
  <1>4. Cursor(u)' = Cursor(u)
    BY <1>1, <1>3 DEF Cursor
  <1> QED
    BY <1>2, <1>4

\* So the abstract request and cursor change for t only.
LEMMA OwnAsk ==
  ASSUME Inv, NEW t \in Thread, Frame(t), Private(t)
  PROVE  /\ [u \in Thread |-> Asked(u)]' = [[u \in Thread |-> Asked(u)] EXCEPT ![t] = Asked(t)']
         /\ [u \in Thread |-> Cursor(u)]' = [[u \in Thread |-> Cursor(u)] EXCEPT ![t] = Cursor(t)']
  <1>1. \A u \in Thread \ {t} : Asked(u)' = Asked(u) /\ Cursor(u)' = Cursor(u)
    BY OthersAsk
  <1> QED
    BY <1>1

\* Nothing a caller can see.
LEMMA Unseen ==
  ASSUME Inv, NEW t \in Thread, Frame(t), Private(t),
         Asked(t)' = Asked(t), Cursor(t)' = Cursor(t), Contents' = Contents, reply' = reply
  PROVE  UNCHANGED Abstract!vars
  <1>1. \A u \in Thread : Asked(u)' = Asked(u) /\ Cursor(u)' = Cursor(u)
    BY OthersAsk
  <1>2. /\ [u \in Thread |-> Asked(u)]' = [u \in Thread |-> Asked(u)]
        /\ [u \in Thread |-> Cursor(u)]' = [u \in Thread |-> Cursor(u)]
    BY <1>1
  <1> QED
    BY <1>2 DEF Abstract!vars

\* A call on its way to the place where it takes effect.
LEMMA Searching ==
  ASSUME Inv, NEW t \in Thread, Frame(t), Private(t),
         Contents' = Contents, reply' = reply, op'[t] = op[t],
         pc[t] \notin {"ret", "emit", "step"},
         pc'[t] \notin {"ret", "emit", "step"},
         ~InsertTookEffect(t), ~InsertTookEffect(t)'
  PROVE  UNCHANGED Abstract!vars
  <1>1. Asked(t)' = Asked(t)
    BY DEF Asked, Request
  <1>2. Cursor(t)' = Cursor(t)
    BY DEF Cursor
  <1> QED
    BY <1>1, <1>2, Unseen

LEMMA SearchUnseen ==
  ASSUME Inv, NEW t \in Thread, Frame(t), Private(t),
         \/ Enter(t) \/ MoveRight(t) \/ ArriveBelow(t) \/ EnterTower(t) \/ DescendTower(t)
         \/ LeaveLevel(t) /\ (op[t].name = "insert" => op[t].level < height[t])
         \/ RemoveFound(t) \/ UnlinkUpper(t) \/ ResumeBelow(t) \/ SeekRight(t)
  PROVE  UNCHANGED Abstract!vars
  <1>1. /\ UNCHANGED <<key, val, reply>> /\ op'[t] = op[t]
        /\ pc[t] \notin {"ret", "emit", "step"}
    BY DEF Enter, MoveRight, ArriveBelow, EnterTower, DescendTower, LeaveLevel, RemoveFound,
       UnlinkUpper, ResumeBelow, SeekRight, AtNext, heap, locals, Inv, IInv, TypeOK
  <1>2. ~InsertTookEffect(t)
    <2> SUFFICES ASSUME InsertTookEffect(t) PROVE FALSE
      OBVIOUS
    <2>1. PICK at \in [Node -> Level], on \in SUBSET Node : SInv(at, on)
      BY DEF Inv, StructureInv
    <2>2. pc[t] = "down" /\ height[t] = 0
      BY DEF InsertTookEffect
    <2>3. down[prev[t]] # Null
      BY <2>2 DEF Enter, MoveRight, ArriveBelow, EnterTower, DescendTower, LeaveLevel, RemoveFound,
         UnlinkUpper, ResumeBelow, SeekRight, AtNext
    <2> QED
      BY <2>1, <2>2, <2>3, BottomPlace DEF Inv, UsesPrev
  <1>3. pc'[t] \notin {"ret", "emit", "step"} /\ ~InsertTookEffect(t)'
    <2>1. CASE LeaveLevel(t)
      <3>1. pc[t] = "next" /\ pc'[t] = "down" /\ height'[t] = height[t]
        BY <2>1 DEF LeaveLevel, AtNext, Goto, locals, Inv, IInv, TypeOK
      <3>2. op[t].level \in Nat
        BY DEF Inv, IInv, TypeOK, OpType, Level
      <3>3. op[t].name = "insert" => op[t].level < height[t]
        BY <3>1 DEF Enter, MoveRight, ArriveBelow, EnterTower, DescendTower, Stand, Goto,
           RemoveFound, UnlinkUpper, ResumeBelow, SeekRight, AfterWhile, Inv, IInv, TypeOK
      <3> QED
        BY <1>1, <3>1, <3>2, <3>3 DEF InsertTookEffect
    <2>2. CASE ~LeaveLevel(t)
      <3>1. pc'[t] \notin {"ret", "emit", "step", "down"}
        BY <2>2 DEF Enter, MoveRight, ArriveBelow, EnterTower, DescendTower, Stand, Goto,
           RemoveFound, UnlinkUpper, ResumeBelow, SeekRight, AfterWhile, Inv, IInv, TypeOK
      <3> QED
        BY <3>1 DEF InsertTookEffect
    <2> QED
      BY <2>1, <2>2
  <1>4. Contents' = Contents
    BY <1>1, ContentsSame
  <1> QED
    BY <1>1, <1>2, <1>3, <1>4, Searching

\* A call that takes effect, or has taken it, is finished for the map.
LEMMA Effective ==
  ASSUME NEW t
  PROVE  /\ pc[t] = "ret" \/ InsertTookEffect(t) => Asked(t) = Abstract!Finished
         /\ ~(pc[t] = "ret" \/ InsertTookEffect(t)) =>
              /\ Asked(t).name = op[t].name /\ Asked(t).key = op[t].key
              /\ Asked(t).val = op[t].val /\ Asked(t).len = op[t].len
         /\ pc[t] \notin {"emit", "step"} => Cursor(t) = Abstract!Nowhere
  BY DEF Asked, Request, Cursor, Abstract!Finished, Abstract!Nowhere

\* The step at which a get, an insert or a remove takes effect.
LEMMA Finishing ==
  ASSUME Inv, NEW t \in Thread, Frame(t), Private(t),
         pc[t] \notin {"ret", "emit", "step"}, ~InsertTookEffect(t),
         pc'[t] = "ret" \/ InsertTookEffect(t)'
  PROVE  /\ Asked(t).name = op[t].name /\ Asked(t).key = op[t].key /\ Asked(t).val = op[t].val
         /\ Cursor(t) = Abstract!Nowhere
         /\ [u \in Thread |-> Asked(u)]' = [[u \in Thread |-> Asked(u)] EXCEPT ![t] = Abstract!Finished]
         /\ [u \in Thread |-> Cursor(u)]' = [u \in Thread |-> Cursor(u)]
  <1>1. Asked(t)' = Abstract!Finished /\ Cursor(t)' = Abstract!Nowhere
    BY DEF Asked, Request, Cursor, InsertTookEffect, Abstract!Finished, Abstract!Nowhere
  <1>2. Cursor(t) = Abstract!Nowhere
    BY DEF Cursor, Abstract!Nowhere
  <1> QED
    BY <1>1, <1>2, OwnAsk, Effective

\* get: the value at the foot of the tower ...
LEMMA ReadValueRefines ==
  ASSUME Inv, NEW t \in Thread, Frame(t), Private(t),
         ReadValue(t), op[t].name = "get"
  PROVE  Abstract!Get(t)
  <1>1. PICK at \in [Node -> Level], on \in SUBSET Node : SInv(at, on)
    BY DEF Inv, StructureInv
  <1>2. /\ AtTowerFoot(t) /\ pc[t] = "tower" /\ pc'[t] = "ret" /\ UNCHANGED <<key, val>>
        /\ reply' = [reply EXCEPT ![t] = <<"get", op[t].key, val[cur[t]]>>]
    BY DEF ReadValue, Leave, Stand, Answer, AtTowerFoot, Goto, heap, Inv, IInv, TypeOK
  <1>3. val[cur[t]] = Contents[op[t].key]
    BY <1>1, <1>2, AtFoot, ValuesAlways, ListIsMap DEF Inv
  <1>4. Contents' = Contents
    BY <1>2, ContentsSame
  <1> QED
    BY <1>2, <1>3, <1>4, Finishing DEF InsertTookEffect, Abstract!Get

\* On the bottom level, where the node to the right is past the key of the
\* call, that key is not bound.
LEMMA NothingThere ==
  ASSUME Inv, NEW t \in Thread, pc[t] \in UsesPrev, height[t] = 0,
         Past(key, next[prev[t]], op[t].key)
  PROVE  op[t].key \in Key /\ Contents[op[t].key] = NoValue
  <1> DEFINE k == op[t].key
  <1>1. PICK at \in [Node -> Level], on \in SUBSET Node : SInv(at, on)
    BY DEF Inv, StructureInv
  <1>2. k \in Key
    BY <1>1, KeyInKey DEF UsesPrev
  <1>3. prev[t] \in on /\ at[prev[t]] = 0 /\ Short(key, prev[t], k)
    BY <1>1 DEF SInv, ThreadInv, PrevInv
  <1> QED
    BY <1>1, <1>2, <1>3, ValuesAlways, NotOnList

\* A call that has gone off the bottom level knows its key is not bound.
LEMMA NotBound ==
  ASSUME Inv, NEW t \in Thread, pc[t] = "down", down[prev[t]] = Null, op[t].name # "insert"
  PROVE  op[t].key \in Key /\ Contents[op[t].key] = NoValue
  <1>1. PICK at \in [Node -> Level], on \in SUBSET Node : SInv(at, on)
    BY DEF Inv, StructureInv
  <1>2. height[t] = 0
    BY <1>1, BottomPlace DEF Inv, UsesPrev
  <1>3. Past(key, next[prev[t]], op[t].key)
    BY <1>2 DEF Inv, MapInv, AbsentInv
  <1> QED
    BY <1>2, <1>3, NothingThere DEF UsesPrev

\* ... or that there is none.
LEMMA GetAbsentRefines ==
  ASSUME Inv, NEW t \in Thread, Frame(t), Private(t),
         OffTheBottom(t, <<"get", op[t].key, NoValue>>), op[t].name = "get"
  PROVE  Abstract!Get(t)
  <1>1. /\ pc[t] = "down" /\ down[prev[t]] = Null /\ pc'[t] = "ret" /\ UNCHANGED <<key, val>>
        /\ reply' = [reply EXCEPT ![t] = <<"get", op[t].key, NoValue>>]
    BY DEF OffTheBottom, Leave, Stand, Answer, Goto, heap, Inv, IInv, TypeOK
  <1>2. Contents[op[t].key] = NoValue
    BY <1>1, NotBound
  <1>3. Contents' = Contents
    BY <1>1, ContentsSame
  <1> QED
    BY <1>1, <1>2, <1>3, Finishing DEF InsertTookEffect, Abstract!Get

\* remove of a key that is not there.
LEMMA RemoveAbsentRefines ==
  ASSUME Inv, NEW t \in Thread, Frame(t), Private(t),
         OffTheBottom(t, <<"absent", op[t].key, NoValue>>), op[t].name = "remove"
  PROVE  Abstract!Remove(t)
  <1>1. /\ pc[t] = "down" /\ down[prev[t]] = Null /\ pc'[t] = "ret" /\ UNCHANGED <<key, val>>
        /\ reply' = [reply EXCEPT ![t] = <<"absent", op[t].key, NoValue>>]
    BY DEF OffTheBottom, Leave, Stand, Answer, Goto, heap, Inv, IInv, TypeOK
  <1>2. op[t].key \in Key /\ Contents[op[t].key] = NoValue
    BY <1>1, NotBound
  <1>3. Contents' = [Contents EXCEPT ![op[t].key] = NoValue]
    <2>1. Contents' = Contents
      BY <1>1, ContentsSame
    <2>2. Contents = [j \in Key |-> Contents[j]]
      BY DEF Contents
    <2> QED
      BY <1>2, <2>1, <2>2
  <1> QED
    BY <1>1, <1>2, <1>3, Finishing DEF InsertTookEffect, Abstract!Remove

\* remove deletes the node of the bottom level.
LEMMA DeleteBottomRefines ==
  ASSUME Inv, Inv', NEW t \in Thread, Frame(t), Private(t),
         DeleteBottom(t), op[t].name = "remove"
  PROVE  Abstract!Remove(t)
  <1> DEFINE k == op[t].key
             c == cur[t]
  <1>1. PICK at \in [Node -> Level], on \in SUBSET Node : SInv(at, on)
    BY DEF Inv, StructureInv
  <1>2. /\ pc[t] = "unlink" /\ down[prev[t]] = Null /\ pc'[t] = "ret"
        /\ reply' = [reply EXCEPT ![t] = <<"removed", k, NoValue>>]
        /\ key' = [key EXCEPT ![c] = NoKey] /\ val' = [val EXCEPT ![c] = NoValue]
    BY DEF DeleteBottom, Destroy, Leave, Stand, Answer, Goto, Inv, IInv, TypeOK
  <1>3. height[t] = 0 /\ k \in Key
    BY <1>1, <1>2, BottomPlace, KeyInKey DEF Inv, UsesPrev
  <1>4. c \in on /\ c \in Node /\ at[c] = 0 /\ key[c] = k /\ c \notin Sentinel
    <2>1. c = next[prev[t]] /\ key[c] = k
      BY <1>1, <1>2 DEF SInv, ThreadInv, CurInv
    <2>2. c \in on /\ at[c] = 0 /\ c \in alive /\ KeysOf(key, alive)
      BY <1>1, <1>2, <1>3, <2>1, NextOfPrev DEF UsesPrev
    <2> QED
      BY <1>3, <2>1, <2>2, OrderOfKeys
  <1>5. val[c] # NoValue /\ Contents[k] = val[c]
    BY <1>1, <1>4, ValuesAlways, ListIsMap
  <1>6. Contents' = [Contents EXCEPT ![k] = NoValue]
    <2>1. val'[c] = NoValue /\ \A m \in Node \ {c} : key'[m] = key[m] /\ val'[m] = val[m]
      BY <1>2, <1>4 DEF Inv, Inv, IInv, TypeOK, HeapTypeOK
    <2>2. OneHolder(key, val) /\ OneHolder(key', val')
      <3>1. OneHolder(key, val)
        BY OneHolderAlways
      <3> QED
        BY <2>1, <3>1 DEF OneHolder
    <2> QED
      BY <1>3, <1>4, <1>5, <2>1, <2>2, ContentsChange
  <1> QED
    BY <1>2, <1>5, <1>6, Finishing DEF InsertTookEffect, Abstract!Remove

\* insert_or_modify changes the value at the foot of a tower ...
LEMMA WriteValueRefines ==
  ASSUME Inv, NEW t \in Thread, Frame(t), Private(t),
         WriteValue(t), op[t].name = "insert"
  PROVE  Abstract!Insert(t)
  <1> DEFINE k == op[t].key
             c == cur[t]
  <1>1. PICK at \in [Node -> Level], on \in SUBSET Node : SInv(at, on)
    BY DEF Inv, StructureInv
  <1>2. /\ AtTowerFoot(t) /\ pc[t] = "tower" /\ pc'[t] = "ret" /\ UNCHANGED <<key, reply>>
        /\ val' = [val EXCEPT ![c] = op[t].val]
    <2>1. pc[t] = "tower" /\ reply[t] = NoReply
      BY DEF WriteValue, AtTowerFoot, Inv, MapInv, ReplyInv
    <2> QED
      BY <2>1 DEF WriteValue, AtTowerFoot, Leave, Stand, Answer, Goto, Inv, IInv, TypeOK
  <1>3. c \in on \ Sentinel /\ c \in Node /\ at[c] = 0 /\ key[c] = k /\ k \in Key
    BY <1>1, <1>2, AtFoot DEF Inv
  <1>4. val[c] # NoValue
    BY <1>1, <1>3, ValuesAlways, ListIsMap
  <1>5. Contents' = [Contents EXCEPT ![k] = op[t].val]
    <2>1. /\ val'[c] = op[t].val /\ \A m \in Node \ {c} : val'[m] = val[m]
          /\ \A m \in Node : key'[m] = key[m]
      BY <1>2, <1>3 DEF Inv, Inv, IInv, TypeOK, HeapTypeOK
    <2>2. OneHolder(key, val) /\ OneHolder(key', val')
      <3>1. OneHolder(key, val)
        BY OneHolderAlways
      <3> QED
        BY <1>4, <2>1, <3>1 DEF OneHolder
    <2> QED
      BY <1>3, <1>4, <2>1, <2>2, ContentsChange
  <1> QED
    BY <1>2, <1>5, Finishing DEF InsertTookEffect, Abstract!Insert

\* ... or links a node on the bottom level; those it links above it cannot be
\* seen.
LEMMA LinkNewRefines ==
  ASSUME Inv, Inv', NEW t \in Thread, Frame(t), Private(t),
         LinkNew(t), op[t].name = "insert"
  PROVE  Abstract!Insert(t) \/ UNCHANGED Abstract!vars
  <1> DEFINE k == op[t].key
             n == Fresh(k, height[t])
  <1>1. n \in Node \ alive
    BY DEF LinkNew, Fresh, Vacant
  <1>2. /\ pc[t] = "next" /\ pc'[t] = "down" /\ height'[t] = height[t] /\ op'[t] = op[t]
        /\ reply' = reply
    BY DEF LinkNew, AtNext, Goto, Inv, IInv, TypeOK
  <1>3. /\ key' = [key EXCEPT ![n] = k]
        /\ val' = [val EXCEPT ![n] = IF height[t] = 0 THEN op[t].val ELSE NoValue]
    BY DEF LinkNew, Create
  <1>4. val[n] = NoValue
    BY <1>1 DEF Inv, MapInv, ValuesInv, AtBottom
  <1>5. /\ key'[n] = k /\ val'[n] = IF height[t] = 0 THEN op[t].val ELSE NoValue
        /\ \A m \in Node \ {n} : key'[m] = key[m] /\ val'[m] = val[m]
    <2> HIDE DEF n
    <2> QED
      BY <1>1, <1>3 DEF Inv, Inv, IInv, TypeOK, HeapTypeOK
  <1>6. CASE height[t] = 0
    <2>1. k \in Key /\ Contents[k] = NoValue
      <3>1. PICK at \in [Node -> Level], on \in SUBSET Node : SInv(at, on)
        BY DEF Inv, StructureInv
      <3>2. next[prev[t]] \in on \ Heads /\ ListInv(at, on)
        BY <1>2, <3>1, NextOfPrev DEF UsesPrev, SInv
      <3>3. k \in Key /\ Beyond(next[prev[t]], k)
        BY <1>2, <3>1, KeyInKey DEF LinkNew
      <3>4. Past(key, next[prev[t]], k)
        BY <3>2, <3>3, Comparisons
      <3> QED
        BY <1>2, <1>6, <3>4, NothingThere DEF UsesPrev
    <2>2. op[t].val # NoValue
      BY <1>2, CallAssumption DEF Inv, MapInv, ReplyInv
    <2>3. OneHolder(key, val) /\ OneHolder(key', val')
      <3> HIDE DEF n
      <3>1. OneHolder(key, val)
        BY OneHolderAlways
      <3>2. \A m \in Node : val[m] # NoValue => key[m] # k
        BY <2>1, <3>1, ContentsOf
      <3> QED
        BY <1>1, <1>5, <3>1, <3>2 DEF OneHolder
    <2>4. Contents' = [Contents EXCEPT ![k] = op[t].val]
      <3> HIDE DEF n
      <3> QED
        BY <1>1, <1>4, <1>5, <1>6, <2>1, <2>2, <2>3, ContentsChange
    <2>5. ~InsertTookEffect(t) /\ InsertTookEffect(t)'
      BY <1>2, <1>6 DEF InsertTookEffect
    <2>6. Abstract!Insert(t)
      BY <1>2, <2>4, <2>5, Finishing DEF Abstract!Insert
    <2> QED
      BY <2>6
  <1>7. CASE height[t] # 0
    <2>1. Contents' = Contents
      <3> HIDE DEF n
      <3> QED
        BY <1>1, <1>4, <1>5, <1>7, ContentsSame
    <2>2. ~InsertTookEffect(t) /\ ~InsertTookEffect(t)'
      BY <1>2, <1>7 DEF InsertTookEffect
    <2> QED
      BY <1>2, <2>1, <2>2, Searching
  <1> QED
    BY <1>6, <1>7

\* The key is on this level already: the way down is inside its tower.
LEMMA JoinTowerUnseen ==
  ASSUME Inv, NEW t \in Thread, Frame(t), Private(t), JoinTower(t)
  PROVE  UNCHANGED Abstract!vars
  <1>1. /\ UNCHANGED <<key, val, reply>> /\ op'[t] = op[t] /\ pc[t] = "next" /\ pc'[t] = "tower"
    BY DEF JoinTower, AtNext, Stand, Goto, Inv, IInv, TypeOK
  <1>2. Contents' = Contents
    BY <1>1, ContentsSame
  <1> QED
    BY <1>1, <1>2, Searching DEF InsertTookEffect

\* An insert that comes off the bottom level has linked its node there.
LEMMA InsertLeavesUnseen ==
  ASSUME Inv, NEW t \in Thread, Frame(t), Private(t),
         OffTheBottom(t, NoReply), op[t].name = "insert"
  PROVE  UNCHANGED Abstract!vars
  <1>1. PICK at \in [Node -> Level], on \in SUBSET Node : SInv(at, on)
    BY DEF Inv, StructureInv
  <1>2. /\ UNCHANGED <<key, val>> /\ pc[t] = "down" /\ down[prev[t]] = Null /\ pc'[t] = "ret"
        /\ reply' = [reply EXCEPT ![t] = NoReply]
    BY DEF OffTheBottom, Leave, Stand, Answer, Goto, heap, Inv, IInv, TypeOK
  <1>3. height[t] = 0
    BY <1>1, <1>2, BottomPlace DEF Inv, UsesPrev
  <1>4. Asked(t) = Abstract!Finished /\ Cursor(t) = Abstract!Nowhere
    BY <1>2, <1>3, Effective DEF InsertTookEffect
  <1>5. Asked(t)' = Abstract!Finished /\ Cursor(t)' = Abstract!Nowhere
    BY <1>2 DEF Asked, Request, Cursor, Abstract!Finished, Abstract!Nowhere
  <1>6. reply[t] = NoReply
    BY <1>2 DEF Inv, MapInv, ReplyInv
  <1>7. reply' = reply
    BY <1>2, <1>6 DEF Inv, Inv, IInv, TypeOK
  <1>8. Contents' = Contents
    BY <1>2, ContentsSame
  <1> QED
    BY <1>4, <1>5, <1>7, <1>8, Unseen

\* The nodes a remove deletes above the bottom level have no value.
LEMMA DeleteUpperUnseen ==
  ASSUME Inv, NEW t \in Thread, Frame(t), Private(t), DeleteUpper(t)
  PROVE  UNCHANGED Abstract!vars
  <1>1. PICK at \in [Node -> Level], on \in SUBSET Node : SInv(at, on)
    BY DEF Inv, StructureInv
  <1>2. /\ UNCHANGED reply /\ op'[t] = op[t] /\ pc[t] = "rmDown" /\ pc'[t] = "rmNext"
        /\ key' = [key EXCEPT ![cur[t]] = NoKey] /\ val' = [val EXCEPT ![cur[t]] = NoValue]
    BY DEF DeleteUpper, Destroy, Stand, Goto, Inv, IInv, TypeOK
  <1>3. cur[t] \in Node /\ down[cur[t]] # Null
    BY <1>1, <1>2 DEF SInv, ThreadInv, CurInv, Leaving, Inv, IInv, TypeOK, HeapTypeOK
  <1>4. val[cur[t]] = NoValue
    BY <1>3 DEF Inv, MapInv, ValuesInv, AtBottom
  <1>5. /\ val'[cur[t]] = NoValue
        /\ \A m \in Node \ {cur[t]} : key'[m] = key[m] /\ val'[m] = val[m]
    BY <1>2, <1>3 DEF Inv, Inv, IInv, TypeOK, HeapTypeOK
  <1>6. Contents' = Contents
    BY <1>4, <1>5, ContentsSame
  <1> QED
    BY <1>2, <1>6, Searching DEF InsertTookEffect

-----------------------------------------------------------------------------
(* Ranges.                                                                 *)

\* What the map calls bound and least.
LEMMA AbstractLeast ==
  /\ Abstract!Bound = {i \in Key : Contents[i] # NoValue}
  /\ \A S : Abstract!Least(S) = LeastKey(S)
  BY DEF Abstract!Bound, Abstract!Least, LeastKey

\* What a range step changes.
LEMMA Ranging ==
  ASSUME Inv, NEW t \in Thread, Frame(t), Private(t), Asked(t)' = Asked(t)
  PROVE  /\ [u \in Thread |-> Asked(u)]' = [u \in Thread |-> Asked(u)]
         /\ [u \in Thread |-> Cursor(u)]' = [[u \in Thread |-> Cursor(u)] EXCEPT ![t] = Cursor(t)']
  BY OwnAsk

\* A range finds its start ...
LEMMA LandAfterRefines ==
  ASSUME Inv, NEW t \in Thread, Frame(t), Private(t),
         LandAfter(t), op[t].name = "range"
  PROVE  Abstract!RangeSeek(t)
  <1> DEFINE k == op[t].key
             d == next[prev[t]]
             S == {j \in Abstract!Bound : j >= k}
  <1>1. PICK at \in [Node -> Level], on \in SUBSET Node : SInv(at, on)
    BY DEF Inv, StructureInv
  <1>2. /\ UNCHANGED <<key, val, reply>> /\ op'[t] = op[t] /\ pc[t] = "next" /\ pc'[t] = "emit"
        /\ cur'[t] = d /\ Beyond(d, k) /\ down[d] = Null
    BY DEF LandAfter, AtNext, Stand, Goto, heap, Inv, IInv, TypeOK
  <1>3. /\ prev[t] \in on /\ d \in on \ Heads /\ KeysOf(key, alive) /\ on \subseteq alive
        /\ at[d] = height[t]
        /\ \A n \in on : at[n] = height[t] /\ Left(key, prev[t], n) => n = d \/ Left(key, d, n)
    BY <1>1, <1>2, NextOfPrev DEF UsesPrev
  <1>4. k \in Key /\ k \in Int
    BY <1>1, <1>2, KeyInKey, CallAssumption
  <1>5. at[d] = 0
    <2>1. CanLock(d, "shared") /\ d \in alive
      BY <1>1, <1>3, Exclusive DEF LandAfter, AtNext, Inv
    <2>2. older[t] = Null /\ Null \notin Node /\ alive \subseteq Node
      BY <1>1, HeapAssumption DEF SInv, ThreadInv, OlderInv, Inv, IInv, TypeOK, HeapTypeOK
    <2> QED
      BY <1>1, <1>2, <2>1, <2>2, FootIsBottom DEF Inv
  <1>6. Past(key, d, k)
    BY <1>1, <1>2, <1>3, <1>4, Comparisons DEF SInv
  <1>7. Abstract!Least(S) = key[d]
    <2>1. at[prev[t]] = 0 /\ Short(key, prev[t], k)
      BY <1>1, <1>2, <1>3, <1>5 DEF SInv, ThreadInv, PrevInv, UsesPrev
    <2> QED
      BY <1>1, <1>3, <1>4, <1>6, <2>1, ValuesAlways, LeastFromHere, AbstractLeast
  <1>8. Asked(t)' = Asked(t) /\ Asked(t).name = "range" /\ Asked(t).key = k
    BY <1>2 DEF Asked, Request, InsertTookEffect
  <1>9. Cursor(t) = Abstract!Nowhere /\ Cursor(t)' = <<"at", Abstract!Least(S)>>
    BY <1>2, <1>7 DEF Cursor, Abstract!Nowhere
  <1>10. Contents' = Contents
    BY <1>2, ContentsSame
  <1> QED
    BY <1>2, <1>8, <1>9, <1>10, Ranging DEF Abstract!RangeSeek

LEMMA LandOnRefines ==
  ASSUME Inv, NEW t \in Thread, Frame(t), Private(t),
         LandOn(t), op[t].name = "range"
  PROVE  Abstract!RangeSeek(t)
  <1> DEFINE k == op[t].key
             d == cur[t]
             S == {j \in Abstract!Bound : j >= k}
  <1>1. PICK at \in [Node -> Level], on \in SUBSET Node : SInv(at, on)
    BY DEF Inv, StructureInv
  <1>2. /\ UNCHANGED <<key, val, reply>> /\ op'[t] = op[t] /\ pc[t] = "tower" /\ pc'[t] = "emit"
        /\ cur'[t] = d /\ AtTowerFoot(t)
    BY DEF LandOn, AtTowerFoot, Goto, heap, locals, Inv, IInv, TypeOK
  <1>3. d \in on \ Sentinel /\ at[d] = 0 /\ key[d] = k /\ k \in Key /\ k \in Int
    BY <1>1, <1>2, AtFoot, CallAssumption DEF Inv
  <1>4. Abstract!Least(S) = key[d]
    BY <1>1, <1>3, ValuesAlways, LeastAtNode, AbstractLeast
  <1>5. Asked(t)' = Asked(t) /\ Asked(t).name = "range" /\ Asked(t).key = k
    BY <1>2 DEF Asked, Request, InsertTookEffect
  <1>6. Cursor(t) = Abstract!Nowhere /\ Cursor(t)' = <<"at", Abstract!Least(S)>>
    BY <1>2, <1>4 DEF Cursor, Abstract!Nowhere
  <1>7. Contents' = Contents
    BY <1>2, ContentsSame
  <1> QED
    BY <1>2, <1>5, <1>6, <1>7, Ranging DEF Abstract!RangeSeek

\* ... hands out a pair ...
LEMMA EmitRefines ==
  ASSUME Inv, NEW t \in Thread, Frame(t), Private(t), Emit(t)
  PROVE  Abstract!RangeEmit(t)
  <1> DEFINE k == key[cur[t]]
  <1>1. PICK at \in [Node -> Level], on \in SUBSET Node : SInv(at, on)
    BY DEF Inv, StructureInv
  <1>2. /\ UNCHANGED <<key, val, next, cur>> /\ pc[t] = "emit" /\ pc'[t] = "step"
        /\ k # NoKey /\ op[t].len > 0
        /\ reply' = [reply EXCEPT ![t] = <<"pair", k, val[cur[t]]>>]
        /\ op'[t] = [op[t] EXCEPT !.len = @ - 1]
    BY DEF Emit, Answer, Goto, heap, locals, Inv, IInv, TypeOK
  <1>3. Contents[k] = val[cur[t]]
    <2>1. cur[t] \in on /\ at[cur[t]] = 0 /\ cur[t] \in alive /\ KeysOf(key, alive)
      BY <1>1, <1>2 DEF SInv, ThreadInv, CurInv, ListInv
    <2>2. cur[t] \notin Sentinel
      BY <1>2, <2>1 DEF KeysOf
    <2> QED
      BY <1>1, <2>1, <2>2, ValuesAlways, ListIsMap
  <1>4. Asked(t)' = [Asked(t) EXCEPT !.len = @ - 1] /\ Asked(t).len = op[t].len
    <2>1. Asked(t) = [name |-> op[t].name, key |-> op[t].key, val |-> op[t].val, len |-> op[t].len]
      BY <1>2 DEF Asked, Request, InsertTookEffect
    <2>2. Asked(t)' = [name |-> op'[t].name, key |-> op'[t].key, val |-> op'[t].val,
                       len |-> op'[t].len]
      BY <1>2 DEF Asked, Request, InsertTookEffect
    <2>3. /\ op'[t].name = op[t].name /\ op'[t].key = op[t].key /\ op'[t].val = op[t].val
          /\ op'[t].len = op[t].len - 1
      BY <1>2 DEF Inv, Inv, IInv, TypeOK, OpType
    <2> QED
      BY <2>1, <2>2, <2>3
  <1>5. Cursor(t) = <<"at", k>> /\ Cursor(t)' = <<"past", k>>
    BY <1>2 DEF Cursor
  <1>6. Contents' = Contents
    BY <1>2, ContentsSame
  <1>7. /\ [u \in Thread |-> Asked(u)]' = [[u \in Thread |-> Asked(u)] EXCEPT ![t].len = @ - 1]
        /\ [u \in Thread |-> Cursor(u)]' = [[u \in Thread |-> Cursor(u)] EXCEPT ![t] = <<"past", k>>]
    <2> HIDE DEF k
    <2> QED
      BY <1>4, <1>5, OwnAsk
  <1>8. [u \in Thread |-> Cursor(u)][t][1] = "at" /\ [u \in Thread |-> Cursor(u)][t][2] = k
    <2> HIDE DEF k
    <2> QED
      BY <1>5
  <1> HIDE DEF k
  <1>9. [u \in Thread |-> Asked(u)][t].len > 0
    BY <1>2, <1>4
  <1> QED
    BY <1>2, <1>3, <1>6, <1>7, <1>8, <1>9 DEF Abstract!RangeEmit

\* ... goes on to the next node ...
LEMMA StepRightRefines ==
  ASSUME Inv, NEW t \in Thread, Frame(t), Private(t), StepRight(t)
  PROVE  Abstract!RangeNext(t)
  <1> DEFINE k == key[cur[t]]
             d == next[cur[t]]
             S == {j \in Abstract!Bound : j > k}
  <1>1. PICK at \in [Node -> Level], on \in SUBSET Node : SInv(at, on)
    BY DEF Inv, StructureInv
  <1>2. /\ UNCHANGED <<key, val, op, reply>> /\ pc[t] = "step" /\ pc'[t] = "emit" /\ cur'[t] = d
    BY DEF StepRight, Stand, Goto, heap, Inv, IInv, TypeOK
  <1>3. cur[t] \in on \ Sentinel /\ at[cur[t]] = 0
    <2>1. cur[t] \in on /\ cur[t] \notin Heads /\ cur[t] \notin Tails /\ at[cur[t]] = 0
      BY <1>1, <1>2 DEF SInv, ThreadInv, CurInv
    <2> QED
      BY <2>1, SentinelSets
  <1>4. Abstract!Least(S) = key[d]
    BY <1>1, <1>3, ValuesAlways, LeastAtNode, AbstractLeast
  <1>5. Asked(t)' = Asked(t)
    BY <1>2 DEF Asked, Request, InsertTookEffect
  <1>6. Cursor(t) = <<"past", k>> /\ Cursor(t)' = <<"at", Abstract!Least(S)>>
    BY <1>2, <1>4 DEF Cursor
  <1>7. Contents' = Contents
    BY <1>2, ContentsSame
  <1>8. /\ [u \in Thread |-> Asked(u)]' = [u \in Thread |-> Asked(u)]
        /\ [u \in Thread |-> Cursor(u)]'
             = [[u \in Thread |-> Cursor(u)] EXCEPT ![t] = <<"at", Abstract!Least(S)>>]
    <2> HIDE DEF S
    <2> QED
      BY <1>5, <1>6, Ranging
  <1>9. [u \in Thread |-> Cursor(u)][t][1] = "past" /\ [u \in Thread |-> Cursor(u)][t][2] = k
    <2> HIDE DEF k
    <2> QED
      BY <1>6
  <1>10. S = {j \in Abstract!Bound : j > [u \in Thread |-> Cursor(u)][t][2]}
    BY <1>9
  <1> HIDE DEF S, k
  <1> QED
    BY <1>2, <1>7, <1>8, <1>9, <1>10 DEF Abstract!RangeNext

\* ... and ends.
LEMMA RangeDoneRefines ==
  ASSUME Inv, NEW t \in Thread, Frame(t), Private(t),
         RangeDone(t), op[t].name = "range"
  PROVE  Abstract!RangeEnd(t)
  <1>1. /\ UNCHANGED <<key, val, reply>> /\ op'[t] = op[t] /\ pc[t] = "emit" /\ pc'[t] = "ret"
        /\ key[cur[t]] = NoKey \/ op[t].len = 0
    BY DEF RangeDone, Leave, Stand, Answer, Goto, heap, Inv, IInv, TypeOK
  <1>2. Asked(t).name = "range" /\ Asked(t).len = op[t].len
    BY <1>1 DEF Asked, Request, InsertTookEffect
  <1>3. Cursor(t) = <<"at", key[cur[t]]>>
    BY <1>1 DEF Cursor
  <1>4. Asked(t)' = Abstract!Finished /\ Cursor(t)' = Abstract!Nowhere
    BY <1>1 DEF Asked, Request, Cursor, Abstract!Finished, Abstract!Nowhere
  <1>5. Contents' = Contents
    BY <1>1, ContentsSame
  <1> QED
    BY <1>1, <1>2, <1>3, <1>4, <1>5, OwnAsk DEF Abstract!RangeEnd

-----------------------------------------------------------------------------
(* Every step.                                                             *)

\* A call is the same call of the map ...
LEMMA CallRefines ==
  ASSUME Inv, NEW t \in Thread, Frame(t), Private(t),
         NEW o \in Ops(GenLevels), Call(t, o)
  PROVE  \E r \in Abstract!Request : Abstract!Call(t, r)
  <1> DEFINE r == [name |-> o.name, key |-> o.key, val |-> o.val, len |-> o.len]
  <1>1. /\ UNCHANGED <<key, val, reply>> /\ op'[t] = o /\ pc[t] = "idle" /\ pc'[t] = "top"
    BY DEF Call, Goto, heap, Inv, IInv, TypeOK
  <1>2. op[t] = IdleOp
    BY <1>1 DEF Inv, MapInv, ReplyInv
  <1>3. Asked(t) = Abstract!Idle
    BY <1>1, <1>2 DEF Asked, Request, InsertTookEffect, IdleOp, Abstract!Idle
  <1>4. Asked(t)' = r
    BY <1>1 DEF Asked, Request, InsertTookEffect
  <1>5. r \in Abstract!Request
    BY DEF Ops, Abstract!Request
  <1>6. Cursor(t)' = Cursor(t)
    BY <1>1 DEF Cursor
  <1>7. Contents' = Contents
    BY <1>1, ContentsSame
  <1>8. /\ [u \in Thread |-> Asked(u)]' = [[u \in Thread |-> Asked(u)] EXCEPT ![t] = r]
        /\ [u \in Thread |-> Cursor(u)]' = [u \in Thread |-> Cursor(u)]
    BY <1>4, <1>6, OwnAsk
  <1> HIDE DEF r
  <1>9. Abstract!Call(t, r)
    BY <1>1, <1>3, <1>7, <1>8 DEF Abstract!Call
  <1> QED
    BY <1>5, <1>9

\* ... and returns when it does.
LEMMA ReturnRefines ==
  ASSUME Inv, NEW t \in Thread, Frame(t), Private(t), Return(t)
  PROVE  Abstract!Return(t)
  <1>1. /\ UNCHANGED <<key, val>> /\ op'[t] = IdleOp /\ pc[t] = "ret" /\ pc'[t] = "idle"
        /\ reply' = [reply EXCEPT ![t] = NoReply]
    BY DEF Return, Answer, Goto, heap, Inv, IInv, TypeOK
  <1>2. Asked(t) = Abstract!Finished
    BY <1>1, Effective
  <1>3. Asked(t)' = Abstract!Idle
    BY <1>1 DEF Asked, Request, InsertTookEffect, IdleOp, Abstract!Idle
  <1>4. Cursor(t)' = Cursor(t)
    BY <1>1 DEF Cursor
  <1>5. Contents' = Contents
    BY <1>1, ContentsSame
  <1>6. /\ [u \in Thread |-> Asked(u)]' = [[u \in Thread |-> Asked(u)] EXCEPT ![t] = Abstract!Idle]
        /\ [u \in Thread |-> Cursor(u)]' = [u \in Thread |-> Cursor(u)]
    BY <1>3, <1>4, OwnAsk
  <1> QED
    BY <1>1, <1>2, <1>5, <1>6 DEF Abstract!Return, NoReply, Abstract!NoReply

LEMMA StepRefines ==
  ASSUME Inv, Inv', NEW t \in Thread, Step(t) \/ \E o \in Ops(GenLevels) : Call(t, o)
  PROVE  Abstract!Next \/ UNCHANGED Abstract!vars
  <1>1. Frame(t) /\ Private(t) /\ IInv
    BY StepFrame, StepIsPrivate DEF Inv, StructureInv
  <1>2. CASE \E o \in Ops(GenLevels) : Call(t, o)
    BY <1>1, <1>2, CallRefines DEF Abstract!Next
  <1>3. CASE Return(t)
    BY <1>1, <1>3, ReturnRefines DEF Abstract!Next
  <1>4. ASSUME \/ Enter(t) \/ MoveRight(t) \/ ArriveBelow(t) \/ EnterTower(t) \/ DescendTower(t)
               \/ LeaveLevel(t) /\ (op[t].name = "insert" => op[t].level < height[t])
               \/ RemoveFound(t) \/ UnlinkUpper(t) \/ ResumeBelow(t) \/ SeekRight(t)
        PROVE  UNCHANGED Abstract!vars
    BY <1>1, <1>4, SearchUnseen
  <1>5. CASE Get(t)
    <2>1. op[t].name = "get"
      BY <1>5 DEF Get
    <2>2. ASSUME ReadValue(t) \/ OffTheBottom(t, <<"get", op[t].key, NoValue>>) PROVE Abstract!Get(t)
      BY <1>1, <2>1, <2>2, ReadValueRefines, GetAbsentRefines
    <2>3. Abstract!Get(t) \/ UNCHANGED Abstract!vars
      BY <1>4, <1>5, <2>1, <2>2 DEF Get
    <2> QED
      BY <2>3 DEF Abstract!Next
  <1>6. CASE Insert(t)
    <2>1. op[t].name = "insert"
      BY <1>6 DEF Insert
    <2>2. ASSUME WriteValue(t) \/ LinkNew(t) PROVE Abstract!Insert(t) \/ UNCHANGED Abstract!vars
      BY <1>1, <2>1, <2>2, WriteValueRefines, LinkNewRefines
    <2>3. ASSUME JoinTower(t) \/ OffTheBottom(t, NoReply) PROVE UNCHANGED Abstract!vars
      BY <1>1, <2>1, <2>3, JoinTowerUnseen, InsertLeavesUnseen
    <2>4. Abstract!Insert(t) \/ UNCHANGED Abstract!vars
      BY <1>4, <1>6, <2>1, <2>2, <2>3 DEF Insert
    <2> QED
      BY <2>4 DEF Abstract!Next
  <1>7. CASE Remove(t)
    <2>1. op[t].name = "remove"
      BY <1>7 DEF Remove
    <2>2. ASSUME DeleteBottom(t) \/ OffTheBottom(t, <<"absent", op[t].key, NoValue>>)
          PROVE  Abstract!Remove(t)
      BY <1>1, <2>1, <2>2, DeleteBottomRefines, RemoveAbsentRefines
    <2>3. ASSUME DeleteUpper(t) PROVE UNCHANGED Abstract!vars
      BY <1>1, <2>3, DeleteUpperUnseen
    <2>4. Abstract!Remove(t) \/ UNCHANGED Abstract!vars
      BY <1>4, <1>7, <2>1, <2>2, <2>3 DEF Remove
    <2> QED
      BY <2>4 DEF Abstract!Next
  <1>8. CASE RangeCall(t)
    <2>1. op[t].name = "range"
      BY <1>8 DEF RangeCall
    <2>2. ASSUME LandAfter(t) \/ LandOn(t) PROVE Abstract!RangeSeek(t)
      BY <1>1, <2>1, <2>2, LandAfterRefines, LandOnRefines
    <2>3. ASSUME Emit(t) PROVE Abstract!RangeEmit(t)
      BY <1>1, <2>3, EmitRefines
    <2>4. ASSUME StepRight(t) PROVE Abstract!RangeNext(t)
      BY <1>1, <2>4, StepRightRefines
    <2>5. ASSUME RangeDone(t) PROVE Abstract!RangeEnd(t)
      BY <1>1, <2>1, <2>5, RangeDoneRefines
    <2>6. Abstract!RangeSeek(t) \/ Abstract!RangeEmit(t) \/ Abstract!RangeNext(t)
            \/ Abstract!RangeEnd(t) \/ UNCHANGED Abstract!vars
      BY <1>4, <1>8, <2>1, <2>2, <2>3, <2>4, <2>5 DEF RangeCall
    <2> QED
      BY <2>6 DEF Abstract!Next
  <1> QED
    BY <1>2, <1>3, <1>5, <1>6, <1>7, <1>8 DEF Step

LEMMA InitRefines == Init => Abstract!Init
  <1> SUFFICES ASSUME Init PROVE Abstract!Init
    OBVIOUS
  <1>1. Contents = [k \in Key |-> NoValue]
    BY DEF Init, HeapInit, Contents
  <1>2. \A t \in Thread : pc[t] = "idle" /\ op[t] = IdleOp
    BY DEF Init
  <1>3. ASSUME NEW t \in Thread PROVE Asked(t) = Abstract!Idle /\ Cursor(t) = Abstract!Nowhere
    BY <1>2 DEF Asked, Request, InsertTookEffect, IdleOp, Abstract!Idle, Cursor, Abstract!Nowhere
  <1>4. /\ [t \in Thread |-> Asked(t)] = [t \in Thread |-> Abstract!Idle]
        /\ [t \in Thread |-> Cursor(t)] = [t \in Thread |-> Abstract!Nowhere]
    BY <1>3
  <1>5. reply = [t \in Thread |-> Abstract!NoReply]
    BY DEF Init, NoReply, Abstract!NoReply
  <1> QED
    BY <1>1, <1>4, <1>5 DEF Abstract!Init

\* Nothing moves, nothing is seen.
LEMMA StutterRefines ==
  ASSUME UNCHANGED vars
  PROVE  UNCHANGED Abstract!vars
  <1>1. /\ \A t \in Thread : Asked(t)' = Asked(t) /\ Cursor(t)' = Cursor(t)
        /\ reply' = reply
    BY DEF vars, heap, locals, Asked, Request, InsertTookEffect, Cursor
  <1>2. Contents' = Contents
    BY ContentsSame DEF vars, heap
  <1>3. /\ [t \in Thread |-> Asked(t)]' = [t \in Thread |-> Asked(t)]
        /\ [t \in Thread |-> Cursor(t)]' = [t \in Thread |-> Cursor(t)]
    BY <1>1
  <1> QED
    BY <1>1, <1>2, <1>3 DEF Abstract!vars

-----------------------------------------------------------------------------
\* The read-write skiplist is a map: however the steps of concurrent calls
\* interleave, every get, insert_or_modify and remove takes effect and gives
\* the answer of the map at one step of its own, and a range hands out, one
\* after the other, the next bound key with its value.
THEOREM SkiplistIsAMap == Spec => Linearizable
  <1>1. Inv /\ Inv' /\ [Next]_vars => [Abstract!Next]_(Abstract!vars)
    <2> SUFFICES ASSUME Inv, Inv', [Next]_vars PROVE Abstract!Next \/ UNCHANGED Abstract!vars
      OBVIOUS
    <2>1. CASE Next
      BY <2>1, StepRefines DEF Next
    <2> QED
      BY <2>1, StutterRefines
  <1> QED
    BY <1>1, InitRefines, AlwaysMap, PTL DEF Spec, Linearizable, Abstract!Spec
=============================================================================
