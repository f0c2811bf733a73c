# Skiplists: specifications, checks and proofs

The repository has four implementations of one interface, a map from keys to
values with `get`, `insert_or_modify`, `remove` and `range`. Each is a single
header with its own tests. This directory holds TLA+ modules for all four, the
TLC configurations that check them, and proofs about all four.

## 1. Inventory

Paths are below `src/src/`.

| Part | Source | State | Operations |
|---|---|---|---|
| Sequential skiplist | `simple_skiplist/simple_skiplist.h` | `structure`, the heads of `MAX_HEIGHT` singly linked levels, each ended by a tail node; nodes with `key`, `val`, `next`, `down` | the four calls, constructor, destructor |
| Spinlock skiplist | `concurrent_skiplist_lock/concurrent_skiplist_lock.h` | the same and a `Lock` in each node | the same, called by many threads |
| Class `Lock` | same file | an atomic flag | `lock`, `try_lock`, `unlock` |
| Read-write mutex skiplist | `concurrent_skiplist_read_write_mutex/…` | the same with a `std::shared_mutex` in each node | the same |
| Cache-friendly B-skiplist | `cache-friendly/cache_friendly_skiplist.h` | nodes with a sorted array of up to `ARRAY_SIZE` entries `(key, val, down)`, a size and a `std::shared_mutex` | the same, and the node operations that split, merge, insert into and delete from an array |
| Nodes and their memory | each header | in the cache-friendly version an `std::array` of slots that own a key and a value through raw pointers, moved with `std::move`, `std::shift_left` and `std::shift_right` | construction, move, `clear`, destruction |
| Level generator | each header | a `std::mt19937` | `operator()` |
| Benchmark | `cache-friendly/bench.cpp` | the threads of a phase and the slice of the operations each has | load phase, join, run phase with one of five workloads, join, destruction |
| `print`, tests | each directory | – | – |

How the parts interact. Callers' threads share one skiplist object; the
threads meet only in the nodes. A call walks from `structure[MAX_HEIGHT-1]` to
the right and down, locks the next node before it unlocks the one it is on, and
changes nodes on its way down, never back up. `range` calls back into the
caller's `func` with a node locked. `insert_or_modify` draws a level first and
builds its tower from the top: on each level it makes a node, keeps it locked,
and sets its `down` when the node below exists. `remove` takes a tower down from
the top, level by level, so that between two levels other calls run.

What is hard here:

* interleavings of calls between two levels (a half-built or half-removed tower,
  a node deleted while someone is on the way to it);
* lock order: calls hold two to four locks while they wait for one more;
* locks released by hand on every path out, in the right mode in the versions
  with shared mutexes, which also change from shared to exclusive on the way down;
* in the B-skiplist, down pointers that must keep pointing at the node that
  *starts* with their key through splits, merges and deletions, and arguments
  in comments ("guaranteed to be filled", "has to be non null") that rest on it;
* liveness with locks that are not fair.

Nothing is persisted and no messages are sent, so there are no crashes or lost
messages to model. The full list, with lines, is `hazards` in `PROJECT.json`.

What makes each part correct: every call behaves as on a map, at one instant
between call and return (`OrderedMap`); levels stay sorted; towers stay whole
(or, in the B-skiplist, down pointers land on the first entry of a node);
no access to freed memory; a node is written only under its exclusive lock;
locks and pointers agree at every point; no waiting in a circle; every call
returns; destruction frees every node.

## 2. The modules

    OrderedMap            what callers are promised
    Calls                 the calls and replies of all four versions
      TowerHeap           nodes of one key, links, constructor, new and delete
        TowerHeapProofs        lists, changes to them, what Chain and Contents return
        SimpleSkiplist    sequential                      <- MCSimpleSkiplist
          SimpleSkiplistProofs
        LockSkiplist      spinlocks                       <- MCLockSkiplist
          LockSkiplistClients  threads, joins, destructor <- MCLockSkiplistClients
            LockSkiplistProofs      locks, data races, lists, memory safety, deadlock,
                                    destructor, linearizability
        RWSkiplist        shared mutexes (SharedMutex)    <- MCRWSkiplist
          RWSkiplistClients    threads, joins, destructor <- MCRWSkiplistClients
            RWSkiplistProofs        as LockSkiplistProofs
      Entries             the entries of a node of the B-skiplist, as a sequence
        BSkiplist         nodes of entries (SharedMutex)  <- MCBSkiplist
          BSkiplistProofs           lists, the invariant; types, locks, memory
          Bench           the benchmark, with the destructor <- MCBench
            BSkiplistMapProofs      (with BSkiplistProofs) levels, the map; the benchmark
        NodeArray         the arrays behind the entries   <- MCNodeArray
          NodeArrayProofs           slots, moves and shifts; what owns what
    SharedMutex           the std::shared_mutex of a node
    SpinLock              class Lock, one atomic operation a step
      SpinLockProofs
    Mutex                 what a lock is to LockSkiplist

`X <- MCX` means the second module gives the first its constants for TLC. The
four skiplist modules are each shown to implement `OrderedMap` by
`INSTANCE OrderedMap WITH …` and a refinement mapping; `SpinLock` implements
`Mutex` in the same way. `Entries` says once what `insert_into_node`, the merge in
`insert_or_modify` and `delete_value` make of the entries of a node; `BSkiplist`
is built from these operators, and `NodeArray` runs the code's moves and shifts on
arrays beside them and shows that both come to the same (`Represents`).

### How state and actions correspond to the code

*Variables* are the fields of the nodes (`key`, `val`, `next`, `down`, or `data`
and `next` for the B-skiplist), the locks, `alive` (the allocated nodes), and per
thread `pc`, `op` (the call with its arguments, and the level it has drawn) and
the code's own locals: `prev`, `cur`, `older` (`older_level_val`), `height`
(`cur_height`) and so on. `reply` is what the call has handed back last: the
result, or the pair given to `func`.

*Steps.* In the concurrent modules a step is a `lock()` being granted together
with the code up to the next `lock()` call, or a piece of that code; pieces are
split where this reads better. A thread in `lock()` waits at one of the points in
`Locking` (`Waiting(t)`). The grain is sound because all data a step touches
belongs to nodes the thread has locked; that is itself checked (`LocksHeld`,
`WritesGuarded`), and proved for all three concurrent
versions. `unlock()` is merged into the
step that precedes it, which hides no behaviour: it only makes another thread's
`lock()` possible earlier. That a `lock()` may be one step is what `SpinLock`,
where each atomic operation is a step, is there to show.
In the sequential module a step is one iteration of a loop.

*Memory.* Pointers are members of `Node`; `delete` removes the node from `alive`
and clears it. Going to a deleted node puts a thread at `pc = "crash"`, and so does
dereferencing a null key; `MemorySafe` excludes both. `Site[k][i]` says which
addresses `operator new` may give a node for key `k` on level `i`. Addresses that
are free again may be given out again.

*Arrays.* In `NodeArray` a slot has the pointers `key`, `val` and `down`, and
`memory.live` is the set of the keys and values that are allocated. One operator
stands for each of `clear`, the move assignment, `std::shift_left`,
`std::shift_right` and the destructor, and the larger ones are made of move
assignments in the order the code does them. A step is one of the pieces of code
that change an array, run on a node its thread has locked exclusively; `Home(k)` is
the node where the search for `k` ends. A value `insert_or_modify` replaces goes to
`lost`, for the code never deletes it.

*Clients.* `LockSkiplistClients` and `RWSkiplistClients` are the tests: threads that
make finitely many calls, joins, the destructor. `Bench` is `run_bench` in
`bench.cpp`: the load phase and the run phase, each split over the threads as
`parallel_timed` splits it, the joins between them, the five workloads, two mixes of
calls of the concurrent tests (inserts, gets and removes; ranges during inserts),
and the destructor.

*Randomness.* The level generator is a free choice of `0 .. MaxHeight - 1` at each insert
(`GenLevels`). So nothing that is checked rests on how often or in which order levels
come. Threads share the generator without a lock; that it still gives levels in range is assumed.

*Faulty variants.* Definitions whose comment says "Fault:" are not used by any
specification. They stand next to the definition they vary and show that the
properties notice the difference.

## 3. What is checked

All runs check deadlock unless the last column says otherwise.

| Run | Instance | Shows |
|---|---|---|
| `lock_safety` | 2 threads, any number of calls; 3 levels, 2 keys, 1 value, ranges of length 2 | types; pointers and locks agree (`LocksHeld`); `MemorySafe`; levels sorted and towers whole (`Structure`); nobody waits in a circle or for a call that is over (`NoWaitCycle`); `WritesGuarded`; implements the map (`Linearizable`) |
| `lock_liveness` | 2 threads with 2 calls and 1, joined, then the destructor; 3 levels | `EveryCallReturns` under weak fairness; `NoNodeLeaks`. Stops at the end, so deadlock is not checked |
| `lock_two_locks` | 2 threads, any number of calls; 2 levels, 2 keys, 2 values | violated: see findings |
| `spin_lock` | 3 threads, `num_tries` 3 | `MutualExclusion`; `ImplementsMutex`; `SomeoneGetsIn` |
| `rw_safety` | 2 threads, any number of calls; 3 levels, 2 keys, 2 values | the properties of `lock_safety` with two lock modes; `NoWaitCycle` allows mutexes that let readers wait behind a writer that waits |
| `rw_clients` | 2 threads with 2 calls and 1, joined, then the destructor; 3 levels | `EveryCallReturns`: an insert that goes from shared to exclusive locks waits for nobody who waits for it; `NoNodeLeaks`. Stops at the end |
| `bskip_safety` | 2 threads, any number of calls; nodes of 2 entries, 2 levels, 2 keys, 2 values | types; `LocksHeld`; `LevelsSorted` across nodes; `DownStartsWithKey`; `MemorySafe`; `WritesGuarded`; `Linearizable` |
| `bskip_shapes` | 1 thread, nodes of 3 entries, 3 levels, 3 keys, ranges of length 0 and 3 | every shape a sequence of calls can give: `DownStartsWithKey`, `Linearizable` |
| `bench` | 2 threads, 3 keys loaded of which 2 are equal, then 2 operations of any workload; 2 levels, nodes of 2 entries | `Completes`; `LoadedKeysAreFound`; after the destructor only the nodes merges have emptied are left (`OnlyEmptiedNodesLeak`). Stops at the end |
| `node_array` | one level, bottom or not; 4 keys, 4 nodes of 4 slots, 1 replaced value | every key and value has one owner and is deleted once (`OwnedOnce`); the arrays hold what `BSkiplist` says (`Represents`). Stops after the destructor |
| `simple_safety` | any sequence of calls, 3 keys, 3 levels, ranges of length 0 and 3, then the destructor | `Structure`, `MemorySafe`, `NoNodeLeaks`, `EveryCallReturns`, `ImplementsMap`. Stops after the destructor |
| `simple_range` | the same | violated: see findings |

**`OrderedMap`** deserves a reading: `get`, `insert_or_modify` and `remove`
take effect at one instant. `range` is *not* a snapshot in any version: it hands
out bound pairs in ascending order, each bound at the instant of its callback,
and skips no key that stays bound. The abstract module allows just that. Two
parameters adapt it: `RemoveTells` (whether `remove` reports if it found the key)
and `RangeGivesUp` (only for the sequential version, because of the finding below).

**Bounds.** Two threads suffice for every pairwise interference, and no step
involves more than one other thread's lock. Two keys give a node before, at and
after the one a call works on (head, tail, the other key); three keys are used
where one thread makes larger shapes affordable. Two levels show a tower in
parts; three show a call between two upper levels, a tower with a middle, and, in
the versions with shared mutexes, the change of mode one level above the level of
the key. With nodes of two entries a head is full with its null key and one more,
so the second key of a level makes it split; three entries leave room for a split
in the middle. The arrays of `NodeArray` have four slots: with three, no shift ever
moves two entries and the order of its moves would not show.
The number of calls is unbounded except in the liveness runs and the benchmark, where
histories of few calls keep the graph small enough for temporal checking; longer
histories reach no control point these do not. The benchmark's two operations, one
on each thread, are enough for a reader to meet a writer after the load, and its
three loads for two threads to insert the same key at the same time; three is also
not a multiple of the number of threads, so the last one has a key more to load.
For the towers one address per key and level is enough, since a second one is never
needed (`Vacant(…) # {}` would block, and deadlock is checked). The B-skiplist has
`Spare` addresses per key and level, because a merge leaves nodes behind; were they
to run out, a call would wait for an address (`Vacant`), but with one more for each
key and level the graphs have as many states. In `NodeArray`, `MaxLost` bounds the
number of values replaced, and `Copy` is large enough for `new` never to
wait for a name for its object (`Unmade`). `lock_safety` has a single value, to have
room for three levels and two keys at a reasonable size: an old value that overwrites a newer one
would not show there. `rw_safety` and `bskip_safety` have two, and the proof is for
any. Threads are symmetric and so are values (they are only copied), except
in the runs with temporal properties under fairness, which use no symmetry; keys are
ordered and not symmetric.

**Fairness.** Weak fairness of each thread's steps: the operating system runs
every thread that can run. A thread waiting for a lock can take its step only
while the lock is free, so weak fairness promises it nothing if others keep
taking the lock; this is what an unfair spinlock gives. That is why
`EveryCallReturns` and `Completes` are stated for clients with finitely many calls:
with endless calls of others, a thread may starve, and the code does nothing
against it. The same goes for a shared mutex: whoever's mode fits may be next, which
covers every policy of preferring readers or writers. In the benchmark the main
thread, too, goes on when the threads it joins are done. In `SpinLock` the exchange
is `compare_exchange_weak`, which may fail for no reason. A thread for which it fails on a clear
flag again and again succeeds at some time, and no more is assumed: a thread that
finds the flag set at every try is promised nothing, and may starve. Without that assumption
`SomeoneGetsIn` fails.

### Findings

1. *README and code disagree on the number of locks* (`lock_two_locks`).
   `README.md:17` says "at most two locks held at a time as the traversal moves
   right or down". `insert_or_modify` holds the node it made one level up as well,
   and the node it makes on the level: three and four locks. Nothing goes wrong by
   it (`NoWaitCycle`, `EveryCallReturns`).
2. *A range of the sequential skiplist that starts below every key returns
   nothing* (`simple_range`). The search ends on the head of level 0, whose key
   is null, and `range` returns there (`simple_skiplist.h:182`).
   `test_simple_skiplist.cpp:461` says a start that is not in the list "should
   start from first key >=" it, and the other three versions do.

## 4. What is proved

By TLAPS, for any set of threads, any integer keys, any values, any number of
levels above one, any finite memory and any placement of nodes in it, and in the
B-skiplist for any `ARRAY_SIZE`. The assumptions are those the modules name:
`HeapAssumption` (memory is finite, the sentinels are distinct nodes, `Null` is none),
`CallAssumption` (keys are integers, `NoKey` and `NoValue` are none of the keys and
values, lengths are natural numbers, at least two levels), `BAssumption`
(`ARRAY_SIZE` is positive, memory is finite, the sentinels are distinct nodes and
`new` gives none of them), `ThreadAssumption` (`NoThread` is no thread),
`ClientAssumption` (each client makes finitely many calls), `BenchAssumption` (the
threads are numbered, at least one, and the keys to load are a vector), `SpinAssumption`
(`num_tries` is positive) and `ArrayAssumption` (`ARRAY_SIZE` fits a `uint8_t` and is positive,
there are finitely many addresses for nodes, the first node has one, and `Null` is none
and is no key or value object). TLC evaluates them in the runs.

| Theorem | States |
|---|---|
| `SpinLockProofs!SpinTypeCorrect` | the type invariant of `SpinLock` |
| `SpinLockProofs!SpinMutualExclusion` | at most one thread is in, and the flag tells whether one is |
| `SpinLockProofs!SpinImplementsMutex` | every step of the spinlock is a step of `Mutex` or leaves the owner alone |
| `LockSkiplistProofs!TypeCorrect` | the type invariant of `LockSkiplist` |
| `LockSkiplistProofs!LockDiscipline` | `LocksHeld`: at every point a thread holds exactly the locks its pointers name |
| `LockSkiplistProofs!WritesAreGuarded` | `WritesGuarded`: a live node is changed or deleted only under its lock |
| `LockSkiplistProofs!MemoryIsSafe` | `MemorySafe`: no pointer leads to a deleted node, no null key is dereferenced |
| `LockSkiplistProofs!SkiplistShape` | `Structure`: sorted levels and whole towers, under any interleaving |
| `LockSkiplistProofs!NoDeadlock` | `NoWaitCycle`: no set of threads waits in a circle, or for a call that is over |
| `LockSkiplistProofs!DestructorFindsAll` | `NoNodeLeaks`: the destructor frees every node there is after the joins |
| `LockSkiplistProofs!SkiplistIsAMap` | `Linearizable`: the spinlock skiplist implements `OrderedMap` |
| `RWSkiplistProofs!TypeCorrect` | the type invariant of `RWSkiplist` |
| `RWSkiplistProofs!LockDiscipline` | `LocksHeld`: a thread has exactly the mutexes its pointers name, each in the mode it will unlock it in |
| `RWSkiplistProofs!WritesAreGuarded` | `WritesGuarded`: a live node is changed or deleted only by who has it exclusively |
| `RWSkiplistProofs!MemoryIsSafe` | `MemorySafe` of the read-write version |
| `RWSkiplistProofs!SkiplistShape` | its `Structure` |
| `RWSkiplistProofs!NoDeadlock` | its `NoWaitCycle`: nobody waits in a circle or for itself when going from shared to exclusive |
| `RWSkiplistProofs!DestructorFindsAll` | its `NoNodeLeaks` |
| `RWSkiplistProofs!SkiplistIsAMap` | `Linearizable`: the read-write skiplist implements `OrderedMap` |
| `BSkiplistProofs!TypeCorrect` | the type invariant of `BSkiplist`, with nodes of any size |
| `BSkiplistProofs!LockDiscipline` | its `LocksHeld` |
| `BSkiplistProofs!MemoryIsSafe` | its `MemorySafe`: no pointer leads to a node a merge or a `remove` has taken out, no null key and no null `down` is dereferenced |
| `BSkiplistProofs!WritesAreGuarded` | its `WritesGuarded`: entries and links change only under an exclusive lock |
| `BSkiplistMapProofs!LevelsStaySorted` | its `LevelsSorted`: the keys of a level ascend within nodes and across them |
| `BSkiplistMapProofs!DownPointersHold` | its `DownStartsWithKey`: through splits, merges and deletions a down pointer leads to the node that starts with its key |
| `BSkiplistMapProofs!SkiplistIsAMap` | its `Linearizable`: the cache-friendly skiplist implements `OrderedMap`, whatever the size of its nodes |
| `BSkiplistMapProofs!DestructorFindsAll` | `OnlyEmptiedNodesLeak`: after the joins the destructor finds all that is in use |
| `BSkiplistMapProofs!LoadedKeysStay` | `LoadedKeysAreFound`: no key is left out of the load, and none is missed later |
| `NodeArrayProofs!EachObjectOwnedOnce` | `OwnedOnce`: every key and value object has one owner and is deleted once |
| `NodeArrayProofs!ArraysRepresent` | `Represents`: what the moves and shifts do to the arrays is what `BSkiplist` does to its sequences |
| `SimpleSkiplistProofs!StructureHolds` | `Structure` of the sequential skiplist, also in the middle of a call |
| `SimpleSkiplistProofs!MemoryIsSafe` | its `MemorySafe` |
| `SimpleSkiplistProofs!NothingLeaks` | its destructor frees every node |
| `SimpleSkiplistProofs!SkiplistIsAMap` | `ImplementsMap`: it implements `OrderedMap`, with the finding on `range` in it |

### The spinlock skiplist

*Locks.* `LocksHeld` is not inductive. A thread that
releases `prev`, say, gives up one lock and one pointer; if `prev` and `cur` were
the same node, it would still have a pointer to it. And a new node must not be
one that another thread has locked. So the invariant is

    IInv == TypeOK /\ LockedAlive /\ \A t \in Thread : Local(t)

where `Local(t)` says which pointers are set at which `pc` (`Shape`), that those
that are set are different nodes (`Distinct`), and that the locks of `t` are
those nodes (`Holds`); `LockedAlive` says that locked nodes are allocated. One
lemma per action shows that the acting thread restores its own `Local` and
touches only locks it holds, locks that are free, and nodes it has locked or just
made (`Sound`). `OthersKeep` shows once that such a step leaves `Local(u)` alone for
every other thread: the pointers it waits along belong to nodes it has locked.
This invariant says nothing about order or about levels, so it
holds for pieces of structure the code never builds, too. It is the data-race
freedom of the node fields, and it is what lets a step of the model be as long
as it is.

*Shape.* The code keeps no level in a node, so the invariant that the lists are
lists quantifies over one: `StructureInv` says that there are a level `at[n]` for
each node and a set `on` of the nodes that are linked, such that `SInv(at, on)`:

* `ListInv` — without recursion: next leads to a greater node of the same level, and
  no linked node of the level is between the two;
* `TowerInv` — down leads to the node of the same key one level below; only a node some
  insert still holds (`older`) has none above the bottom level; only a node some
  remove is about to delete is allocated and not linked;
* `ThreadInv` — where each thread is. The part the code nowhere says is
  `TowersPassed`: a thread on its way along a level has every tower that reaches
  higher and whose key is not past its own at or before `prev`. From it comes that
  `remove` finds its key again on each level below (`FoundBelow`), so that
  `while(*cur->key < key)` never dereferences the null key of a tail;
* `InFront` — between threads: nobody on the same level who has as far to go
  gets in front of an insert that still holds its node of the level above, nor
  in front of a remove that has begun. This is why no two inserts of one key build on the
  same level, and why no remove finds only the upper part of a tower.

Each action has a lemma that it keeps `SInv` for levels and linked nodes it names
(a new node gets its level, an unlinked one leaves `on`). Steps that change no node
(`QuietStep`) and steps that do (`LoudStep`) are first reduced to what must be shown
of the acting thread, and to the order between it and each other. `ListGrows` and
`ListShrinks` are about lists alone, and the sequential version uses them too.

*From the invariant to the properties.* `LevelsSorted` speaks of `Chain`, which is a
recursive function over the nodes. `ChainOfList` shows that where `ListInv` holds,
it is the linked nodes of the level; it needs the memory to be finite, for a
least number of steps to the tail to exist. For `NoWaitCycle`, `(at, key)` orders
the nodes: each thread holds only nodes before the one it waits for, and of finitely
many nodes some threads wait for there is a last one (`LastNode`). In
`NoNodeLeaks` the joins have left every thread idle, so no `older` and no unlinked
node is left, and the lists are all of `alive`.

*Linearizability.* `MapInv` adds that the valued nodes are those of the bottom level
(`ValuesInv`), that an answer is given once (`ReplyInv`), and that a call that is about to
report that its key is not there still stands right before the place of the key
(`AbsentInv`). Under these, each action is shown to be a step of `OrderedMap` or to
change nothing a caller can see (`StepRefines`); the steps that count are the ones at which
the bottom node is linked, unlinked, written or read, and those of `range`, where
`LeastFromHere` and `LeastAtNode` say that the next node of the bottom level is the
least key bound from there on.

### The read-write skiplist

The lists, towers and places are those of the spinlock version, and `SInv` is the
same but for the names of the points a thread can be at. What differs is what a lock
means. `IInv` is

    TypeOK /\ Alone /\ \A t \in Thread : Shape(t) /\ ModeInv(t) /\ Holds(t)

`ModeInv` says in which mode a call is: a `get` and a `range` shared, a `remove`
exclusive, an insert exclusive exactly from the level its key reaches on. The
exception is the foot of a tower, which an insert has exclusively while it went down
to it shared (`HeldMode`). That the node it unlocks exclusively in the end is the
foot, and the one it writes to is locked exclusively (`FootExclusive`), is a fact
about towers and levels; that the lists stay lists is a fact about who is
exclusive. So here neither half is inductive alone: `NextInvariant` shows that
`IInv /\ StructureInv` is.

Two readers may stand on the same node, so "two threads never point to the same node"
becomes: not if one of them is exclusive (`OwnPointers`, `Apart`, `Locked`). That is enough
wherever the order of two threads is strict, for `InFront` is about an insert that
still holds a node of the level above or a remove that has begun, and both are
exclusive.

*Deadlock.* The order of locks is the same in either mode, and a thread that goes from
shared to exclusive does so on a node it does not have yet. `WaitsFor` also lets a
reader wait for a writer that waits for the same node: of the threads that wait for
the last node none waits for a thread that has it, so the writers among them wait
for nobody and the readers at most for those.

*Linearizability* is shown as for the spinlock version. An insert still writes, and a
`remove` still deletes, under an exclusive lock; what a reader reads it has locked, at
least shared, and so nobody changes it (`OthersAsk`).

### The B-skiplist

The invariant has the same two halves, `Inv == LInv /\ \E at, on : Shape(at, on)`,
and as in the read-write version neither is inductive alone: that a merge unlinks the
node it means to is a fact about the list, that the list stays one is a fact about who
has the nodes exclusively.

*Locks.* `LInv` says that the mutexes a thread has are those its pointers name, each in
the mode it will unlock it in (`Holds`), and that an exclusive owner is alone. What a
thread may write follows from it (`Guarded`): `WritesAreGuarded` is that, action by
action.

*Shape.* `Shape(at, on)` has five parts:

* `Listed` — the nodes `on` are, level by level, lists in the order of their first keys,
  with each node's keys below the start of the next. The right neighbour is `Right`,
  which is `next` but for one case: between the two halves of a merge a node is empty and still
  linked (`Leftover`), and `Right` skips it. Only the last nodes are empty otherwise;
* `DownInv` — an entry of a level above the bottom points down to the node which starts
  with its key, or to the node its insert holds and has yet to put there (`Waits`). In
  this version the property has to survive a split, which moves entries to a node
  that starts with another key, and `delete_value`, which takes out the first entry of
  a node: no entry above points to a node at that moment;
* `Accounted` — what is allocated is on a list or in the hands of an insert;
* `ThreadInv` — where each thread is. `TowersPassed` says, as above, that a
  search has every node an entry of the level above leads to behind it, but for those past
  its key; so the `remove` that takes out the start of a node has taken out the
  entry that led there, and has `prev` set when the node has to go
  (`PrevInv`: "prev has to be non null"). `SinkInv` is about an insert between two levels:
  it goes down at the node that is to be the start of its lower part;
* `InFront` — nobody on the same level who has as far to go gets past an insert that
  still has a node to put there.

`ListChange`, `ListUnlink` and `ListSplit` say of lists alone what the node operations do
to them. `HeapStep` is what the invariant needs of a step that writes: it keeps
`Listed` and `DownInv`, and what it changes it has locked or just made; `OthersKept`
then gives `ThreadInv` and `InFront` for every other thread, once for all such steps. The
searches change no node and are reduced to the acting thread (`OnlyOwn`).

*From the invariant to the properties.* `LevelsSorted` and `DownStartsWithKey` walk along
`next` for as many steps as there are nodes. A walk along `Listed` ascends, so it never
comes back to a node, and as memory is finite it has reached the last node by then
(`LevelWalk`); it meets every node of the level (`WalkMeets`), and where it meets the leftover of
a merge the node after it is where `Right` says.

*Linearizability.* `Stored` is the set of all entries. `ValuesInv` says that those with a
value are those of the bottom level; a key has one entry on a level (`OneEntry`), so
`Contents` reads the map off `Stored`, and whatever only moves entries changes nothing:
splits (`PlaceStores`, but for the entry it adds), merges (`MoveOverStores`), and all that
happens above the bottom. `MapInv` adds to `ValuesInv` that an answer is given once (`ReplyInv`); that
a `remove` that has taken its key off the bottom level finds nothing more to the right
(`RemovedInv`), so that its last step is not seen; and that a range has a key to be at
(`RangeInv`). A `remove` takes effect where it takes out the entry, an insert
where it places it on the bottom level or writes the value at the foot of the tower, a `get` where it
reads or finds the end of the bottom level. The range is the
longest case: what it hands out next is the next entry in its node or the first of the
node to the right, and that this is the least key bound after the last one needs that no
key lies between two entries of a node (`NoneInNode`) or between two nodes
(`NoneToRight`). No step but the one that writes a node under its lock disturbs
what another thread has read there (`CurKept`), and no node comes to start lower while somebody
is on its way to it (`Rising`).

*The benchmark.* `BSkiplistMapProofs` is also about `Bench`, whose threads take the
steps of `BSkiplist`. When all are idle no insert has a node in hand, so `Accounted` says that
all that is in use is on a list, and the destructor's walks meet it (`AllOnLists`).
`LoadInv` says that each thread has put in the keys of its part before its turn, but for
the one it is at (`Loading`). What a step does to those keys is shown from the step of `OrderedMap` it is
(`KeepsBound`, `InsertBinds`, `NoneMissed`), so what the tests expect of concurrent readers follows
from `SkiplistIsAMap`. That the parts of the threads are all of the load, with what the
division leaves over, is `AllCovered`.

### The arrays

`IInv` is `Inv` of the variables of `NodeArray`, and `Inv` has three parts beside the types:

* `Once` — the allocated objects are the lost values and what the slots own, each owned
  by one slot. It is `OwnedOnce` but for sizes, with one thing more: no slot owns the
  same object as its key and as its value;
* `Filled` — the slots of a node that count hold its entries in order, the others, and the
  local of `insert_into_node`, hold nothing;
* `Keyed` — the nodes of the list are those with entries, only the first entry of the
  first node has no key, and at the bottom all others have a value.

`Represents` follows from `Filled`. It needs `Keyed` because the search for the place of a
key reads the entries (`Home`, `Passed`), and because `delete_value` must not delete
the first node. `Once` needs the others in turn: the local that `new` fills must have owned
nothing, and where a value is replaced there must have been one.

`clear` and a move assignment keep `Once` (`ClearIs`, `MoveIs`). `std::shift_left`,
`std::shift_right` and the loops that move a tail to another node are lists of move
assignments that take nothing from a slot they have put something into (`Clean`). Of
such a list `MovesAre` says that each slot assigned to ends with what the other had
*at first*, that what is only moved from ends null, and that nothing else changes. Its
induction is over the number of moves done, and is a search for the first one after which
this fails (`LeastNumber`), since the library's induction theorems cannot be used. A
`shift_right` from the front is not clean, which is the mutant of `Represents`. For
each action, one lemma then says what it does to each slot of each node, and compares with what
`Placed`, `MovedOver` or `Without` do to the sequence.

An object is a key or value with a member of `Copy`, so that two allocations of the same
key differ. `new` waits when `Copy` is used up (`Unmade`), and the theorems are for any
`Copy`, an infinite one too.

### The sequential skiplist

`IInv` is `TypeInv` and, as long as the skiplist is there, some levels `at` with
`ListsInv` (as above, with all nodes linked) and `Place`, which says where the call
is: short of its key, with the key on no level above unless it is building a tower,
on a whole tower, and so on. Once it is destroyed, `Structure` and `NoNodeLeaks` are
what is left to say. `Structure` leaves out `older` from the whole towers, for
between two levels of an insert the upper node has no `down` yet.

### How the invariants were found

Each inductive invariant was first checked by TLC on the instance of its run, with
`at` the level of an address and `on` the nodes the lists reach.

### What is only model-checked

* `EveryCallReturns`, `Completes` and `SomeoneGetsIn`: liveness under fairness is
  beyond the prover.
* The two findings are counterexamples and need no proof.

## 5. What is not modelled

* `print`: output for debugging, under no lock, used by single-threaded tests.
* Of the benchmark, timing, output and the sweep over thread counts; of the tests,
  everything but the shape of their clients and two mixes of calls.
* The key and value objects of the versions with one key per node: a node has one of
  each from its making to its end. `insert_or_modify` replaces `val` without deleting
  the old one in all versions; `NodeArray` has this leak (`lost`).
* The memory of a node a merge has emptied is never freed. `BSkiplist` and
  `NodeArray` take the node out of use (and `BSkiplist` clears its `next`, which the code
  leaves, so that states differ only in what can be reached); that nothing leads to it any more is part of
  `MemorySafe`.
* The distribution of levels, and what the race on the generator does to it beyond "any
  level in range".
* The policy of `std::shared_mutex` between waiting readers and writers, and what
  the standard leaves undefined about it: destroying it locked (the node goes with its
  lock, as with the pthread implementation) and locking it twice.
* Exceptions: a `func` or a copy of a key or value that throws while nodes are locked
  leaves them locked. Nothing in the repository throws there, or says what should
  hold then. The same for a `func` that calls the skiplist again.
* `size` as a `uint8_t` that wraps: `NodeArray` assumes `ARRAY_SIZE` below 256.

## 6. Plan

The order was chosen by weight: the spinlock version and its lock first (the
simplest concurrent one, and the base of the others), the B-skiplist next (the
subject of the repository), then the sequential and the read-write version, then
what surrounds them: clients and destructors, the benchmark, and the arrays with
the ownership of their slots. These are modelled and checked. All four skiplists are proved to
implement `OrderedMap`, with the invariants that rests on, and the arrays to hold what the
B-skiplist says. Every invariant and every action property that a run checks is a theorem;
what is left to TLC is liveness.
