---------------------------- MODULE SharedMutex ----------------------------
(***************************************************************************)
(* The std::shared_mutex every node of the read-write and of the           *)
(* cache-friendly skiplist has, and the lock and unlock a node wraps       *)
(* around it.  Whoever has it exclusively has it alone.                    *)
(***************************************************************************)
CONSTANTS
  Node,       \* the nodes, each with a mutex
  NoThread    \* the owner of a mutex nobody has locked exclusively

VARIABLES
  alive,      \* the nodes that are allocated
  owner,      \* the thread that has each mutex exclusively
  shared      \* the threads that have it shared

\* lock in mode m returns at once.  The mutex of a node that has been deleted
\* is gone; what its lock() does is anyone's guess, here it returns.
CanLock(n, m) ==
  n \in alive => owner[n] = NoThread /\ (m = "exclusive" => shared[n] = {})

\* t locks the nodes of got in mode m and unlocks those of left, where it has
\* them in mode l.
Relock(t, got, m, left, l) ==
  /\ owner' = [n \in Node |->
                 IF l = "exclusive" /\ n \in left THEN NoThread
                 ELSE IF m = "exclusive" /\ n \in got THEN t ELSE owner[n]]
  /\ shared' = [n \in Node |->
                  IF l = "shared" /\ n \in left THEN shared[n] \ {t}
                  ELSE IF m = "shared" /\ n \in got THEN shared[n] \cup {t}
                  ELSE shared[n]]

Unlock(t, left, l) == Relock(t, {}, l, left, l)
=============================================================================
