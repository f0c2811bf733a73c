------------------------------ MODULE TowerHeap ------------------------------
(***************************************************************************)
(* The nodes of the skiplists whose levels are singly linked lists of one  *)
(* key each: SimpleSkiplistNode, the constructor that builds the empty     *)
(* list, and operator new.  Pointers are members of Node, nullptr is Null. *)
(* A destroyed node leaves alive and its fields are cleared, so a pointer  *)
(* to it is a pointer outside alive.                                       *)
(***************************************************************************)
EXTENDS Calls, FiniteSets

CONSTANTS
  Node,        \* the addresses a node can have
  Null,        \* nullptr
  Head,        \* structure[i]: the node the list of level i starts with
  Tail,        \* the node the list of level i ends with
  Site         \* Site[k][i]: where operator new may place a node of key k on
               \* level i

ASSUME HeapAssumption ==
  /\ IsFiniteSet(Node)
  /\ Null \notin Node
  /\ Head \in [Level -> Node]
  /\ Tail \in [Level -> Node]
  /\ \A i, j \in Level : /\ Head[i] # Tail[j]
                         /\ i # j => Head[i] # Head[j] /\ Tail[i] # Tail[j]
  /\ Site \in [Key -> [Level -> SUBSET Node]]

VARIABLES
  key,     \* the key of each node
  val,     \* its value: only nodes of level 0 have one
  next,    \* the node to its right
  down,    \* the node below it
  alive    \* the nodes that are allocated

heap == <<key, val, next, down, alive>>

Pointer == Node \cup {Null}

Sentinel == {Head[i] : i \in Level} \cup {Tail[i] : i \in Level}

HeapTypeOK ==
  /\ key \in [Node -> Key \cup {NoKey}]
  /\ val \in [Node -> Value \cup {NoValue}]
  /\ next \in [Node -> Pointer]
  /\ down \in [Node -> Pointer]
  /\ alive \subseteq Node

\* The constructor: a head and a tail on every level, each linked to the
\* one below it.
HeapInit ==
  /\ alive = Sentinel
  /\ key = [n \in Node |-> NoKey]
  /\ val = [n \in Node |-> NoValue]
  /\ next = [n \in Node |->
               IF \E i \in Level : n = Head[i]
               THEN Tail[CHOOSE i \in Level : n = Head[i]] ELSE Null]
  /\ down = [n \in Node |->
               IF \E i \in Level \ {0} : n = Head[i]
               THEN Head[(CHOOSE i \in Level : n = Head[i]) - 1]
               ELSE IF \E i \in Level \ {0} : n = Tail[i]
               THEN Tail[(CHOOSE i \in Level : n = Tail[i]) - 1] ELSE Null]

\* operator new: an address that is not in use.
Vacant(k, i) == {n \in Node \ alive : n \in Site[k][i]}
Fresh(k, i) == CHOOSE n \in Vacant(k, i) : TRUE

\* The comparisons a search makes with the node c to its right: the tail,
\* known by its null next pointer, is beyond every key.  Fault: so is every
\* node of another key.
BeyondIfDifferent(c, k) == next[c] # Null => key[c] # k
Beyond(c, k) == next[c] # Null => key[c] > k
Equal(c, k)  == next[c] # Null /\ key[c] = k
Before(c, k) == next[c] # Null /\ key[c] < k

-----------------------------------------------------------------------------
(* What an insert and a remove do to the nodes.                            *)

\* new SimpleSkiplistNode: a node of key k, with a value on level 0.
Create(n, k, i, v) ==
  /\ alive' = alive \cup {n}
  /\ key' = [key EXCEPT ![n] = k]
  /\ val' = [val EXCEPT ![n] = IF i = 0 THEN v ELSE NoValue]

\* new_val->next = p->next; p->next = new_val.  Fault: in the other order.
BehindItself(p, n) == [next EXCEPT ![p] = n, ![n] = n]
Behind(p, n) == [next EXCEPT ![n] = next[p], ![p] = n]

\* older_level_val->down = n, if there is one.  Fault: it stays null.
UnderNothing(older_level_val, n) == down
Under(older_level_val, n) == [m \in Node |-> IF m = older_level_val THEN n ELSE down[m]]

\* prev->next = cur->next.  Fault: cur stays linked.
SkipNothing(p, c) == next
Skip(p, c) == [next EXCEPT ![p] = next[c]]

\* delete n, when the next pointers are already those of nx.  Fault: it is
\* not deleted.
DestroyNothing(n, nx) == next' = nx /\ UNCHANGED <<alive, key, val, down>>
Destroy(n, nx) ==
  /\ alive' = alive \ {n}
  /\ key' = [key EXCEPT ![n] = NoKey]
  /\ val' = [val EXCEPT ![n] = NoValue]
  /\ down' = [down EXCEPT ![n] = Null]
  /\ next' = [nx EXCEPT ![n] = Null]

-----------------------------------------------------------------------------
\* The nodes of the list of level i: those within a given number of steps
\* along next from its head.
Chain(i) ==
  LET within[j \in Nat] ==
        IF j = 0 THEN {Head[i]}
        ELSE LET near == within[j-1]
             IN near \cup ({next[n] : n \in near} \ {Null})
  IN within[Cardinality(Node)]

\* m may stand immediately left of n on level i.
Ordered(i, m, n) == n = Tail[i] \/ m = Head[i] \/ key[m] < key[n]

\* Each level is a list from its head to its tail in strictly ascending
\* key order.
LevelsSorted ==
  \A i \in Level :
    /\ Tail[i] \in Chain(i)
    /\ \A n \in Chain(i) : next[n] # Null => Ordered(i, n, next[n])

\* Every node above the bottom level stands on the node of the same key one
\* level down, except those of loose.
Stacked(loose) ==
  \A i \in Level \ {0} : \A n \in Chain(i) :
    \/ down[n] \in Chain(i - 1) /\ key[down[n]] = key[n]
    \/ down[n] = Null /\ n \in loose

\* No pointer of a live node leads to a deleted one.
LinksLive ==
  /\ Sentinel \subseteq alive
  /\ \A n \in alive : {next[n], down[n]} \subseteq alive \cup {Null}

\* The map the structure stands for: the nodes that have a value, which are
\* those of the bottom level.
Contents ==
  [k \in Key |->
     LET holders == {n \in Node : key[n] = k /\ val[n] # NoValue}
     IN IF holders = {} THEN NoValue ELSE val[CHOOSE n \in holders : TRUE]]
=============================================================================
