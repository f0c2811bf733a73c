--------------------------- MODULE MCLockSkiplist ---------------------------
(***************************************************************************)
(* LockSkiplist for TLC: node addresses are small integers, the sentinels  *)
(* come first.  Each key has one address on each level: there is never a   *)
(* second node of the same key on a level, and states that differ only in  *)
(* which address a node got are not told apart.                            *)
(***************************************************************************)
EXTENDS LockSkiplist, TLC

MCHead == [i \in Level |-> i + 1]
MCTail == [i \in Level |-> MaxHeight + i + 1]
MCSite == [k \in Key |-> [i \in Level |-> {(k + 1) * MaxHeight + i + 1}]]

Symmetry == Permutations(Thread) \cup Permutations(Value)
=============================================================================
