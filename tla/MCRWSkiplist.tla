---------------------------- MODULE MCRWSkiplist ----------------------------
(***************************************************************************)
(* RWSkiplist for TLC: node addresses are small integers, the sentinels    *)
(* come first and each key has one address on each level.                  *)
(***************************************************************************)
EXTENDS RWSkiplist, TLC

MCHead == [i \in Level |-> i + 1]
MCTail == [i \in Level |-> MaxHeight + i + 1]
MCSite == [k \in Key |-> [i \in Level |-> {(k + 1) * MaxHeight + i + 1}]]
MCNode == 1 .. (Cardinality(Key) + 2) * MaxHeight

Symmetry == Permutations(Thread) \cup Permutations(Value)
=============================================================================
