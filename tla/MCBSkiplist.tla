---------------------------- MODULE MCBSkiplist ----------------------------
(***************************************************************************)
(* BSkiplist for TLC: node addresses are small integers, the sentinels     *)
(* come first.  Each key has its own few addresses on each level, so that  *)
(* states that differ only in which address a node got are mostly not told *)
(* apart; a call for which they do not suffice would wait (Vacant).        *)
(***************************************************************************)
EXTENDS BSkiplist, TLC

CONSTANTS Spare    \* the addresses of each key on each level

MCFirst == [i \in Level |-> i + 1]
MCLast  == [i \in Level |-> MaxHeight + i + 1]
MCSite  == [k \in Key |-> [i \in Level |->
              {2 * MaxHeight + ((k - 1) * MaxHeight + i) * Spare + j : j \in 1 .. Spare}]]
MCNode  == 1 .. 2 * MaxHeight + Cardinality(Key) * MaxHeight * Spare

ThreadSymmetry == Permutations(Thread)
Symmetry == ThreadSymmetry \cup Permutations(Value)
=============================================================================
