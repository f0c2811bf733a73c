------------------------------ MODULE MCBench ------------------------------
(***************************************************************************)
(* Bench for TLC: two threads, a load of three keys two of which are the   *)
(* same, and two operations in the run phase, one on each thread.          *)
(***************************************************************************)
EXTENDS Bench, TLC

CONSTANTS Spare    \* the addresses of each key on each level

MCFirst == [i \in Level |-> i + 1]
MCLast  == [i \in Level |-> MaxHeight + i + 1]
MCSite  == [k \in Key |-> [i \in Level |->
              {2 * MaxHeight + ((k - 1) * MaxHeight + i) * Spare + j : j \in 1 .. Spare}]]
MCNode  == 1 .. 2 * MaxHeight + Cardinality(Key) * MaxHeight * Spare

MCLoadKeys == {(0 :> 1) @@ (1 :> 2) @@ (2 :> 1), (0 :> 1) @@ (1 :> 1) @@ (2 :> 2),
               (0 :> 2) @@ (1 :> 1) @@ (2 :> 2)}
=============================================================================
