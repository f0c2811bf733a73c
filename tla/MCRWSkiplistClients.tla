------------------------ MODULE MCRWSkiplistClients ------------------------
(***************************************************************************)
(* RWSkiplistClients for TLC: two threads, the first making two calls and  *)
(* the second one, on three levels: an insert searches under shared locks  *)
(* and goes over to exclusive ones on its way down.                        *)
(***************************************************************************)
EXTENDS RWSkiplistClients, TLC

CONSTANTS t1, t2

MCHead == [i \in Level |-> i + 1]
MCTail == [i \in Level |-> MaxHeight + i + 1]
MCSite == [k \in Key |-> [i \in Level |-> {(k + 1) * MaxHeight + i + 1}]]
MCNode == 1 .. (Cardinality(Key) + 2) * MaxHeight

MCThread   == {t1, t2}
MCMaxCalls == (t1 :> 2) @@ (t2 :> 1)
=============================================================================
