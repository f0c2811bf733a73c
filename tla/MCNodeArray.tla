----------------------------- MODULE MCNodeArray -----------------------------
(* One level with room for four keys in up to four arrays of four slots.   *)
EXTENDS NodeArray

CONSTANTS n0, n1, n2, n3, v1

MCNode == {n0, n1, n2, n3}
MCKey == 1 .. 4
MCValue == {v1}
MCCopy == 1 .. 6
=============================================================================
