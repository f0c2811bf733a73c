------------------------------- MODULE Entries -------------------------------
(***************************************************************************)
(* The entries a node of the cache-friendly skiplist holds, as a sequence, *)
(* and what insert_into_node, the merge in insert_or_modify and            *)
(* delete_value make of them.  BSkiplist works on nodes that are such      *)
(* sequences; NodeArray has the arrays and shows they amount to the same.  *)
(***************************************************************************)
EXTENDS Calls, Sequences

Entry(k, v, d) == [key |-> k, val |-> v, down |-> d]

\* How many entries of s the loops over data[i] pass: those before the first
\* whose key is not null and not below k.
Passed(s, k) ==
  LET stops == {i \in DOMAIN s : s[i].key # NoKey /\ s[i].key >= k}
  IN IF stops = {} THEN Len(s) ELSE (CHOOSE i \in stops : \A j \in stops : i <= j) - 1

Hit(s, k) == Passed(s, k) < Len(s) /\ s[Passed(s, k) + 1].key = k

UpTo(s, i)  == SubSeq(s, 1, i)
After(s, i) == SubSeq(s, i + 1, Len(s))

\* In the nodes d, the entry e goes to node c behind its first i entries; when
\* that splits c, it starts node n and takes along the entries behind it.
Placed(d, c, n, i, e, split) ==
  IF split THEN [d EXCEPT ![c] = UpTo(@, i), ![n] = <<e>> \o After(d[c], i)]
  ELSE [d EXCEPT ![c] = (UpTo(@, i) \o <<e>>) \o After(@, i)]

\* All but the first i entries of c go to the empty node n.
MovedOver(d, c, n, i) == [d EXCEPT ![c] = UpTo(@, i), ![n] = After(d[c], i)]

\* The entry behind the first i is taken out.
Without(s, i) == UpTo(s, i) \o After(s, i + 1)
=============================================================================
