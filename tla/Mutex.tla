------------------------------- MODULE Mutex -------------------------------
(***************************************************************************)
(* What the steps of LockSkiplist take a lock to be: it is free or it has  *)
(* one owner, and it passes from one owner to the next only by being free. *)
(***************************************************************************)
CONSTANTS Thread, NoThread

VARIABLE owner

Init == owner = NoThread

Lock(t) == owner = NoThread /\ owner' = t

Unlock(t) == owner = t /\ owner' = NoThread

Next == \E t \in Thread : Lock(t) \/ Unlock(t)

Spec == Init /\ [][Next]_owner
=============================================================================
