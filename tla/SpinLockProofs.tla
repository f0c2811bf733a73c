--------------------------- MODULE SpinLockProofs ---------------------------
(***************************************************************************)
(* Proofs about SpinLock, for any set of threads and any num_tries.  The   *)
(* inductive invariant is TypeOK and MutualExclusion together: the second  *)
(* alone says when the flag is set, which is all that taking it needs.     *)
(***************************************************************************)
EXTENDS SpinLock, TLAPS

Inv == TypeOK /\ MutualExclusion

\* Initially the lock is free and nobody is waiting.
LEMMA InitInv == Init => Inv
  <1> SUFFICES ASSUME Init PROVE Inv
    OBVIOUS
  <1>1. TypeOK
    <2>1. 0 \in 0 .. NumTries - 1
      BY SpinAssumption
    <2>2. flag \in BOOLEAN
      BY DEF Init
    <2>3. pc \in [Thread -> {"out", "spin", "yield", "in"}]
      BY DEF Init
    <2>4. tries \in [Thread -> 0 .. NumTries - 1]
      BY <2>1 DEF Init
    <2> QED
      BY <2>2, <2>3, <2>4 DEF TypeOK
  <1>2. Holders = {}
    BY DEF Init, Holders
  <1>3. MutualExclusion
    BY <1>2, Zenon DEF Init, MutualExclusion
  <1> QED
    BY <1>1, <1>3 DEF Inv

\* Every atomic operation keeps the flag in step with the holders.
LEMMA NextInv == Inv /\ [Next]_vars => Inv'
  <1> SUFFICES ASSUME Inv, [Next]_vars PROVE Inv'
    OBVIOUS
  <1> USE SpinAssumption DEF Inv, TypeOK, MutualExclusion, Holders, Goto
  <1>1. ASSUME NEW t \in Thread, CallLock(t) PROVE Inv'
    BY <1>1 DEF CallLock
  <1>2. ASSUME NEW t \in Thread, CasSucceeds(t) PROVE Inv'
    BY <1>2 DEF CasSucceeds
  <1>3. ASSUME NEW t \in Thread, CasFails(t) PROVE Inv'
    BY <1>3 DEF CasFails
  <1>4. ASSUME NEW t \in Thread, Resume(t) PROVE Inv'
    BY <1>4 DEF Resume
  <1>5. ASSUME NEW t \in Thread, TryLock(t) PROVE Inv'
    BY <1>5 DEF TryLock
  <1>6. ASSUME NEW t \in Thread, Unlock(t) PROVE Inv'
    BY <1>6 DEF Unlock
  <1>7. CASE UNCHANGED vars
    BY <1>7 DEF vars
  <1> QED
    BY <1>1, <1>2, <1>3, <1>4, <1>5, <1>6, <1>7 DEF Next

LEMMA AlwaysInv == Spec => []Inv
  BY InitInv, NextInv, PTL DEF Spec

\* The count of failures stays below num_tries, for every num_tries.
THEOREM SpinTypeCorrect == Spec => []TypeOK
  BY AlwaysInv, PTL DEF Inv

\* Two threads are never both past lock() or a successful try_lock, and the
\* flag is set exactly while one is.
THEOREM SpinMutualExclusion == Spec => []MutualExclusion
  BY AlwaysInv, PTL DEF Inv

-----------------------------------------------------------------------------
\* The owner of the mutex is the thread that is past lock().
LEMMA OwnerIsHolder ==
  ASSUME Inv, NEW t \in Thread, pc[t] = "in"
  PROVE  Owner = t
  BY DEF Inv, MutualExclusion, Owner, Holders

LEMMA NoOwner ==
  ASSUME Inv, flag = FALSE
  PROVE  Owner = NoThread
  BY DEF Inv, MutualExclusion, Owner

\* As long as nobody comes in or goes out the owner stays.
LEMMA OwnerStays ==
  ASSUME Holders' = Holders
  PROVE  Owner' = Owner
  BY DEF Owner

LEMMA StepIsMutexStep ==
  ASSUME Inv, Inv', [Next]_vars
  PROVE  [Abstract!Next]_Owner
  <1> USE SpinAssumption
  <1> DEFINE Take(t) == /\ pc[t] # "in" /\ flag = FALSE
                        /\ pc' = [pc EXCEPT ![t] = "in"]
             Stay == Holders' = Holders
  <1>1. ASSUME NEW t \in Thread, Take(t) PROVE Abstract!Lock(t)
    <2>1. Owner = NoThread
      BY <1>1, NoOwner
    <2>2. (pc[t])' = "in"
      BY <1>1 DEF Inv, TypeOK
    <2>3. Owner' = t
      BY <2>2 DEF Inv, MutualExclusion, Owner, Holders
    <2> QED
      BY <2>1, <2>3 DEF Abstract!Lock
  <1>2. ASSUME NEW t \in Thread, Unlock(t) PROVE Abstract!Unlock(t)
    <2>1. Owner = t
      BY <1>2, OwnerIsHolder DEF Unlock
    <2>2. Owner' = NoThread
      BY <1>2 DEF Unlock, Inv, MutualExclusion, Owner
    <2> QED
      BY <2>1, <2>2 DEF Abstract!Unlock
  <1>3. ASSUME NEW t \in Thread, CallLock(t) \/ CasFails(t) \/ Resume(t) PROVE Stay
    BY <1>3 DEF CallLock, CasFails, Resume, Goto, Holders, Inv, TypeOK
  <1>4. ASSUME NEW t \in Thread, CasSucceeds(t) PROVE Abstract!Lock(t)
    BY <1>1, <1>4 DEF CasSucceeds, Goto, Inv, TypeOK
  <1>5. ASSUME NEW t \in Thread, TryLock(t) PROVE Abstract!Lock(t) \/ Stay
    <2>1. CASE flag = FALSE
      BY <1>1, <1>5, <2>1 DEF TryLock, Goto
    <2>2. CASE flag = TRUE
      BY <1>5, <2>2 DEF TryLock, Goto, Holders, Inv, TypeOK
    <2> QED
      BY <2>1, <2>2 DEF Inv, TypeOK
  <1>6. CASE UNCHANGED vars
    BY <1>6 DEF vars, Owner, Holders
  <1>7. Stay => Owner' = Owner
    BY OwnerStays
  <1> HIDE DEF Stay
  <1> QED
    BY <1>2, <1>3, <1>4, <1>5, <1>6, <1>7 DEF Next, Abstract!Next

\* The class implements the mutex that LockSkiplist takes it for.
THEOREM SpinImplementsMutex == Spec => ImplementsMutex
  <1>1. Init => Abstract!Init
    BY DEF Init, Abstract!Init, Owner, Holders
  <1> QED
    BY <1>1, AlwaysInv, StepIsMutexStep, PTL DEF Spec, ImplementsMutex, Abstract!Spec
=============================================================================
