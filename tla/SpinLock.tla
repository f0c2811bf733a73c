------------------------------ MODULE SpinLock ------------------------------
(***************************************************************************)
(* Class Lock of src/concurrent_skiplist_lock: a spinlock on one atomic    *)
(* flag.  Each atomic operation is a step of its own.  Threads call        *)
(* unlock only when they hold the lock, as LockSkiplist does (LocksHeld).  *)
(***************************************************************************)
EXTENDS Integers, FiniteSets

CONSTANTS
  Thread,
  NoThread,
  NumTries     \* num_tries: failures in a row before the thread yields

ASSUME SpinAssumption ==
  /\ NumTries \in Nat /\ NumTries > 0
  /\ NoThread \notin Thread

VARIABLES
  flag,        \* the atomic flag
  pc,          \* where each thread is
  tries        \* its local tries

vars == <<flag, pc, tries>>

Init ==
  /\ flag = FALSE
  /\ pc = [t \in Thread |-> "out"]
  /\ tries = [t \in Thread |-> 0]

Goto(t, l) == pc' = [pc EXCEPT ![t] = l]

\* lock() is called.
CallLock(t) ==
  /\ pc[t] = "out"
  /\ Goto(t, "spin")
  /\ tries' = [tries EXCEPT ![t] = 0]
  /\ UNCHANGED flag

\* compare_exchange_weak(false, true) succeeds.  Fault: a load, then a store.
CasOnStaleFlag(t) ==
  /\ pc[t] = "spin"
  /\ flag' = TRUE
  /\ Goto(t, "in")
  /\ UNCHANGED tries

CasSucceeds(t) ==
  /\ pc[t] = "spin"
  /\ ~flag
  /\ flag' = TRUE
  /\ Goto(t, "in")
  /\ UNCHANGED tries

\* It fails: the flag was set, or for no reason, as the weak form may.  After
\* NumTries failures the thread yields.
CasFails(t) ==
  LET failed == tries[t] + 1 IN
  /\ pc[t] = "spin"
  /\ tries' = [tries EXCEPT ![t] = IF failed >= NumTries THEN 0 ELSE failed]
  /\ Goto(t, IF failed >= NumTries THEN "yield" ELSE "spin")
  /\ UNCHANGED flag

\* std::this_thread::yield returns.
Resume(t) ==
  /\ pc[t] = "yield"
  /\ Goto(t, "spin")
  /\ UNCHANGED <<flag, tries>>

\* try_lock: compare_exchange_strong fails only when the flag is set.
TryLock(t) ==
  /\ pc[t] = "out"
  /\ flag' = TRUE
  /\ Goto(t, IF flag THEN "out" ELSE "in")
  /\ UNCHANGED tries

\* unlock().  Fault: the flag is left as it was.
KeepFlag(t) ==
  /\ pc[t] = "in"
  /\ Goto(t, "out")
  /\ UNCHANGED <<flag, tries>>

Unlock(t) ==
  /\ pc[t] = "in"
  /\ flag' = FALSE
  /\ Goto(t, "out")
  /\ UNCHANGED tries

Next ==
  \E t \in Thread :
    CallLock(t) \/ CasSucceeds(t) \/ CasFails(t) \/ Resume(t) \/ TryLock(t) \/ Unlock(t)

\* The weak exchange fails although the flag is clear.
FailsForNoReason(t) == ~flag /\ CasFails(t)

\* A waiting thread keeps running, and an exchange tried again and again on
\* a clear flag does not fail for no reason every time.  A thread whose every
\* exchange meets a set flag is promised nothing.  That a holder calls unlock
\* is its own affair.
Fairness ==
  \A t \in Thread :
    /\ WF_vars(CasSucceeds(t) \/ CasFails(t) \/ Resume(t))
    /\ []<><<FailsForNoReason(t)>>_vars => []<><<CasSucceeds(t)>>_vars

Spec == Init /\ [][Next]_vars

FairSpec == Spec /\ Fairness

-----------------------------------------------------------------------------
\* The count of failures never reaches num_tries.
TypeOK ==
  /\ flag \in BOOLEAN
  /\ pc \in [Thread -> {"out", "spin", "yield", "in"}]
  /\ tries \in [Thread -> 0 .. NumTries - 1]

Holders == {t \in Thread : pc[t] = "in"}

\* Two threads never hold the lock, and the flag says whether one does: a
\* free lock can be taken, a taken one cannot.
MutualExclusion ==
  /\ \A t, u \in Holders : t = u
  /\ flag <=> Holders # {}

\* The lock is a mutex.
Owner == IF Holders = {} THEN NoThread ELSE CHOOSE t \in Holders : TRUE

Abstract == INSTANCE Mutex WITH owner <- Owner

ImplementsMutex == Abstract!Spec

\* The lock makes progress: when threads are spinning and the holder, if
\* there is one, unlocks, one of them gets the lock.  A given thread may never.
SomeoneGetsIn ==
  (\E t \in Thread : pc[t] = "spin") ~> (Holders # {})
=============================================================================
