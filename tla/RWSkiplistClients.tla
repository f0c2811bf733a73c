------------------------- MODULE RWSkiplistClients -------------------------
(***************************************************************************)
(* The life of an RWSkiplist as the tests drive it: threads that each make *)
(* finitely many calls, the joins that wait for all of them, and the       *)
(* destructor.                                                             *)
(***************************************************************************)
EXTENDS RWSkiplist

CONSTANT MaxCalls    \* how many calls each thread makes at most

ASSUME ClientAssumption == MaxCalls \in [Thread -> Nat]

VARIABLES
  calls,     \* how many calls each thread has made
  phase      \* "running", or "destroyed" once the destructor has run

clientVars == <<vars, calls, phase>>

ClientInit == Init /\ calls = [t \in Thread |-> 0] /\ phase = "running"

StartCall(t) ==
  /\ phase = "running"
  /\ calls[t] < MaxCalls[t]
  /\ \E o \in Ops(GenLevels) : Call(t, o)
  /\ calls' = [calls EXCEPT ![t] = @ + 1]
  /\ UNCHANGED phase

RunCall(t) == Step(t) /\ UNCHANGED <<calls, phase>>

\* Every thread is out of its last call: they have been joined.
Joined == \A t \in Thread : pc[t] = "idle"

\* ~SimpleSkiplist deletes what it finds by following next from every head,
\* and goes from a head to the one below.
Destructor ==
  /\ phase = "running"
  /\ Joined
  /\ alive' = alive \ UNION {Chain(i) : i \in Level}
  /\ phase' = "destroyed"
  /\ UNCHANGED <<key, val, next, down, locks, pc, op, locals, reply, calls>>

ClientNext == Destructor \/ \E t \in Thread : StartCall(t) \/ RunCall(t)

\* The operating system runs every thread that can run; a thread in lock()
\* can run whenever the mutex is free for it.  Nothing more is assumed of the
\* order in which a mutex serves the threads that wait for it.
ClientSpec ==
  /\ ClientInit /\ [][ClientNext]_clientVars
  /\ \A t \in Thread : WF_clientVars(RunCall(t))

-----------------------------------------------------------------------------
\* Every call returns: a thread that goes from shared to exclusive locks on
\* its way down never waits for itself or in a circle, none leaves a mutex
\* locked, no search runs forever.
EveryCallReturns == \A t \in Thread : []<>(pc[t] = "idle")

\* Every node that was allocated is deleted once: by a remove, or else by the
\* destructor.
NoNodeLeaks == phase = "destroyed" => alive = {}
=============================================================================
