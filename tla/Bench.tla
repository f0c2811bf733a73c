------------------------------- MODULE Bench -------------------------------
(***************************************************************************)
(* The life of a BSkiplist in bench.cpp: a load phase and a run phase,     *)
(* each split over threads that are joined at its end, and the destructor. *)
(* The concurrent tests drive it in the same way; two of their mixes of    *)
(* calls are workloads here too.                                           *)
(***************************************************************************)
EXTENDS BSkiplist

CONSTANTS
  LoadSize,    \* load_keys.size()
  LoadKeys,    \* the vectors load_keys may be: keys are drawn with repetition
  Operations   \* OPS_PER_BENCH

ASSUME BenchAssumption ==
  /\ Cardinality(Thread) \in Nat \ {0} /\ Thread = 0 .. Cardinality(Thread) - 1
  /\ LoadSize \in Nat /\ Operations \in Nat
  /\ LoadKeys \subseteq [0 .. LoadSize - 1 -> Key]
  /\ Key \cup (0 .. Operations - 1) \subseteq Value

VARIABLES
  phase,       \* "load", "run", and "over" once the destructor has run
  workload,    \* workload_fn
  loadKeys,    \* load_keys
  turn         \* the local i of each thread: the next operation it does

benchVars == <<vars, phase, workload, loadKeys, turn>>

Workload == {"write", "read", "mixed", "readHeavy", "scan", "chaos", "rangesDuringWrites"}

-----------------------------------------------------------------------------
(* parallel_timed: [0, n) split over the threads.                          *)

Total(p) == IF p = "load" THEN LoadSize ELSE Operations

Lo(t, n) == t * (n \div Cardinality(Thread))

\* The last thread does what is left over.  Fault: nobody does.
HiEven(t, n) == Lo(t, n) + n \div Cardinality(Thread)
Hi(t, n) == IF t = Cardinality(Thread) - 1 THEN n ELSE Lo(t, n) + n \div Cardinality(Thread)

Finished(t) == turn[t] = Hi(t, Total(phase)) /\ pc[t] = "idle"

-----------------------------------------------------------------------------
\* What operation i of a workload may call.  Inserts write i; run_keys[i] can
\* be any key.
Named(w, i) ==
  CASE w = "write"     -> {"insert"}
    [] w = "read"      -> {"get"}
    [] w = "mixed"     -> IF i % 2 = 0 THEN {"get"} ELSE {"insert"}
    [] w = "readHeavy" -> IF i % 5 # 0 THEN {"get"} ELSE {"insert"}
    [] w = "scan"      -> {"range"}
    [] w = "chaos"     -> {"insert", "get", "remove"}
    [] w = "rangesDuringWrites" -> IF i % 2 = 0 THEN {"range"} ELSE {"insert"}

Operation(i) ==
  {o \in Ops(GenLevels) :
     IF phase = "load"
     THEN o.name = "insert" /\ o.key = loadKeys[i] /\ o.val = loadKeys[i]
     ELSE o.name \in Named(workload, i) /\ (o.name = "insert" => o.val = i)}

BenchInit ==
  /\ Init
  /\ phase = "load"
  /\ workload = "write"
  /\ loadKeys \in LoadKeys
  /\ turn = [t \in Thread |-> Lo(t, LoadSize)]

\* f(i)
StartOperation(t) ==
  /\ phase # "over"
  /\ turn[t] < Hi(t, Total(phase))
  /\ \E o \in Operation(turn[t]) : Call(t, o)
  /\ turn' = [turn EXCEPT ![t] = @ + 1]
  /\ UNCHANGED <<phase, workload, loadKeys>>

RunThread(t) ==
  \/ StartOperation(t)
  \/ Step(t) /\ UNCHANGED <<phase, workload, loadKeys, turn>>

\* th.join() on every thread of the load phase; the run phase starts.
Join ==
  /\ phase = "load"
  /\ \A t \in Thread : Finished(t)
  /\ phase' = "run"
  /\ workload' \in Workload
  /\ turn' = [t \in Thread |-> Lo(t, Operations)]
  /\ UNCHANGED <<vars, loadKeys>>

\* The threads of the run phase are joined and the skiplist goes out of scope:
\* ~SimpleSkiplist deletes the nodes it finds along next on each level.
Destructor ==
  /\ phase = "run"
  /\ \A t \in Thread : Finished(t)
  /\ alive' = alive \ UNION {{Walk(i)[j] : j \in DOMAIN Walk(i)} : i \in Level}
  /\ phase' = "over"
  /\ UNCHANGED <<data, next, locks, pc, op, height, cur, prev, fresh, scan, reply,
                 workload, loadKeys, turn>>

BenchNext == Join \/ Destructor \/ \E t \in Thread : RunThread(t)

\* The operating system runs every thread that can run; a thread in lock()
\* can run whenever the mutex is free for it.  Nothing more is assumed of the
\* order in which a mutex serves the threads that wait for it.
BenchSpec ==
  /\ BenchInit /\ [][BenchNext]_benchVars
  /\ \A t \in Thread : WF_benchVars(RunThread(t))
  /\ WF_benchVars(Join \/ Destructor)

-----------------------------------------------------------------------------
\* The benchmark ends: every operation returns, so every join does (the
\* tests: "if range leaks a lock, a writer will block forever and this test
\* will hang").
Completes == <>(phase = "over")

\* Every node still in use is deleted once, by remove, by insert or by the
\* destructor: all that leaks is the nodes merges have emptied.
OnlyEmptiedNodesLeak == phase = "over" => alive = {}

\* Once the load phase has been joined every key of load_keys is there, and as
\* long as nothing is removed no get of one fails to find it: "readers never
\* see missing keys during concurrent writes" (test_concurrent_skiplist.cpp).
LoadedKeysAreFound ==
  phase = "run" /\ workload # "chaos" =>
    \A i \in 0 .. LoadSize - 1 :
      /\ Contents[loadKeys[i]] # NoValue
      /\ \A t \in Thread : reply[t] # <<"get", loadKeys[i], NoValue>>
=============================================================================
