----------------------------- MODULE LiveStats -----------------------------
(***************************************************************************)
(* The LiveStats of pkg/periodic: six numbers that the worker goroutines   *)
(* of a run update with atomic operations, one operation at a time and no  *)
(* lock around them, while a monitor goroutine reads them one by one.      *)
(*                                                                         *)
(* This is a library: RecordRequest by a worker and GetSnapshot by the     *)
(* monitor, one action per atomic operation.  Workers composes it with     *)
(* the loop that makes the requests.                                       *)
(***************************************************************************)
EXTENDS Naturals

CONSTANTS
  Threads,    \* the worker goroutines
  Latencies,  \* what a request may take
  Unset       \* the initial minimum: 1<<62

ASSUME LatenciesAssumption ==
  /\ Latencies \subseteq Nat
  /\ Unset \in Nat
  /\ \A l \in Latencies : l < Unset

VARIABLES
  totalRequests, successRequests, errorRequests,
  totalLatency, minLatency, maxLatency,
  rec,   \* where each worker is in RecordRequest, and what it holds there
  snap   \* where the monitor is in GetSnapshot, and what it read

liveVars == <<totalRequests, successRequests, errorRequests,
              totalLatency, minLatency, maxLatency, rec, snap>>

RecSteps == {"idle", "total", "outcome", "min", "minCas", "max", "maxCas"}
SnapSteps == {"idle", "success", "errors", "taken"}

LiveInit ==
  /\ totalRequests = 0 /\ successRequests = 0 /\ errorRequests = 0
  /\ totalLatency = 0 /\ minLatency = Unset /\ maxLatency = 0
  /\ rec = [t \in Threads |-> [at |-> "idle", ok |-> TRUE, latency |-> 0, old |-> 0]]
  /\ snap = [at |-> "idle", total |-> 0, success |-> 0, errors |-> 0]

LiveTypeOK ==
  /\ {totalRequests, successRequests, errorRequests, totalLatency} \subseteq Nat
  /\ minLatency \in Latencies \cup {Unset}
  /\ maxLatency \in Latencies \cup {0}
  /\ rec \in [Threads -> [at: RecSteps, ok: BOOLEAN, latency: Latencies \cup {0},
                          old: Latencies \cup {0, Unset}]]
  /\ snap \in [at: SnapSteps, total: Nat, success: Nat, errors: Nat]

-----------------------------------------------------------------------------
(* RecordRequest(success, latency) by worker t.                            *)

RecMoves(t, from, to) ==
  /\ rec[t].at = from
  /\ rec' = [rec EXCEPT ![t].at = to]

RecordTotal(t) ==
  /\ RecMoves(t, "total", "outcome")
  /\ totalRequests' = totalRequests + 1
  /\ UNCHANGED <<successRequests, errorRequests, totalLatency, minLatency, maxLatency, snap>>

(* The sum of the latencies, which nobody reads before the end, goes up in *)
(* the same step.                                                          *)
RecordOutcome(t) ==
  /\ RecMoves(t, "outcome", "min")
  /\ IF rec[t].ok
     THEN successRequests' = successRequests + 1 /\ UNCHANGED errorRequests
     ELSE errorRequests' = errorRequests + 1 /\ UNCHANGED successRequests
  /\ totalLatency' = totalLatency + rec[t].latency
  /\ UNCHANGED <<totalRequests, minLatency, maxLatency, snap>>

(* Load the old minimum; go on to the maximum when there is nothing to do. *)
LoadMin(t) ==
  /\ rec[t].at = "min"
  /\ rec' = [rec EXCEPT ![t].at = IF rec[t].latency >= minLatency THEN "max" ELSE "minCas",
                        ![t].old = minLatency]
  /\ UNCHANGED <<totalRequests, successRequests, errorRequests,
                 totalLatency, minLatency, maxLatency, snap>>

(* Mutant: stores without comparing again. *)
StoreMin(t) ==
  /\ RecMoves(t, "minCas", "max")
  /\ minLatency' = rec[t].latency
  /\ UNCHANGED <<totalRequests, successRequests, errorRequests, totalLatency, maxLatency, snap>>

(* Compare and swap; load again when another worker was faster. *)
SwapMin(t) ==
  /\ \/ /\ minLatency = rec[t].old
        /\ RecMoves(t, "minCas", "max")
        /\ minLatency' = rec[t].latency
     \/ /\ minLatency # rec[t].old
        /\ RecMoves(t, "minCas", "min")
        /\ UNCHANGED minLatency
  /\ UNCHANGED <<totalRequests, successRequests, errorRequests, totalLatency, maxLatency, snap>>

LoadMax(t) ==
  /\ rec[t].at = "max"
  /\ rec' = [rec EXCEPT ![t].at = IF rec[t].latency <= maxLatency THEN "idle" ELSE "maxCas",
                        ![t].old = maxLatency]
  /\ UNCHANGED <<totalRequests, successRequests, errorRequests,
                 totalLatency, minLatency, maxLatency, snap>>

SwapMax(t) ==
  /\ \/ /\ maxLatency = rec[t].old
        /\ RecMoves(t, "maxCas", "idle")
        /\ maxLatency' = rec[t].latency
     \/ /\ maxLatency # rec[t].old
        /\ RecMoves(t, "maxCas", "max")
        /\ UNCHANGED maxLatency
  /\ UNCHANGED <<totalRequests, successRequests, errorRequests, totalLatency, minLatency, snap>>

RecordStep(t) ==
  \/ RecordTotal(t) \/ RecordOutcome(t)
  \/ LoadMin(t) \/ SwapMin(t) \/ LoadMax(t) \/ SwapMax(t)

-----------------------------------------------------------------------------
(* GetSnapshot() by the monitor, once, whenever it likes: a later snapshot *)
(* is no different from a first one at that time.  The loads of the        *)
(* latencies, which come after these three, are left out.                  *)

Reads(from, to, field, value) ==
  /\ snap.at = from
  /\ snap' = [snap EXCEPT !.at = to, ![field] = value]
  /\ UNCHANGED <<totalRequests, successRequests, errorRequests,
                 totalLatency, minLatency, maxLatency, rec>>

ReadTotal == Reads("idle", "success", "total", totalRequests)
ReadSuccess == Reads("success", "errors", "success", successRequests)

(* Mutant: the total is read last. *)
ReadErrorsAndTotal ==
  /\ snap.at = "errors"
  /\ snap' = [snap EXCEPT !.at = "taken", !.errors = errorRequests, !.total = totalRequests]
  /\ UNCHANGED <<totalRequests, successRequests, errorRequests,
                 totalLatency, minLatency, maxLatency, rec>>

ReadErrors == Reads("errors", "taken", "errors", errorRequests)
=============================================================================
