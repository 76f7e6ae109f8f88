------------------------------- MODULE Workers -------------------------------
(***************************************************************************)
(* The inside of periodic's Run(), once it has recorded its start: how the *)
(* calls of a run are shared out between its worker goroutines, the loop   *)
(* of each (runOne), the statistics each keeps for itself and those they   *)
(* keep together, and how the results are put together in the end.         *)
(***************************************************************************)
EXTENDS LiveStats, FiniteSets

C == INSTANCE Counter

CONSTANTS
  Failing,     \* the latencies of requests that fail
  Succeeding,  \* the latencies of requests that succeed
  MaxThreads,  \* the largest number of workers asked for
  Exactlys,    \* the values of -n (0: the run has a duration, or no end)
  Expecteds,   \* the values of qps * duration, in calls
  Chosen,      \* which combinations of options runs are given
  MaxIter      \* a run with no end stops to be looked at after this many

ASSUME WorkersAssumption ==
  /\ Latencies = Failing \cup Succeeding
  /\ MaxThreads \in Nat \ {0}
  /\ Threads = 0 .. MaxThreads - 1
  /\ Exactlys \subseteq Nat
  /\ Expecteds \subseteq Nat
  /\ MaxIter \in Nat

(* threads: the workers asked for; useQPS: a target rate, not full speed;  *)
(* exactly: -n; timed: there is a duration; expected: what the rate gives  *)
(* over the duration; noCatchUp: drop the calls it is too late for.  With  *)
(* -n the duration does not matter: such a run is one with no duration.    *)
Options ==
  {o \in [threads: 1 .. MaxThreads, useQPS: BOOLEAN, exactly: Exactlys,
          timed: BOOLEAN, expected: Expecteds, noCatchUp: BOOLEAN] :
     /\ o.noCatchUp => o.useQPS
     /\ o.timed => o.exactly = 0
     /\ o.expected # 0 => o.useQPS /\ o.timed}

ASSUME ChosenAssumption == Chosen \subseteq Options

VARIABLES
  opt,      \* the options of the run
  worker,   \* where each worker is in runOne
  iter,     \* the iterations each counted
  durations, errDurations,  \* the counters of each worker's two histograms
  result,   \* the counters of the run's two histograms
  merged,   \* the workers whose histograms were transferred to them
  stopped,  \* the stop channel is closed
  timeUp    \* the duration has passed

vars == <<liveVars, opt, worker, iter, durations, errDurations, result, merged, stopped, timeUp>>
loopVars == <<opt, worker, iter, durations, errDurations, result, merged, stopped, timeUp>>

-----------------------------------------------------------------------------
(* Sharing out the calls: runQPSSetup and runMaxQPSSetup.                  *)

Least(a, b) == IF a < b THEN a ELSE b

QPSSetup(o) ==
  LET asked == IF o.exactly > 0 THEN o.exactly ELSE o.expected
      total == IF asked < 2 THEN 2 ELSE asked
      threads == IF asked < 2 THEN 1 ELSE Least(o.threads, total \div 2)
      calls == total \div threads
  IN IF ~o.timed /\ o.exactly = 0
     THEN [threads |-> o.threads, calls |-> 0, first |-> 0]
     ELSE [threads |-> threads, calls |-> calls,
           first |-> IF o.exactly > 0 THEN o.exactly - calls * (threads - 1) ELSE calls]

(* Mutant: what is left over after the division is nobody's. *)
SetupDropsRest(o) ==
  LET calls == o.exactly \div o.threads
  IN [threads |-> o.threads, calls |-> calls, first |-> calls]

MaxQPSSetup(o) ==
  LET calls == o.exactly \div o.threads
  IN [threads |-> o.threads, calls |-> calls,
      first |-> calls + (o.exactly % o.threads)]

Setup(o) == IF o.useQPS THEN QPSSetup(o) ELSE MaxQPSSetup(o)

Active == 0 .. Setup(opt).threads - 1

(* The calls of worker t: the first one takes what is left over. *)
NumCalls(t) == IF t = 0 THEN Setup(opt).first ELSE Setup(opt).calls

(* The loop counts its iterations, and knows when it has done them all. *)
Timed == opt.useQPS /\ opt.timed
Counted == opt.exactly > 0 \/ Timed

-----------------------------------------------------------------------------
Init ==
  /\ LiveInit
  /\ opt \in Chosen
  /\ worker = [t \in Threads |-> "start"]
  /\ iter = [t \in Threads |-> 0]
  /\ durations = [t \in Threads |-> C!Empty]
  /\ errDurations = [t \in Threads |-> C!Empty]
  /\ result = <<C!Empty, C!Empty>> /\ merged = 0
  /\ stopped = FALSE /\ timeUp = FALSE

WorkerMoves(t, from, to) ==
  /\ t \in Active
  /\ rec[t].at = "idle"
  /\ worker[t] = from
  /\ worker' = [worker EXCEPT ![t] = to]

OnlyMoves(t, from, to) ==
  /\ WorkerMoves(t, from, to)
  /\ UNCHANGED <<liveVars, opt, iter, durations, errDurations, result, merged, stopped, timeUp>>

(* Into the loop, after the delay of the uniform mode if it is on. *)
Enter(t) == OnlyMoves(t, "start", "top")

StopsInDelay(t) == opt.useQPS /\ stopped /\ OnlyMoves(t, "start", "over")

(* Mutant: the clock alone decides. *)
OutOfTimeAnyway(t) == opt.timed /\ timeUp

(* The duration has passed.  With a rate a worker does at least two        *)
(* iterations, and the last one when only that is left.                    *)
OutOfTime(t) ==
  /\ opt.timed /\ timeUp
  /\ opt.useQPS => iter[t] >= 2 /\ iter[t] # NumCalls(t) - 1

GivesUp(t) == OutOfTime(t) /\ OnlyMoves(t, "top", "over")

(* The call to the target, the worker's own histograms, and the entry into *)
(* RecordRequest.                                                          *)
Call(t) ==
  /\ ~OutOfTime(t)
  /\ WorkerMoves(t, "top", "done")
  /\ \E ok \in BOOLEAN : \E latency \in IF ok THEN Succeeding ELSE Failing :
       /\ durations' = [durations EXCEPT ![t] = C!Recorded(@, latency)]
       /\ errDurations' = IF ok THEN errDurations
                          ELSE [errDurations EXCEPT ![t] = C!Recorded(@, latency)]
       /\ rec' = [rec EXCEPT ![t] = [at |-> "total", ok |-> ok, latency |-> latency, old |-> 0]]
  /\ UNCHANGED <<totalRequests, successRequests, errorRequests, totalLatency, minLatency,
                 maxLatency, snap, opt, iter, result, merged, stopped, timeUp>>

Record(t) == RecordStep(t) /\ UNCHANGED loopVars

(* One iteration more is counted. *)
Counts(t, to) ==
  /\ WorkerMoves(t, "done", to)
  /\ iter' = [iter EXCEPT ![t] = @ + 1]
  /\ UNCHANGED <<liveVars, opt, durations, errDurations, result, merged, stopped, timeUp>>

AllDone(t) == iter[t] + 1 >= NumCalls(t)

DoesAll(t) == Counted /\ AllDone(t) /\ Counts(t, "over")

NotAll(t) == Counted => ~AllDone(t)

(* The bound on a run with no end. *)
InBound(t) == Counted \/ iter[t] < MaxIter

(* Too late for the next call, which is dropped: count again. *)
Skips(t) ==
  /\ opt.noCatchUp /\ NotAll(t) /\ InBound(t)
  /\ Counts(t, "done")

Sleeps(t) == opt.useQPS /\ NotAll(t) /\ Counts(t, "asleep")

(* The select at the end of the sleep; both cases may be ready. *)
Wakes(t) == InBound(t) /\ OnlyMoves(t, "asleep", "top")
StopsAsleep(t) == stopped /\ OnlyMoves(t, "asleep", "over")

(* At full speed the stop channel is looked at between two calls. *)
GoesOn(t) ==
  /\ ~opt.useQPS /\ NotAll(t) /\ ~stopped
  /\ InBound(t) \/ timeUp
  /\ Counts(t, "top")

Stops(t) == ~opt.useQPS /\ NotAll(t) /\ stopped /\ Counts(t, "over")

(* Every worker is done: Run() transfers their histograms into its own,    *)
(* one after the other.  They are empty then, but here they keep what they *)
(* had for the properties; nobody reads them again.  A single worker has   *)
(* the histograms of the run, which is what a transfer to empty ones gives. *)
Merge ==
  /\ \A t \in Active : worker[t] = "over" /\ rec[t].at = "idle"
  /\ merged < Setup(opt).threads
  /\ result' = <<C!Transferred(result[1], durations[merged]),
                 C!Transferred(result[2], errDurations[merged])>>
  /\ merged' = merged + 1
  /\ UNCHANGED <<liveVars, opt, worker, iter, durations, errDurations, stopped, timeUp>>

-----------------------------------------------------------------------------
(* The world around the run: somebody aborts it, time passes, the monitor  *)
(* looks at it.                                                            *)
Stop ==
  /\ ~stopped
  /\ stopped' = TRUE
  /\ UNCHANGED <<liveVars, opt, worker, iter, durations, errDurations, result, merged, timeUp>>

TimePasses ==
  /\ opt.timed /\ ~timeUp
  /\ timeUp' = TRUE
  /\ UNCHANGED <<liveVars, opt, worker, iter, durations, errDurations, result, merged, stopped>>

Look == (ReadTotal \/ ReadSuccess \/ ReadErrors) /\ UNCHANGED loopVars

(***************************************************************************)
(* The run is over.  In any other state something must be able to happen:  *)
(* a run that is stopped, or whose calls or time are used up, is never     *)
(* stuck.                                                                  *)
(***************************************************************************)
Over == merged = Setup(opt).threads

Done == Over /\ UNCHANGED vars

LoopStep(t) ==
  \/ Enter(t) \/ StopsInDelay(t) \/ GivesUp(t) \/ Call(t) \/ Record(t)
  \/ DoesAll(t) \/ Skips(t) \/ Sleeps(t) \/ Wakes(t) \/ StopsAsleep(t)
  \/ GoesOn(t) \/ Stops(t)

Next ==
  \/ \E t \in Threads : LoopStep(t)
  \/ Merge \/ Done \/ Stop \/ TimePasses \/ Look

Spec == Init /\ [][Next]_vars

-----------------------------------------------------------------------------
TypeOK ==
  /\ LiveTypeOK
  /\ opt \in Options
  /\ worker \in [Threads -> {"start", "top", "done", "asleep", "over"}]
  /\ iter \in [Threads -> Nat]
  /\ durations \in [Threads -> C!Counters(Latencies)]
  /\ errDurations \in [Threads -> C!Counters(Latencies)]
  /\ result \in C!Counters(Latencies) \X C!Counters(Latencies)
  /\ merged \in 0 .. Setup(opt).threads
  /\ stopped \in BOOLEAN /\ timeUp \in BOOLEAN

(* The sum of f over its domain, counted out: a proof needs no recursion. *)
Units(f) == UNION {{t} \X (1 .. f[t]) : t \in DOMAIN f}
Tally(f) == Cardinality(Units(f))

(* There is a call for every worker, or a target rate, which lowers the    *)
(* number of workers.  Else every worker makes one call, more than asked.  *)
Shared == opt.useQPS \/ opt.threads <= opt.exactly

(* "-n": such a run makes exactly that many calls, unless it is            *)
(* interrupted.  Late calls are dropped with -nocatchup.                   *)
ExactCalls ==
  Over /\ opt.exactly > 0 /\ Shared /\ ~stopped /\ ~opt.noCatchUp
    => result[1].count = opt.exactly

(* Interrupted or not, at no time were there more calls than asked for,    *)
(* nor, with a rate and a duration, more than fit.                         *)
Begun == Tally([t \in Active |-> durations[t].count])

NeverMore ==
  /\ opt.exactly > 0 /\ Shared => Begun <= opt.exactly
  /\ Timed => Begun <= IF opt.expected < 2 THEN 2 ELSE opt.expected

(* Both: no call is lost in the sharing, and none added.                   *)
CallsExact == ExactCalls /\ NeverMore

(* With a rate and a duration each worker makes at least two calls, even   *)
(* if the first takes longer than the duration, and does not leave out     *)
(* just the last one.                                                      *)
TwoAndTheLast ==
  Over /\ Timed /\ ~stopped /\ ~opt.noCatchUp
    => \A t \in Active :
         durations[t].count >= 2 /\ durations[t].count # NumCalls(t) - 1

(* The live statistics, which the workers update together, end up equal to *)
(* the results, which each worker collected alone.                         *)
LiveIsResult ==
  Over =>
    /\ totalRequests = result[1].count
    /\ errorRequests = result[2].count
    /\ successRequests = result[1].count - result[2].count
    /\ totalLatency = result[1].sum
    /\ result[1].count > 0 => minLatency = result[1].min /\ maxLatency = result[1].max

(* A snapshot misses at most the outcomes of the calls being recorded, one *)
(* per worker.                                                             *)
SnapshotLag ==
  snap.at = "taken" => snap.success + snap.errors + Setup(opt).threads >= snap.total

(* Both: the live statistics are right in the end, and near it before.     *)
LiveExact == LiveIsResult /\ SnapshotLag

-----------------------------------------------------------------------------
(* Why they hold: an inductive invariant, in parts.                        *)

IsOver(t) == worker[t] = "over"

(* A worker makes one call per iteration, or none when it skips, and never *)
(* starts on an iteration it does not have (it always makes one).  It ends *)
(* with its calls made, unless it is stopped or gives up.                  *)
LoopOf(t) ==
  /\ Counted => IF NumCalls(t) = 0 THEN iter[t] <= 1 /\ (IsOver(t) \/ iter[t] = 0)
                                   ELSE iter[t] <= NumCalls(t) /\ (IsOver(t) \/ iter[t] < NumCalls(t))
  /\ LET calls == IF worker[t] = "done" THEN iter[t] + 1 ELSE iter[t]
     IN /\ durations[t].count <= calls
        /\ ~opt.noCatchUp => durations[t].count = calls
  /\ IsOver(t) /\ ~stopped /\ Counted
       => \/ iter[t] >= NumCalls(t)
          \/ Timed /\ iter[t] >= 2 /\ iter[t] # NumCalls(t) - 1

Unrecorded(t) == rec[t].at \in {"total", "outcome"}

(* What each worker has in the live statistics: all that is in its own,    *)
(* except of the call that it is recording.                                *)
TotalOf == [t \in Active |-> durations[t].count - IF rec[t].at = "total" THEN 1 ELSE 0]
ErrorsOf == [t \in Active |->
  errDurations[t].count - IF Unrecorded(t) /\ ~rec[t].ok THEN 1 ELSE 0]
LatencyOf == [t \in Active |-> durations[t].sum - IF Unrecorded(t) THEN rec[t].latency ELSE 0]
LagOf == [t \in Active |-> IF rec[t].at = "outcome" THEN 1 ELSE 0]

AddsUp ==
  /\ {TotalOf, ErrorsOf, LatencyOf} \subseteq [Active -> Nat]
  /\ totalRequests = Tally(TotalOf)
  /\ errorRequests = Tally(ErrorsOf)
  /\ totalLatency = Tally(LatencyOf)
  /\ totalRequests = successRequests + errorRequests + Tally(LagOf)

(* What the monitor read is behind what there is now by no more than that. *)
SnapshotBehind ==
  /\ snap.at = "success" => snap.total <= successRequests + errorRequests + Setup(opt).threads
  /\ snap.at = "errors" => snap.total <= snap.success + errorRequests + Setup(opt).threads

(* The extremes: those of each worker's own, with the same exception, and  *)
(* no further than those of some worker.                                   *)
Recording(t) ==
  rec[t].at # "idle" =>
    /\ t \in Active
    /\ rec[t].latency \in Latencies
    /\ durations[t].count > 0
    /\ durations[t].min <= rec[t].latency /\ rec[t].latency <= durations[t].max
    /\ rec[t].at = "minCas" => rec[t].latency < rec[t].old
    /\ rec[t].at = "maxCas" => rec[t].latency > rec[t].old

MinKnown(t) ==
  \/ minLatency <= durations[t].min
  \/ rec[t].at \in {"total", "outcome", "min", "minCas"} /\ durations[t].min = rec[t].latency

MaxKnown(t) ==
  \/ durations[t].max <= maxLatency
  \/ rec[t].at # "idle" /\ durations[t].max = rec[t].latency

Called(t) == durations[t].count > 0

ExtremesKnown ==
  /\ \A t \in Active : Called(t) =>
       {durations[t].min, durations[t].max} \subseteq Latencies /\ MinKnown(t) /\ MaxKnown(t)
  /\ minLatency = Unset \/ \E t \in Active : Called(t) /\ durations[t].min <= minLatency
  /\ maxLatency = 0 \/ \E t \in Active : Called(t) /\ durations[t].max >= maxLatency

(* The results so far are those of the workers transferred so far.         *)
Merged == 0 .. merged - 1

ResultsAddUp ==
  /\ merged > 0 => \A t \in Active : IsOver(t) /\ rec[t].at = "idle"
  /\ result[1].count = Tally([t \in Merged |-> durations[t].count])
  /\ result[1].sum = Tally([t \in Merged |-> durations[t].sum])
  /\ result[2].count = Tally([t \in Merged |-> errDurations[t].count])
  /\ opt.exactly > 0 /\ Shared /\ ~stopped /\ ~opt.noCatchUp =>
       result[1].count = IF merged = 0 THEN 0
                         ELSE Setup(opt).first + (merged - 1) * Setup(opt).calls

ResultExtremes ==
  /\ \A t \in Merged : Called(t) =>
       /\ result[1].count > 0
       /\ result[1].min <= durations[t].min /\ durations[t].max <= result[1].max
  /\ result[1].count > 0 =>
       /\ \E t \in Merged : Called(t) /\ durations[t].min = result[1].min
       /\ \E t \in Merged : Called(t) /\ durations[t].max = result[1].max

(* Nothing counted, nothing summed; no latency is negative.                *)
Plain(c) == c.sum \in Nat /\ (c.count = 0 => c.sum = 0)

IInv ==
  /\ TypeOK
  /\ \A t \in Active : LoopOf(t)
  /\ \A t \in Threads : Recording(t) /\ Plain(durations[t])
  /\ Plain(result[1])
  /\ AddsUp /\ SnapshotBehind /\ ExtremesKnown
  /\ ResultsAddUp /\ ResultExtremes
  /\ SnapshotLag
=============================================================================
