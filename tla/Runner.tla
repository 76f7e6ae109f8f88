------------------------------- MODULE Runner -------------------------------
(***************************************************************************)
(* The goroutine that executes a run: one of the Run...Test functions of   *)
(* fhttp, tcprunner, udprunner, fgrpc and kafkarunner, which builds its    *)
(* clients and calls periodic's Run(), which records the start, lets the   *)
(* workers loop until the end or the stop, and resets the Aborter.         *)
(*                                                                         *)
(* A run's workers all run the same loop on the same stop channel and the  *)
(* goroutine waits for all of them; one worker stands for them here.       *)
(***************************************************************************)
EXTENDS Aborter

CONSTANTS
  Paced,    \* the runs with a target qps; the others run at maximum speed
  Outcomes  \* what the set-up of a run may come to

(***************************************************************************)
(* "run":        the clients are built, Run() is called                    *)
(* "fakeStart":  fhttp, a client cannot be built: records a fake start and *)
(*               returns an error with a result                            *)
(* "initError":  tcp, udp, grpc, kafka: returns an error and no result     *)
(* "earlyError": kafka's validation fails before the runner exists, so not *)
(*               even the deferred Abort() is called                       *)
(***************************************************************************)
AllOutcomes == {"run", "fakeStart", "initError", "earlyError"}

ASSUME RunnerAssumption ==
  /\ Paced \subseteq Runs
  /\ Outcomes \subseteq AllOutcomes

VARIABLES
  run,  \* where the goroutine of each run is
  late  \* calls begun after the stop channel was closed, up to LateCap

runnerVars == <<run, late>>

LateCap == 2

Phases == {"new", "starting", "loop", "called", "over", "closing",
           "finished", "faking", "done", "errored", "void"}

RunnerInit ==
  /\ run = [r \in Runs |-> "new"]
  /\ late = [r \in Runs |-> 0]

RunnerTypeOK ==
  /\ run \in [Runs -> Phases]
  /\ late \in [Runs -> 0 .. LateCap]

-----------------------------------------------------------------------------
(* The goroutine moves from a phase to the next, between method calls.     *)
Moves(r, from, to) ==
  /\ Idle(r)
  /\ run[r] = from
  /\ run' = [run EXCEPT ![r] = to]

MovesCalling(r, from, to, method) ==
  /\ Moves(r, from, to)
  /\ Enter(r, method, r, FALSE)
  /\ UNCHANGED late

MovesOnly(r, from, to) ==
  /\ Moves(r, from, to)
  /\ UNCHANGED <<aborterVars, late>>

(* The copy of the stop channel can be read: it is not nil, and closed. *)
StopSeen(r) == call[r].chan /\ closes[r] > 0

(* A call to the target begins. *)
CallBegins(r) ==
  late' = IF closes[r] > 0 /\ late[r] < LateCap
          THEN [late EXCEPT ![r] = @ + 1] ELSE late

-----------------------------------------------------------------------------
(* Set-up.                                                                 *)

StartRun(r) == /\ "run" \in Outcomes
               /\ MovesCalling(r, "new", "starting", "record")

FakeStart(r) == /\ "fakeStart" \in Outcomes
                /\ MovesCalling(r, "new", "faking", "record")

FailFaked(r) == MovesCalling(r, "faking", "errored", "abort")

FailInit(r) == /\ "initError" \in Outcomes
               /\ MovesCalling(r, "new", "void", "abort")

FailEarly(r) == /\ "earlyError" \in Outcomes
                /\ MovesOnly(r, "new", "void")

-----------------------------------------------------------------------------
(* Run().                                                                  *)

(* "Aborted before even starting". *)
Refuse(r) == /\ call[r].abort
             /\ MovesCalling(r, "starting", "finished", "reset")

EnterLoop(r) == /\ ~call[r].abort
                /\ MovesOnly(r, "starting", "loop")

(* The delay of the uniform mode ends on a stop. *)
StopsInDelay(r) == /\ ~call[r].abort
                   /\ r \in Paced /\ StopSeen(r)
                   /\ MovesOnly(r, "starting", "over")

Call(r) == /\ Moves(r, "loop", "called")
           /\ CallBegins(r)
           /\ UNCHANGED aborterVars

(* The answer is the status the run aborts on: the worker calls Abort(). *)
CallAborts(r) == /\ Moves(r, "loop", "called")
                 /\ CallBegins(r)
                 /\ Enter(r, "abort", r, FALSE)

(* Mutant: the worker goes on without a look at the channel. *)
ContinueBlindly(r) == MovesOnly(r, "called", "loop")

(* At maximum speed the worker looks at the channel; with a target qps it  *)
(* selects between the channel and a timer, any of the two when both are   *)
(* ready.                                                                  *)
Continue(r) == /\ r \in Paced \/ ~StopSeen(r)
               /\ MovesOnly(r, "called", "loop")

SeesStop(r) == /\ StopSeen(r)
               /\ MovesOnly(r, "called", "over")

(* The number of calls or the duration of the run is reached. *)
Completes(r) == MovesOnly(r, "called", "over")

FinishClosed(r) == /\ StopSeen(r)
                   /\ MovesCalling(r, "over", "finished", "reset")

FinishOpen(r) == /\ ~StopSeen(r)
                 /\ MovesCalling(r, "over", "closing", "abort")

FinishReset(r) == MovesCalling(r, "closing", "finished", "reset")

(* The Run...Test function returns; its deferred Abort() runs. *)
ReturnDone(r) == MovesCalling(r, "finished", "done", "abort")

Returned(r) == Idle(r) /\ run[r] \in {"done", "errored", "void"}

-----------------------------------------------------------------------------
(* What the goroutine does whatever the answers of the target are, and     *)
(* what depends on them and on the length of the run.                      *)
RunnerProgress(r) ==
  \/ StartRun(r) \/ FakeStart(r) \/ FailFaked(r) \/ FailInit(r) \/ FailEarly(r)
  \/ Refuse(r) \/ EnterLoop(r) \/ StopsInDelay(r)
  \/ Call(r) \/ Continue(r) \/ SeesStop(r)
  \/ FinishClosed(r) \/ FinishOpen(r) \/ FinishReset(r) \/ ReturnDone(r)

RunnerStep(r) == RunnerProgress(r) \/ CallAborts(r) \/ Completes(r)

-----------------------------------------------------------------------------
(***************************************************************************)
(* What holds however the runs are started and whoever aborts them: the    *)
(* properties AbortRuns and RestRuns share.                                *)
(***************************************************************************)

(* Whatever the interleaving of the two places that close, the stop        *)
(* channel is closed exactly when the field is nil, so never twice: a      *)
(* second close is a panic.                                                *)
ClosedOnce ==
  \A r \in Runs : closes[r] = IF stopChan[r] = "nil" THEN 1 ELSE 0

(* At maximum speed a worker begins at most one call after the channel is  *)
(* closed: the loop looks at the channel after each call.                  *)
OneLateCall == \A r \in Runs \ Paced : late[r] <= 1

(* An Abort took effect on the run. *)
Told(r) == stopRequested[r] \/ closes[r] > 0

(* A run aborted before it records its start never makes a call. *)
Unrecorded(r) == run[r] = "new" \/ (run[r] = "starting" /\ call[r].at = "record")

EarlyStopRefused ==
  \A r \in Runs :
    [](Told(r) /\ Unrecorded(r) => [](run[r] # "loop"))

(* An Abort that waits closes the channel only after the run announced its *)
(* start or its end: it is never woken up by a run that did neither.       *)
WokenAfterStart ==
  \A c \in Callers : call[c].at = "woken" => ~Unrecorded(call[c].on)

-----------------------------------------------------------------------------
(***************************************************************************)
(* The inductive invariant behind these.  It adds where a goroutine can be *)
(* in a method in each of its phases, and what it knows there.             *)
(***************************************************************************)
Aborting == {"idle", "abort", "purge", "clear"}

RunnerControl(r) ==
  /\ call[r].on \in {r, NoRun} /\ ~call[r].wait
  /\ call[r].at # "idle" => call[r].on = r
  /\ run[r] \in {"new", "loop", "over"} => call[r].at = "idle"
  /\ run[r] \in {"starting", "faking"} => call[r].at \in {"idle", "record", "send"}
  /\ run[r] = "finished" => call[r].at \in {"idle", "reset"}
  /\ run[r] \in {"called", "closing"} => call[r].at \in Aborting
  /\ run[r] \in {"done", "errored", "void"} => call[r].at \in Aborting \cup {"sendEnd"}

CallerControl(c) ==
  /\ call[c].at \in Aborting \cup {"await", "parked", "woken", "awaitEnd", "parkedEnd"}
  /\ call[c].at # "idle" => call[c].on \in Runs

(* A closed channel is never met by a run that does not know: before it    *)
(* records its start a request is on record, and after it the run holds    *)
(* the channel or has been told to give up.                                *)
StopKnown(r) ==
  /\ Unrecorded(r) /\ stopChan[r] = "nil" => stopRequested[r]
  /\ run[r] = "starting" /\ call[r].at # "record" => call[r].chan \/ call[r].abort
  /\ run[r] \in {"loop", "called", "over", "closing"} => call[r].chan

(* Nothing is in the start channel before the run recorded its start. *)
TokenOfStart(r) == startChan[r] # "empty" => ~Unrecorded(r)

LateCalls(r) ==
  /\ late[r] > 0 => closes[r] > 0
  /\ run[r] \in {"new", "starting", "faking"} => late[r] = 0
  /\ r \notin Paced => late[r] <= 1 /\ (run[r] = "loop" => late[r] = 0)

RunnerInv ==
  /\ AborterTypeOK /\ RunnerTypeOK
  /\ ClosedOnce
  /\ WokenAfterStart
  /\ \A r \in Runs :
       RunnerControl(r) /\ StopKnown(r) /\ TokenOfStart(r) /\ LateCalls(r)
  /\ \A c \in Callers : CallerControl(c)

-----------------------------------------------------------------------------
(***************************************************************************)
(* The runs implement StopSignal.  A run begins when it records its start  *)
(* and is over when it resets its Aborter, or when its set-up failed.      *)
(***************************************************************************)
PhaseIn(phase, frame) ==
  CASE phase \in {"finished", "done", "errored", "void"} -> "over"
    [] phase \in {"loop", "called", "over", "closing"} -> "live"
    [] phase = "starting" /\ frame.at # "record" /\ ~frame.abort -> "live"
    [] OTHER -> "new"

PhaseOf(r) == PhaseIn(run[r], call[r])

SignalOf(r) ==
  IF PhaseOf(r) = "over" \/ closes[r] > 0 THEN "raised"
  ELSE IF stopRequested[r] THEN "asked" ELSE "down"

Abstract ==
  INSTANCE StopSignal WITH
    phase <- [r \in Runs |-> PhaseOf(r)],
    signal <- [r \in Runs |-> SignalOf(r)],
    Cap <- LateCap
=============================================================================
