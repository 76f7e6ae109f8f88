------------------------------ MODULE RestRuns ------------------------------
(***************************************************************************)
(* pkg/rapi: the registry of the runs started through the REST API or the  *)
(* UI, the handler goroutine of each run, and the stop requests.           *)
(*                                                                         *)
(* The registry is the map from run ids to their state, under one mutex.   *)
(* A stop request of one run marks it and aborts it outside the mutex; a   *)
(* stop of all runs keeps the mutex while it aborts them one after the     *)
(* other.  When a run is over its handler sends on the Aborter's start     *)
(* channel, for the stop request that waits, and then leaves the registry. *)
(***************************************************************************)
EXTENDS Runner, FiniteSets

CONSTANT Scopes  \* who may ask for what: an instance is one of them

ASSUME RestRunsAssumption ==
  /\ IsFiniteSet(Runs)
  /\ \A s \in Scopes :
       /\ s.runs \subseteq Runs /\ s.callers \subseteq Callers
       /\ s.wait \subseteq BOOLEAN /\ s.waitAll \subseteq BOOLEAN /\ s.async \subseteq BOOLEAN

VARIABLES
  scope,   \* runs that are asked for, with async or not, callers, and how they may stop one, or all
  state,   \* the entry of each run in the map of runs
  rest,    \* where the handler of each run is
  async,   \* whether the handler runs in a goroutine nobody recovers
  saved,   \* whether the result of the run was serialized and saved
  mutex,   \* who keeps uiRunMapMutex over several steps: a caller or nobody
  stop,    \* where each caller is in its stop request
  count,   \* how many runs the stop request of a caller stopped
  up       \* the process has not been killed by a panic

registryVars == <<scope, state, rest, async, saved, mutex, stop, count, up>>
vars == <<aborterVars, runnerVars, registryVars>>

Nobody == NoRun

Init ==
  /\ AborterInit /\ RunnerInit
  /\ state = [r \in Runs |-> "absent"]
  /\ rest = [r \in Runs |-> "none"]
  /\ scope \in Scopes
  /\ async \in [Runs -> scope.async]
  /\ saved = [r \in Runs |-> FALSE]
  /\ mutex = Nobody
  /\ stop = [c \in Callers |-> "none"]
  /\ count = [c \in Callers |-> 0]
  /\ up = TRUE

-----------------------------------------------------------------------------
(* The handler of a run.                                                   *)

HandlerMoves(r, from, to) ==
  /\ rest[r] = from
  /\ rest' = [rest EXCEPT ![r] = to]

Entry(r, from, to) ==
  /\ mutex = Nobody
  /\ state[r] \in from
  /\ state' = [state EXCEPT ![r] = to]

(* A request to run is accepted. *)
NextRunID(r) ==
  /\ r \in scope.runs
  /\ HandlerMoves(r, "none", "accepted")
  /\ Entry(r, {"absent"}, "pending")
  /\ UNCHANGED <<aborterVars, runnerVars, async, saved, mutex, stop, count, up, scope>>

(* The run gets its Aborter and can be stopped from here on. *)
UpdateRun(r) ==
  /\ HandlerMoves(r, "accepted", "executing")
  /\ Entry(r, {"pending"}, "running")
  /\ UNCHANGED <<aborterVars, runnerVars, async, saved, mutex, stop, count, up, scope>>

(* A kafka run without bootstrap or topic skips UpdateRun: it has neither  *)
(* an Aborter nor a result, and reading the result panics.                 *)
SkipUpdate(r) ==
  /\ "earlyError" \in Outcomes
  /\ HandlerMoves(r, "accepted", "removing")
  /\ UNCHANGED <<aborterVars, runnerVars, state, async, saved, mutex, stop, count, up, scope>>

Execute(r) ==
  /\ rest[r] = "executing"
  /\ RunnerStep(r)
  /\ UNCHANGED registryVars

Method(t) == AborterStep(t) /\ UNCHANGED <<runnerVars, registryVars>>

(* Mutant: a run that could not be set up is not announced as over. *)
ReportSilently(r) ==
  /\ Returned(r)
  /\ HandlerMoves(r, "executing", IF run[r] = "void" THEN "removing" ELSE "ending")
  /\ saved' = [saved EXCEPT ![r] = run[r] # "void"]
  /\ IF run[r] = "void" THEN UNCHANGED aborterVars ELSE Enter(r, "sendEnd", r, FALSE)
  /\ UNCHANGED <<runnerVars, state, async, mutex, stop, count, up, scope>>

(* The runner returned.  With a result: serialize, save.  Without: reading *)
(* the result panics.  Either way the deferred send comes next.            *)
Report(r) ==
  /\ Returned(r)
  /\ HandlerMoves(r, "executing", "ending")
  /\ saved' = [saved EXCEPT ![r] = run[r] # "void"]
  /\ Enter(r, "sendEnd", r, FALSE)
  /\ UNCHANGED <<runnerVars, state, async, mutex, stop, count, up, scope>>

(* aborter.StartChan <- false. *)
SendEnd(r) ==
  /\ HandlerMoves(r, "ending", "removing")
  /\ EndSend(r)
  /\ UNCHANGED <<runnerVars, state, async, saved, mutex, stop, count, up, scope>>

(* A handler panics when there is no result; net/http recovers the panic   *)
(* of a handler, but nothing recovers that of an asynchronous run.         *)
Panics(r) == run[r] \in {"new", "void"}

RemoveRun(r) ==
  /\ HandlerMoves(r, "removing", "ended")
  /\ Entry(r, {"pending", "running", "stopping"}, "removed")
  /\ up' = ~(Panics(r) /\ async[r])
  /\ UNCHANGED <<aborterVars, runnerVars, async, saved, mutex, stop, count, scope>>

-----------------------------------------------------------------------------
(* Stop requests.  Those that find no running run reply 0 and change       *)
(* nothing.                                                                *)

CallerMoves(c, from, to) ==
  /\ Idle(c)
  /\ stop[c] = from
  /\ stop' = [stop EXCEPT ![c] = to]

(* Mutant: the entry is not looked at, nor marked. *)
AbortUnmarked(c, r, wait) ==
  /\ state[r] \in {"running", "stopping"}
  /\ Enter(c, "abort", r, wait)
  /\ UNCHANGED state

(* Mark run r and call Abort(wait) on it. *)
AbortMarked(c, r, wait) ==
  /\ state[r] = "running"
  /\ state' = [state EXCEPT ![r] = "stopping"]
  /\ Enter(c, "abort", r, wait)

StopOne(c) ==
  /\ c \in scope.callers
  /\ mutex = Nobody
  /\ CallerMoves(c, "none", "one")
  /\ \E r \in Runs, wait \in scope.wait : AbortMarked(c, r, wait)
  /\ count' = [count EXCEPT ![c] = 1]
  /\ UNCHANGED <<runnerVars, rest, async, saved, mutex, up, scope>>

(* The additional channel read of a request that waits. *)
StopOneJoin(c) ==
  /\ call[c].wait
  /\ CallerMoves(c, "one", "joining")
  /\ Enter(c, "awaitEnd", call[c].on, TRUE)
  /\ UNCHANGED <<runnerVars, state, rest, async, saved, mutex, count, up, scope>>

JoinEnd(c) == EndAwait(c) /\ UNCHANGED <<runnerVars, registryVars>>

StopOneReply(c) ==
  /\ IF call[c].wait THEN CallerMoves(c, "joining", "replied")
                     ELSE CallerMoves(c, "one", "replied")
  /\ UNCHANGED <<aborterVars, runnerVars, state, rest, async, saved, mutex, count, up, scope>>

StopAll(c) ==
  /\ c \in scope.callers
  /\ mutex = Nobody
  /\ mutex' = c
  /\ CallerMoves(c, "none", "all")
  /\ \E wait \in scope.waitAll : call' = [call EXCEPT ![c].wait = wait]
  /\ count' = [count EXCEPT ![c] = 0]
  /\ UNCHANGED <<stopChan, closes, startChan, hasStarted, stopRequested,
                 runnerVars, state, rest, async, saved, up, scope>>

StopAllNext(c) ==
  /\ stop[c] = "all"
  /\ \E r \in Runs : AbortMarked(c, r, call[c].wait)
  /\ count' = [count EXCEPT ![c] = @ + 1]
  /\ UNCHANGED <<runnerVars, rest, async, saved, mutex, stop, up, scope>>

StopAllReply(c) ==
  /\ CallerMoves(c, "all", "replied")
  /\ \A r \in Runs : state[r] # "running"
  /\ mutex' = Nobody
  /\ UNCHANGED <<aborterVars, runnerVars, state, rest, async, saved, count, up, scope>>

(* The reply is read and the client may send another request. *)
Again(c) ==
  /\ scope.again
  /\ CallerMoves(c, "replied", "none")
  /\ UNCHANGED <<aborterVars, runnerVars, state, rest, async, saved, mutex, count, up, scope>>

-----------------------------------------------------------------------------
HandlerStep(r) ==
  \/ NextRunID(r) \/ UpdateRun(r) \/ SkipUpdate(r)
  \/ Execute(r) \/ Report(r) \/ SendEnd(r) \/ RemoveRun(r)

StopRequest(c) == StopOne(c) \/ StopAll(c) \/ Again(c)

StopStep(c) ==
  \/ StopOneJoin(c) \/ JoinEnd(c) \/ StopOneReply(c)
  \/ StopAllNext(c) \/ StopAllReply(c)

Next ==
  /\ up
  /\ \/ \E r \in Runs : HandlerStep(r)
     \/ \E t \in Threads : Method(t)
     \/ \E c \in Callers : StopRequest(c) \/ StopStep(c)

(***************************************************************************)
(* Goroutines that can go on do, and a Go mutex does not starve who waits  *)
(* for it.  Requests come or not, and an endless run does not end by       *)
(* itself.                                                                 *)
(***************************************************************************)
Fairness ==
  /\ \A t \in Threads : WF_vars(up /\ Method(t))
  /\ \A r \in Runs :
       /\ WF_vars(up /\ (Report(r) \/ SendEnd(r)))
       /\ SF_vars(up /\ (UpdateRun(r) \/ SkipUpdate(r) \/ RemoveRun(r)))
       /\ WF_vars(up /\ rest[r] = "executing" /\ RunnerProgress(r) /\ UNCHANGED registryVars)
       /\ SF_vars(up /\ rest[r] = "executing" /\ SeesStop(r) /\ UNCHANGED registryVars)
  /\ \A c \in Callers : WF_vars(up /\ StopStep(c))

Spec == Init /\ [][Next]_vars /\ Fairness

-----------------------------------------------------------------------------
TypeOK ==
  /\ AborterTypeOK /\ RunnerTypeOK
  /\ scope \in Scopes
  /\ state \in [Runs -> {"absent", "pending", "running", "stopping", "removed"}]
  /\ rest \in [Runs -> {"none", "accepted", "executing", "ending", "removing", "ended"}]
  /\ async \in [Runs -> BOOLEAN]
  /\ saved \in [Runs -> BOOLEAN]
  /\ mutex \in Callers \cup {Nobody}
  /\ stop \in [Callers -> {"none", "one", "joining", "all", "replied"}]
  /\ count \in [Callers -> 0 .. Cardinality(Runs)]
  /\ up \in BOOLEAN

(* A run marked as stopping is told so: once the Abort of the request that *)
(* marked it returned, the run's stop channel is closed.                   *)
StopNotLost ==
  \A r \in Runs :
    state[r] = "stopping" /\ (\A c \in Callers : Idle(c) \/ call[c].on # r)
      => closes[r] > 0

(* Two stop requests never abort the same run: only the one that found it  *)
(* running does.  The start channel holds one value, for one reader.       *)
OneStopper ==
  \A c, d \in Callers :
    ~Idle(c) /\ ~Idle(d) /\ call[c].on = call[d].on => c = d

(* Behind the registry, too, the runs do what StopSignal allows. *)
StopsAsPromised == Abstract!Safety

-----------------------------------------------------------------------------
(***************************************************************************)
(* The inductive invariant behind StopNotLost and OneStopper.  A stop      *)
(* request has a claim on the run it aborted last: it marked that run, and *)
(* no other request did.                                                   *)
(***************************************************************************)
Marked == {r \in Runs : state[r] \in {"stopping", "removed"}}

ClaimMarked ==
  \A c \in Callers :
    /\ call[c].on # NoRun => call[c].on \in Marked
    /\ stop[c] = "one" => call[c].on # NoRun

ClaimedOnce ==
  \A c, d \in Callers : call[c].on = call[d].on /\ call[c].on # NoRun => c = d

(* The caller is in Abort(wait), and has not closed the channel. *)
Closing(c, r) ==
  call[c].on = r /\ call[c].at \in {"abort", "await", "parked", "woken"}

StopPending ==
  \A r \in Runs :
    state[r] = "stopping" => closes[r] > 0 \/ \E c \in Callers : Closing(c, r)

CountMarked == \A c \in Callers : count[c] <= Cardinality(Marked)

Claims == ClaimMarked /\ ClaimedOnce /\ StopPending /\ CountMarked

IInv == RunnerInv /\ TypeOK /\ Claims

-----------------------------------------------------------------------------
(* The value of a fake start that nobody reads: the run was aborted before *)
(* it recorded that start, so its own Abort finds nothing to do.           *)
LeftOver(r) == run[r] = "errored" /\ startChan[r] = "start"

(* A stopped run leaves the registry, whatever it is doing when stopped,   *)
(* but for a fake start that nobody reads.                                 *)
StopEndsRun ==
  \A r \in Runs :
    state[r] = "stopping" ~> state[r] = "removed" \/ ~up \/ LeftOver(r)

(* The handler of a run that is over goes away, again but for an unread    *)
(* fake start: its last send is not blocked for ever by a value that the   *)
(* run, its Aborts or its Reset left in the start channel.                 *)
HandlerEnds ==
  \A r \in Runs : rest[r] = "ending" ~> rest[r] = "ended" \/ ~up \/ LeftOver(r)

(* Both: a stop request and the end of the run, in whatever order, lead to *)
(* the same end.                                                           *)
StoppedEnds == StopEndsRun /\ HandlerEnds

(* The fake start is there "so when we use the start chan later to wait it *)
(* doesn't hang": the handler of a run that could not be set up goes away. *)
FakedEnds ==
  \A r \in Runs : run[r] = "errored" /\ rest[r] = "ending" ~> rest[r] = "ended" \/ ~up

(* A stop of all the runs gives the registry back, even if it waits for    *)
(* runs that have not started or never do.                                 *)
RegistryFreed == \A c \in Callers : mutex = c ~> mutex # c \/ ~up

(* Every stop request of one run gets its reply. *)
StopReplies ==
  \A c \in Callers : stop[c] \in {"one", "joining"} ~> stop[c] = "replied" \/ ~up

(* The reply to a stop request that waited comes after the run's result is *)
(* serialized and saved.                                                   *)
Waited(c) == stop[c] = "replied" /\ call[c].wait /\ count[c] = 1

StoppedMeansSaved ==
  \A c \in Callers : Waited(c) =>
    saved[call[c].on] \/ run[call[c].on] = "void"
=============================================================================
