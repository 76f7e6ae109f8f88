--------------------------- MODULE RestRuns_proofs ---------------------------
(***************************************************************************)
(* Proofs about RestRuns, for any finite set of runs and any set of        *)
(* callers: IInv is an inductive invariant, what follows from it for the   *)
(* stop requests, and that the runs behind the registry still do what      *)
(* StopSignal allows.  The steps of the methods and of the runs are those  *)
(* of Runner_proofs.                                                       *)
(***************************************************************************)
EXTENDS RestRuns, Runner_proofs, FiniteSetTheorems

(* What a step leaves alone keeps its part of the type invariant. *)
RegistryTypeOK ==
  /\ scope \in Scopes
  /\ state \in [Runs -> {"absent", "pending", "running", "stopping", "removed"}]
  /\ rest \in [Runs -> {"none", "accepted", "executing", "ending", "removing", "ended"}]
  /\ async \in [Runs -> BOOLEAN]
  /\ saved \in [Runs -> BOOLEAN]
  /\ mutex \in Callers \cup {Nobody}
  /\ stop \in [Callers -> {"none", "one", "joining", "all", "replied"}]
  /\ count \in [Callers -> 0 .. Cardinality(Runs)]
  /\ up \in BOOLEAN

LEMMA TypeParts == TypeOK <=> AborterTypeOK /\ RunnerTypeOK /\ RegistryTypeOK
BY DEF TypeOK, RegistryTypeOK

LEMMA MarkedFinite ==
  /\ IsFiniteSet(Marked) /\ Cardinality(Marked) \in Nat
  /\ IsFiniteSet(Marked') /\ Cardinality(Marked') \in Nat
  /\ Cardinality(Marked') <= Cardinality(Runs) /\ Cardinality(Runs) \in Nat
<1>1. IsFiniteSet(Runs) /\ Marked \subseteq Runs /\ Marked' \subseteq Runs
  BY RestRunsAssumption DEF Marked
<1>2. QED BY <1>1, FS_Subset, FS_CardinalityType

-----------------------------------------------------------------------------
(* The claims of the stop requests.                                        *)

(* They hold while neither the callers nor what they claim changes. *)
LEMMA ClaimsUndisturbed ==
  ASSUME Claims, UNCHANGED <<closes, state, count>>,
         \A c \in Callers : call'[c] = call[c] /\ (stop'[c] = "one" => stop[c] = "one")
  PROVE  Claims'
BY DEF Claims, ClaimMarked, ClaimedOnce, StopPending, CountMarked, Closing, Marked

(* A step of a method closes the channel or leaves its caller on the way   *)
(* to do it.                                                               *)
LEMMA ClaimsByMethod ==
  ASSUME Claims, RunnerInv, NEW t \in Threads, MethodStep(t), UNCHANGED runnerVars,
         UNCHANGED <<state, stop, count>>
  PROVE  Claims'
<1>1. PICK s \in Runs :
        /\ s = call[t].on /\ FrameEffect(t) /\ StopEffect(t, s)
        /\ \A q \in Runs \ {s} : closes'[q] = closes[q]
  BY StepEffect DEF Effect
<1>2. RunnerInv'
  BY MethodKeepsInv
<1>3. \A c \in Callers : call'[c].on = call[c].on
  BY <1>1 DEF FrameEffect, Threads
<1>4. ClaimMarked' /\ ClaimedOnce' /\ CountMarked'
  BY <1>3 DEF Claims, ClaimMarked, ClaimedOnce, CountMarked, Marked
<1>5. ASSUME NEW r \in Runs, state[r] = "stopping"
      PROVE  closes'[r] > 0 \/ \E c \in Callers : Closing(c, r)'
  <2>1. closes[r] \in Nat /\ closes'[r] \in Nat
    BY <1>2 DEF RunnerInv, AborterTypeOK
  <2>2. CASE closes[r] > 0
    BY <1>1, <2>1, <2>2 DEF StopEffect
  <2>3. CASE \E c \in Callers : Closing(c, r)
    <3>1. PICK c \in Callers : Closing(c, r)
      BY <2>3
    <3>2. CASE c = t
      <4>1. stopChan'[r] = "nil" \/ call'[c].at \in {"await", "parked", "woken"}
        BY <1>1, <3>1, <3>2 DEF Closing, FrameEffect, Edges, StopEffect
      <4>2. stopChan'[r] = "nil" => closes'[r] > 0
        BY <1>2, <2>1 DEF RunnerInv, ClosedOnce
      <4>3. QED BY <1>3, <3>1, <4>1, <4>2 DEF Closing
    <3>3. CASE c # t
      BY <1>1, <1>3, <3>1, <3>3 DEF Closing, FrameEffect, Threads
    <3>4. QED BY <3>2, <3>3
  <2>4. QED BY <1>5, <2>2, <2>3 DEF Claims, StopPending
<1>6. QED BY <1>4, <1>5 DEF Claims, StopPending

(* A request marks a running run, which nobody has a claim on, and claims it. *)
LEMMA ClaimsByMark ==
  ASSUME IInv, NEW c \in Callers, NEW r \in Runs, NEW w \in BOOLEAN, AbortMarked(c, r, w),
         NEW n, n = 1 \/ n = count[c] + 1, count' = [count EXCEPT ![c] = n],
         \A d \in Callers \ {c} : stop'[d] = stop[d]
  PROVE  Claims' /\ count' \in [Callers -> 0 .. Cardinality(Runs)]
<1>1. /\ state[r] = "running" /\ state' = [state EXCEPT ![r] = "stopping"]
      /\ call[c].at = "idle" /\ call'[c].at = "abort" /\ call'[c].on = r
      /\ \A d \in Threads : d # c => call'[d] = call[d]
      /\ closes' = closes
  <2>1. AborterTypeOK /\ c \in Threads /\ "abort" \in Steps /\ Enter(c, "abort", r, w)
    BY DEF AbortMarked, IInv, RunnerInv, Steps, Threads
  <2>2. /\ call[c].at = "idle" /\ call'[c].at = "abort" /\ call'[c].on = r
        /\ \A d \in Threads : d # c => call'[d] = call[d]
    BY <2>1, EnterFrame
  <2>3. QED BY <2>1, <2>2 DEF AbortMarked, Enter
<1>2. r \notin Marked /\ Marked' = Marked \cup {r}
  BY <1>1 DEF Marked, IInv, TypeOK
<1>3. \A d \in Callers : d # c => call'[d] = call[d]
  BY <1>1 DEF Threads
<1>4. \A d \in Callers : call[d].on # r
  BY <1>2, ThreadsAssumption DEF IInv, Claims, ClaimMarked
<1>5. ClaimMarked' /\ ClaimedOnce'
  BY <1>1, <1>2, <1>3, <1>4, ThreadsAssumption DEF IInv, Claims, ClaimMarked, ClaimedOnce
<1>6. StopPending'
  <2>1. ASSUME NEW q \in Runs, state'[q] = "stopping"
        PROVE  closes'[q] > 0 \/ \E d \in Callers : Closing(d, q)'
    <3>1. CASE q = r
      BY <1>1, <3>1 DEF Closing
    <3>2. CASE q # r
      <4>1. state[q] = "stopping"
        BY <1>1, <2>1, <3>2 DEF IInv, TypeOK
      <4>2. ASSUME NEW d \in Callers, Closing(d, q) PROVE Closing(d, q)'
        BY <1>1, <1>3, <4>2 DEF Closing
      <4>3. QED BY <1>1, <4>1, <4>2 DEF IInv, Claims, StopPending
    <3>3. QED BY <3>1, <3>2
  <2>2. QED BY <2>1 DEF StopPending
<1>7. Cardinality(Marked') = Cardinality(Marked) + 1
  BY <1>2, MarkedFinite, FS_AddElement
<1>8. ASSUME NEW d \in Callers PROVE count'[d] \in Nat /\ count'[d] <= Cardinality(Marked')
  <2>1. /\ count[d] \in Nat /\ count[d] <= Cardinality(Marked)
        /\ count[c] \in Nat /\ count[c] <= Cardinality(Marked)
        /\ count'[d] = IF d = c THEN n ELSE count[d]
    BY <1>8, MarkedFinite DEF IInv, TypeOK, Claims, CountMarked
  <2>2. QED BY <1>7, <2>1, MarkedFinite
<1>9. count' \in [Callers -> 0 .. Cardinality(Runs)]
  BY <1>8, MarkedFinite DEF IInv, TypeOK
<1>10. QED BY <1>5, <1>6, <1>8, <1>9 DEF Claims, CountMarked

-----------------------------------------------------------------------------
(* The steps of the handler of a run.                                      *)

(* Nobody is in a method, or enters one. *)
LEMMA HandlerInv ==
  ASSUME IInv, NEW r \in Runs, NextRunID(r) \/ UpdateRun(r) \/ SkipUpdate(r) \/ RemoveRun(r)
  PROVE  IInv'
<1>1. /\ UNCHANGED <<aborterVars, runnerVars, scope, async, saved, mutex, stop, count>>
      /\ RegistryTypeOK /\ Claims /\ RunnerInv
  BY TypeParts DEF IInv, NextRunID, UpdateRun, SkipUpdate, RemoveRun
<1>2. RunnerInv'
  BY <1>1, StutterKeepsInv
<1>3. /\ rest' \in [Runs -> {"none", "accepted", "executing", "ending", "removing", "ended"}]
      /\ up' \in BOOLEAN
  BY <1>1 DEF RegistryTypeOK, NextRunID, UpdateRun, SkipUpdate, RemoveRun, HandlerMoves
<1>4. /\ state' \in [Runs -> {"absent", "pending", "running", "stopping", "removed"}]
      /\ \A q \in Runs : state'[q] = "stopping" => state[q] = "stopping"
      /\ \A q \in Runs : state[q] \in {"stopping", "removed"} => state'[q] \in {"stopping", "removed"}
  BY <1>1 DEF RegistryTypeOK, NextRunID, UpdateRun, SkipUpdate, RemoveRun, Entry
<1>5. RegistryTypeOK'
  BY <1>1, <1>3, <1>4 DEF RegistryTypeOK
<1>6. Marked \subseteq Marked' /\ Cardinality(Marked) <= Cardinality(Marked')
  BY <1>4, MarkedFinite, FS_Subset DEF Marked
<1>7. UNCHANGED <<call, closes>>
  BY <1>1 DEF aborterVars
<1>8. ClaimMarked' /\ ClaimedOnce'
  BY <1>1, <1>6, <1>7 DEF Claims, ClaimMarked, ClaimedOnce
<1>9. StopPending'
  BY <1>1, <1>4, <1>7 DEF Claims, StopPending, Closing
<1>10. CountMarked'
  BY <1>1, <1>6, MarkedFinite DEF Claims, CountMarked, RegistryTypeOK
<1>11. QED
  BY <1>2, <1>5, <1>8, <1>9, <1>10 DEF IInv, Claims, RunnerInv, TypeOK, RegistryTypeOK

(* The run goes on. *)
LEMMA ExecuteInv ==
  ASSUME IInv, NEW r \in Runs, Execute(r)
  PROVE  IInv'
<1>1. RunnerInv /\ Claims /\ RegistryTypeOK /\ RunnerStep(r) /\ UNCHANGED registryVars
  BY TypeParts DEF IInv, Execute
<1>2. RunnerInv'
  BY <1>1, RunnerKeepsInv
<1>3. closes' = closes /\ \A c \in Callers : call'[c] = call[c]
  BY <1>1, ThreadsAssumption DEF RunnerStep, RunnerProgress, StartRun, FakeStart, FailFaked, FailInit,
     FailEarly, Refuse, EnterLoop, StopsInDelay, Call, CallAborts, Continue, SeesStop, Completes,
     FinishClosed, FinishOpen, FinishReset, ReturnDone, MovesCalling, MovesOnly, Enter, aborterVars,
     RunnerInv, AborterTypeOK, Threads
<1>4. RegistryTypeOK'
  BY <1>1 DEF RegistryTypeOK, registryVars
<1>5. Claims'
  BY <1>1, <1>3, ClaimsUndisturbed DEF registryVars
<1>6. QED BY <1>2, <1>4, <1>5 DEF IInv, RunnerInv, TypeOK, RegistryTypeOK

(* The run is over and its handler enters the last send. *)
LEMMA ReportInv ==
  ASSUME IInv, NEW r \in Runs, Report(r)
  PROVE  IInv'
<1>1. /\ RunnerInv /\ Claims /\ RegistryTypeOK /\ r \in Threads
      /\ Enter(r, "sendEnd", r, FALSE) /\ Returned(r)
      /\ UNCHANGED <<runnerVars, state, async, mutex, stop, count, up, scope>>
  BY TypeParts DEF IInv, Report, Threads
<1>2. RunnerInv'
  BY <1>1, EnterKeepsInv
<1>3. closes' = closes /\ \A c \in Callers : call'[c] = call[c]
  BY <1>1, ThreadsAssumption DEF Enter, RunnerInv, AborterTypeOK, Threads
<1>4. RegistryTypeOK'
  BY <1>1 DEF RegistryTypeOK, Report, HandlerMoves
<1>5. Claims'
  BY <1>1, <1>3, ClaimsUndisturbed
<1>6. QED BY <1>2, <1>4, <1>5 DEF IInv, RunnerInv, TypeOK, RegistryTypeOK

(* A step of a method: of anybody, of the request that waits for the end,  *)
(* or of the handler that announces it.                                    *)
LEMMA MethodInv ==
  ASSUME IInv, NEW t \in Threads, Method(t) \/ (t \in Callers /\ JoinEnd(t)) \/ (t \in Runs /\ SendEnd(t))
  PROVE  IInv'
<1>1. /\ RunnerInv /\ Claims /\ RegistryTypeOK /\ MethodStep(t)
      /\ UNCHANGED <<runnerVars, state, async, saved, mutex, stop, count, up, scope>>
  BY TypeParts DEF IInv, Method, JoinEnd, SendEnd, MethodStep, registryVars
<1>2. RunnerInv'
  BY <1>1, MethodKeepsInv
<1>3. RegistryTypeOK'
  BY <1>1 DEF RegistryTypeOK, Method, JoinEnd, SendEnd, HandlerMoves, registryVars
<1>4. Claims'
  BY <1>1, ClaimsByMethod
<1>5. QED BY <1>2, <1>3, <1>4 DEF IInv, RunnerInv, TypeOK, RegistryTypeOK

-----------------------------------------------------------------------------
(* The steps of a stop request.                                            *)

(* One run, or the next of all. *)
LEMMA MarkInv ==
  ASSUME IInv, NEW c \in Callers, StopOne(c) \/ StopAllNext(c)
  PROVE  IInv'
<1>1. PICK r \in Runs, w \in BOOLEAN : AbortMarked(c, r, w)
  <2>1. scope \in Scopes /\ call[c].wait \in BOOLEAN
    BY DEF IInv, TypeOK, AborterTypeOK, Frames, Threads
  <2>2. scope.wait \subseteq BOOLEAN
    BY <2>1, RestRunsAssumption
  <2>3. QED BY <2>1, <2>2 DEF StopOne, StopAllNext
<1>2. PICK n : (n = 1 \/ n = count[c] + 1) /\ count' = [count EXCEPT ![c] = n]
  BY DEF StopOne, StopAllNext
<1>3. /\ RunnerInv /\ RegistryTypeOK /\ c \in Threads
      /\ Enter(c, "abort", r, w) /\ state' = [state EXCEPT ![r] = "stopping"]
      /\ UNCHANGED <<runnerVars, rest, async, saved, mutex, up, scope>>
  BY <1>1, TypeParts DEF IInv, StopOne, StopAllNext, AbortMarked, Threads
<1>4. /\ stop' \in [Callers -> {"none", "one", "joining", "all", "replied"}]
      /\ \A d \in Callers \ {c} : stop'[d] = stop[d]
  BY <1>3 DEF RegistryTypeOK, StopOne, StopAllNext, CallerMoves
<1>5. RunnerInv'
  BY <1>3, EnterKeepsInv
<1>6. Claims' /\ count' \in [Callers -> 0 .. Cardinality(Runs)]
  BY <1>1, <1>2, <1>4, ClaimsByMark
<1>7. RegistryTypeOK'
  BY <1>3, <1>4, <1>6 DEF RegistryTypeOK
<1>8. QED BY <1>5, <1>6, <1>7 DEF IInv, RunnerInv, TypeOK, RegistryTypeOK

(* The request that waits begins to wait for the end of its run. *)
LEMMA JoinInv ==
  ASSUME IInv, NEW c \in Callers, StopOneJoin(c)
  PROVE  IInv'
<1>1. PICK r : r = call[c].on
  OBVIOUS
<1>2. /\ RunnerInv /\ Claims /\ RegistryTypeOK /\ c \in Threads
      /\ stop[c] = "one" /\ Enter(c, "awaitEnd", r, TRUE)
      /\ UNCHANGED <<runnerVars, state, rest, async, saved, mutex, count, up, scope>>
  BY <1>1, TypeParts DEF IInv, StopOneJoin, CallerMoves, Threads
<1>3. r \in Runs /\ r \in Marked
  BY <1>1, <1>2 DEF Claims, ClaimMarked, Marked
<1>4. RunnerInv'
  BY <1>2, <1>3, EnterKeepsInv
<1>5. /\ call[c].at = "idle" /\ call'[c].on = r /\ \A d \in Callers : d # c => call'[d] = call[d]
      /\ closes' = closes
  <2>1. AborterTypeOK /\ "awaitEnd" \in Steps
    BY <1>2 DEF RunnerInv, Steps
  <2>2. /\ call[c].at = "idle" /\ call'[c].on = r
        /\ \A d \in Threads : d # c => call'[d] = call[d]
    BY <1>2, <1>3, <2>1, EnterFrame
  <2>3. QED BY <1>2, <2>2 DEF Enter, Threads
<1>6. /\ stop' \in [Callers -> {"none", "one", "joining", "all", "replied"}]
      /\ \A d \in Callers : stop'[d] = "one" => stop[d] = "one"
  BY <1>2 DEF RegistryTypeOK, StopOneJoin, CallerMoves
<1>7. ClaimMarked' /\ ClaimedOnce' /\ CountMarked'
  BY <1>1, <1>2, <1>3, <1>5, <1>6 DEF Claims, ClaimMarked, ClaimedOnce, CountMarked, Marked
<1>8. StopPending'
  <2>1. ASSUME NEW d \in Callers, NEW q \in Runs, Closing(d, q) PROVE Closing(d, q)'
    BY <1>5, <2>1 DEF Closing
  <2>2. QED BY <1>2, <1>5, <2>1 DEF Claims, StopPending
<1>9. RegistryTypeOK'
  BY <1>2, <1>6 DEF RegistryTypeOK
<1>10. QED BY <1>4, <1>7, <1>8, <1>9 DEF IInv, RunnerInv, Claims, TypeOK, RegistryTypeOK

(* A reply, or the next request of a client. *)
LEMMA ReplyInv ==
  ASSUME IInv, NEW c \in Callers, StopOneReply(c) \/ StopAllReply(c) \/ Again(c)
  PROVE  IInv'
<1>1. /\ RunnerInv /\ Claims /\ RegistryTypeOK
      /\ UNCHANGED <<aborterVars, runnerVars, state, rest, async, saved, count, up, scope>>
  BY TypeParts DEF IInv, StopOneReply, StopAllReply, Again
<1>2. RunnerInv'
  BY <1>1, StutterKeepsInv
<1>3. RegistryTypeOK' /\ \A d \in Callers : stop'[d] = "one" => stop[d] = "one"
  BY <1>1 DEF RegistryTypeOK, StopOneReply, StopAllReply, Again, CallerMoves
<1>4. Claims'
  BY <1>1, <1>3, ClaimsUndisturbed DEF aborterVars
<1>5. QED BY <1>2, <1>3, <1>4 DEF IInv, RunnerInv, TypeOK, RegistryTypeOK

(* A stop of all takes the mutex and remembers whether it waits. *)
LEMMA StopAllInv ==
  ASSUME IInv, NEW c \in Callers, StopAll(c)
  PROVE  IInv'
<1>1. /\ RunnerInv /\ Claims /\ RegistryTypeOK /\ c \in Threads /\ c \notin Runs
      /\ call[c].at = "idle" /\ count' = [count EXCEPT ![c] = 0]
      /\ UNCHANGED <<stopChan, closes, startChan, hasStarted, stopRequested,
                     runnerVars, state, rest, async, saved, up, scope>>
  BY TypeParts, ThreadsAssumption DEF IInv, StopAll, CallerMoves, Idle, Threads
<1>2. PICK w \in BOOLEAN : call' = [call EXCEPT ![c].wait = w]
  <2>1. scope.waitAll \subseteq BOOLEAN
    BY <1>1, RestRunsAssumption DEF RegistryTypeOK
  <2>2. QED BY <2>1 DEF StopAll
<1>3. /\ call' \in [Threads -> Frames]
      /\ call'[c].at = call[c].at /\ call'[c].on = call[c].on
      /\ \A t \in Threads : t # c => call'[t] = call[t]
  BY <1>1, <1>2 DEF RunnerInv, AborterTypeOK, Frames
<1>4. AborterTypeOK' /\ RunnerTypeOK' /\ ClosedOnce'
  BY <1>1, <1>3 DEF RunnerInv, AborterTypeOK, RunnerTypeOK, ClosedOnce, runnerVars
<1>5. run' = run /\ late' = late /\ \A r \in Runs : call'[r] = call[r]
  BY <1>1, <1>3 DEF runnerVars, Threads
<1>6. ASSUME NEW r \in Runs
      PROVE  RunnerControl(r)' /\ StopKnown(r)' /\ TokenOfStart(r)' /\ LateCalls(r)'
  BY <1>1, <1>5, <1>6 DEF RunnerInv, RunnerControl, StopKnown, TokenOfStart, LateCalls, Unrecorded
<1>7. ASSUME NEW d \in Callers PROVE call'[d].at = call[d].at /\ call'[d].on = call[d].on
  BY <1>3, <1>7 DEF Threads
<1>8. WokenAfterStart' /\ \A d \in Callers : CallerControl(d)'
  BY <1>1, <1>5, <1>7, ThreadsAssumption DEF RunnerInv, WokenAfterStart, CallerControl, Unrecorded
<1>9. RunnerInv'
  BY <1>4, <1>6, <1>8 DEF RunnerInv
<1>10. RegistryTypeOK' /\ \A d \in Callers : stop'[d] = "one" => stop[d] = "one"
  BY <1>1, MarkedFinite DEF RegistryTypeOK, StopAll, CallerMoves
<1>11. Claims'
  <2>1. ClaimMarked' /\ ClaimedOnce' /\ StopPending'
    BY <1>1, <1>7, <1>10 DEF Claims, ClaimMarked, ClaimedOnce, StopPending, Closing, Marked
  <2>2. CountMarked'
    BY <1>1, MarkedFinite DEF Claims, CountMarked, Marked, RegistryTypeOK
  <2>3. QED BY <2>1, <2>2 DEF Claims
<1>12. QED BY <1>9, <1>10, <1>11 DEF IInv, RunnerInv, TypeOK, RegistryTypeOK

-----------------------------------------------------------------------------
LEMMA InitInv == Init => IInv
<1> SUFFICES ASSUME Init PROVE IInv
  OBVIOUS
<1>1. RunnerInv
  BY InitRunnerInv DEF Init
<1>2. TypeOK
  <2>1. scope.async \subseteq BOOLEAN
    BY RestRunsAssumption DEF Init
  <2>2. QED BY <1>1, <2>1, MarkedFinite DEF Init, RunnerInv, TypeOK
<1>3. Claims
  BY MarkedFinite DEF Init, AborterInit, Claims, ClaimMarked, ClaimedOnce, StopPending, CountMarked, Threads
<1>4. QED BY <1>1, <1>2, <1>3 DEF IInv

LEMMA NextInv == IInv /\ [Next]_vars => IInv'
<1> SUFFICES ASSUME IInv, [Next]_vars PROVE IInv'
  OBVIOUS
<1>1. CASE UNCHANGED vars
  <2>1. RunnerInv'
    BY <1>1, StutterKeepsInv DEF IInv, vars
  <2>2. Claims'
    BY <1>1, ClaimsUndisturbed DEF IInv, vars, aborterVars, registryVars
  <2>3. RegistryTypeOK'
    BY <1>1, TypeParts DEF IInv, vars, registryVars, RegistryTypeOK
  <2>4. QED BY <2>1, <2>2, <2>3 DEF IInv, RunnerInv, TypeOK, RegistryTypeOK
<1>2. ASSUME NEW r \in Runs, HandlerStep(r) PROVE IInv'
  BY <1>2, HandlerInv, ExecuteInv, ReportInv, MethodInv DEF HandlerStep, Threads
<1>3. ASSUME NEW t \in Threads, Method(t) PROVE IInv'
  BY <1>3, MethodInv
<1>4. ASSUME NEW c \in Callers, StopRequest(c) \/ StopStep(c) PROVE IInv'
  BY <1>4, MarkInv, JoinInv, ReplyInv, StopAllInv, MethodInv DEF StopRequest, StopStep, Threads
<1>5. QED BY <1>1, <1>2, <1>3, <1>4 DEF Next

-----------------------------------------------------------------------------
(* The invariant holds in every reachable state: a run that is marked as   *)
(* stopping has an Abort under way or a closed channel, and the one stop   *)
(* request that marked it (StopByRunID, Run and RemoveRun).                *)
THEOREM Invariance == Spec => []IInv
<1>1. QED BY InitInv, NextInv, PTL DEF Spec

(* Type correctness. *)
THEOREM TypeCorrect == Spec => []TypeOK
<1>1. IInv => TypeOK
  BY DEF IInv
<1>2. QED BY <1>1, Invariance, PTL

(* A run marked as stopping is told so, however the stop requests, the end *)
(* of the run and the other users of its Aborter interleave: when nobody   *)
(* is in an Abort of it, its channel is closed (StopByRunID).              *)
THEOREM NoStopIsLost == Spec => []StopNotLost
<1>1. IInv => StopNotLost
  BY DEF IInv, RunnerInv, AborterTypeOK, Claims, StopPending, Closing, StopNotLost, Idle
<1>2. QED BY <1>1, Invariance, PTL

(* No two stop requests are in methods of the same Aborter (StopByRunID    *)
(* marks the run under the mutex before it aborts it).                     *)
THEOREM OneStopperOfARun == Spec => []OneStopper
<1>1. IInv => OneStopper
  BY ThreadsAssumption DEF IInv, RunnerInv, CallerControl, Claims, ClaimedOnce, OneStopper, Idle
<1>2. QED BY <1>1, Invariance, PTL

(* With the handler's send and the request's second receive on the start   *)
(* channel, the stop channel is still closed once, and a run at maximum    *)
(* speed still begins at most one late call.                               *)
THEOREM StopsBehindTheRegistry == Spec => [](ClosedOnce /\ OneLateCall)
<1>1. IInv => ClosedOnce /\ OneLateCall
  BY DEF IInv, RunnerInv, OneLateCall, LateCalls
<1>2. QED BY <1>1, Invariance, PTL

LEMMA DoomedStays ==
  ASSUME NEW r \in Runs
  PROVE  IInv /\ Doomed(r) /\ [Next]_vars => Doomed(r)'
<1> SUFFICES ASSUME IInv, Doomed(r), [Next]_vars PROVE Doomed(r)'
  OBVIOUS
<1>1. RunnerInv
  BY DEF IInv
<1>2. ASSUME UNCHANGED <<stopRequested, run>>,
             call'[r].at = call[r].at /\ call'[r].abort = call[r].abort
      PROVE  Doomed(r)'
  BY <1>2 DEF Doomed, Unrecorded
<1>3. CASE UNCHANGED vars
  BY <1>2, <1>3 DEF vars, aborterVars, runnerVars
<1>4. ASSUME NEW q \in Runs, HandlerStep(q) PROVE Doomed(r)'
  <2>1. CASE NextRunID(q) \/ UpdateRun(q) \/ SkipUpdate(q) \/ RemoveRun(q)
    BY <1>2, <2>1 DEF NextRunID, UpdateRun, SkipUpdate, RemoveRun, aborterVars, runnerVars
  <2>2. CASE Execute(q)
    BY <1>1, <2>2, DoomedByRunner DEF Execute
  <2>3. CASE Report(q)
    BY <1>1, <2>3, DoomedByEnter DEF Report, Threads
  <2>4. CASE SendEnd(q)
    BY <1>1, <2>4, DoomedByMethod DEF SendEnd, MethodStep, Threads
  <2>5. QED BY <1>4, <2>1, <2>2, <2>3, <2>4 DEF HandlerStep
<1>5. ASSUME NEW t \in Threads, Method(t) PROVE Doomed(r)'
  BY <1>1, <1>5, DoomedByMethod DEF Method, MethodStep
<1>6. ASSUME NEW c \in Callers, StopRequest(c) \/ StopStep(c) PROVE Doomed(r)'
  <2>1. c \in Threads /\ c # r /\ r \in Threads
    BY ThreadsAssumption DEF Threads
  <2>2. CASE StopOne(c) \/ StopAllNext(c) \/ StopOneJoin(c) \/ StopAll(c)
    <3>1. UNCHANGED <<stopRequested, run>> /\ call'[r] = call[r]
      BY <1>1, <2>1, <2>2 DEF StopOne, StopAllNext, StopOneJoin, StopAll, AbortMarked, Enter,
         runnerVars, RunnerInv, AborterTypeOK
    <3>2. QED BY <1>2, <3>1
  <2>3. CASE StopOneReply(c) \/ StopAllReply(c) \/ Again(c)
    BY <1>2, <2>3 DEF StopOneReply, StopAllReply, Again, aborterVars, runnerVars
  <2>4. CASE JoinEnd(c)
    BY <1>1, <2>1, <2>4, DoomedByMethod DEF JoinEnd, MethodStep
  <2>5. QED BY <1>6, <2>2, <2>3, <2>4 DEF StopRequest, StopStep
<1>7. QED BY <1>3, <1>4, <1>5, <1>6 DEF Next

(* A run stopped through the REST API before it records its start never    *)
(* makes a call.                                                           *)
THEOREM EarlyStopIsRefused == Spec => EarlyStopRefused
<1>1. ASSUME NEW r \in Runs
      PROVE  Spec => [](Told(r) /\ Unrecorded(r) => [](run[r] # "loop"))
  <2>1. IInv /\ Told(r) /\ Unrecorded(r) => Doomed(r)
    BY ToldIsDoomed DEF IInv
  <2>2. Doomed(r) => run[r] # "loop"
    BY DoomedNeverCalls
  <2>3. IInv /\ Doomed(r) /\ [Next]_vars => Doomed(r)'
    BY DoomedStays
  <2>4. QED BY <2>1, <2>2, <2>3, Invariance, PTL DEF Spec
<1>2. QED BY <1>1 DEF EarlyStopRefused

LEMMA NextRefines == IInv /\ [Next]_vars => [Abstract!Next]_(Abstract!vars)
<1> SUFFICES ASSUME IInv, [Next]_vars PROVE [Abstract!Next]_(Abstract!vars)
  OBVIOUS
<1>1. RunnerInv
  BY DEF IInv
<1>2. ASSUME UNCHANGED <<closes, stopRequested, run, late>>,
             \A r \in Runs : call'[r] = call[r]
      PROVE  [Abstract!Next]_(Abstract!vars)
  BY <1>2, NothingMoves DEF PhaseOf, SignalOf
<1>3. CASE UNCHANGED vars
  BY <1>2, <1>3 DEF vars, aborterVars, runnerVars
<1>4. ASSUME NEW q \in Runs, HandlerStep(q) PROVE [Abstract!Next]_(Abstract!vars)
  <2>1. CASE NextRunID(q) \/ UpdateRun(q) \/ SkipUpdate(q) \/ RemoveRun(q)
    BY <1>2, <2>1 DEF NextRunID, UpdateRun, SkipUpdate, RemoveRun, aborterVars, runnerVars
  <2>2. CASE Execute(q)
    BY <1>1, <2>2, RunnerRefines DEF Execute
  <2>3. CASE Report(q)
    BY <1>1, <2>3, EnterRefines DEF Report, Threads
  <2>4. CASE SendEnd(q)
    BY <1>1, <2>4, MethodRefines DEF SendEnd, MethodStep, Threads
  <2>5. QED BY <1>4, <2>1, <2>2, <2>3, <2>4 DEF HandlerStep
<1>5. ASSUME NEW t \in Threads, Method(t) PROVE [Abstract!Next]_(Abstract!vars)
  BY <1>1, <1>5, MethodRefines DEF Method, MethodStep
<1>6. ASSUME NEW c \in Callers, StopRequest(c) \/ StopStep(c) PROVE [Abstract!Next]_(Abstract!vars)
  <2>1. c \in Threads /\ c \notin Runs
    BY ThreadsAssumption DEF Threads
  <2>2. CASE StopOne(c) \/ StopAllNext(c) \/ StopOneJoin(c) \/ StopAll(c)
    BY <1>1, <1>2, <2>1, <2>2 DEF StopOne, StopAllNext, StopOneJoin, StopAll, AbortMarked, Enter,
       runnerVars, RunnerInv, AborterTypeOK, Threads
  <2>3. CASE StopOneReply(c) \/ StopAllReply(c) \/ Again(c)
    BY <1>2, <2>3 DEF StopOneReply, StopAllReply, Again, aborterVars, runnerVars
  <2>4. CASE JoinEnd(c)
    BY <1>1, <2>1, <2>4, MethodRefines DEF JoinEnd, MethodStep
  <2>5. QED BY <1>6, <2>2, <2>3, <2>4 DEF StopRequest, StopStep
<1>7. QED BY <1>3, <1>4, <1>5, <1>6 DEF Next

(* The registry, its handlers and its stop requests do to the runs only    *)
(* what StopSignal allows.                                                 *)
THEOREM ImplementsStopSignal == Spec => StopsAsPromised
<1>1. Init => Abstract!Init
  BY InitRefines DEF Init
<1>2. QED BY <1>1, NextRefines, Invariance, PTL DEF Spec, StopsAsPromised, Abstract!Safety
=============================================================================
