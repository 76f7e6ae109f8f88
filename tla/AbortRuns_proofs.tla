-------------------------- MODULE AbortRuns_proofs --------------------------
(***************************************************************************)
(* Proofs about AbortRuns, for any set of runs and of callers: IInv is an  *)
(* inductive invariant, what follows from it, and that the runs implement  *)
(* StopSignal but for its liveness.  The steps of the methods and of the   *)
(* runs are those of Runner_proofs.                                        *)
(***************************************************************************)
EXTENDS AbortRuns, Runner_proofs

(* A Reset leaves the Aborter as new, and nobody changes that: only the    *)
(* run's own RecordStart does, and it is over.                             *)
LEMMA MethodInv ==
  ASSUME IInv, NEW t \in Threads, Method(t)
  PROVE  IInv'
<1>1. RunnerInv /\ MethodStep(t) /\ UNCHANGED runnerVars
  BY DEF IInv, Method, MethodStep
<1>2. RunnerInv'
  BY <1>1, MethodKeepsInv
<1>3. call[t].at # "sendEnd"
  BY DEF Method, AborterStep, AbortDone, AbortClose, AbortWaits, AbortPurge, AbortClear,
         AbortAwait, AbortWoken, RecordStart, RecordSend, Reset, Goto, Send, Receive
<1>4. PICK s \in Runs :
        /\ s = call[t].on /\ FrameEffect(t) /\ StartEffect(t, s) /\ run' = run
        /\ \A q \in Runs \ {s} : startChan'[q] = startChan[q] /\ hasStarted'[q] = hasStarted[q]
  BY <1>1, StepEffect DEF Effect, runnerVars
<1>5. ASSUME NEW r \in Runs, run[r] \in {"finished", "done"}, AsNew(r)
      PROVE  AsNew(r)'
  <2>1. CASE r # s
    BY <1>4, <1>5, <2>1 DEF AsNew
  <2>2. CASE r = s
    <3>1. call[t].at \notin {"send", "record"}
      BY <1>1, <1>4, <1>5, <2>2, Position DEF RunnerInv, RunnerControl, Aborting, Threads,
         FrameEffect, Edges
    <3>2. QED BY <1>3, <1>4, <1>5, <2>2, <3>1 DEF AsNew, StartEffect
  <2>3. QED BY <2>1, <2>2
<1>6. LeftAsNew'
  BY <1>4, <1>5 DEF IInv, LeftAsNew
<1>7. ASSUME NEW r \in Runs, run[r] = "finished", Idle(r)' PROVE AsNew(r)'
  <2>1. CASE Idle(r)
    BY <1>5, <1>7, <2>1 DEF IInv
  <2>2. CASE ~Idle(r)
    <3>1. call[r].at = "reset"
      BY <1>1, <1>7, <2>2 DEF RunnerInv, RunnerControl, Idle
    <3>2. t = r /\ s = r
      BY <1>1, <1>4, <1>7, <3>1, Position DEF FrameEffect, Edges, Idle, Threads
    <3>3. QED BY <1>4, <3>1, <3>2 DEF AsNew, StartEffect
  <2>3. QED BY <2>1, <2>2
<1>8. QED BY <1>2, <1>4, <1>6, <1>7 DEF IInv

LEMMA RunnerStepInv ==
  ASSUME IInv, NEW r \in Runs, RunnerStep(r)
  PROVE  IInv'
<1>1. RunnerInv /\ RunnerInv'
  BY RunnerKeepsInv DEF IInv
<1>2. /\ UNCHANGED <<startChan, hasStarted>>
      /\ \A q \in Runs \ {r} : run'[q] = run[q] /\ call'[q] = call[q]
      /\ run'[r] = "done" => run[r] = "finished" /\ Idle(r)
      /\ run'[r] = "finished" => ~Idle(r)'
  <2>1. ASSUME NEW from, NEW to, NEW m \in Steps, MovesCalling(r, from, to, m)
        PROVE  /\ UNCHANGED <<startChan, hasStarted>>
               /\ \A q \in Runs \ {r} : run'[q] = run[q] /\ call'[q] = call[q]
               /\ run'[r] = to /\ run[r] = from /\ Idle(r) /\ call'[r].at = m
    BY <1>1, <2>1, EnterFrame DEF MovesCalling, Moves, Enter, RunnerInv, RunnerTypeOK, Threads
  <2>2. ASSUME NEW from, NEW to, MovesOnly(r, from, to)
        PROVE  /\ UNCHANGED <<startChan, hasStarted>>
               /\ \A q \in Runs \ {r} : run'[q] = run[q] /\ call'[q] = call[q]
               /\ run'[r] = to
    BY <1>1, <2>2 DEF MovesOnly, Moves, aborterVars, RunnerInv, RunnerTypeOK
  <2>3. CASE StartRun(r) \/ FakeStart(r) \/ FailFaked(r) \/ FailInit(r) \/ FinishOpen(r) \/ ReturnDone(r)
    BY <2>1, <2>3 DEF StartRun, FakeStart, FailFaked, FailInit, FinishOpen, ReturnDone, Steps
  <2>4. CASE Refuse(r) \/ FinishClosed(r) \/ FinishReset(r)
    BY <2>1, <2>4 DEF Refuse, FinishClosed, FinishReset, Steps, Idle
  <2>5. CASE FailEarly(r) \/ EnterLoop(r) \/ StopsInDelay(r) \/ Continue(r) \/ SeesStop(r) \/ Completes(r)
    BY <2>2, <2>5 DEF FailEarly, EnterLoop, StopsInDelay, Continue, SeesStop, Completes
  <2>6. CASE Call(r) \/ CallAborts(r)
    BY <1>1, <2>6 DEF Call, CallAborts, Moves, Enter, aborterVars, RunnerInv, AborterTypeOK,
       RunnerTypeOK, Threads
  <2>7. QED BY <2>3, <2>4, <2>5, <2>6 DEF RunnerStep, RunnerProgress
<1>3. ASSUME NEW q \in Runs
      PROVE  /\ run'[q] = "done" => AsNew(q)'
             /\ run'[q] = "finished" /\ Idle(q)' => AsNew(q)'
  <2>1. AsNew(q)' <=> AsNew(q)
    BY <1>2 DEF AsNew
  <2>2. QED BY <1>2, <1>3, <2>1 DEF IInv, LeftAsNew, Idle
<1>4. QED BY <1>1, <1>3 DEF IInv, LeftAsNew

LEMMA CallAbortInv ==
  ASSUME IInv, NEW c \in Callers, CallAbort(c)
  PROVE  IInv'
<1>1. PICK r \in Runs, w \in BOOLEAN : Enter(c, "abort", r, w)
  BY MayWaitAssumption DEF CallAbort
<1>2. RunnerInv /\ c \in Threads /\ UNCHANGED runnerVars
  BY DEF IInv, CallAbort, Threads
<1>3. RunnerInv'
  BY <1>1, <1>2, EnterKeepsInv
<1>4. UNCHANGED <<startChan, hasStarted, run>> /\ \A q \in Runs : call'[q] = call[q]
  BY <1>1, <1>2, ThreadsAssumption DEF Enter, runnerVars, RunnerInv, AborterTypeOK, Threads
<1>5. QED BY <1>3, <1>4 DEF IInv, LeftAsNew, AsNew, Idle

LEMMA InitInv == Init => IInv
BY InitRunnerInv DEF Init, IInv, LeftAsNew, RunnerInit

LEMMA NextInv == IInv /\ [Next]_vars => IInv'
<1>1. IInv /\ UNCHANGED vars => IInv'
  BY StutterKeepsInv DEF IInv, LeftAsNew, AsNew, Idle, vars, aborterVars, runnerVars
<1>2. QED BY <1>1, MethodInv, RunnerStepInv, CallAbortInv DEF Next

-----------------------------------------------------------------------------
(* The invariant holds in every reachable state: each run's goroutine and  *)
(* each caller is where the code can be, and a closed stop channel is      *)
(* known to the run before it can be missed (Abort, RecordStart and Run).  *)
THEOREM Invariance == Spec => []IInv
<1>1. QED BY InitInv, NextInv, PTL DEF Spec

(* Type correctness. *)
THEOREM TypeCorrect == Spec => []TypeOK
<1>1. IInv => TypeOK
  BY DEF IInv, RunnerInv, TypeOK
<1>2. QED BY <1>1, Invariance, PTL

(* However many goroutines abort a run, with or without wait, and however  *)
(* they interleave with its own Abort, the stop channel is never closed    *)
(* twice (Abort's two places that close).                                  *)
THEOREM StopChanClosedOnce == Spec => []ClosedOnce
<1>1. IInv => ClosedOnce
  BY DEF IInv, RunnerInv
<1>2. QED BY <1>1, Invariance, PTL

(* A run at maximum speed begins at most one call after its stop channel   *)
(* is closed (runOne's loop).                                              *)
THEOREM AtMostOneLateCall == Spec => []OneLateCall
<1>1. IInv => OneLateCall
  BY DEF IInv, RunnerInv, OneLateCall, LateCalls
<1>2. QED BY <1>1, Invariance, PTL

(* An Abort that waits is woken up only by a run that recorded its start,  *)
(* never by a value left by somebody else (Abort, RecordStart and Reset).  *)
THEOREM WaiterWokenAfterStart == Spec => []WokenAfterStart
<1>1. IInv => WokenAfterStart
  BY DEF IInv, RunnerInv
<1>2. QED BY <1>1, Invariance, PTL

(* The Aborter of a run that returned is as new, whatever Aborts of it are *)
(* still under way (Reset, and the deferred Abort of RunnerOptions).       *)
THEOREM AborterLeftAsNew == Spec => []LeftAsNew
<1>1. IInv => LeftAsNew
  BY DEF IInv
<1>2. QED BY <1>1, Invariance, PTL

LEMMA DoomedStays ==
  ASSUME NEW r \in Runs
  PROVE  IInv /\ Doomed(r) /\ [Next]_vars => Doomed(r)'
<1> SUFFICES ASSUME IInv, Doomed(r), [Next]_vars PROVE Doomed(r)'
  OBVIOUS
<1>1. CASE UNCHANGED vars
  BY <1>1 DEF vars, aborterVars, runnerVars, Doomed, Unrecorded
<1>2. ASSUME NEW t \in Threads, Method(t) PROVE Doomed(r)'
  BY <1>2, DoomedByMethod DEF IInv, Method, MethodStep
<1>3. ASSUME NEW c \in Callers, CallAbort(c) PROVE Doomed(r)'
  BY <1>3, DoomedByEnter, MayWaitAssumption DEF IInv, CallAbort, Threads
<1>4. ASSUME NEW q \in Runs, RunnerStep(q) PROVE Doomed(r)'
  BY <1>4, DoomedByRunner DEF IInv
<1>5. QED BY <1>1, <1>2, <1>3, <1>4 DEF Next

(* A run that is aborted before it records its start, with or without      *)
(* wait, never makes a call (Abort, RecordStart and the "Aborted before    *)
(* even starting" return of Run).                                          *)
THEOREM EarlyStopIsRefused == Spec => EarlyStopRefused
<1>1. ASSUME NEW r \in Runs
      PROVE  Spec => [](Told(r) /\ Unrecorded(r) => [](run[r] # "loop"))
  <2>1. IInv /\ Told(r) /\ Unrecorded(r) => Doomed(r)
    BY ToldIsDoomed DEF IInv
  <2>2. Doomed(r) => run[r] # "loop"
    BY DoomedNeverCalls
  <2>3. IInv /\ Doomed(r) /\ [Next]_vars => Doomed(r)'
    BY DoomedStays
  <2>4. QED BY <2>1, <2>2, <2>3, Invariance, PTL DEF Spec
<1>2. QED BY <1>1 DEF EarlyStopRefused

(* Every step of the runs and of their callers is a step of StopSignal, or *)
(* cannot be seen there.                                                   *)
LEMMA NextRefines == IInv /\ [Next]_vars => [Abstract!Next]_(Abstract!vars)
<1> SUFFICES ASSUME IInv, [Next]_vars PROVE [Abstract!Next]_(Abstract!vars)
  OBVIOUS
<1>1. CASE UNCHANGED vars
  BY <1>1, NothingMoves DEF vars, aborterVars, runnerVars, PhaseOf, SignalOf
<1>2. ASSUME NEW t \in Threads, Method(t) PROVE [Abstract!Next]_(Abstract!vars)
  BY <1>2, MethodRefines DEF IInv, Method, MethodStep
<1>3. ASSUME NEW c \in Callers, CallAbort(c) PROVE [Abstract!Next]_(Abstract!vars)
  BY <1>3, EnterRefines, MayWaitAssumption DEF IInv, CallAbort, Threads
<1>4. ASSUME NEW q \in Runs, RunnerStep(q) PROVE [Abstract!Next]_(Abstract!vars)
  BY <1>4, RunnerRefines DEF IInv
<1>5. QED BY <1>1, <1>2, <1>3, <1>4 DEF Next

(* The Aborter, its methods and the goroutines of the runs implement the   *)
(* safety of what pkg/periodic promises about stopping: a run asked to     *)
(* stop before it begins does not begin, the signal is never taken back,   *)
(* and no call but those counted begins once it is raised.                 *)
THEOREM ImplementsStopSignal == Spec => Abstract!Safety
<1>1. Init => Abstract!Init
  BY InitRefines DEF Init
<1>2. QED BY <1>1, NextRefines, Invariance, PTL DEF Spec, Abstract!Safety
=============================================================================
