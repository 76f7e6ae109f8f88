----------------------------- MODULE AbortRuns -----------------------------
(***************************************************************************)
(* Runs and the goroutines that abort them, with no registry in between:   *)
(* the use of pkg/periodic by the command line and by the package's tests. *)
(* A caller may call Abort of any run, with or without wait, at any time   *)
(* and as often as it likes.                                               *)
(***************************************************************************)
EXTENDS Runner

CONSTANT MayWait  \* whether the callers ask to wait for the start

ASSUME MayWaitAssumption == MayWait \subseteq BOOLEAN

vars == <<aborterVars, runnerVars>>

Init == AborterInit /\ RunnerInit

CallAbort(c) == /\ \E r \in Runs, w \in MayWait : Enter(c, "abort", r, w)
                /\ UNCHANGED runnerVars

Method(t) == AborterStep(t) /\ UNCHANGED runnerVars

Next ==
  \/ \E c \in Callers : CallAbort(c)
  \/ \E t \in Threads : Method(t)
  \/ \E r \in Runs : RunnerStep(r)

(***************************************************************************)
(* A goroutine that can go on does, and a select between two ready cases   *)
(* does not pick the same one for ever.  Nothing makes a caller abort or a *)
(* run complete by itself: an endless run ends only when it is stopped.    *)
(***************************************************************************)
Fairness ==
  /\ \A t \in Threads : WF_vars(Method(t))
  /\ \A r \in Runs : WF_vars(RunnerProgress(r)) /\ SF_vars(SeesStop(r))

Spec == Init /\ [][Next]_vars /\ Fairness

-----------------------------------------------------------------------------
TypeOK == AborterTypeOK /\ RunnerTypeOK

(* Once a run has reset its Aborter, that is as new, but for the stop      *)
(* channel, and stays so whatever Aborts are still under way: nothing is   *)
(* left in the start channel for the next user to stumble on.              *)
AsNew(r) == startChan[r] = "empty" /\ ~hasStarted[r]

LeftAsNew == \A r \in Runs : run[r] = "done" => AsNew(r)

(***************************************************************************)
(* The inductive invariant: what every system of runs keeps, and an        *)
(* Aborter is as new from its Reset on.                                    *)
(***************************************************************************)
IInv ==
  /\ RunnerInv
  /\ LeftAsNew
  /\ \A r \in Runs : run[r] = "finished" /\ Idle(r) => AsNew(r)

(* Every behaviour of the runs and their callers is one StopSignal allows. *)
RefinesStopSignal == Abstract!Spec
=============================================================================
