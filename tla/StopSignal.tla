----------------------------- MODULE StopSignal -----------------------------
(***************************************************************************)
(* What pkg/periodic promises about stopping a run, without the mutex, the *)
(* channels and the methods: a run that is asked to stop before it begins  *)
(* does not begin; one that is live when the signal is raised ends, and at *)
(* maximum speed it makes at most one more call.                           *)
(***************************************************************************)
EXTENDS Naturals

CONSTANTS
  Runs,   \* the runs
  Paced,  \* the runs that follow a target rate
  Cap     \* where the count of late calls of a paced run stops

VARIABLES
  phase,   \* new, live or over
  signal,  \* down, asked (by somebody who waits for the start) or raised
  late     \* calls begun after the signal was raised

vars == <<phase, signal, late>>

Init ==
  /\ phase = [r \in Runs |-> "new"]
  /\ signal = [r \in Runs |-> "down"]
  /\ late = [r \in Runs |-> 0]

Ask(r) ==
  /\ phase[r] # "over" /\ signal[r] = "down"
  /\ signal' = [signal EXCEPT ![r] = "asked"]
  /\ UNCHANGED <<phase, late>>

Raise(r) ==
  /\ phase[r] # "over" /\ signal[r] # "raised"
  /\ signal' = [signal EXCEPT ![r] = "raised"]
  /\ UNCHANGED <<phase, late>>

(* Nobody has asked yet, not even somebody who waits. *)
Begin(r) ==
  /\ phase[r] = "new" /\ signal[r] = "down"
  /\ phase' = [phase EXCEPT ![r] = "live"]
  /\ UNCHANGED <<signal, late>>

LateCall(r) ==
  /\ phase[r] = "live" /\ signal[r] = "raised"
  /\ late[r] < IF r \in Paced THEN Cap ELSE 1
  /\ late' = [late EXCEPT ![r] = @ + 1]
  /\ UNCHANGED <<phase, signal>>

(* The run ends, stopped or not; there is nothing left to stop. *)
End(r) ==
  /\ phase[r] # "over"
  /\ phase' = [phase EXCEPT ![r] = "over"]
  /\ signal' = [signal EXCEPT ![r] = "raised"]
  /\ UNCHANGED late

Next ==
  \E r \in Runs : Ask(r) \/ Raise(r) \/ Begin(r) \/ LateCall(r) \/ End(r)

Safety == Init /\ [][Next]_vars

(* A run somebody asked to stop ends. *)
Heeded(r) == signal[r] # "down" /\ phase[r] # "over" ~> phase[r] = "over"

Spec == Safety /\ \A r \in Runs : Heeded(r)
=============================================================================
