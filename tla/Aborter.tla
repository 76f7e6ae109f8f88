------------------------------ MODULE Aborter ------------------------------
(***************************************************************************)
(* The Aborter of pkg/periodic: the object through which a run is told to  *)
(* stop.  Every run owns one.  It has a stop channel, closed to make the   *)
(* worker goroutines leave their loop, and a start channel of capacity     *)
(* one, on which the run announces that it started and on which pkg/rapi   *)
(* announces, later, that the run is over.                                 *)
(*                                                                         *)
(* This is a library: the state, and the methods cut into the steps other  *)
(* goroutines can interleave with.  A step is one section under the        *)
(* Aborter's mutex or one channel operation.  A thread runs at most one    *)
(* method at a time; its frame says where it is.  Runner says what the     *)
(* goroutine of a run does with the methods; AbortRuns and RestRuns close  *)
(* the system with the goroutines that stop runs.                          *)
(***************************************************************************)
EXTENDS Naturals

CONSTANTS
  Runs,     \* the runs; a run is also the goroutine that executes it
  Callers,  \* the other goroutines, which stop runs
  NoRun     \* not a run: the frame of a thread that called nothing yet

ASSUME ThreadsAssumption ==
  /\ Runs \cap Callers = {}
  /\ NoRun \notin Runs

VARIABLES
  stopChan,       \* the StopChan field of each run's Aborter: open or nil
  closes,         \* how often the stop channel was closed (twice is a panic)
  startChan,      \* what the one-place StartChan holds
  hasStarted,     \* the hasStarted field
  stopRequested,  \* the stopRequested field
  call            \* the frame of each thread

aborterVars == <<stopChan, closes, startChan, hasStarted, stopRequested, call>>

Threads == Runs \cup Callers

(***************************************************************************)
(* Where a thread is in a method.  "parked" and "parkedEnd" are goroutines *)
(* asleep in a receive: a sender hands its value to one of them directly.  *)
(***************************************************************************)
Steps == {"idle", "abort", "purge", "clear", "await", "parked", "woken",
          "record", "send", "reset", "awaitEnd", "parkedEnd", "sendEnd"}

(* chan and abort are the results of RecordStart: whether the copied stop  *)
(* channel is one that can be read (not nil), and the shouldAbort flag.    *)
Frames == [at: Steps, on: Runs \cup {NoRun}, wait: BOOLEAN,
           chan: BOOLEAN, abort: BOOLEAN]

AborterInit ==
  /\ stopChan = [r \in Runs |-> "open"]
  /\ closes = [r \in Runs |-> 0]
  /\ startChan = [r \in Runs |-> "empty"]
  /\ hasStarted = [r \in Runs |-> FALSE]
  /\ stopRequested = [r \in Runs |-> FALSE]
  /\ call = [t \in Threads |-> [at |-> "idle", on |-> NoRun, wait |-> FALSE,
                                chan |-> FALSE, abort |-> FALSE]]

AborterTypeOK ==
  /\ stopChan \in [Runs -> {"open", "nil"}]
  /\ closes \in [Runs -> Nat]
  /\ startChan \in [Runs -> {"empty", "start", "end"}]
  /\ hasStarted \in [Runs -> BOOLEAN]
  /\ stopRequested \in [Runs -> BOOLEAN]
  /\ call \in [Threads -> Frames]

-----------------------------------------------------------------------------
(* Calling a method, and control inside one.                               *)

Idle(t) == call[t].at = "idle"

(* The thread enters a method of the Aborter of run r. *)
Enter(t, method, r, wait) ==
  /\ Idle(t)
  /\ call' = [call EXCEPT ![t].at = method, ![t].on = r, ![t].wait = wait]
  /\ UNCHANGED <<stopChan, closes, startChan, hasStarted, stopRequested>>

Goto(t, from, to) ==
  /\ call[t].at = from
  /\ call' = [call EXCEPT ![t].at = to]

(* close(a.StopChan); a.StopChan = nil, both under the lock. *)
Close(r) ==
  /\ closes' = [closes EXCEPT ![r] = @ + 1]
  /\ stopChan' = [stopChan EXCEPT ![r] = "nil"]

-----------------------------------------------------------------------------
(* The start channel.                                                      *)

Receivers(r) ==
  {t \in Threads : call[t].on = r /\ call[t].at \in {"parked", "parkedEnd"}}

Resumed(at) == IF at = "parked" THEN "woken" ELSE "idle"

(* A blocking send: to a sleeping receiver, else to the free place. *)
Send(t, from, value) ==
  LET r == call[t].on IN
  /\ call[t].at = from
  /\ \/ \E w \in Receivers(r) :
          /\ call' = [call EXCEPT ![t].at = "idle", ![w].at = Resumed(@)]
          /\ UNCHANGED startChan
     \/ /\ Receivers(r) = {}
        /\ startChan[r] = "empty"
        /\ startChan' = [startChan EXCEPT ![r] = value]
        /\ call' = [call EXCEPT ![t].at = "idle"]
  /\ UNCHANGED <<stopChan, closes, hasStarted, stopRequested>>

(* A blocking receive: takes what is there, else sleeps. *)
Receive(t, from, parked) ==
  LET r == call[t].on IN
  /\ call[t].at = from
  /\ \/ /\ startChan[r] # "empty"
        /\ Goto(t, from, Resumed(parked))
        /\ startChan' = [startChan EXCEPT ![r] = "empty"]
     \/ /\ startChan[r] = "empty"
        /\ Goto(t, from, parked)
        /\ UNCHANGED startChan
  /\ UNCHANGED <<stopChan, closes, hasStarted, stopRequested>>

-----------------------------------------------------------------------------
(* Abort(wait).                                                            *)

(* The channel is nil: already done. *)
AbortDone(t) ==
  /\ Goto(t, "abort", "idle")
  /\ stopChan[call[t].on] = "nil"
  /\ UNCHANGED <<stopChan, closes, startChan, hasStarted, stopRequested>>

(* Started, or not waiting: close now. A started run left a value to purge. *)
AbortClose(t) ==
  LET r == call[t].on IN
  /\ call[t].at = "abort"
  /\ stopChan[r] = "open"
  /\ hasStarted[r] \/ ~call[t].wait
  /\ Goto(t, "abort", IF hasStarted[r] THEN "purge" ELSE "idle")
  /\ stopRequested' = [stopRequested EXCEPT ![r] = TRUE]
  /\ Close(r)
  /\ UNCHANGED <<startChan, hasStarted>>

(* Mutant: it does not wait for the start. *)
AbortWaitsNot(t) ==
  LET r == call[t].on IN
  /\ Goto(t, "abort", "woken")
  /\ stopChan[r] = "open"
  /\ ~hasStarted[r] /\ call[t].wait
  /\ stopRequested' = [stopRequested EXCEPT ![r] = TRUE]
  /\ UNCHANGED <<stopChan, closes, startChan, hasStarted>>

(* Not started, and waiting: unlock, and wait for the start. *)
AbortWaits(t) ==
  LET r == call[t].on IN
  /\ Goto(t, "abort", "await")
  /\ stopChan[r] = "open"
  /\ ~hasStarted[r] /\ call[t].wait
  /\ stopRequested' = [stopRequested EXCEPT ![r] = TRUE]
  /\ UNCHANGED <<stopChan, closes, startChan, hasStarted>>

(* The read of StartChan that does not block, outside the lock. *)
AbortPurge(t) ==
  /\ Goto(t, "purge", "clear")
  /\ startChan' = [startChan EXCEPT ![call[t].on] = "empty"]
  /\ UNCHANGED <<stopChan, closes, hasStarted, stopRequested>>

AbortClear(t) ==
  /\ Goto(t, "clear", "idle")
  /\ hasStarted' = [hasStarted EXCEPT ![call[t].on] = FALSE]
  /\ UNCHANGED <<stopChan, closes, startChan, stopRequested>>

(* b := <-a.StartChan of the waiting case. *)
AbortAwait(t) == Receive(t, "await", "parked")

(* Mutant: the channel is closed again without a second look. *)
AbortWokenAgain(t) ==
  LET r == call[t].on IN
  /\ Goto(t, "woken", "idle")
  /\ Close(r)
  /\ hasStarted' = [hasStarted EXCEPT ![r] = FALSE]
  /\ UNCHANGED <<startChan, stopRequested>>

(* Mutant: the closing is left to others. *)
AbortWokenOpen(t) ==
  LET r == call[t].on IN
  /\ Goto(t, "woken", "idle")
  /\ hasStarted' = [hasStarted EXCEPT ![r] = FALSE]
  /\ UNCHANGED <<stopChan, closes, startChan, stopRequested>>

(* Woken up: another Abort may have closed the channel meanwhile. *)
AbortWoken(t) ==
  LET r == call[t].on IN
  /\ Goto(t, "woken", "idle")
  /\ IF stopChan[r] = "open" THEN Close(r) ELSE UNCHANGED <<stopChan, closes>>
  /\ hasStarted' = [hasStarted EXCEPT ![r] = FALSE]
  /\ UNCHANGED <<startChan, stopRequested>>

-----------------------------------------------------------------------------
(* RecordStart() and Reset().                                              *)

(* Mutant: the start is recorded and the stop request is not looked at. *)
RecordStartAnyway(t) ==
  LET r == call[t].on IN
  /\ call[t].at = "record"
  /\ call' = [call EXCEPT ![t].at = "send", ![t].chan = (stopChan[r] = "open")]
  /\ hasStarted' = [hasStarted EXCEPT ![r] = TRUE]
  /\ UNCHANGED <<stopChan, closes, startChan, stopRequested>>

RecordStart(t) ==
  LET r == call[t].on IN
  /\ call[t].at = "record"
  /\ call' = [call EXCEPT ![t].at = "send",
                          ![t].chan = (stopChan[r] = "open"),
                          ![t].abort = stopRequested[r]]
  /\ hasStarted' = [hasStarted EXCEPT ![r] = TRUE]
  /\ UNCHANGED <<stopChan, closes, startChan, stopRequested>>

(* startedChan <- true, after the unlock. *)
RecordSend(t) == Send(t, "send", "start")

(* Mutant: the start channel is not flushed. *)
ResetUnflushed(t) ==
  LET r == call[t].on IN
  /\ Goto(t, "reset", "idle")
  /\ hasStarted' = [hasStarted EXCEPT ![r] = FALSE]
  /\ stopRequested' = [stopRequested EXCEPT ![r] = FALSE]
  /\ UNCHANGED <<stopChan, closes, startChan>>

Reset(t) ==
  LET r == call[t].on IN
  /\ Goto(t, "reset", "idle")
  /\ startChan' = [startChan EXCEPT ![r] = "empty"]
  /\ hasStarted' = [hasStarted EXCEPT ![r] = FALSE]
  /\ stopRequested' = [stopRequested EXCEPT ![r] = FALSE]
  /\ UNCHANGED <<stopChan, closes>>

-----------------------------------------------------------------------------
(* The second use of StartChan, by pkg/rapi: the run that is over sends    *)
(* false, and a stop request that waits reads it.                          *)

EndSend(t) == Send(t, "sendEnd", "end")

EndAwait(t) == Receive(t, "awaitEnd", "parkedEnd")

(* One step of the method thread t is in. *)
AborterStep(t) ==
  \/ AbortDone(t) \/ AbortClose(t) \/ AbortWaits(t)
  \/ AbortPurge(t) \/ AbortClear(t)
  \/ AbortAwait(t) \/ AbortWoken(t)
  \/ RecordStart(t) \/ RecordSend(t)
  \/ Reset(t)
=============================================================================
