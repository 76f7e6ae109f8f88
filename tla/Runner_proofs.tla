---------------------------- MODULE Runner_proofs ----------------------------
(***************************************************************************)
(* Proofs about the Aborter and the goroutines of the runs, for any set of *)
(* runs and of callers, that the systems built on them share: every step   *)
(* of a method and of a run keeps RunnerInv, a run told to stop before it  *)
(* began stays doomed, and each step is one of StopSignal or none.         *)
(*                                                                         *)
(* The first lemmas say what the ways of changing a frame (going on inside *)
(* a method, entering one, sending or receiving on the start channel) do   *)
(* to the frames of all threads.  Effect sums up what a step of a method   *)
(* may do; the preservation lemmas use it and do not look at the methods   *)
(* again.                                                                  *)
(***************************************************************************)
EXTENDS Runner, TLAPS

(* Going on inside a method moves one thread and nothing else. *)
LEMMA GotoFrame ==
  ASSUME AborterTypeOK, NEW t \in Threads, NEW from, NEW to \in Steps,
         Goto(t, from, to)
  PROVE  /\ call' \in [Threads -> Frames]
         /\ call[t].at = from /\ call'[t].at = to
         /\ call'[t].on = call[t].on /\ call'[t].wait = call[t].wait
         /\ call'[t].chan = call[t].chan /\ call'[t].abort = call[t].abort
         /\ \A u \in Threads : u # t => call'[u] = call[u]
BY DEF AborterTypeOK, Goto, Frames

(* Entering a method sets the thread's frame and keeps what RecordStart    *)
(* returned before.                                                        *)
LEMMA EnterFrame ==
  ASSUME AborterTypeOK, NEW t \in Threads, NEW m \in Steps, NEW r \in Runs,
         NEW w \in BOOLEAN, Enter(t, m, r, w)
  PROVE  /\ call' \in [Threads -> Frames]
         /\ call[t].at = "idle" /\ call'[t].at = m
         /\ call'[t].on = r /\ call'[t].wait = w
         /\ call'[t].chan = call[t].chan /\ call'[t].abort = call[t].abort
         /\ \A u \in Threads : u # t => call'[u] = call[u]
BY ZenonT(60) DEF AborterTypeOK, Enter, Idle, Frames

(* RecordStart's section under the lock. *)
LEMMA RecordFrame ==
  ASSUME AborterTypeOK, NEW t \in Threads, call[t].on \in Runs, RecordStart(t)
  PROVE  /\ call' \in [Threads -> Frames]
         /\ call[t].at = "record" /\ call'[t].at = "send"
         /\ call'[t].on = call[t].on /\ call'[t].wait = call[t].wait
         /\ call'[t].chan <=> stopChan[call[t].on] = "open"
         /\ call'[t].abort <=> stopRequested[call[t].on]
         /\ \A u \in Threads : u # t => call'[u] = call[u]
BY ZenonT(60) DEF AborterTypeOK, RecordStart, Frames, Steps

(* A send lets the sender go on, and wakes up at most one sleeper, which   *)
(* slept on the same run's channel.                                        *)
LEMMA SendFrame ==
  ASSUME AborterTypeOK, NEW t \in Threads, NEW from, NEW v \in {"start", "end"},
         from \notin {"parked", "parkedEnd"}, call[t].on \in Runs, Send(t, from, v)
  PROVE  /\ call' \in [Threads -> Frames]
         /\ startChan' \in [Runs -> {"empty", "start", "end"}]
         /\ call[t].at = from /\ call'[t].at = "idle"
         /\ \A u \in Threads :
              /\ call'[u].on = call[u].on /\ call'[u].wait = call[u].wait
              /\ call'[u].chan = call[u].chan /\ call'[u].abort = call[u].abort
              /\ u = t \/ call'[u].at = call[u].at
                 \/ (call[u].on = call[t].on /\ call[u].at = "parked" /\ call'[u].at = "woken")
                 \/ (call[u].on = call[t].on /\ call[u].at = "parkedEnd" /\ call'[u].at = "idle")
         /\ \A r \in Runs : startChan'[r] = startChan[r] \/ (r = call[t].on /\ startChan'[r] = v)
<1> DEFINE r == call[t].on
<1>1. CASE \E w \in Receivers(r) :
             /\ call' = [call EXCEPT ![t].at = "idle", ![w].at = Resumed(@)]
             /\ UNCHANGED startChan
  <2>1. PICK w \in Receivers(r) :
             /\ call' = [call EXCEPT ![t].at = "idle", ![w].at = Resumed(@)]
             /\ UNCHANGED startChan
    BY <1>1
  <2>2. w \in Threads /\ w # t /\ call[w].on = r /\ call[w].at \in {"parked", "parkedEnd"}
    BY DEF Receivers, Send
  <2>3. call' = [call EXCEPT ![t] = [call[t] EXCEPT !.at = "idle"],
                             ![w] = [call[w] EXCEPT !.at = Resumed(call[w].at)]]
    BY <2>1, <2>2 DEF AborterTypeOK
  <2>4. Resumed(call[w].at) \in {"woken", "idle"} /\ (Resumed(call[w].at) = "woken" <=> call[w].at = "parked")
    BY <2>2 DEF Resumed
  <2>5. call[t] \in Frames /\ call[w] \in Frames
    BY <2>2 DEF AborterTypeOK
  <2> QED BY <2>1, <2>2, <2>3, <2>4, <2>5 DEF AborterTypeOK, Send, Frames, Steps
<1>2. CASE /\ startChan' = [startChan EXCEPT ![r] = v]
           /\ call' = [call EXCEPT ![t].at = "idle"]
  BY <1>2 DEF AborterTypeOK, Send, Frames, Steps
<1> QED BY <1>1, <1>2 DEF Send

(* A receive takes the value or falls asleep.                              *)
LEMMA ReceiveFrame ==
  ASSUME AborterTypeOK, NEW t \in Threads, NEW from, NEW parked \in {"parked", "parkedEnd"},
         call[t].on \in Runs, Receive(t, from, parked)
  PROVE  /\ call' \in [Threads -> Frames]
         /\ startChan' \in [Runs -> {"empty", "start", "end"}]
         /\ call[t].at = from /\ call'[t].at \in {parked, Resumed(parked)}
         /\ call'[t].at = "woken" => startChan[call[t].on] # "empty"
         /\ call'[t].on = call[t].on /\ call'[t].wait = call[t].wait
         /\ call'[t].chan = call[t].chan /\ call'[t].abort = call[t].abort
         /\ \A u \in Threads : u # t => call'[u] = call[u]
         /\ \A r \in Runs : startChan'[r] = startChan[r] \/ (r = call[t].on /\ startChan'[r] = "empty")
BY DEF AborterTypeOK, Receive, Goto, Resumed, Frames, Steps

-----------------------------------------------------------------------------
(* What a step of a method may do.                                         *)

MethodStep(t) == AborterStep(t) \/ EndSend(t) \/ EndAwait(t)

(* From where to where a step takes its thread. *)
Edges == {<<"abort", "idle">>, <<"abort", "purge">>, <<"abort", "await">>,
          <<"purge", "clear">>, <<"clear", "idle">>,
          <<"await", "parked">>, <<"await", "woken">>, <<"woken", "idle">>,
          <<"record", "send">>, <<"send", "idle">>, <<"reset", "idle">>,
          <<"awaitEnd", "parkedEnd">>, <<"awaitEnd", "idle">>, <<"sendEnd", "idle">>}

(* Only a send moves another thread: a sleeper it wakes up. *)
FrameEffect(t) ==
  /\ call' \in [Threads -> Frames]
  /\ <<call[t].at, call'[t].at>> \in Edges
  /\ call'[t].at = "await" => call[t].wait
  /\ \A u \in Threads : call'[u].on = call[u].on /\ call'[u].wait = call[u].wait
  /\ \A u \in Threads \ {t} :
       /\ call'[u].chan = call[u].chan /\ call'[u].abort = call[u].abort
       /\ \/ call'[u].at = call[u].at
          \/ /\ call[t].at \in {"send", "sendEnd"} /\ call[u].on = call[t].on
             /\ <<call[u].at, call'[u].at>> \in {<<"parked", "woken">>, <<"parkedEnd", "idle">>}
  /\ IF call[t].at = "record"
     THEN /\ call'[t].chan <=> stopChan[call[t].on] = "open"
          /\ call'[t].abort <=> stopRequested[call[t].on]
     ELSE call'[t].chan = call[t].chan /\ call'[t].abort = call[t].abort

(* The two places that close, and who changes what is on record. *)
StopEffect(t, r) ==
  /\ \/ stopChan'[r] = stopChan[r] /\ closes'[r] = closes[r]
     \/ /\ stopChan[r] = "open" /\ stopChan'[r] = "nil" /\ closes'[r] = closes[r] + 1
        /\ call[t].at = "woken" \/ (call[t].at = "abort" /\ stopRequested'[r])
  /\ \/ stopRequested'[r] = stopRequested[r]
     \/ call[t].at = "abort" /\ stopRequested'[r]
     \/ call[t].at = "reset" /\ ~stopRequested'[r]
  /\ call[t].at \in {"abort", "woken"} => stopChan'[r] = "nil" \/ call'[t].at = "await"

(* What comes into the start channel, and what leaves it. *)
StartEffect(t, r) ==
  /\ \/ startChan'[r] \in {startChan[r], "empty"}
     \/ call[t].at = "send" /\ startChan'[r] = "start"
     \/ call[t].at = "sendEnd" /\ startChan'[r] = "end"
  /\ call'[t].at = "woken" => startChan[r] # "empty"
  /\ hasStarted'[r] => hasStarted[r] \/ call[t].at = "record"
  /\ call[t].at = "reset" => startChan'[r] = "empty" /\ ~hasStarted'[r]

Effect(t) ==
  /\ AborterTypeOK'
  /\ call[t].on \in Runs
  /\ FrameEffect(t)
  /\ StopEffect(t, call[t].on) /\ StartEffect(t, call[t].on)
  /\ \A q \in Runs \ {call[t].on} :
       /\ stopChan'[q] = stopChan[q] /\ closes'[q] = closes[q]
       /\ startChan'[q] = startChan[q]
       /\ hasStarted'[q] = hasStarted[q] /\ stopRequested'[q] = stopRequested[q]

(* A thread in a method is either a run, in one of its own, or a caller.   *)
LEMMA Position ==
  ASSUME RunnerInv, NEW t \in Threads, call[t].at # "idle"
  PROVE  /\ call[t].on \in Runs
         /\ t \in Runs => call[t].on = t /\ ~call[t].wait
         /\ t \in Callers => call[t].at \in {"abort", "purge", "clear", "await", "parked",
                                             "woken", "awaitEnd", "parkedEnd"}
BY DEF RunnerInv, RunnerControl, CallerControl, Threads, Aborting

LEMMA StepEffect ==
  ASSUME RunnerInv, NEW t \in Threads, MethodStep(t)
  PROVE  Effect(t)
<1> DEFINE s == call[t].on
<1>1. AborterTypeOK
  BY DEF RunnerInv
<1>2. call[t].at # "idle" /\ s \in Runs
  <2>1. call[t].at # "idle"
    BY DEF MethodStep, AborterStep, AbortDone, AbortClose, AbortWaits, AbortPurge, AbortClear,
           AbortAwait, AbortWoken, RecordStart, RecordSend, Reset, EndSend, EndAwait,
           Goto, Send, Receive
  <2>2. QED BY <2>1, Position
<1>3. CASE AbortDone(t)
  <2>1. PICK to \in {"idle"} : Goto(t, "abort", to)
    BY <1>3 DEF AbortDone
  <2>2. /\ call' \in [Threads -> Frames]
        /\ call[t].at = "abort" /\ call'[t].at \in {"idle"}
        /\ call'[t].on = s /\ call'[t].wait = call[t].wait
        /\ call'[t].chan = call[t].chan /\ call'[t].abort = call[t].abort
        /\ \A u \in Threads : u # t => call'[u] = call[u]
    BY <1>1, <2>1, GotoFrame DEF Steps
  <2>3. FrameEffect(t)
    BY <2>2 DEF FrameEffect, Edges
  <2>4. AborterTypeOK' /\ StopEffect(t, s) /\ StartEffect(t, s)
    BY <1>1, <1>2, <1>3, <2>2 DEF AbortDone, Goto, Close, AborterTypeOK, StopEffect, StartEffect
  <2>5. QED BY <1>1, <1>2, <1>3, <2>3, <2>4 DEF Effect, AbortDone, Close, AborterTypeOK
<1>4. CASE AbortClose(t)
  <2>1. PICK to \in {"purge", "idle"} : Goto(t, "abort", to)
    BY <1>4 DEF AbortClose
  <2>2. /\ call' \in [Threads -> Frames]
        /\ call[t].at = "abort" /\ call'[t].at \in {"purge", "idle"}
        /\ call'[t].on = s /\ call'[t].wait = call[t].wait
        /\ call'[t].chan = call[t].chan /\ call'[t].abort = call[t].abort
        /\ \A u \in Threads : u # t => call'[u] = call[u]
    BY <1>1, <2>1, GotoFrame DEF Steps
  <2>3. FrameEffect(t)
    BY <2>2 DEF FrameEffect, Edges
  <2>4. /\ stopChan[s] = "open" /\ stopChan' = [stopChan EXCEPT ![s] = "nil"]
        /\ closes' = [closes EXCEPT ![s] = closes[s] + 1]
        /\ stopRequested' = [stopRequested EXCEPT ![s] = TRUE]
        /\ UNCHANGED <<startChan, hasStarted>>
    BY <1>4 DEF AbortClose, Close
  <2>5. AborterTypeOK'
    BY <1>1, <1>2, <2>2, <2>4 DEF AborterTypeOK
  <2>6. StopEffect(t, s) /\ StartEffect(t, s)
    BY <1>1, <1>2, <2>2, <2>4 DEF AborterTypeOK, StopEffect, StartEffect
  <2>7. QED BY <1>1, <1>2, <2>3, <2>4, <2>5, <2>6, ZenonT(60) DEF Effect, AborterTypeOK
<1>5. CASE AbortWaits(t)
  <2>1. PICK to \in {"await"} : Goto(t, "abort", to)
    BY <1>5 DEF AbortWaits
  <2>2. /\ call' \in [Threads -> Frames]
        /\ call[t].at = "abort" /\ call'[t].at \in {"await"}
        /\ call'[t].on = s /\ call'[t].wait = call[t].wait
        /\ call'[t].chan = call[t].chan /\ call'[t].abort = call[t].abort
        /\ \A u \in Threads : u # t => call'[u] = call[u]
    BY <1>1, <2>1, GotoFrame DEF Steps
  <2>3. FrameEffect(t)
    BY <1>5, <2>2 DEF FrameEffect, Edges, AbortWaits
  <2>4. AborterTypeOK' /\ StopEffect(t, s) /\ StartEffect(t, s)
    BY <1>1, <1>2, <1>5, <2>2 DEF AbortWaits, Goto, Close, AborterTypeOK, StopEffect, StartEffect
  <2>5. QED BY <1>1, <1>2, <1>5, <2>3, <2>4 DEF Effect, AbortWaits, Close, AborterTypeOK
<1>6. CASE AbortPurge(t)
  <2>1. PICK to \in {"clear"} : Goto(t, "purge", to)
    BY <1>6 DEF AbortPurge
  <2>2. /\ call' \in [Threads -> Frames]
        /\ call[t].at = "purge" /\ call'[t].at \in {"clear"}
        /\ call'[t].on = s /\ call'[t].wait = call[t].wait
        /\ call'[t].chan = call[t].chan /\ call'[t].abort = call[t].abort
        /\ \A u \in Threads : u # t => call'[u] = call[u]
    BY <1>1, <2>1, GotoFrame DEF Steps
  <2>3. FrameEffect(t)
    BY <2>2 DEF FrameEffect, Edges
  <2>4. AborterTypeOK' /\ StopEffect(t, s) /\ StartEffect(t, s)
    BY <1>1, <1>2, <1>6, <2>2 DEF AbortPurge, Goto, Close, AborterTypeOK, StopEffect, StartEffect
  <2>5. QED BY <1>1, <1>2, <1>6, <2>3, <2>4 DEF Effect, AbortPurge, Close, AborterTypeOK
<1>7. CASE AbortClear(t)
  <2>1. PICK to \in {"idle"} : Goto(t, "clear", to)
    BY <1>7 DEF AbortClear
  <2>2. /\ call' \in [Threads -> Frames]
        /\ call[t].at = "clear" /\ call'[t].at \in {"idle"}
        /\ call'[t].on = s /\ call'[t].wait = call[t].wait
        /\ call'[t].chan = call[t].chan /\ call'[t].abort = call[t].abort
        /\ \A u \in Threads : u # t => call'[u] = call[u]
    BY <1>1, <2>1, GotoFrame DEF Steps
  <2>3. FrameEffect(t)
    BY <2>2 DEF FrameEffect, Edges
  <2>4. AborterTypeOK' /\ StopEffect(t, s) /\ StartEffect(t, s)
    BY <1>1, <1>2, <1>7, <2>2 DEF AbortClear, Goto, Close, AborterTypeOK, StopEffect, StartEffect
  <2>5. QED BY <1>1, <1>2, <1>7, <2>3, <2>4 DEF Effect, AbortClear, Close, AborterTypeOK
<1>8. CASE AbortWoken(t)
  <2>1. PICK to \in {"idle"} : Goto(t, "woken", to)
    BY <1>8 DEF AbortWoken
  <2>2. /\ call' \in [Threads -> Frames]
        /\ call[t].at = "woken" /\ call'[t].at \in {"idle"}
        /\ call'[t].on = s /\ call'[t].wait = call[t].wait
        /\ call'[t].chan = call[t].chan /\ call'[t].abort = call[t].abort
        /\ \A u \in Threads : u # t => call'[u] = call[u]
    BY <1>1, <2>1, GotoFrame DEF Steps
  <2>3. FrameEffect(t)
    BY <2>2 DEF FrameEffect, Edges
  <2>4. AborterTypeOK' /\ StopEffect(t, s) /\ StartEffect(t, s)
    BY <1>1, <1>2, <1>8, <2>2 DEF AbortWoken, Goto, Close, AborterTypeOK, StopEffect, StartEffect
  <2>5. QED BY <1>1, <1>2, <1>8, <2>3, <2>4, ZenonT(60) DEF Effect, AbortWoken, Close, AborterTypeOK
<1>9. CASE Reset(t)
  <2>1. PICK to \in {"idle"} : Goto(t, "reset", to)
    BY <1>9 DEF Reset
  <2>2. /\ call' \in [Threads -> Frames]
        /\ call[t].at = "reset" /\ call'[t].at \in {"idle"}
        /\ call'[t].on = s /\ call'[t].wait = call[t].wait
        /\ call'[t].chan = call[t].chan /\ call'[t].abort = call[t].abort
        /\ \A u \in Threads : u # t => call'[u] = call[u]
    BY <1>1, <2>1, GotoFrame DEF Steps
  <2>3. FrameEffect(t)
    BY <2>2 DEF FrameEffect, Edges
  <2>4. AborterTypeOK' /\ StopEffect(t, s) /\ StartEffect(t, s)
    BY <1>1, <1>2, <1>9, <2>2 DEF Reset, Goto, Close, AborterTypeOK, StopEffect, StartEffect
  <2>5. \A q \in Runs \ {s} :
          /\ stopChan'[q] = stopChan[q] /\ closes'[q] = closes[q]
          /\ startChan'[q] = startChan[q]
          /\ hasStarted'[q] = hasStarted[q] /\ stopRequested'[q] = stopRequested[q]
    BY <1>1, <1>2, <1>9, ZenonT(60) DEF Reset, AborterTypeOK
  <2>6. QED BY <1>2, <2>3, <2>4, <2>5 DEF Effect
<1>10. CASE RecordStart(t)
  <2>1. /\ call' \in [Threads -> Frames]
        /\ call[t].at = "record" /\ call'[t].at = "send"
        /\ call'[t].on = s /\ call'[t].wait = call[t].wait
        /\ call'[t].chan <=> stopChan[s] = "open"
        /\ call'[t].abort <=> stopRequested[s]
        /\ \A u \in Threads : u # t => call'[u] = call[u]
    BY <1>1, <1>2, <1>10, RecordFrame
  <2>2. FrameEffect(t)
    BY <2>1 DEF FrameEffect, Edges
  <2>3. AborterTypeOK' /\ StopEffect(t, s) /\ StartEffect(t, s)
    BY <1>1, <1>2, <1>10, <2>1 DEF RecordStart, AborterTypeOK, StopEffect, StartEffect
  <2>4. QED BY <1>1, <1>2, <1>10, <2>2, <2>3 DEF Effect, RecordStart, AborterTypeOK
<1>11. ASSUME NEW from \in {"send", "sendEnd"}, NEW v \in {"start", "end"},
             Send(t, from, v), from = "send" <=> v = "start"
      PROVE  Effect(t)
  <2>1. /\ call' \in [Threads -> Frames]
        /\ startChan' \in [Runs -> {"empty", "start", "end"}]
        /\ call[t].at = from /\ call'[t].at = "idle"
        /\ \A u \in Threads :
             /\ call'[u].on = call[u].on /\ call'[u].wait = call[u].wait
             /\ call'[u].chan = call[u].chan /\ call'[u].abort = call[u].abort
             /\ u = t \/ call'[u].at = call[u].at
                \/ (call[u].on = s /\ call[u].at = "parked" /\ call'[u].at = "woken")
                \/ (call[u].on = s /\ call[u].at = "parkedEnd" /\ call'[u].at = "idle")
        /\ \A r \in Runs : startChan'[r] = startChan[r] \/ (r = s /\ startChan'[r] = v)
    BY <1>1, <1>2, <1>11, SendFrame
  <2>2. UNCHANGED <<stopChan, closes, hasStarted, stopRequested>>
    BY <1>11 DEF Send
  <2>3. FrameEffect(t)
    BY <2>1 DEF FrameEffect, Edges
  <2>4. AborterTypeOK' /\ StopEffect(t, s) /\ StartEffect(t, s)
    BY <1>1, <1>2, <1>11, <2>1, <2>2 DEF AborterTypeOK, StopEffect, StartEffect
  <2>5. QED BY <1>2, <2>1, <2>2, <2>3, <2>4 DEF Effect
<1>12. ASSUME NEW from \in {"await", "awaitEnd"}, NEW parked \in {"parked", "parkedEnd"},
             Receive(t, from, parked), from = "await" <=> parked = "parked"
      PROVE  Effect(t)
  <2>1. /\ call' \in [Threads -> Frames]
        /\ startChan' \in [Runs -> {"empty", "start", "end"}]
        /\ call[t].at = from /\ call'[t].at \in {parked, Resumed(parked)}
        /\ call'[t].at = "woken" => startChan[s] # "empty"
        /\ call'[t].on = s /\ call'[t].wait = call[t].wait
        /\ call'[t].chan = call[t].chan /\ call'[t].abort = call[t].abort
        /\ \A u \in Threads : u # t => call'[u] = call[u]
        /\ \A r \in Runs : startChan'[r] = startChan[r] \/ (r = s /\ startChan'[r] = "empty")
    BY <1>1, <1>2, <1>12, ReceiveFrame
  <2>2. UNCHANGED <<stopChan, closes, hasStarted, stopRequested>>
    BY <1>12 DEF Receive
  <2>3. FrameEffect(t)
    BY <1>12, <2>1 DEF FrameEffect, Edges, Resumed
  <2>4. AborterTypeOK' /\ StopEffect(t, s) /\ StartEffect(t, s)
    BY <1>1, <1>2, <1>12, <2>1, <2>2 DEF AborterTypeOK, StopEffect, StartEffect
  <2>5. QED BY <1>2, <2>1, <2>2, <2>3, <2>4 DEF Effect
<1>13. CASE RecordSend(t) \/ EndSend(t)
  BY <1>11, <1>13 DEF RecordSend, EndSend
<1>14. CASE AbortAwait(t) \/ EndAwait(t)
  BY <1>12, <1>14 DEF AbortAwait, EndAwait
<1>15. QED
  BY <1>3, <1>4, <1>5, <1>6, <1>7, <1>8, <1>9, <1>10, <1>13, <1>14 DEF MethodStep, AborterStep

-----------------------------------------------------------------------------
(* RunnerInv is kept.                                                      *)

(* By a step of a method: conjunct by conjunct. *)
LEMMA MethodKeepsInv ==
  ASSUME RunnerInv, NEW t \in Threads, MethodStep(t), UNCHANGED runnerVars
  PROVE  RunnerInv'
<1> DEFINE s == call[t].on
<1>1. AborterTypeOK /\ RunnerTypeOK /\ RunnerTypeOK' /\ UNCHANGED <<run, late>>
  BY DEF RunnerInv, RunnerTypeOK, runnerVars
<1>2. Effect(t)
  BY StepEffect
<1>3. /\ AborterTypeOK' /\ s \in Runs
      /\ FrameEffect(t) /\ StopEffect(t, s) /\ StartEffect(t, s)
      /\ \A q \in Runs \ {s} :
           /\ stopChan'[q] = stopChan[q] /\ closes'[q] = closes[q]
           /\ startChan'[q] = startChan[q] /\ stopRequested'[q] = stopRequested[q]
  BY <1>2 DEF Effect
<1>4. call[t].at # "idle"
  BY <1>3 DEF FrameEffect, Edges
<1>5. t \in Runs => s = t
  BY <1>4, Position
<1>6. ClosedOnce'
  BY <1>1, <1>3 DEF RunnerInv, ClosedOnce, StopEffect, AborterTypeOK
<1>7. ASSUME NEW c \in Callers PROVE CallerControl(c)'
  BY <1>3, <1>7, ThreadsAssumption DEF RunnerInv, CallerControl, FrameEffect, Edges, Aborting, Threads
<1>8. ASSUME NEW r \in Runs PROVE RunnerControl(r)'
  <2>1. RunnerControl(r) /\ run'[r] = run[r] /\ run[r] \in Phases /\ r \in Threads
    BY <1>1, <1>8 DEF RunnerInv, RunnerTypeOK, Threads
  <2>2. call[r].at \notin {"parked", "parkedEnd"}
    BY <2>1 DEF RunnerControl, Phases, Aborting
  <2>3. call'[r].on = call[r].on /\ (call'[r].wait <=> call[r].wait)
    BY <1>3, <2>1 DEF FrameEffect
  <2>4. r = t \/ call'[r].at = call[r].at
    BY <1>3, <2>1, <2>2 DEF FrameEffect
  <2>5. CASE call'[r].at = call[r].at
    BY <2>1, <2>3, <2>5 DEF RunnerControl
  <2>6. CASE r = t
    <3>1. <<call[r].at, call'[r].at>> \in Edges /\ call'[r].at # "await"
      BY <1>3, <2>1, <2>6 DEF FrameEffect, RunnerControl
    <3>2. QED BY <2>1, <2>3, <3>1 DEF RunnerControl, Edges, Aborting
  <2>7. QED BY <2>4, <2>5, <2>6
<1>9. ASSUME NEW r \in Runs PROVE Unrecorded(r)' => Unrecorded(r) /\ call'[r].at = call[r].at
  (* No step takes a thread to "record". *)
  BY <1>1, <1>3, <1>9 DEF RunnerInv, Unrecorded, RunnerControl, FrameEffect, Edges, Threads
<1>10. ASSUME NEW r \in Runs PROVE TokenOfStart(r)'
  <2>1. CASE r # s
    BY <1>3, <1>9, <1>10, <2>1 DEF RunnerInv, TokenOfStart
  <2>2. CASE r = s /\ call[t].at \in {"send", "sendEnd"}
    (* The sender is the run itself, past its record. *)
    <3>1. t = r
      BY <1>4, <1>5, <2>2, Position DEF Threads
    <3>2. ~Unrecorded(r)'
      BY <1>1, <2>2, <3>1, <1>9, <1>10 DEF RunnerInv, RunnerControl, Unrecorded, Aborting
    <3>3. QED BY <3>2 DEF TokenOfStart
  <2>3. CASE r = s /\ call[t].at \notin {"send", "sendEnd"}
    BY <1>3, <1>9, <1>10, <2>3 DEF RunnerInv, TokenOfStart, StartEffect
  <2>4. QED BY <2>1, <2>2, <2>3
<1>11. ASSUME NEW r \in Runs PROVE StopKnown(r)'
  <2>1. Unrecorded(r)' /\ stopChan'[r] = "nil" => stopRequested'[r]
    <3>1. SUFFICES ASSUME Unrecorded(r)', stopChan'[r] = "nil" PROVE stopRequested'[r]
      OBVIOUS
    <3>2. Unrecorded(r) /\ (stopChan[r] = "nil" => stopRequested[r])
      BY <1>9, <1>11, <3>1 DEF RunnerInv, StopKnown
    <3>3. CASE r # s
      BY <1>3, <1>11, <3>1, <3>2, <3>3
    <3>4. CASE r = s
      (* Nobody was woken up yet, and the run is not at its Reset. *)
      <4>1. call[t].at # "woken"
        <5>1. t \in Callers \/ call[t].at \in Aborting \cup {"record", "send", "reset", "sendEnd"}
          BY <1>1 DEF RunnerInv, RunnerControl, RunnerTypeOK, Phases, Aborting, Threads
        <5>2. QED BY <3>2, <3>4, <5>1 DEF RunnerInv, WokenAfterStart, Aborting
      <4>2. call[t].at # "reset"
        BY <1>4, <1>5, <3>2, <3>4, Position DEF RunnerInv, RunnerControl, Unrecorded, Threads
      <4>3. QED BY <1>3, <3>1, <3>2, <3>4, <4>1, <4>2 DEF StopEffect
    <3>5. QED BY <3>3, <3>4
  <2>2. run'[r] = "starting" /\ call'[r].at # "record" => call'[r].chan \/ call'[r].abort
    <3>1. CASE r = t /\ call[t].at = "record"
      (* The channel was open, or nil with the request on record. *)
      BY <1>1, <1>3, <1>5, <1>11, <3>1 DEF RunnerInv, RunnerControl, Unrecorded, StopKnown,
         FrameEffect, AborterTypeOK, Threads
    <3>2. CASE r = t /\ call[t].at # "record"
      BY <1>1, <1>3, <1>11, <3>2 DEF RunnerInv, StopKnown, FrameEffect, Threads
    <3>3. CASE r # t
      BY <1>1, <1>3, <1>11, <3>3 DEF RunnerInv, StopKnown, FrameEffect, Threads
    <3>4. QED BY <3>1, <3>2, <3>3
  <2>3. run'[r] \in {"loop", "called", "over", "closing"} => call'[r].chan
    BY <1>1, <1>3, <1>11 DEF RunnerInv, RunnerControl, StopKnown, FrameEffect, Aborting, Threads
  <2>4. QED BY <2>1, <2>2, <2>3 DEF StopKnown
<1>12. ASSUME NEW r \in Runs PROVE LateCalls(r)'
  <2>1. closes'[r] >= closes[r]
    BY <1>1, <1>3, <1>12 DEF StopEffect, AborterTypeOK
  <2>2. closes[r] \in Nat /\ closes'[r] \in Nat
    BY <1>1, <1>3, <1>12 DEF AborterTypeOK
  <2>3. QED BY <1>1, <1>12, <2>1, <2>2 DEF RunnerInv, LateCalls
<1>13. WokenAfterStart'
  <2>1. SUFFICES ASSUME NEW c \in Callers, call'[c].at = "woken"
                 PROVE  ~Unrecorded(call[c].on)'
    BY DEF WokenAfterStart
  <2>2. call[c].at # "idle" /\ call[c].on \in Runs /\ call'[c].on = call[c].on
    BY <1>3, <2>1 DEF RunnerInv, CallerControl, FrameEffect, Edges, Threads
  <2>3. ~Unrecorded(call[c].on)
    <3>1. CASE c = t
      (* What it received was in the channel. *)
      BY <1>3, <2>1, <2>2, <3>1 DEF RunnerInv, TokenOfStart, FrameEffect, Edges, StartEffect, AborterTypeOK
    <3>2. CASE c # t /\ call[c].at = "woken"
      BY <3>2 DEF RunnerInv, WokenAfterStart
    <3>3. CASE c # t /\ call[c].at # "woken"
      (* The sender is the run itself, past its record. *)
      <4>1. call[t].at \in {"send", "sendEnd"} /\ call[c].on = s
        BY <1>3, <2>1, <3>3 DEF FrameEffect, Threads
      <4>2. t \in Runs /\ s = t
        BY <1>4, <1>5, <4>1, Position DEF Threads
      <4>3. QED BY <4>1, <4>2 DEF RunnerInv, RunnerControl, Unrecorded
    <3>4. QED BY <3>1, <3>2, <3>3
  <2>4. QED BY <1>9, <2>2, <2>3
<1>14. QED
  BY <1>1, <1>3, <1>6, <1>7, <1>8, <1>10, <1>11, <1>12, <1>13 DEF RunnerInv

(* A goroutine that calls a method on its way to the next phase.  The      *)
(* conditions under which it does so play no part.                         *)
LEMMA MovesCallingKeepsInv ==
  ASSUME RunnerInv, NEW r \in Runs, NEW from, NEW to, NEW m, MovesCalling(r, from, to, m),
         <<from, to, m>> \in
           {<<"new", "starting", "record">>, <<"new", "faking", "record">>,
            <<"faking", "errored", "abort">>, <<"new", "void", "abort">>,
            <<"starting", "finished", "reset">>, <<"over", "finished", "reset">>,
            <<"over", "closing", "abort">>, <<"closing", "finished", "reset">>,
            <<"finished", "done", "abort">>}
  PROVE  RunnerInv'
<1>1. AborterTypeOK /\ RunnerTypeOK /\ r \in Threads
  BY DEF RunnerInv, Threads
<1>2. /\ run[r] = from /\ run' = [run EXCEPT ![r] = to]
      /\ UNCHANGED <<stopChan, closes, startChan, hasStarted, stopRequested, late>>
  BY DEF MovesCalling, Moves, Enter
<1>3. m \in {"record", "abort", "reset"} /\ m \in Steps /\ Enter(r, m, r, FALSE)
  BY DEF MovesCalling, Steps
<1>4. /\ call' \in [Threads -> Frames]
      /\ call[r].at = "idle" /\ call'[r].at = m /\ call'[r].on = r /\ ~call'[r].wait
      /\ call'[r].chan = call[r].chan /\ call'[r].abort = call[r].abort
      /\ \A u \in Threads : u # r => call'[u] = call[u]
  BY <1>1, <1>3, EnterFrame
<1>5. AborterTypeOK' /\ RunnerTypeOK' /\ ClosedOnce'
  BY <1>1, <1>2, <1>3, <1>4 DEF RunnerInv, AborterTypeOK, RunnerTypeOK, ClosedOnce, Phases, LateCap
<1>6. WokenAfterStart'
  BY <1>1, <1>2, <1>3, <1>4, ThreadsAssumption DEF RunnerInv, WokenAfterStart, Unrecorded, CallerControl, Threads
<1>7. ASSUME NEW q \in Runs PROVE RunnerControl(q)' /\ StopKnown(q)'
  <2>1. RunnerControl(q)'
    BY <1>1, <1>2, <1>3, <1>4, <1>7 DEF RunnerInv, RunnerControl, Aborting, Threads, RunnerTypeOK
  <2>2. StopKnown(q)'
    BY <1>1, <1>2, <1>3, <1>4, <1>7 DEF RunnerInv, StopKnown, RunnerControl, Unrecorded, Threads, RunnerTypeOK
  <2>3. QED BY <2>1, <2>2
<1>8. ASSUME NEW q \in Runs PROVE TokenOfStart(q)' /\ LateCalls(q)'
  BY <1>1, <1>2, <1>3, <1>4, <1>8 DEF RunnerInv, TokenOfStart, LateCalls, Unrecorded, RunnerControl, Threads, RunnerTypeOK, LateCap
<1>9. ASSUME NEW c \in Callers PROVE CallerControl(c)'
  BY <1>1, <1>2, <1>3, <1>4, <1>9, ThreadsAssumption DEF RunnerInv, CallerControl, Aborting, Threads
<1>10. QED BY <1>5, <1>6, <1>7, <1>8, <1>9 DEF RunnerInv

(* A goroutine that goes to the next phase by itself, having the channel   *)
(* if it enters the loop, and with no late call behind it if it is not     *)
(* paced.                                                                  *)
LEMMA MovesOnlyKeepsInv ==
  ASSUME RunnerInv, NEW r \in Runs, NEW from, NEW to, MovesOnly(r, from, to),
         <<from, to>> \in
           {<<"new", "void">>, <<"starting", "loop">>, <<"starting", "over">>,
            <<"called", "loop">>, <<"called", "over">>},
         from = "starting" => call[r].chan,
         to = "loop" /\ r \notin Paced => late[r] = 0
  PROVE  RunnerInv'
<1>1. AborterTypeOK /\ RunnerTypeOK
  BY DEF RunnerInv
<1>2. /\ run[r] = from /\ run' = [run EXCEPT ![r] = to] /\ call[r].at = "idle"
      /\ UNCHANGED <<stopChan, closes, startChan, hasStarted, stopRequested, call, late>>
  BY DEF MovesOnly, Moves, Idle, aborterVars
<1>3. AborterTypeOK' /\ RunnerTypeOK' /\ ClosedOnce'
  BY <1>1, <1>2 DEF RunnerInv, AborterTypeOK, RunnerTypeOK, ClosedOnce, Phases, LateCap
<1>4. WokenAfterStart'
  BY <1>1, <1>2, ThreadsAssumption DEF RunnerInv, WokenAfterStart, Unrecorded, CallerControl, Threads
<1>5. ASSUME NEW q \in Runs PROVE RunnerControl(q)' /\ StopKnown(q)'
  <2>1. RunnerControl(q)'
    BY <1>1, <1>2, <1>5 DEF RunnerInv, RunnerControl, Aborting, Threads, RunnerTypeOK
  <2>2. StopKnown(q)'
    BY <1>1, <1>2, <1>5 DEF RunnerInv, StopKnown, RunnerControl, Unrecorded, Threads, RunnerTypeOK
  <2>3. QED BY <2>1, <2>2
<1>6. ASSUME NEW q \in Runs PROVE TokenOfStart(q)' /\ LateCalls(q)'
  BY <1>1, <1>2, <1>6 DEF RunnerInv, TokenOfStart, LateCalls, Unrecorded, RunnerControl, Threads, RunnerTypeOK, LateCap
<1>7. ASSUME NEW c \in Callers PROVE CallerControl(c)'
  BY <1>1, <1>2, <1>7, ThreadsAssumption DEF RunnerInv, CallerControl, Aborting, Threads
<1>8. QED BY <1>3, <1>4, <1>5, <1>6, <1>7 DEF RunnerInv

(* A call to the target, which may make the worker call Abort.             *)
LEMMA CallKeepsInv ==
  ASSUME RunnerInv, NEW r \in Runs, Call(r) \/ CallAborts(r)
  PROVE  RunnerInv'
<1>1. AborterTypeOK /\ RunnerTypeOK /\ r \in Threads /\ "abort" \in Steps
  BY DEF RunnerInv, Threads, Steps
<1>2. /\ run[r] = "loop" /\ run' = [run EXCEPT ![r] = "called"]
      /\ UNCHANGED <<stopChan, closes, startChan, hasStarted, stopRequested>>
  BY DEF Call, CallAborts, Moves, Enter, aborterVars
<1>3. /\ call' \in [Threads -> Frames]
      /\ call'[r].at \in {"idle", "abort"} /\ ~call'[r].wait
      /\ call'[r].on \in {r, NoRun} /\ (call'[r].at # "idle" => call'[r].on = r)
      /\ call'[r].chan = call[r].chan /\ call'[r].abort = call[r].abort
      /\ \A u \in Threads : u # r => call'[u] = call[u]
  <2>1. CASE CallAborts(r)
    BY <1>1, <2>1, EnterFrame DEF CallAborts
  <2>2. CASE Call(r)
    BY <1>1, <1>2, <2>2 DEF Call, Moves, Idle, aborterVars, AborterTypeOK, RunnerInv, RunnerControl
  <2>3. QED BY <2>1, <2>2
<1>4. /\ late' \in [Runs -> 0 .. LateCap]
      /\ \A q \in Runs : late'[q] = late[q] \/ (q = r /\ closes[r] > 0 /\ late'[q] = late[q] + 1)
  <2>1. late' = IF closes[r] > 0 /\ late[r] < LateCap THEN [late EXCEPT ![r] = late[r] + 1] ELSE late
    BY DEF Call, CallAborts, CallBegins
  <2>2. CASE closes[r] > 0 /\ late[r] < LateCap
    BY <1>1, <2>1, <2>2 DEF RunnerTypeOK, LateCap
  <2>3. CASE ~(closes[r] > 0 /\ late[r] < LateCap)
    BY <1>1, <2>1, <2>3 DEF RunnerTypeOK
  <2>4. QED BY <2>2, <2>3
<1>5. AborterTypeOK' /\ RunnerTypeOK' /\ ClosedOnce'
  BY <1>1, <1>2, <1>3, <1>4 DEF RunnerInv, AborterTypeOK, RunnerTypeOK, ClosedOnce, Phases, LateCap
<1>6. WokenAfterStart'
  BY <1>1, <1>2, <1>3, <1>4, ThreadsAssumption DEF RunnerInv, WokenAfterStart, Unrecorded, CallerControl, Threads
<1>7. ASSUME NEW q \in Runs PROVE RunnerControl(q)' /\ StopKnown(q)'
  <2>1. RunnerControl(q)'
    BY <1>1, <1>2, <1>3, <1>4, <1>7 DEF RunnerInv, RunnerControl, Aborting, Threads, RunnerTypeOK
  <2>2. StopKnown(q)'
    BY <1>1, <1>2, <1>3, <1>4, <1>7 DEF RunnerInv, StopKnown, RunnerControl, Unrecorded, Threads, RunnerTypeOK
  <2>3. QED BY <2>1, <2>2
<1>8. ASSUME NEW q \in Runs PROVE TokenOfStart(q)' /\ LateCalls(q)'
  BY <1>1, <1>2, <1>3, <1>4, <1>8 DEF RunnerInv, TokenOfStart, LateCalls, Unrecorded, RunnerControl, Threads, RunnerTypeOK, LateCap
<1>9. ASSUME NEW c \in Callers PROVE CallerControl(c)'
  BY <1>1, <1>2, <1>3, <1>4, <1>9, ThreadsAssumption DEF RunnerInv, CallerControl, Aborting, Threads
<1>10. QED BY <1>5, <1>6, <1>7, <1>8, <1>9 DEF RunnerInv

(* Every step of a run's goroutine keeps the invariant. *)
LEMMA RunnerKeepsInv ==
  ASSUME RunnerInv, NEW r \in Runs, RunnerStep(r)
  PROVE  RunnerInv'
<1>1. CASE StartRun(r) \/ FakeStart(r) \/ FailFaked(r) \/ FailInit(r)
  BY <1>1, MovesCallingKeepsInv DEF StartRun, FakeStart, FailFaked, FailInit
<1>2. CASE Refuse(r) \/ FinishClosed(r) \/ FinishOpen(r) \/ FinishReset(r) \/ ReturnDone(r)
  BY <1>2, MovesCallingKeepsInv DEF Refuse, FinishClosed, FinishOpen, FinishReset, ReturnDone
<1>3. CASE FailEarly(r) \/ SeesStop(r) \/ Completes(r)
  BY <1>3, MovesOnlyKeepsInv DEF FailEarly, SeesStop, Completes
<1>4. CASE EnterLoop(r)
  (* Not told to give up, the run holds the channel; no call was made yet. *)
  <2>1. run[r] = "starting" /\ call[r].at = "idle" /\ ~call[r].abort
    BY <1>4 DEF EnterLoop, MovesOnly, Moves, Idle
  <2>2. call[r].chan /\ late[r] = 0
    BY <2>1 DEF RunnerInv, StopKnown, LateCalls
  <2>3. QED BY <1>4, <2>2, MovesOnlyKeepsInv DEF EnterLoop
<1>5. CASE StopsInDelay(r)
  BY <1>5, MovesOnlyKeepsInv DEF StopsInDelay, StopSeen
<1>6. CASE Call(r) \/ CallAborts(r)
  BY <1>6, CallKeepsInv
<1>7. CASE Continue(r)
  (* Not paced, it saw the channel open, so no call was late. *)
  <2>1. run[r] = "called" /\ (r \notin Paced => ~StopSeen(r))
    BY <1>7 DEF Continue, MovesOnly, Moves
  <2>2. r \notin Paced => late[r] = 0
    BY <2>1 DEF RunnerInv, AborterTypeOK, RunnerTypeOK, LateCap, StopKnown, StopSeen, LateCalls
  <2>3. QED BY <1>7, <2>2, MovesOnlyKeepsInv DEF Continue
<1>8. QED
  BY <1>1, <1>2, <1>3, <1>4, <1>5, <1>6, <1>7 DEF RunnerStep, RunnerProgress

(* A thread that enters a method disturbs nobody: a caller at any time, a  *)
(* run when it is over and its handler announces that.                     *)
LEMMA EnterKeepsInv ==
  ASSUME RunnerInv, NEW t \in Threads, NEW m, NEW r \in Runs, NEW w \in BOOLEAN,
         Enter(t, m, r, w), UNCHANGED runnerVars,
         \/ t \in Callers /\ m \in {"abort", "awaitEnd"}
         \/ t = r /\ m = "sendEnd" /\ ~w /\ Returned(r)
  PROVE  RunnerInv'
<1>1. AborterTypeOK /\ RunnerTypeOK /\ m \in Steps /\ m \in {"abort", "awaitEnd", "sendEnd"}
  BY DEF RunnerInv, Steps
<1>2. /\ call' \in [Threads -> Frames]
      /\ call[t].at = "idle" /\ call'[t].at = m /\ call'[t].on = r /\ (call'[t].wait <=> w)
      /\ call'[t].chan = call[t].chan /\ call'[t].abort = call[t].abort
      /\ \A u \in Threads : u # t => call'[u] = call[u]
  BY <1>1, EnterFrame
<1>3. UNCHANGED <<stopChan, closes, startChan, hasStarted, stopRequested, run, late>>
  BY DEF Enter, runnerVars
<1>4. AborterTypeOK' /\ RunnerTypeOK' /\ ClosedOnce'
  BY <1>1, <1>2, <1>3 DEF RunnerInv, AborterTypeOK, RunnerTypeOK, ClosedOnce
<1>5. ASSUME NEW q \in Runs PROVE Unrecorded(q)' <=> Unrecorded(q)
  BY <1>1, <1>2, <1>3, <1>5 DEF Unrecorded, Threads
<1>6. WokenAfterStart'
  BY <1>1, <1>2, <1>3, <1>5 DEF RunnerInv, WokenAfterStart, CallerControl, Threads
<1>7. ASSUME NEW q \in Runs PROVE RunnerControl(q)'
  <2>1. CASE q # t
    BY <1>2, <1>3, <1>7, <2>1 DEF RunnerInv, RunnerControl, Threads
  <2>2. CASE q = t
    BY <1>1, <1>2, <1>3, <1>7, <2>2, ThreadsAssumption DEF RunnerControl, Returned, Threads
  <2>3. QED BY <2>1, <2>2
<1>8. ASSUME NEW q \in Runs PROVE StopKnown(q)'
  <2>1. /\ call'[q].chan = call[q].chan /\ call'[q].abort = call[q].abort
        /\ run[q] = "starting" => (call'[q].at = "record" <=> call[q].at = "record")
    BY <1>1, <1>2, <1>8 DEF Threads
  <2>2. QED BY <1>3, <1>5, <1>8, <2>1 DEF RunnerInv, StopKnown
<1>9. ASSUME NEW q \in Runs PROVE TokenOfStart(q)' /\ LateCalls(q)'
  BY <1>3, <1>5, <1>9 DEF RunnerInv, TokenOfStart, LateCalls
<1>10. ASSUME NEW c \in Callers PROVE CallerControl(c)'
  BY <1>1, <1>2, <1>10, ThreadsAssumption DEF RunnerInv, CallerControl, Aborting, Threads
<1>11. QED BY <1>4, <1>6, <1>7, <1>8, <1>9, <1>10 DEF RunnerInv

(* The initial state. *)
LEMMA InitRunnerInv == AborterInit /\ RunnerInit => RunnerInv
<1> SUFFICES ASSUME AborterInit, RunnerInit PROVE RunnerInv
  OBVIOUS
<1> USE DEF AborterInit, RunnerInit, Threads
<1>1. AborterTypeOK /\ RunnerTypeOK
  BY DEF AborterTypeOK, RunnerTypeOK, Frames, Steps, Phases, LateCap
<1>2. ClosedOnce /\ WokenAfterStart
  BY DEF ClosedOnce, WokenAfterStart
<1>3. ASSUME NEW r \in Runs
      PROVE  RunnerControl(r) /\ StopKnown(r) /\ TokenOfStart(r) /\ LateCalls(r)
  BY <1>3 DEF RunnerControl, StopKnown, TokenOfStart, LateCalls, Unrecorded
<1>4. ASSUME NEW c \in Callers PROVE CallerControl(c)
  BY <1>4 DEF CallerControl, Aborting
<1>5. QED BY <1>1, <1>2, <1>3, <1>4 DEF RunnerInv

(* Nothing happens: nothing changes. *)
LEMMA StutterKeepsInv ==
  ASSUME RunnerInv, UNCHANGED <<aborterVars, runnerVars>> PROVE RunnerInv'
BY DEF RunnerInv, aborterVars, runnerVars, AborterTypeOK, RunnerTypeOK, ClosedOnce,
       WokenAfterStart, RunnerControl, StopKnown, TokenOfStart, LateCalls, CallerControl, Unrecorded

-----------------------------------------------------------------------------
(* Once told, a run that did not record its start is doomed for good: the  *)
(* request stays on record until RecordStart reads it, and the run keeps   *)
(* what RecordStart returned until it gives up.                            *)
Doomed(r) ==
  \/ Unrecorded(r) /\ stopRequested[r]
  \/ run[r] = "starting" /\ call[r].at # "record" /\ call[r].abort
  \/ run[r] \in {"faking", "errored", "void", "finished", "done"}

LEMMA ToldIsDoomed ==
  ASSUME RunnerInv, NEW r \in Runs, Told(r), Unrecorded(r)
  PROVE  Doomed(r)
BY DEF RunnerInv, AborterTypeOK, ClosedOnce, StopKnown, Told, Doomed

LEMMA DoomedNeverCalls ==
  ASSUME NEW r \in Runs, Doomed(r)
  PROVE  run[r] # "loop"
BY DEF Doomed, Unrecorded

LEMMA DoomedByMethod ==
  ASSUME RunnerInv, NEW t \in Threads, MethodStep(t), UNCHANGED runnerVars,
         NEW r \in Runs, Doomed(r)
  PROVE  Doomed(r)'
<1> DEFINE s == call[t].on
<1>1. /\ s \in Runs /\ FrameEffect(t) /\ StopEffect(t, s) /\ run' = run
      /\ \A q \in Runs \ {s} : stopRequested'[q] = stopRequested[q]
  BY StepEffect DEF Effect, runnerVars
<1>2. CASE run[r] \in {"faking", "errored", "void", "finished", "done"}
  BY <1>1, <1>2 DEF Doomed
<1>3. CASE Unrecorded(r) /\ stopRequested[r]
  <2>1. t \in Runs => s = t
    BY <1>1, Position DEF FrameEffect, Edges
  <2>2. stopRequested'[r]
    (* The run is not at its Reset. *)
    <3>1. r = s => call[t].at # "reset"
      BY <1>1, <1>3, <2>1, Position DEF RunnerInv, RunnerControl, Unrecorded, Threads, FrameEffect, Edges
    <3>2. QED BY <1>1, <1>3, <3>1 DEF StopEffect
  <2>3. CASE r = t /\ call[t].at = "record"
    BY <1>1, <1>3, <2>1, <2>2, <2>3 DEF RunnerInv, RunnerControl, Unrecorded, Doomed, FrameEffect, Edges
  <2>4. CASE ~(r = t /\ call[t].at = "record")
    BY <1>1, <1>3, <2>2, <2>4 DEF RunnerInv, RunnerControl, Unrecorded, Doomed, FrameEffect, Edges, Threads
  <2>5. QED BY <2>3, <2>4
<1>4. CASE run[r] = "starting" /\ call[r].at # "record" /\ call[r].abort
  BY <1>1, <1>4 DEF Doomed, FrameEffect, Edges, Threads
<1>5. QED BY <1>2, <1>3, <1>4 DEF Doomed

LEMMA DoomedByRunner ==
  ASSUME RunnerInv, NEW q \in Runs, RunnerStep(q), NEW r \in Runs, Doomed(r)
  PROVE  Doomed(r)'
<1>1. stopRequested' = stopRequested
  BY DEF RunnerStep, RunnerProgress, StartRun, FakeStart, FailFaked, FailInit, FailEarly,
              Refuse, EnterLoop, StopsInDelay, Call, CallAborts, Continue, SeesStop, Completes,
              FinishClosed, FinishOpen, FinishReset, ReturnDone,
              MovesCalling, MovesOnly, Enter, aborterVars
<1>2. CASE q # r
  <2>1. run'[r] = run[r] /\ call'[r] = call[r]
    BY <1>2 DEF RunnerStep, RunnerProgress, StartRun, FakeStart, FailFaked, FailInit, FailEarly,
              Refuse, EnterLoop, StopsInDelay, Call, CallAborts, Continue, SeesStop, Completes,
              FinishClosed, FinishOpen, FinishReset, ReturnDone, Moves, MovesCalling, MovesOnly,
              Enter, aborterVars, RunnerInv, AborterTypeOK, RunnerTypeOK, Threads
  <2>2. QED BY <1>1, <2>1 DEF Doomed, Unrecorded
<1>3. CASE q = r
  <2>1. Idle(r) /\ run[r] \in {"new", "starting", "faking", "finished"}
    BY <1>3 DEF Doomed, Unrecorded, Idle, RunnerStep, RunnerProgress, StartRun, FakeStart,
              FailFaked, FailInit, FailEarly, Refuse, EnterLoop, StopsInDelay, Call, CallAborts,
              Continue, SeesStop, Completes, FinishClosed, FinishOpen, FinishReset, ReturnDone,
              Moves, MovesCalling, MovesOnly
  <2>2. \/ StartRun(r) \/ FakeStart(r) \/ FailFaked(r) \/ FailInit(r) \/ FailEarly(r)
        \/ Refuse(r) \/ ReturnDone(r)
    BY <1>3, <2>1 DEF Doomed, Unrecorded, Idle, RunnerStep, RunnerProgress, EnterLoop,
              StopsInDelay, Call, CallAborts, Continue, SeesStop, Completes, FinishClosed,
              FinishOpen, FinishReset, Moves, MovesCalling, MovesOnly
  <2>3. RunnerInv /\ r \in Threads /\ {"record", "abort", "reset"} \subseteq Steps
    BY DEF Threads, Steps
  <2>4. AborterTypeOK /\ RunnerTypeOK
    BY <2>3 DEF RunnerInv
  <2>5. CASE StartRun(r)
    <3>1. Enter(r, "record", r, FALSE) /\ run[r] = "new" /\ run' = [run EXCEPT ![r] = "starting"]
      BY <2>5 DEF StartRun, MovesCalling, Moves
    <3>2. call'[r].at = "record"
      BY <2>3, <2>4, <3>1, EnterFrame
    <3>3. QED BY <1>1, <2>4, <3>1, <3>2 DEF Doomed, Unrecorded, RunnerTypeOK
  <2>6. CASE FakeStart(r) \/ FailFaked(r) \/ FailInit(r) \/ FailEarly(r) \/ Refuse(r) \/ ReturnDone(r)
    BY <2>4, <2>6 DEF Doomed, FakeStart, FailFaked, FailInit, FailEarly, Refuse, ReturnDone,
              MovesCalling, MovesOnly, Moves, RunnerTypeOK
  <2>7. QED BY <2>2, <2>5, <2>6
<1>4. QED BY <1>2, <1>3

(* Entering a method, of a caller or of a run that is over. *)
LEMMA DoomedByEnter ==
  ASSUME RunnerInv, NEW t \in Threads, NEW m \in {"abort", "awaitEnd", "sendEnd"},
         NEW q \in Runs, NEW w \in BOOLEAN, Enter(t, m, q, w), UNCHANGED runnerVars,
         NEW r \in Runs, Doomed(r)
  PROVE  Doomed(r)'
<1>1. /\ call[t].at = "idle" /\ call'[t].at = m /\ call'[t].abort = call[t].abort
      /\ \A u \in Threads : u # t => call'[u] = call[u]
  BY EnterFrame DEF RunnerInv, Steps
<1>2. UNCHANGED <<stopRequested, run>>
  BY DEF Enter, runnerVars
<1>3. QED BY <1>1, <1>2 DEF Doomed, Unrecorded, Threads

-----------------------------------------------------------------------------
(* The refinement of StopSignal: a step that changes the phase or the      *)
(* signal of one run is an abstract step of that run, or none.             *)

OthersAsBefore(r) ==
  \A q \in Runs \ {r} : PhaseOf(q)' = PhaseOf(q) /\ SignalOf(q)' = SignalOf(q)

LEMMA PhaseFacts ==
  ASSUME NEW p, NEW f
  PROVE  /\ PhaseIn(p, f) = "over" <=> p \in {"finished", "done", "errored", "void"}
         /\ p \in {"loop", "called", "over", "closing"} => PhaseIn(p, f) = "live"
         /\ p = "starting" /\ f.at # "record" /\ ~f.abort => PhaseIn(p, f) = "live"
         /\ p = "starting" /\ (f.at = "record" \/ f.abort) => PhaseIn(p, f) = "new"
         /\ p \in {"new", "faking"} => PhaseIn(p, f) = "new"
BY DEF PhaseIn

LEMMA OneRunMoves ==
  ASSUME NEW r \in Runs, OthersAsBefore(r), late' = late,
         \/ PhaseOf(r)' = PhaseOf(r) /\ SignalOf(r)' = SignalOf(r)
         \/ /\ PhaseOf(r)' = PhaseOf(r) /\ PhaseOf(r) # "over"
            /\ SignalOf(r) = "down" /\ SignalOf(r)' = "asked"
         \/ /\ PhaseOf(r)' = PhaseOf(r) /\ PhaseOf(r) # "over"
            /\ SignalOf(r) # "raised" /\ SignalOf(r)' = "raised"
         \/ /\ PhaseOf(r) = "new" /\ PhaseOf(r)' = "live"
            /\ SignalOf(r) = "down" /\ SignalOf(r)' = "down"
         \/ PhaseOf(r) # "over" /\ PhaseOf(r)' = "over" /\ SignalOf(r)' = "raised"
  PROVE  [Abstract!Next]_(Abstract!vars)
<1> DEFINE phase == [q \in Runs |-> PhaseOf(q)]
           signal == [q \in Runs |-> SignalOf(q)]
<1>1. /\ phase' = [phase EXCEPT ![r] = PhaseOf(r)']
      /\ signal' = [signal EXCEPT ![r] = SignalOf(r)']
  BY DEF OthersAsBefore
<1>2. phase[r] = PhaseOf(r) /\ signal[r] = SignalOf(r)
  OBVIOUS
<1>3. CASE PhaseOf(r)' = PhaseOf(r) /\ SignalOf(r)' = SignalOf(r)
  <2>1. phase' = phase /\ signal' = signal
    BY <1>3 DEF OthersAsBefore
  <2>2. QED BY <2>1 DEF Abstract!vars
<1>4. CASE /\ PhaseOf(r)' = PhaseOf(r) /\ PhaseOf(r) # "over"
           /\ SignalOf(r) = "down" /\ SignalOf(r)' = "asked"
  <2>1. phase' = phase
    BY <1>4 DEF OthersAsBefore
  <2>2. Abstract!Ask(r)
    BY <1>1, <1>2, <1>4, <2>1 DEF Abstract!Ask
  <2>3. QED BY <2>2 DEF Abstract!Next
<1>5. CASE /\ PhaseOf(r)' = PhaseOf(r) /\ PhaseOf(r) # "over"
           /\ SignalOf(r) # "raised" /\ SignalOf(r)' = "raised"
  <2>1. phase' = phase
    BY <1>5 DEF OthersAsBefore
  <2>2. Abstract!Raise(r)
    BY <1>1, <1>2, <1>5, <2>1 DEF Abstract!Raise
  <2>3. QED BY <2>2 DEF Abstract!Next
<1>6. CASE /\ PhaseOf(r) = "new" /\ PhaseOf(r)' = "live"
           /\ SignalOf(r) = "down" /\ SignalOf(r)' = "down"
  <2>1. signal' = signal
    BY <1>6 DEF OthersAsBefore
  <2>2. Abstract!Begin(r)
    BY <1>1, <1>2, <1>6, <2>1 DEF Abstract!Begin
  <2>3. QED BY <2>2 DEF Abstract!Next
<1>7. CASE PhaseOf(r) # "over" /\ PhaseOf(r)' = "over" /\ SignalOf(r)' = "raised"
  <2>1. Abstract!End(r)
    BY <1>1, <1>2, <1>7 DEF Abstract!End
  <2>2. QED BY <2>1 DEF Abstract!Next
<1>8. QED BY <1>3, <1>4, <1>5, <1>6, <1>7

(* What cannot be seen is a stutter. *)
LEMMA NothingMoves ==
  ASSUME \A r \in Runs : PhaseOf(r)' = PhaseOf(r) /\ SignalOf(r)' = SignalOf(r), late' = late
  PROVE  [Abstract!Next]_(Abstract!vars)
BY DEF Abstract!vars

LEMMA InitRefines == AborterInit /\ RunnerInit => Abstract!Init
BY DEF AborterInit, RunnerInit, Abstract!Init, PhaseOf, PhaseIn, SignalOf, Threads

(* The start is recorded, or a channel is closed, or a request put on      *)
(* record, all of the run the method is about.                             *)
LEMMA MethodRefines ==
  ASSUME RunnerInv, NEW t \in Threads, MethodStep(t), UNCHANGED runnerVars
  PROVE  [Abstract!Next]_(Abstract!vars)
<1>1. PICK s \in Runs :
      /\ s = call[t].on /\ FrameEffect(t) /\ StopEffect(t, s)
      /\ UNCHANGED <<run, late>>
      /\ \A q \in Runs \ {s} : closes'[q] = closes[q] /\ stopRequested'[q] = stopRequested[q]
  BY StepEffect DEF Effect, runnerVars
<1>2. t \in Runs => s = t
  BY <1>1, Position DEF FrameEffect, Edges
<1>3. run \in [Runs -> Phases]
  BY DEF RunnerInv, RunnerTypeOK
<1>4. ASSUME NEW q \in Runs, q # t \/ call[t].at # "record"
      PROVE  PhaseOf(q)' = PhaseOf(q)
  <2>1. run[q] = "starting" => /\ call'[q].at = "record" <=> call[q].at = "record"
                               /\ call'[q].abort <=> call[q].abort
    BY <1>1, <1>4 DEF FrameEffect, Edges, Threads
  <2>2. QED BY <1>1, <1>3, <2>1 DEF PhaseOf, PhaseIn, Phases
<1>5. ASSUME NEW q \in Runs, q # s PROVE PhaseOf(q)' = PhaseOf(q) /\ SignalOf(q)' = SignalOf(q)
  BY <1>1, <1>2, <1>4, <1>5 DEF SignalOf
<1>6. closes \in [Runs -> Nat] /\ closes' \in [Runs -> Nat]
  BY StepEffect DEF RunnerInv, AborterTypeOK, Effect
<1>7. CASE t = s /\ call[t].at = "record"
  <2>1. /\ call'[s].at = "send" /\ (call'[s].abort <=> stopRequested[s])
        /\ closes'[s] = closes[s] /\ (stopRequested'[s] <=> stopRequested[s])
    BY <1>1, <1>7 DEF FrameEffect, Edges, StopEffect
  <2>2. run[s] \in {"starting", "faking"}
    BY <1>1, <1>3, <1>7 DEF RunnerInv, RunnerControl, Phases, Aborting
  <2>3. CASE run[s] = "starting" /\ ~stopRequested[s]
    <3>1. closes[s] = 0
      BY <1>1, <1>7, <2>3 DEF RunnerInv, StopKnown, Unrecorded, ClosedOnce, AborterTypeOK
    <3>2. PhaseOf(s) = "new" /\ PhaseOf(s)' = "live"
      BY <1>1, <1>7, <2>1, <2>3, PhaseFacts DEF PhaseOf
    <3>3. SignalOf(s) = "down" /\ SignalOf(s)' = "down"
      BY <2>1, <2>3, <3>1, <3>2 DEF SignalOf
    <3>4. QED BY <1>1, <1>5, <3>2, <3>3, OneRunMoves DEF OthersAsBefore
  <2>4. CASE run[s] = "faking" \/ stopRequested[s]
    <3>1. PhaseOf(s) = "new" /\ PhaseOf(s)' = "new"
      BY <1>1, <1>7, <2>1, <2>2, <2>4, PhaseFacts DEF PhaseOf
    <3>2. SignalOf(s)' = SignalOf(s)
      BY <2>1, <3>1 DEF SignalOf
    <3>3. QED BY <1>1, <1>5, <3>1, <3>2, OneRunMoves DEF OthersAsBefore
  <2>5. QED BY <2>2, <2>3, <2>4
<1>8. CASE ~(t = s /\ call[t].at = "record")
  <2>1. PhaseOf(s)' = PhaseOf(s)
    BY <1>1, <1>4, <1>8
  <2>2. CASE PhaseOf(s) = "over"
    BY <1>1, <1>5, <2>1, <2>2, OneRunMoves DEF SignalOf, OthersAsBefore
  <2>3. CASE PhaseOf(s) # "over"
    <3>1. call[t].at # "reset"
      BY <1>1, <1>2, <2>3, Position, PhaseFacts DEF RunnerInv, RunnerControl, PhaseOf, Threads,
         FrameEffect, Edges, RunnerTypeOK, Phases, Aborting
    <3>2. \/ closes'[s] = closes[s] /\ (stopRequested'[s] <=> stopRequested[s])
          \/ closes[s] = 0 /\ closes'[s] > 0
          \/ closes'[s] = closes[s] /\ stopRequested'[s]
      BY <1>1, <1>6, <3>1 DEF RunnerInv, ClosedOnce, StopEffect
    <3>3. \/ SignalOf(s)' = SignalOf(s)
          \/ SignalOf(s) # "raised" /\ SignalOf(s)' = "raised"
          \/ SignalOf(s) = "down" /\ SignalOf(s)' = "asked"
      BY <1>1, <1>6, <2>1, <2>3, <3>2 DEF SignalOf
    <3>4. QED BY <1>1, <1>5, <2>1, <2>3, <3>3, OneRunMoves DEF OthersAsBefore
  <2>4. QED BY <2>2, <2>3
<1>9. QED BY <1>7, <1>8

(* A step of a run that makes no call: it ends, or nothing is seen. *)
LEMMA MoveRefines ==
  ASSUME RunnerInv, NEW r \in Runs, NEW from, NEW to, NEW m,
         MovesCalling(r, from, to, m) \/ MovesOnly(r, from, to),
         \/ to \in {"finished", "done", "errored", "void"}
         \/ from = "new" /\ to = "starting" /\ MovesCalling(r, from, to, "record")
         \/ from = "new" /\ to = "faking"
         \/ from = "starting" /\ ~call[r].abort /\ to \in {"loop", "over"}
         \/ from \in {"called", "over"} /\ to \in {"loop", "over", "closing"}
  PROVE  [Abstract!Next]_(Abstract!vars)
<1>1. /\ call[r].at = "idle" /\ run[r] = from /\ run' = [run EXCEPT ![r] = to]
      /\ UNCHANGED <<closes, stopRequested, late>>
      /\ \A q \in Runs \ {r} : call'[q] = call[q]
  BY DEF MovesCalling, MovesOnly, Moves, Idle, Enter, aborterVars, RunnerInv, AborterTypeOK, Threads
<1>2. run \in [Runs -> Phases] /\ run'[r] = to /\ \A q \in Runs \ {r} : run'[q] = run[q]
  BY <1>1 DEF RunnerInv, RunnerTypeOK
<1>3. OthersAsBefore(r)
  BY <1>1, <1>2 DEF OthersAsBefore, PhaseOf, SignalOf
<1>4. CASE to \in {"finished", "done", "errored", "void"}
  <2>1. PhaseOf(r)' = "over" /\ SignalOf(r)' = "raised"
    BY <1>2, <1>4, PhaseFacts DEF PhaseOf, SignalOf
  <2>2. PhaseOf(r) = "over" => SignalOf(r) = "raised"
    BY DEF SignalOf
  <2>3. QED BY <1>1, <1>3, <2>1, <2>2, OneRunMoves
<1>5. CASE to \notin {"finished", "done", "errored", "void"}
  <2>1. PhaseOf(r)' = PhaseOf(r)
    <3>1. CASE from = "new" /\ to = "starting" /\ MovesCalling(r, from, to, "record")
      <4>1. call'[r].at = "record"
        BY <3>1, EnterFrame DEF RunnerInv, MovesCalling, Threads, Steps
      <4>2. QED BY <1>1, <1>2, <3>1, <4>1, PhaseFacts DEF PhaseOf
    <3>2. CASE from = "new" /\ to = "faking"
      BY <1>1, <1>2, <3>2, PhaseFacts DEF PhaseOf
    <3>3. CASE from = "starting" /\ ~call[r].abort /\ to \in {"loop", "over"}
      BY <1>1, <1>2, <3>3, PhaseFacts DEF PhaseOf
    <3>4. CASE from \in {"called", "over"} /\ to \in {"loop", "over", "closing"}
      BY <1>1, <1>2, <3>4, PhaseFacts DEF PhaseOf
    <3>5. QED BY <1>5, <3>1, <3>2, <3>3, <3>4
  <2>2. SignalOf(r)' = SignalOf(r)
    BY <1>1, <2>1 DEF SignalOf
  <2>3. QED BY <1>1, <1>3, <2>1, <2>2, OneRunMoves
<1>6. QED BY <1>4, <1>5

(* A call after the channel is closed is a late call, while it is counted. *)
LEMMA CallRefines ==
  ASSUME RunnerInv, NEW r \in Runs, Call(r) \/ CallAborts(r)
  PROVE  [Abstract!Next]_(Abstract!vars)
<1>1. /\ run[r] = "loop" /\ run' = [run EXCEPT ![r] = "called"]
      /\ UNCHANGED <<closes, stopRequested>>
      /\ \A q \in Runs \ {r} : call'[q] = call[q]
      /\ CallBegins(r)
  BY DEF Call, CallAborts, Moves, Enter, aborterVars, RunnerInv, AborterTypeOK, Threads
<1>2. /\ run'[r] = "called" /\ \A q \in Runs \ {r} : run'[q] = run[q]
      /\ late \in [Runs -> 0 .. LateCap] /\ closes \in [Runs -> Nat]
  BY <1>1 DEF RunnerInv, RunnerTypeOK, AborterTypeOK
<1>3. PhaseOf(r) = "live" /\ PhaseOf(r)' = "live"
  BY <1>1, <1>2, PhaseFacts DEF PhaseOf
<1>4. \A q \in Runs : PhaseOf(q)' = PhaseOf(q) /\ SignalOf(q)' = SignalOf(q)
  BY <1>1, <1>2, <1>3 DEF PhaseOf, SignalOf
<1>5. CASE late' = late
  BY <1>4, <1>5, NothingMoves
<1>6. CASE late' # late
  <2>1. late' = [late EXCEPT ![r] = @ + 1] /\ closes[r] > 0 /\ late[r] < LateCap
    BY <1>1, <1>6 DEF CallBegins
  <2>2. r \notin Paced => late[r] < 1
    BY <1>1, <1>2 DEF RunnerInv, LateCalls
  <2>3. SignalOf(r) = "raised"
    BY <2>1 DEF SignalOf
  <2>4. Abstract!LateCall(r)
    BY <1>3, <1>4, <2>1, <2>2, <2>3 DEF Abstract!LateCall
  <2>5. QED BY <2>4 DEF Abstract!Next
<1>7. QED BY <1>5, <1>6

LEMMA RunnerRefines ==
  ASSUME RunnerInv, NEW r \in Runs, RunnerStep(r)
  PROVE  [Abstract!Next]_(Abstract!vars)
<1>1. CASE StartRun(r) \/ FakeStart(r) \/ FailFaked(r) \/ FailInit(r) \/ FinishReset(r) \/ ReturnDone(r)
  BY <1>1, MoveRefines DEF StartRun, FakeStart, FailFaked, FailInit, FinishReset, ReturnDone
<1>2. CASE Refuse(r) \/ FinishClosed(r) \/ FinishOpen(r)
  BY <1>2, MoveRefines DEF Refuse, FinishClosed, FinishOpen
<1>3. CASE FailEarly(r) \/ EnterLoop(r) \/ StopsInDelay(r)
  BY <1>3, MoveRefines DEF FailEarly, EnterLoop, StopsInDelay
<1>4. CASE Continue(r) \/ SeesStop(r) \/ Completes(r)
  BY <1>4, MoveRefines DEF Continue, SeesStop, Completes
<1>5. CASE Call(r) \/ CallAborts(r)
  BY <1>5, CallRefines
<1>6. QED BY <1>1, <1>2, <1>3, <1>4, <1>5 DEF RunnerStep, RunnerProgress

(* Entering a method, of a caller or of a run that is over, is not seen. *)
LEMMA EnterRefines ==
  ASSUME RunnerInv, NEW t \in Threads, NEW m \in {"abort", "awaitEnd", "sendEnd"},
         NEW r \in Runs, NEW w \in BOOLEAN, Enter(t, m, r, w), UNCHANGED runnerVars
  PROVE  [Abstract!Next]_(Abstract!vars)
<1>1. /\ call[t].at = "idle" /\ call'[t].at = m /\ call'[t].abort = call[t].abort
      /\ \A u \in Threads : u # t => call'[u] = call[u]
  BY EnterFrame DEF RunnerInv, Steps
<1>2. UNCHANGED <<closes, stopRequested, run, late>>
  BY DEF Enter, runnerVars
<1>3. run \in [Runs -> Phases]
  BY DEF RunnerInv, RunnerTypeOK
<1>4. ASSUME NEW q \in Runs PROVE PhaseOf(q)' = PhaseOf(q)
  <2>1. /\ call'[q].at = "record" <=> call[q].at = "record"
        /\ call'[q].abort <=> call[q].abort
    BY <1>1, <1>4 DEF Threads
  <2>2. QED BY <1>2, <1>3, <2>1 DEF PhaseOf, PhaseIn, Phases
<1>5. QED BY <1>2, <1>4, NothingMoves DEF SignalOf

=============================================================================
