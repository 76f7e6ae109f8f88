-------------------------- MODULE Watchers_proofs --------------------------
(***************************************************************************)
(* Proofs about Watchers, for any finite set of runs and any number of     *)
(* interrupts: IInv is an inductive invariant, so the handler of ^C is     *)
(* there for as long as a watcher waits for it, and no longer.             *)
(***************************************************************************)
EXTENDS Watchers, FiniteSetTheorems, TLAPS

Places == {"none", "spawned", "selecting", "caught", "aborting", "leaving", "ended"}
Counted == {"selecting", "caught", "aborting", "leaving"}

(* The two sets that are counted are finite, and no larger than Runs.      *)
LEMMA Counts ==
  /\ IsFiniteSet(Outstanding) /\ Cardinality(Outstanding) \in 0 .. Cardinality(Runs)
  /\ IsFiniteSet(Started) /\ Cardinality(Started) \in 0 .. Cardinality(Runs)
  /\ Cardinality(Runs) \in Nat
<1>1. IsFiniteSet(Runs) /\ Outstanding \in SUBSET Runs /\ Started \in SUBSET Runs
  BY WatchersAssumption DEF Outstanding, Started
<1>2. QED BY <1>1, FS_Subset, FS_CardinalityType

(* A watcher that moves enters or leaves the two sets by where it goes.    *)
LEMMA Moving ==
  ASSUME TypeOK, NEW r \in Runs, NEW from, NEW to \in Places, WatcherMoves(r, from, to)
  PROVE  /\ watcher' \in [Runs -> Places]
         /\ watcher[r] = from /\ watcher'[r] = to
         /\ \A q \in Runs : q # r => watcher'[q] = watcher[q]
         /\ Outstanding' = IF to \in Counted THEN Outstanding \cup {r} ELSE Outstanding \ {r}
         /\ to \notin {"none", "spawned"} => Started' = Started \cup {r}
         /\ to \in {"none", "spawned"} => Started' = Started \ {r}
<1>1. /\ watcher' \in [Runs -> Places]
      /\ watcher[r] = from /\ watcher'[r] = to
      /\ \A q \in Runs : q # r => watcher'[q] = watcher[q]
  BY DEF TypeOK, WatcherMoves, Places
<1>2. QED BY <1>1 DEF Outstanding, Started, Counted, Places

(* A move between two places that are counted alike keeps both counts.     *)
LEMMA MovingInside ==
  ASSUME IInv, NEW r \in Runs, NEW from \in Counted, NEW to \in Counted, WatcherMoves(r, from, to),
         UNCHANGED <<gOutstandingRuns, made, registered>>
  PROVE  /\ watcher' \in [Runs -> Places]
         /\ watcher[r] = from /\ watcher'[r] = to
         /\ \A q \in Runs : q # r => watcher'[q] = watcher[q]
         /\ CountExact' /\ made' <= Cardinality(Started')
<1>1. Counted \subseteq Places /\ TypeOK
  BY DEF Counted, Places, IInv
<1>2. /\ watcher' \in [Runs -> Places]
      /\ watcher[r] = from /\ watcher'[r] = to
      /\ \A q \in Runs : q # r => watcher'[q] = watcher[q]
      /\ Outstanding' = Outstanding \cup {r} /\ Started' = Started \cup {r}
  BY <1>1, Moving DEF Counted
<1>3. r \in Outstanding /\ r \in Started
  BY <1>2 DEF Outstanding, Started, Counted
<1>4. Outstanding' = Outstanding /\ Started' = Started
  BY <1>2, <1>3
<1>5. QED BY <1>2, <1>4 DEF IInv, CountExact, ChansMade

LEMMA InitInv == Init => IInv
<1> SUFFICES ASSUME Init PROVE IInv
  OBVIOUS
<1> USE DEF Init
<1>1. Outstanding = {} /\ Started = {}
  BY DEF Outstanding, Started
<1>2. Cardinality(Outstanding) = 0 /\ Cardinality(Started) = 0 /\ Cardinality(Runs) \in Nat
  BY <1>1, FS_EmptySet, Counts
<1>3. TypeOK
  BY <1>2, WatchersAssumption DEF TypeOK, Chans, Nil
<1>4. HandlerKept /\ InUseIsOpen
  BY DEF HandlerKept, Audible, HandlerRestored, InUseIsOpen
<1>5. CountExact /\ ChansMade
  BY <1>2 DEF CountExact, ChansMade
<1>6. QED BY <1>3, <1>4, <1>5 DEF IInv, Paired

(* What a run does by itself starts a watcher at most.                     *)
LEMMA RunInv ==
  ASSUME IInv, NEW r \in Runs, RunStep(r)
  PROVE  IInv'
<1>1. CASE Normalize(r)
  <2>1. /\ watcher' = [watcher EXCEPT ![r] = "spawned"]
        /\ UNCHANGED <<stop, abortChan, gAbortChan, gOutstandingRuns, made, pending, closed, registered, signals, process>>
        /\ holdsStop' = [holdsStop EXCEPT ![r] = TRUE]
        /\ run[r] = "new" /\ \E to \in {"normalized", "live"} : run' = [run EXCEPT ![r] = to]
    BY <1>1 DEF Normalize, RunMoves, signalVars, worldVars
  <2>2. TypeOK /\ watcher[r] = "none"
    BY <2>1 DEF IInv, Paired
  <2>3. WatcherMoves(r, "none", "spawned")
    BY <2>1, <2>2 DEF WatcherMoves
  <2>4. /\ watcher'[r] = "spawned" /\ \A q \in Runs : q # r => watcher'[q] = watcher[q]
        /\ Outstanding' = Outstanding \ {r} /\ Started' = Started \ {r}
    BY <2>2, <2>3, Moving DEF Places, Counted
  <2>5. Outstanding' = Outstanding /\ Started' = Started
    BY <2>2, <2>4 DEF Outstanding, Started
  <2>6. TypeOK'
    BY <2>1, <2>2 DEF TypeOK
  <2>7. HandlerKept' /\ InUseIsOpen'
    BY <2>1, <2>4 DEF IInv, HandlerKept, Audible, HandlerRestored, InUseIsOpen
  <2>8. CountExact' /\ ChansMade'
    BY <2>1, <2>5 DEF IInv, CountExact, ChansMade
  <2>9. Paired'
    BY <2>1, <2>2, <2>4 DEF IInv, Paired, TypeOK
  <2>10. QED BY <2>6, <2>7, <2>8, <2>9 DEF IInv
<1>2. CASE Move(r) \/ FailUnmoved(r) \/ Stop(r) \/ End(r)
  <2>1. UNCHANGED <<watcher, abortChan, gAbortChan, gOutstandingRuns, made, pending, closed, registered, signals, process>>
    BY <1>2 DEF Move, FailUnmoved, Stop, End, watcherVars, signalVars, worldVars
  <2>2. /\ stop' \in [Runs -> {"open", "closed"}] /\ holdsStop' \in [Runs -> BOOLEAN]
        /\ run' \in [Runs -> {"new", "normalized", "live", "over"}]
        /\ \A q \in Runs : run'[q] = "new" <=> run[q] = "new"
    BY <1>2 DEF Move, FailUnmoved, Stop, End, RunMoves, IInv, TypeOK
  <2>3. TypeOK' /\ Paired'
    BY <2>1, <2>2 DEF IInv, TypeOK, Paired
  <2>4. HandlerKept' /\ InUseIsOpen' /\ CountExact' /\ ChansMade'
    BY <2>1 DEF IInv, HandlerKept, Audible, HandlerRestored, InUseIsOpen, CountExact, ChansMade, Outstanding, Started
  <2>5. QED BY <2>3, <2>4 DEF IInv
<1>3. QED BY <1>1, <1>2 DEF RunStep

(* The start of a watcher: one more is counted, and the channel it will    *)
(* wait on, new or in use, gets the signals.                               *)
LEMMA StartInv ==
  ASSUME IInv, NEW r \in Runs, WatcherStarts(r)
  PROVE  IInv'
<1>1. /\ TypeOK /\ WatcherMoves(r, "spawned", "selecting")
      /\ UNCHANGED <<run, stop, holdsStop, pending, closed, signals, process>>
      /\ gOutstandingRuns' = gOutstandingRuns + 1
      /\ abortChan' = [abortChan EXCEPT ![r] = gAbortChan']
  BY DEF WatcherStarts, IInv, runVars, worldVars
<1>2. /\ watcher' \in [Runs -> Places] /\ watcher[r] = "spawned" /\ watcher'[r] = "selecting"
      /\ \A q \in Runs : q # r => watcher'[q] = watcher[q]
      /\ Outstanding' = Outstanding \cup {r} /\ Started' = Started \cup {r}
  BY <1>1, Moving DEF Places, Counted
<1>3. r \notin Outstanding /\ r \notin Started
  BY <1>2 DEF Outstanding, Started
<1>4. Cardinality(Outstanding') = Cardinality(Outstanding) + 1 /\ Cardinality(Started') = Cardinality(Started) + 1
  BY <1>2, <1>3, Counts, FS_AddElement
<1>5. Cardinality(Outstanding') \in 1 .. Cardinality(Runs) /\ Cardinality(Started') \in 1 .. Cardinality(Runs)
  <2>1. Outstanding' \in SUBSET Runs /\ Started' \in SUBSET Runs
    BY DEF Outstanding, Started
  <2>2. Cardinality(Outstanding') <= Cardinality(Runs) /\ Cardinality(Started') <= Cardinality(Runs)
    BY <2>1, WatchersAssumption, FS_Subset
  <2>3. QED BY <1>4, <2>2, Counts
(* The channel in use after this step is one that gets the signals.        *)
<1>6. /\ made' \in Nat /\ made' <= Cardinality(Started')
      /\ registered' \cup closed \subseteq 1 .. made'
      /\ gAbortChan' \in registered' /\ registered \subseteq registered'
      /\ gAbortChan' \notin closed
  <2>1. made \in Nat /\ made <= Cardinality(Started) /\ registered \cup closed \subseteq 1 .. made
    BY DEF IInv, TypeOK, ChansMade
  <2>2. CASE gAbortChan = Nil
    <3>1. made' = made + 1 /\ gAbortChan' = made + 1 /\ registered' = registered \cup {made + 1}
      BY <2>2 DEF WatcherStarts
    <3>2. made + 1 \notin closed
      BY <2>1
    <3>3. QED BY <2>1, <3>1, <3>2, <1>4, Counts
  <2>3. CASE gAbortChan # Nil
    <3>1. UNCHANGED <<made, gAbortChan, registered>>
      BY <2>3 DEF WatcherStarts
    <3>2. gAbortChan \in registered /\ gAbortChan \notin closed
      BY <2>3 DEF IInv, ChansMade, InUseIsOpen
    <3>3. QED BY <2>1, <3>1, <3>2, <1>4, Counts
  <2>4. QED BY <2>2, <2>3
<1>7. registered' \subseteq Chans /\ gAbortChan' \in Chans
  BY <1>5, <1>6, Counts DEF Chans
<1>8. TypeOK'
  <2>1. gOutstandingRuns' \in 0 .. Cardinality(Runs)
    BY <1>1, <1>4, <1>5, Counts DEF IInv, CountExact
  <2>2. made' \in 0 .. Cardinality(Runs)
    BY <1>5, <1>6, Counts
  <2>3. abortChan' \in [Runs -> Chans \cup {Nil}]
    BY <1>1, <1>7 DEF TypeOK
  <2>4. QED BY <1>1, <1>2, <1>7, <2>1, <2>2, <2>3 DEF TypeOK, Places
<1>9. HandlerKept'
  <2>1. Audible'
    BY <1>1, <1>2, <1>6 DEF IInv, HandlerKept, Audible, TypeOK
  <2>2. HandlerRestored'
    BY <1>1 DEF HandlerRestored, TypeOK
  <2>3. QED BY <2>1, <2>2 DEF HandlerKept
<1>10. InUseIsOpen' /\ CountExact' /\ ChansMade'
  BY <1>1, <1>4, <1>6 DEF IInv, InUseIsOpen, CountExact, ChansMade
<1>11. Paired'
  BY <1>1, <1>2 DEF IInv, Paired
<1>12. QED BY <1>8, <1>9, <1>10, <1>11 DEF IInv

(* What a watcher does between its start and its end.                      *)
LEMMA BetweenInv ==
  ASSUME IInv, NEW r \in Runs, GetsSignal(r) \/ SeesClosed(r) \/ SeesStop(r) \/ NotifiesAll(r) \/ Aborts(r)
  PROVE  IInv'
<1>1. /\ \E from, to \in Counted : to # "selecting" /\ WatcherMoves(r, from, to)
      /\ UNCHANGED <<run, holdsStop, abortChan, gOutstandingRuns, made, registered, signals, process>>
  BY DEF GetsSignal, SeesClosed, SeesStop, NotifiesAll, Aborts, Counted, runVars, signalVars, worldVars
<1>2. PICK from, to \in Counted : to # "selecting" /\ WatcherMoves(r, from, to)
  BY <1>1
<1>3. /\ watcher' \in [Runs -> Places] /\ watcher[r] = from /\ watcher'[r] = to
      /\ \A q \in Runs : q # r => watcher'[q] = watcher[q]
      /\ CountExact' /\ made' <= Cardinality(Started')
  BY <1>1, <1>2, MovingInside
<1>4. /\ stop' \in [Runs -> {"open", "closed"}]
      /\ pending' \subseteq pending
  BY DEF GetsSignal, SeesClosed, SeesStop, NotifiesAll, Aborts, IInv, TypeOK, runVars, signalVars
(* Only the one that got the signal closes, the channel in use, which is   *)
(* no longer in use then.                                                  *)
<1>5. \/ UNCHANGED <<closed, gAbortChan>>
      \/ gAbortChan' = Nil /\ closed' = closed \cup ({gAbortChan} \ {Nil})
  BY DEF GetsSignal, SeesClosed, SeesStop, NotifiesAll, Aborts, signalVars
<1>6. /\ closed \subseteq closed' /\ closed' \subseteq closed \cup registered
      /\ gAbortChan' \in {gAbortChan, Nil}
      /\ gAbortChan' # Nil => closed' = closed
  BY <1>5 DEF IInv, ChansMade
<1>7. TypeOK'
  BY <1>1, <1>3, <1>4, <1>6 DEF IInv, TypeOK, Places
<1>8. HandlerKept'
  <2>1. Audible'
    BY <1>1, <1>2, <1>3, <1>6 DEF IInv, HandlerKept, Audible
  <2>2. HandlerRestored'
    BY <1>1, <1>6 DEF IInv, HandlerKept, HandlerRestored
  <2>3. QED BY <2>1, <2>2 DEF HandlerKept
<1>9. InUseIsOpen'
  <2>1. Nil \notin closed'
    BY <1>7 DEF TypeOK, Chans, Nil
  <2>2. QED BY <1>6, <2>1 DEF IInv, InUseIsOpen
<1>10. ChansMade'
  BY <1>1, <1>3, <1>6 DEF IInv, ChansMade
<1>11. Paired'
  BY <1>1, <1>2, <1>3 DEF IInv, Paired, Counted
<1>12. QED BY <1>3, <1>7, <1>8, <1>9, <1>10, <1>11 DEF IInv

(* The end of a watcher: one less is counted, and with the last one the    *)
(* handler goes, for which nobody waits any more.                          *)
LEMMA LeavesInv ==
  ASSUME IInv, NEW r \in Runs, Leaves(r)
  PROVE  IInv'
<1>1. /\ TypeOK /\ WatcherMoves(r, "leaving", "ended")
      /\ UNCHANGED <<run, stop, holdsStop, abortChan, made, pending, closed, signals, process>>
      /\ gOutstandingRuns' = gOutstandingRuns - 1
  BY DEF Leaves, IInv, runVars, worldVars
<1>2. /\ watcher' \in [Runs -> Places] /\ watcher[r] = "leaving" /\ watcher'[r] = "ended"
      /\ \A q \in Runs : q # r => watcher'[q] = watcher[q]
      /\ Outstanding' = Outstanding \ {r} /\ Started' = Started \cup {r}
  BY <1>1, Moving DEF Places, Counted
<1>3. r \in Outstanding /\ r \in Started
  BY <1>2 DEF Outstanding, Started
<1>4. Cardinality(Outstanding') = Cardinality(Outstanding) - 1 /\ Started' = Started
  <2>1. Cardinality(Outstanding \ {r}) = Cardinality(Outstanding) - 1
    BY <1>3, Counts, FS_RemoveElement
  <2>2. Started \cup {r} = Started
    BY <1>3
  <2>3. QED BY <1>2, <2>1, <2>2
<1>5. Cardinality(Outstanding) >= 1 /\ Cardinality(Outstanding) \in Nat
  <2>1. Cardinality(Outstanding) # 0
    BY <1>3, Counts, FS_EmptySet
  <2>2. QED BY <2>1, Counts
<1>6. CountExact' /\ gOutstandingRuns' \in 0 .. Cardinality(Runs)
  BY <1>1, <1>4, <1>5, Counts DEF IInv, CountExact
<1>7. \/ gOutstandingRuns' # 0 /\ UNCHANGED <<gAbortChan, registered>>
      \/ gOutstandingRuns' = 0 /\ gAbortChan' = Nil /\ registered' = {}
  BY DEF Leaves
<1>8. TypeOK'
  BY <1>1, <1>2, <1>6, <1>7 DEF TypeOK, Places
<1>9. Audible'
  <2>1. CASE gOutstandingRuns' # 0
    BY <1>1, <1>2, <1>7, <2>1 DEF IInv, HandlerKept, Audible
  <2>2. CASE gOutstandingRuns' = 0
    <3>1. Outstanding' = {}
      BY <1>1, <1>2, <1>4, <1>5, <2>2, Counts, FS_RemoveElement, FS_EmptySet DEF IInv, CountExact
    <3>2. \A q \in Runs : watcher'[q] # "selecting"
      BY <3>1 DEF Outstanding
    <3>3. QED BY <3>2 DEF Audible
  <2>3. QED BY <2>1, <2>2
<1>10. HandlerRestored'
  BY <1>7 DEF HandlerRestored
<1>11. InUseIsOpen' /\ ChansMade'
  <2>1. Nil \notin closed
    BY <1>1 DEF TypeOK, Chans, Nil
  <2>2. QED BY <1>1, <1>4, <1>7, <2>1 DEF IInv, InUseIsOpen, ChansMade
<1>12. Paired'
  BY <1>1, <1>2 DEF IInv, Paired
<1>13. QED BY <1>6, <1>8, <1>9, <1>10, <1>11, <1>12 DEF IInv, HandlerKept

(* An interrupt is only sent; the process may end.                         *)
LEMMA InterruptInv ==
  ASSUME IInv, Interrupt
  PROVE  IInv'
<1>1. UNCHANGED <<run, stop, holdsStop, watcher, abortChan, gAbortChan, gOutstandingRuns, made, closed, registered>>
  BY DEF Interrupt, runVars, watcherVars
<1>2. TypeOK'
  BY <1>1, WatchersAssumption DEF Interrupt, IInv, TypeOK
<1>3. QED
  BY <1>1, <1>2 DEF IInv, HandlerKept, Audible, HandlerRestored, InUseIsOpen, CountExact, ChansMade, Paired,
                    Outstanding, Started

LEMMA StutterInv ==
  ASSUME IInv, UNCHANGED vars
  PROVE  IInv'
BY DEF vars, runVars, watcherVars, signalVars, worldVars, IInv, TypeOK, HandlerKept, Audible, HandlerRestored,
       InUseIsOpen, CountExact, ChansMade, Paired, Outstanding, Started

LEMMA NextInv == IInv /\ [Next]_vars => IInv'
BY RunInv, StartInv, BetweenInv, LeavesInv, InterruptInv, StutterInv DEF Next, WatcherStep

-----------------------------------------------------------------------------
(* In every reachable state the count is that of the watchers between      *)
(* start and end, and the channel in use is an open one that os/signal     *)
(* knows (Normalize's goroutine).                                          *)
THEOREM Invariance == Spec => []IInv
<1>1. QED BY InitInv, NextInv, PTL DEF Spec

(* However runs start and end, and however many interrupts there are,      *)
(* every watcher that waits for one is on a channel that gets it or is     *)
(* closed, and the handler is given back with the last (the increment and  *)
(* the decrement of gOutstandingRuns).                                     *)
THEOREM HandlerIsKept == Spec => []HandlerKept
<1>1. IInv => HandlerKept
  BY DEF IInv
<1>2. QED BY <1>1, Invariance, PTL

(* The channel in use is never a closed one, so no watcher closes twice    *)
(* and no new run is stopped by an old interrupt (gAbortChan = nil after   *)
(* the close).                                                             *)
THEOREM ChanInUseIsOpen == Spec => []InUseIsOpen
<1>1. IInv => InUseIsOpen
  BY DEF IInv
<1>2. QED BY <1>1, Invariance, PTL
=============================================================================
