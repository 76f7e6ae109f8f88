------------------------------ MODULE Watchers ------------------------------
(***************************************************************************)
(* The watchers of pkg/periodic: for each run Normalize() starts a         *)
(* goroutine that waits for an interrupt (^C) or for the end of the run.   *)
(* They share one channel of signals.  The first one makes it and asks     *)
(* os/signal for interrupts; the one that gets the interrupt closes it, so *)
(* that the others wake up too; the last one to leave gives interrupts     *)
(* back to their default, which ends the process.                          *)
(*                                                                         *)
(* Of a run this needs the stop channel and the moment at which the        *)
(* Aborter moves from the options it was made for to the runner.           *)
(***************************************************************************)
EXTENDS Naturals, FiniteSets

CONSTANTS
  Runs,       \* the runs
  Moved,      \* runs of pkg/rapi: their options lose the Aborter to the runner
  MayFail,    \* those of Moved that may fail before there is a runner
  MaxSignals  \* how many interrupts there are at most

ASSUME WatchersAssumption ==
  /\ IsFiniteSet(Runs)
  /\ MayFail \subseteq Moved /\ Moved \subseteq Runs
  /\ MaxSignals \in Nat

VARIABLES
  run,               \* where each run is: new, normalized, live, over
  stop,              \* its stop channel: open, closed
  holdsStop,         \* the options the watcher holds have the Aborter (r.Stop)
  watcher,           \* where the watcher of each run is
  abortChan,         \* its copy of gAbortChan
  gAbortChan,        \* the channel of signals; 0: nil
  gOutstandingRuns,  \* the number of watchers between start and end
  made,              \* the channels of signals made so far are 1 .. made
  pending,           \* those with a signal in their one place
  closed,            \* those that are closed
  registered,        \* those os/signal sends interrupts to
  signals,           \* the interrupts so far
  process            \* up, killed by an interrupt, or panicked

runVars == <<run, stop, holdsStop>>
watcherVars == <<watcher, abortChan, gAbortChan, gOutstandingRuns, made>>
signalVars == <<pending, closed, registered>>
worldVars == <<signals, process>>
vars == <<runVars, watcherVars, signalVars, worldVars>>

Nil == 0
Chans == 1 .. Cardinality(Runs)  \* no watcher makes more than one

Init ==
  /\ run = [r \in Runs |-> "new"]
  /\ stop = [r \in Runs |-> "open"]
  /\ holdsStop = [r \in Runs |-> FALSE]
  /\ watcher = [r \in Runs |-> "none"]
  /\ abortChan = [r \in Runs |-> Nil]
  /\ gAbortChan = Nil
  /\ gOutstandingRuns = 0
  /\ made = 0
  /\ pending = {} /\ closed = {} /\ registered = {}
  /\ signals = 0 /\ process = "up"

-----------------------------------------------------------------------------
(* The run.                                                                *)

RunMoves(r, from, to) ==
  /\ run[r] = from
  /\ run' = [run EXCEPT ![r] = to]

(* The Aborter is made and the watcher goroutine is started.  Without      *)
(* pkg/rapi it is the runner that is normalized.                           *)
Normalize(r) ==
  /\ RunMoves(r, "new", IF r \in Moved THEN "normalized" ELSE "live")
  /\ holdsStop' = [holdsStop EXCEPT ![r] = TRUE]
  /\ watcher' = [watcher EXCEPT ![r] = "spawned"]
  /\ UNCHANGED <<stop, abortChan, gAbortChan, gOutstandingRuns, made, signalVars, worldVars>>

(* The options are moved into the runner. *)
Move(r) ==
  /\ RunMoves(r, "normalized", "live")
  /\ holdsStop' = [holdsStop EXCEPT ![r] = FALSE]
  /\ UNCHANGED <<stop, watcherVars, signalVars, worldVars>>

(* There is an error before there is a runner: nobody calls Abort(). *)
FailUnmoved(r) ==
  /\ r \in MayFail
  /\ RunMoves(r, "normalized", "over")
  /\ UNCHANGED <<stop, holdsStop, watcherVars, signalVars, worldVars>>

(* Somebody aborts the run through its Aborter: a request, a worker. *)
Stop(r) ==
  /\ run[r] \in {"normalized", "live"} /\ stop[r] = "open"
  /\ stop' = [stop EXCEPT ![r] = "closed"]
  /\ UNCHANGED <<run, holdsStop, watcherVars, signalVars, worldVars>>

(* The run ends and aborts itself, if that has not been done. *)
End(r) ==
  /\ RunMoves(r, "live", "over")
  /\ stop' = [stop EXCEPT ![r] = "closed"]
  /\ UNCHANGED <<holdsStop, watcherVars, signalVars, worldVars>>

-----------------------------------------------------------------------------
(* Its watcher.                                                            *)

WatcherMoves(r, from, to) ==
  /\ watcher[r] = from
  /\ watcher' = [watcher EXCEPT ![r] = to]

(* Under gAbortMutex: count the run, and catch the signal if nobody does. *)
WatcherStarts(r) ==
  /\ WatcherMoves(r, "spawned", "selecting")
  /\ gOutstandingRuns' = gOutstandingRuns + 1
  /\ IF gAbortChan = Nil
     THEN /\ made' = made + 1
          /\ gAbortChan' = made'
          /\ registered' = registered \cup {made'}
     ELSE UNCHANGED <<made, gAbortChan, registered>>
  /\ abortChan' = [abortChan EXCEPT ![r] = gAbortChan']
  /\ UNCHANGED <<runVars, pending, closed, worldVars>>

(* The select: a signal, the closed channel, or the end of the run. *)
GetsSignal(r) ==
  /\ WatcherMoves(r, "selecting", "caught")
  /\ abortChan[r] \in pending
  /\ pending' = pending \ {abortChan[r]}
  /\ UNCHANGED <<runVars, abortChan, gAbortChan, gOutstandingRuns, made, closed, registered, worldVars>>

SeesClosed(r) ==
  /\ WatcherMoves(r, "selecting", "aborting")
  /\ abortChan[r] \in closed \ pending
  /\ UNCHANGED <<runVars, abortChan, gAbortChan, gOutstandingRuns, made, signalVars, worldVars>>

(* Mutant: looks at the stop channel through options that may have lost it. *)
SeesStopIfHeld(r) ==
  /\ WatcherMoves(r, "selecting", "leaving")
  /\ holdsStop[r] /\ stop[r] = "closed"
  /\ UNCHANGED <<runVars, abortChan, gAbortChan, gOutstandingRuns, made, signalVars, worldVars>>

SeesStop(r) ==
  /\ WatcherMoves(r, "selecting", "leaving")
  /\ stop[r] = "closed"
  /\ UNCHANGED <<runVars, abortChan, gAbortChan, gOutstandingRuns, made, signalVars, worldVars>>

(* Mutant: the signal is for one watcher only. *)
KeepsToItself(r) ==
  /\ WatcherMoves(r, "caught", "aborting")
  /\ UNCHANGED <<runVars, abortChan, gAbortChan, gOutstandingRuns, made, signalVars, worldVars>>

(* Mutant: the closed channel stays the one in use. *)
NotifiesAllAndKeeps(r) ==
  /\ WatcherMoves(r, "caught", "aborting")
  /\ closed' = closed \cup ({gAbortChan} \ {Nil})
  /\ UNCHANGED <<runVars, abortChan, gAbortChan, gOutstandingRuns, made, pending, registered, worldVars>>

(* Close the channel to notify all, unless another signal did. *)
NotifiesAll(r) ==
  /\ WatcherMoves(r, "caught", "aborting")
  /\ closed' = closed \cup ({gAbortChan} \ {Nil})
  /\ gAbortChan' = Nil
  /\ UNCHANGED <<runVars, abortChan, gOutstandingRuns, made, pending, registered, worldVars>>

(* r.Abort(): nothing to do when the Aborter was moved. *)
Aborts(r) ==
  /\ WatcherMoves(r, "aborting", "leaving")
  /\ stop' = IF holdsStop[r] THEN [stop EXCEPT ![r] = "closed"] ELSE stop
  /\ UNCHANGED <<run, holdsStop, abortChan, gAbortChan, gOutstandingRuns, made, signalVars, worldVars>>

(* Mutant: it is another watcher that is taken for the last. *)
LeavesEarly(r) ==
  /\ WatcherMoves(r, "leaving", "ended")
  /\ gOutstandingRuns' = gOutstandingRuns - 1
  /\ IF gOutstandingRuns' = 1
     THEN gAbortChan' = Nil /\ registered' = {}
     ELSE UNCHANGED <<gAbortChan, registered>>
  /\ UNCHANGED <<runVars, abortChan, made, pending, closed, worldVars>>

(* The last one resets the handler. *)
Leaves(r) ==
  /\ WatcherMoves(r, "leaving", "ended")
  /\ gOutstandingRuns' = gOutstandingRuns - 1
  /\ IF gOutstandingRuns' = 0
     THEN gAbortChan' = Nil /\ registered' = {}
     ELSE UNCHANGED <<gAbortChan, registered>>
  /\ UNCHANGED <<runVars, abortChan, made, pending, closed, worldVars>>

-----------------------------------------------------------------------------
(* An interrupt.  With nobody to send it to it ends the process.  Else     *)
(* os/signal sends it, without blocking, to every channel it knows; a      *)
(* closed one, which it is never told to forget, makes it panic.           *)
Interrupt ==
  /\ signals < MaxSignals
  /\ signals' = signals + 1
  /\ process' = IF registered = {} THEN "killed"
                ELSE IF registered \cap closed # {} THEN "panicked" ELSE "up"
  /\ pending' = IF process' = "up" THEN pending \cup registered ELSE pending
  /\ UNCHANGED <<runVars, watcherVars, closed, registered>>

WatcherStep(r) ==
  \/ WatcherStarts(r)
  \/ GetsSignal(r) \/ SeesClosed(r) \/ SeesStop(r)
  \/ NotifiesAll(r) \/ Aborts(r) \/ Leaves(r)

RunStep(r) == Normalize(r) \/ Move(r) \/ FailUnmoved(r) \/ Stop(r) \/ End(r)

Next ==
  /\ process = "up"
  /\ \/ \E r \in Runs : RunStep(r) \/ WatcherStep(r)
     \/ Interrupt

(* A watcher that can go on does.  Nothing makes a run end. *)
Spec == Init /\ [][Next]_vars /\ \A r \in Runs : WF_vars(process = "up" /\ WatcherStep(r))

-----------------------------------------------------------------------------
TypeOK ==
  /\ run \in [Runs -> {"new", "normalized", "live", "over"}]
  /\ stop \in [Runs -> {"open", "closed"}]
  /\ holdsStop \in [Runs -> BOOLEAN]
  /\ watcher \in [Runs -> {"none", "spawned", "selecting", "caught", "aborting", "leaving", "ended"}]
  /\ abortChan \in [Runs -> Chans \cup {Nil}]
  /\ gAbortChan \in Chans \cup {Nil}
  /\ gOutstandingRuns \in 0 .. Cardinality(Runs)
  /\ made \in 0 .. Cardinality(Runs)
  /\ pending \subseteq Chans /\ closed \subseteq Chans /\ registered \subseteq Chans
  /\ signals \in 0 .. MaxSignals
  /\ process \in {"up", "killed", "panicked"}

(* An interrupt reaches every watcher that waits for one: os/signal sends  *)
(* to the channel it waits on, or the channel is closed already.  Other    *)
(* runs that start and end meanwhile do not change that.                   *)
Audible ==
  \A r \in Runs : watcher[r] = "selecting" => abortChan[r] \in registered \cup closed

(* When the last run is over interrupts are back to their default, and the *)
(* next run begins with a new channel.                                     *)
HandlerRestored ==
  gOutstandingRuns = 0 => registered = {} /\ gAbortChan = Nil

(* Both: the handler is there for as long as a watcher waits, no longer.   *)
HandlerKept == Audible /\ HandlerRestored

(* The channel in use is open: the watchers that got two interrupts do not *)
(* close it twice, and a run that starts after an interrupt is not stopped *)
(* by it.                                                                  *)
InUseIsOpen == gAbortChan \notin closed

(***************************************************************************)
(* The inductive invariant behind HandlerKept and InUseIsOpen: what the    *)
(* two counts stand for, and where the channels in use come from.          *)
(***************************************************************************)
Outstanding == {r \in Runs : watcher[r] \in {"selecting", "caught", "aborting", "leaving"}}
Started == {r \in Runs : watcher[r] \notin {"none", "spawned"}}

(* The count is that of the watchers between start and end.                *)
CountExact == gOutstandingRuns = Cardinality(Outstanding)

(* The channels are new ones, made by a watcher that started; the one in   *)
(* use is one that gets the signals.                                       *)
ChansMade ==
  /\ made <= Cardinality(Started)
  /\ registered \cup closed \subseteq 1 .. made
  /\ gAbortChan \in registered \cup {Nil}

(* The watcher is started once, with the run.                              *)
Paired == \A r \in Runs : run[r] = "new" <=> watcher[r] = "none"

IInv == TypeOK /\ HandlerKept /\ InUseIsOpen /\ CountExact /\ ChansMade /\ Paired

(* An interrupt stops every run that was waiting for it, the one whose     *)
(* watcher got the signal and the others, but for those whose Aborter was  *)
(* moved: the options their watcher holds have none.                       *)
Alerted(r) ==
  watcher[r] = "selecting" /\ abortChan[r] \in pending \cup closed /\ r \notin Moved

InterruptHeeded ==
  \A r \in Runs : Alerted(r) ~> stop[r] = "closed" \/ process # "up"

(* The watcher of a run that is aborted goes away, whether the options it  *)
(* holds still have the Aborter or not.                                    *)
WatcherEnds ==
  \A r \in Runs : stop[r] = "closed" ~> watcher[r] = "ended" \/ process # "up"

(* What Normalize's comment asks for: a run that is over has no watcher,   *)
(* even if it never ran.                                                   *)
WatchersCleaned ==
  \A r \in Runs : run[r] = "over" ~> watcher[r] = "ended" \/ process # "up"
=============================================================================
