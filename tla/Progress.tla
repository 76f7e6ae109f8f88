------------------------------ MODULE Progress ------------------------------
(***************************************************************************)
(* internal/ui: the live progress of one run.  The handler that executes   *)
(* the run publishes the first and the last update, a monitor goroutine    *)
(* those in between.  An update is stored, then sent to the channel of     *)
(* every browser connection (SSE) that subscribed.  The connections come   *)
(* and go, each in the goroutine of its own handler.                       *)
(*                                                                         *)
(* The subscribers are a Go slice in a map, under a mutex.  Who notifies   *)
(* them copies the slice header under the mutex and walks it without; the  *)
(* array behind the header is shared with add and remove, which change it  *)
(* in place.  So arrays are state here, and slices refer to them.          *)
(***************************************************************************)
EXTENDS Naturals, Sequences, FiniteSets

CONSTANTS
  MaxClients,    \* how many connections there are at most
  Buffer,        \* the capacity of a channel (10)
  MaxTicks,      \* how many updates the monitor publishes at most
  MayDisconnect  \* the connections that the browser may close

ASSUME ProgressAssumption ==
  /\ MaxClients \in Nat
  /\ Buffer \in Nat \ {0} /\ MaxTicks \in Nat
  /\ MayDisconnect \subseteq 1 .. MaxClients

Clients == 1 .. MaxClients  \* as they come; also the channel of each
NoClient == 0               \* the nil channel

VARIABLES
  stage,        \* where the handler of the run is
  monitorDone,  \* doneCh is closed
  ticks,        \* the updates of the monitor so far
  store,        \* the stored update
  notifier,     \* where the handler and the monitor are in UpdateProgress
  clients,      \* the slice of subscribers; array 0: there is none
  arrays,       \* the arrays made so far
  sse,          \* where the handler of each connection is
  chan,         \* what its channel holds
  closed,       \* its channel is closed
  shown,        \* the last update its browser was sent, while it is there
  late,         \* how many waited in its channel when the stored one was read
  missed,       \* the final update was not sent, its channel being full
  up            \* the process has not been killed by a panic

runVars == <<stage, monitorDone, ticks>>
sliceVars == <<clients, arrays>>
connVars == <<sse, chan, closed, shown, late, missed>>
vars == <<runVars, store, notifier, sliceVars, connVars, up>>

(* Updates in the order they are made; the last is completed or error, the *)
(* others are running.                                                     *)
Nothing == 0
Final == MaxTicks + 2
Updates == 1 .. Final

Publishers == {"handler", "monitor"}
NilSlice == [array |-> 0, len |-> 0]

Init ==
  /\ stage = "new" /\ monitorDone = FALSE /\ ticks = 0
  /\ store = Nothing
  /\ notifier = [p \in Publishers |-> [at |-> "idle", update |-> Nothing, slice |-> NilSlice, next |-> 1]]
  /\ clients = NilSlice /\ arrays = <<>>
  /\ sse = [c \in Clients |-> "none"]
  /\ chan = [c \in Clients |-> <<>>]
  /\ closed = [c \in Clients |-> FALSE]
  /\ shown = [c \in Clients |-> Nothing] /\ late = [c \in Clients |-> 0]
  /\ missed = [c \in Clients |-> FALSE]
  /\ up = TRUE

-----------------------------------------------------------------------------
(* UpdateProgress and notifySubscribers.                                   *)

Ready(p) == notifier[p].at = "idle"

UpdateProgress(p, update) ==
  /\ Ready(p)
  /\ store' = update
  /\ notifier' = [notifier EXCEPT ![p].at = "stored", ![p].update = update]
  /\ UNCHANGED <<sliceVars, connVars, up>>

(* Copy the slice header. *)
CopySlice(p) ==
  /\ notifier[p].at = "stored"
  /\ notifier' = [notifier EXCEPT ![p] =
                    [at |-> "sending", update |-> @.update, slice |-> clients, next |-> 1]]
  /\ UNCHANGED <<runVars, store, sliceVars, connVars, up>>

(* Mutant: the channels have no bound. *)
SendUnbounded(p) ==
  LET n == notifier[p]
      c == arrays[n.slice.array][n.next]
  IN /\ n.at = "sending" /\ n.next <= n.slice.len
     /\ ~closed[c]
     /\ notifier' = [notifier EXCEPT ![p].next = @ + 1]
     /\ chan' = [chan EXCEPT ![c] = Append(@, n.update)]
     /\ UNCHANGED <<runVars, store, sliceVars, sse, closed, shown, late, missed, up>>

(* The select with a default: a full channel misses the update. *)
SendNext(p) ==
  LET n == notifier[p]
      c == arrays[n.slice.array][n.next]
  IN /\ n.at = "sending" /\ n.next <= n.slice.len
     /\ ~closed[c]
     /\ notifier' = [notifier EXCEPT ![p].next = @ + 1]
     /\ IF Len(chan[c]) < Buffer
        THEN chan' = [chan EXCEPT ![c] = Append(@, n.update)] /\ UNCHANGED missed
        ELSE missed' = [missed EXCEPT ![c] = @ \/ n.update = Final] /\ UNCHANGED chan
     /\ UNCHANGED <<runVars, store, sliceVars, sse, closed, shown, late, up>>

(* A send on a closed channel panics.  Nobody recovers the monitor; of the *)
(* handler net/http does, which leaves the rest of it undone.              *)
SendPanics(p) ==
  LET n == notifier[p] IN
  /\ n.at = "sending" /\ n.next <= n.slice.len
  /\ closed[arrays[n.slice.array][n.next]]
  /\ notifier' = [notifier EXCEPT ![p].at = "idle"]
  /\ IF p = "monitor" THEN up' = FALSE /\ UNCHANGED stage
                      ELSE stage' = "died" /\ UNCHANGED up
  /\ UNCHANGED <<monitorDone, ticks, store, sliceVars, connVars>>

SentAll(p) ==
  /\ notifier[p].at = "sending" /\ notifier[p].next > notifier[p].slice.len
  /\ notifier' = [notifier EXCEPT ![p].at = "idle"]
  /\ UNCHANGED <<runVars, store, sliceVars, connVars, up>>

-----------------------------------------------------------------------------
(* The handler of the run and the monitor goroutine.                       *)

HandlerMoves(from, to) ==
  /\ Ready("handler")
  /\ stage = from /\ stage' = to

StartRunMonitor ==
  /\ HandlerMoves("new", "starting")
  /\ UpdateProgress("handler", 1)
  /\ UNCHANGED <<monitorDone, ticks>>

GoMonitor ==
  /\ HandlerMoves("starting", "running")
  /\ UNCHANGED <<monitorDone, ticks, store, notifier, sliceVars, connVars, up>>

(* The run is over: close(stopCh). *)
StopMonitor ==
  /\ HandlerMoves("running", "stopping")
  /\ UNCHANGED <<monitorDone, ticks, store, notifier, sliceVars, connVars, up>>

(* Mutant: does not wait for the monitor. *)
FinishAtOnce ==
  /\ HandlerMoves("stopping", "finished")
  /\ UpdateProgress("handler", Final)
  /\ UNCHANGED <<monitorDone, ticks>>

(* Mutant: stores the last update and notifies nobody. *)
FinishQuietly ==
  /\ monitorDone
  /\ HandlerMoves("stopping", "finished")
  /\ store' = Final
  /\ UNCHANGED <<monitorDone, ticks, notifier, sliceVars, connVars, up>>

(* <-doneCh, and the last update. *)
Finish ==
  /\ monitorDone
  /\ HandlerMoves("stopping", "finished")
  /\ UpdateProgress("handler", Final)
  /\ UNCHANGED <<monitorDone, ticks>>

(* Ten seconds later. *)
ClearProgress ==
  /\ HandlerMoves("finished", "cleared")
  /\ store' = Nothing
  /\ UNCHANGED <<monitorDone, ticks, notifier, sliceVars, connVars, up>>

Monitoring == stage \notin {"new", "starting", "died"} /\ ~monitorDone

Tick ==
  /\ Monitoring /\ ticks < MaxTicks
  /\ ticks' = ticks + 1
  /\ UpdateProgress("monitor", ticks + 2)
  /\ UNCHANGED <<stage, monitorDone>>

MonitorEnds ==
  /\ Monitoring /\ Ready("monitor")
  /\ stage # "running"
  /\ monitorDone' = TRUE
  /\ UNCHANGED <<stage, ticks, store, notifier, sliceVars, connVars, up>>

-----------------------------------------------------------------------------
(* A connection: ProgressSSEHandler.                                       *)

ConnMoves(c, from, to) ==
  /\ sse[c] = from
  /\ sse' = [sse EXCEPT ![c] = to]

(* append: in place when the array has room, else in one twice as large. *)
Subscribe(c) ==
  /\ \A d \in 1 .. c - 1 : sse[d] # "none"
  /\ ConnMoves(c, "none", "subscribed")
  /\ LET n == clients.len
         old == IF n = 0 THEN <<>> ELSE arrays[clients.array]
         size == IF n = 0 THEN 1 ELSE 2 * n
     IN IF n < Len(old)
        THEN /\ arrays' = [arrays EXCEPT ![clients.array][n + 1] = c]
             /\ clients' = [clients EXCEPT !.len = n + 1]
        ELSE /\ arrays' = Append(arrays, [k \in 1 .. size |->
                            IF k <= n THEN old[k] ELSE IF k = n + 1 THEN c ELSE NoClient])
             /\ clients' = [array |-> Len(arrays'), len |-> n + 1]
  /\ UNCHANGED <<runVars, store, notifier, chan, closed, shown, late, missed, up>>

(* The stored update, if there is one, is sent past the channel: what      *)
(* waits there since the subscription is the same update or an older one.  *)
(* Be it the final one, the connection goes on.                            *)
SendCurrent(c) ==
  /\ ConnMoves(c, "subscribed", "connected")
  /\ IF store = Nothing
     THEN UNCHANGED <<shown, late>>
     ELSE /\ shown' = [shown EXCEPT ![c] = store]
          /\ late' = [late EXCEPT ![c] = Len(chan[c])]
  /\ UNCHANGED <<runVars, store, notifier, sliceVars, chan, closed, missed, up>>

(* An update; the final one ends the connection. *)
ReceiveUpdate(c) ==
  /\ chan[c] # <<>>
  /\ ConnMoves(c, "connected", IF Head(chan[c]) = Final THEN "leaving" ELSE "connected")
  /\ chan' = [chan EXCEPT ![c] = Tail(@)]
  /\ shown' = [shown EXCEPT ![c] = Head(chan[c])]
  /\ late' = [late EXCEPT ![c] = 0]
  /\ UNCHANGED <<runVars, store, notifier, sliceVars, closed, missed, up>>

Disconnect(c) ==
  /\ c \in MayDisconnect
  /\ ConnMoves(c, "connected", "leaving")
  /\ UNCHANGED <<runVars, store, notifier, sliceVars, chan, closed, shown, late, missed, up>>

(* Mutant: only the length changes. *)
UnsubscribeShort(c) ==
  /\ ConnMoves(c, "leaving", "gone")
  /\ clients' = [clients EXCEPT !.len = @ - 1]
  /\ closed' = [closed EXCEPT ![c] = TRUE]
  /\ shown' = [shown EXCEPT ![c] = Nothing] /\ late' = [late EXCEPT ![c] = 0]
  /\ UNCHANGED <<arrays, runVars, store, notifier, chan, missed, up>>

(* append(clients[:i], clients[i+1:]...) moves the others down in place;   *)
(* the map entry goes with the last one.                                   *)
Unsubscribe(c) ==
  /\ ConnMoves(c, "leaving", "gone")
  /\ LET n == clients.len
         a == arrays[clients.array]
         i == CHOOSE k \in 1 .. n : a[k] = c
     IN /\ arrays' = [arrays EXCEPT ![clients.array] =
                        [k \in 1 .. Len(a) |-> IF k >= i /\ k < n THEN a[k + 1] ELSE a[k]]]
        /\ clients' = IF n = 1 THEN NilSlice ELSE [clients EXCEPT !.len = n - 1]
  /\ closed' = [closed EXCEPT ![c] = TRUE]
  /\ shown' = [shown EXCEPT ![c] = Nothing] /\ late' = [late EXCEPT ![c] = 0]
  /\ UNCHANGED <<runVars, store, notifier, chan, missed, up>>

-----------------------------------------------------------------------------
PublisherStep(p) == CopySlice(p) \/ SendNext(p) \/ SendPanics(p) \/ SentAll(p)
HandlerStep == StartRunMonitor \/ GoMonitor \/ Finish \/ ClearProgress
ConnStep(c) == SendCurrent(c) \/ ReceiveUpdate(c) \/ Unsubscribe(c)

Next ==
  \/ \E p \in Publishers : up /\ PublisherStep(p)
  \/ up /\ HandlerStep
  \/ up /\ StopMonitor
  \/ up /\ Tick
  \/ up /\ MonitorEnds
  \/ \E c \in Clients : up /\ (Subscribe(c) \/ Disconnect(c))
  \/ \E c \in Clients : up /\ ConnStep(c)

(***************************************************************************)
(* Goroutines that can go on do.  A run need not end, and a select between *)
(* the tick and the stop does not pick the tick for ever.                  *)
(***************************************************************************)
Fairness ==
  /\ \A p \in Publishers : WF_vars(up /\ PublisherStep(p))
  /\ WF_vars(up /\ HandlerStep)
  /\ SF_vars(up /\ MonitorEnds)
  /\ \A c \in Clients : WF_vars(up /\ ConnStep(c))

Safety == Init /\ [][Next]_vars

Spec == Safety /\ Fairness

-----------------------------------------------------------------------------
Arrays == Seq(Clients \cup {NoClient})
Slices == [array: Nat, len: Nat]

TypeOK ==
  /\ stage \in {"new", "starting", "running", "stopping", "finished", "cleared", "died"}
  /\ monitorDone \in BOOLEAN /\ up \in BOOLEAN
  /\ ticks \in 0 .. MaxTicks
  /\ store \in Updates \cup {Nothing}
  /\ notifier \in [Publishers -> [at: {"idle", "stored", "sending"}, update: Updates \cup {Nothing},
                                  slice: Slices, next: Nat \ {0}]]
  /\ clients \in Slices /\ clients.len \in 0 .. MaxClients
  /\ arrays \in Seq(Arrays)
  /\ sse \in [Clients -> {"none", "subscribed", "connected", "leaving", "gone"}]
  /\ chan \in [Clients -> Seq(Updates)] /\ \A c \in Clients : Len(chan[c]) <= Buffer
  /\ closed \in [Clients -> BOOLEAN] /\ missed \in [Clients -> BOOLEAN]
  /\ shown \in [Clients -> Updates \cup {Nothing}] /\ late \in [Clients -> Nat]

(* Whatever came and went, in whatever order, and however the array was    *)
(* reused: the slice holds each open connection once, and no other.        *)
Subscribed == {c \in Clients : sse[c] \in {"subscribed", "connected", "leaving"}}

SliceExact ==
  /\ {arrays[clients.array][k] : k \in 1 .. clients.len} = Subscribed
  /\ clients.len = Cardinality(Subscribed)
  /\ \A c \in Clients : closed[c] <=> sse[c] = "gone"

(* The final status is not overwritten by an update of the monitor, and    *)
(* once cleared the store stays empty.                                     *)
FinalStays ==
  /\ stage = "finished" => store = Final
  /\ stage = "cleared" => store = Nothing

(* A channel has the updates in the order they were made, perhaps one      *)
(* twice, though the handler and the monitor both publish; and a browser   *)
(* is shown them in that order but for one place: the stored update        *)
(* overtakes what waited in the channel when it was read, the first of     *)
(* which may take the browser back.  It never goes back a second time, nor *)
(* from the stored update to one that was queued after it.                 *)
InOrder ==
  \A c \in Clients :
    /\ \A k \in 1 .. Len(chan[c]) - 1 : chan[c][k] <= chan[c][k + 1]
    /\ late[c] < Len(chan[c]) => shown[c] <= chan[c][late[c] + 1]

(* Both: in the store and in every channel the final update is the last,   *)
(* and behind the one it overtook a browser only goes forward.             *)
FinalIsLast == FinalStays /\ InOrder

(* Why these hold: an inductive invariant.  A slice in use refers to an    *)
(* array that is there and long enough, with a connection in every place;  *)
(* that of the subscribers holds each in one place only.                   *)
SliceFits(s) ==
  /\ s.array = 0 <=> s.len = 0
  /\ s.array <= Len(arrays)
  /\ s.len > 0 => /\ s.len <= Len(arrays[s.array])
                  /\ \A k \in 1 .. s.len : arrays[s.array][k] \in Clients

NoneTwice ==
  \A j, k \in 1 .. clients.len : arrays[clients.array][j] = arrays[clients.array][k] => j = k

(* The handler publishes before the monitor starts and after it ended.     *)
TakeTurns ==
  /\ Ready("handler") \/ stage \in {"starting", "finished"}
  /\ Ready("monitor") \/ (stage \in {"running", "stopping"} /\ ~monitorDone)
  /\ monitorDone => stage \notin {"new", "starting", "running"}
  /\ stage \in {"finished", "cleared"} => monitorDone
  /\ stage \in {"new", "starting"} => ticks = 0

(* So who publishes has the latest update, and nobody got a later one.     *)
Latest ==
  CASE stage = "new" -> Nothing
    [] stage \in {"finished", "cleared"} \/ (stage = "died" /\ monitorDone) -> Final
    [] OTHER -> ticks + 1

LatestSent ==
  /\ \A p \in Publishers : ~Ready(p) => notifier[p].update = Latest
  /\ store <= Latest
  /\ \A c \in Clients : shown[c] <= Latest /\ \A k \in 1 .. Len(chan[c]) : chan[c][k] <= Latest

IInv ==
  /\ TypeOK
  /\ SliceFits(clients) /\ NoneTwice /\ SliceExact
  /\ \A p \in Publishers : SliceFits(notifier[p].slice)
  /\ TakeTurns /\ LatestSent /\ FinalIsLast

(* "Close connection if test completed": a connection that subscribed      *)
(* before the run is over is closed after it, unless the final update did  *)
(* not fit in its channel.                                                 *)
Early(c) ==
  sse[c] \in {"subscribed", "connected"} /\ stage \in {"new", "starting", "running", "stopping"}

Panicked == ~up \/ stage = "died"

FinalCloses ==
  \A c \in Clients :
    [](Early(c) => [](stage = "finished" => <>(sse[c] = "gone" \/ missed[c] \/ Panicked)))

(* It does as long as there were no more than two of them: the one that    *)
(* leaves then takes away only places already visited.                     *)
AtMostTwo == Cardinality({c \in Clients : sse[c] # "none"}) <= 2

FinalClosesTwo == []AtMostTwo => FinalCloses
=============================================================================
