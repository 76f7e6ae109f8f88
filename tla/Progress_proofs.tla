-------------------------- MODULE Progress_proofs --------------------------
(***************************************************************************)
(* Proofs about Progress, for any number of connections, any buffer and    *)
(* any number of updates: IInv is an inductive invariant, so the slice of  *)
(* subscribers stays exact and the final update is the last.               *)
(***************************************************************************)
EXTENDS Progress, FiniteSetTheorems, SequenceTheorems, TLAPS

Notifiers == [at: {"idle", "stored", "sending"}, update: Updates \cup {Nothing},
              slice: Slices, next: Nat \ {0}]

(* A publisher that moves on is as it was but for what it changes.         *)
LEMMA Moving ==
  ASSUME TypeOK, NEW p \in Publishers, NEW n \in Notifiers, notifier' = [notifier EXCEPT ![p] = n]
  PROVE  /\ notifier' \in [Publishers -> Notifiers]
         /\ notifier'[p] = n
         /\ \A q \in Publishers : q # p => notifier'[q] = notifier[q]
BY DEF TypeOK, Notifiers

(* What a step that leaves the subscribers alone keeps.                    *)
LEMMA SlicesKept ==
  ASSUME IInv, UNCHANGED <<clients, arrays, closed>>, Subscribed' = Subscribed,
         \A c \in Clients : sse'[c] = "gone" <=> sse[c] = "gone"
  PROVE  /\ SliceFits(clients)' /\ NoneTwice' /\ SliceExact'
         /\ \A s : SliceFits(s) => SliceFits(s)'
BY DEF IInv, SliceFits, NoneTwice, SliceExact

(* What a step that publishes nothing and takes nothing from a channel     *)
(* keeps: a browser is shown nothing new, or an update no later than the   *)
(* latest past what is in its channel, or it is gone.                      *)
LEMMA OrderKeptBut ==
  ASSUME IInv, UNCHANGED <<stage, monitorDone, ticks, store, chan>>,
         \A p \in Publishers : ~Ready(p)' => ~Ready(p) /\ notifier'[p].update = notifier[p].update,
         \A c \in Clients : shown'[c] <= Latest,
         \A c \in Clients : \/ shown'[c] = shown[c] /\ late'[c] = late[c]
                            \/ late'[c] = Len(chan[c])
                            \/ shown'[c] = Nothing /\ late'[c] = 0
  PROVE  TakeTurns' /\ LatestSent' /\ FinalIsLast'
<1>1. Latest' = Latest
  BY DEF Latest
<1>2. TakeTurns'
  BY DEF IInv, TakeTurns, Publishers
<1>3. LatestSent'
  BY <1>1 DEF IInv, LatestSent
<1>4. FinalStays' /\ \A c \in Clients : \A k \in 1 .. Len(chan'[c]) - 1 : chan'[c][k] <= chan'[c][k + 1]
  BY DEF IInv, FinalIsLast, FinalStays, InOrder
<1>5. ASSUME NEW c \in Clients, late'[c] < Len(chan'[c]) PROVE shown'[c] <= chan'[c][late'[c] + 1]
  <2>1. PICK q \in Seq(Updates) : q = chan[c]
    BY DEF IInv, TypeOK
  <2>2. Len(q) \in Nat
    OBVIOUS
  <2>3. CASE shown'[c] = shown[c] /\ late'[c] = late[c]
    BY <1>5, <2>3 DEF IInv, FinalIsLast, InOrder
  <2>4. CASE late'[c] = Len(chan[c])
    BY <1>5, <2>1, <2>2, <2>4
  <2>5. CASE shown'[c] = Nothing /\ late'[c] = 0
    <3>1. 1 \in 1 .. Len(q)
      BY <1>5, <2>1, <2>2, <2>5
    <3>2. q[1] \in Updates
      BY <3>1
    <3>3. QED BY <2>1, <2>5, <3>2 DEF Nothing, Updates
  <2>6. QED BY <2>3, <2>4, <2>5
<1>6. QED BY <1>2, <1>3, <1>4, <1>5 DEF FinalIsLast, InOrder

LEMMA OrderKept ==
  ASSUME IInv, UNCHANGED <<stage, monitorDone, ticks, store, chan, shown, late>>,
         \A p \in Publishers : ~Ready(p)' => ~Ready(p) /\ notifier'[p].update = notifier[p].update
  PROVE  TakeTurns' /\ LatestSent' /\ FinalIsLast'
<1>1. \A c \in Clients : shown'[c] <= Latest /\ shown'[c] = shown[c] /\ late'[c] = late[c]
  BY DEF IInv, LatestSent
<1>2. QED BY <1>1, OrderKeptBut

LEMMA InitInv == Init => IInv
<1> SUFFICES ASSUME Init PROVE IInv
  OBVIOUS
<1> USE DEF Init
<1>1. Subscribed = {} /\ Cardinality(Subscribed) = 0
  BY FS_EmptySet DEF Subscribed
<1>2. TypeOK
  <2>1. /\ notifier \in [Publishers -> [at: {"idle", "stored", "sending"}, update: Updates \cup {Nothing},
                                         slice: Slices, next: Nat \ {0}]]
        /\ clients \in Slices /\ clients.len \in 0 .. MaxClients
    BY ProgressAssumption DEF Slices, NilSlice
  <2>2. arrays \in Seq(Arrays) /\ chan \in [Clients -> Seq(Updates)] /\ \A c \in Clients : Len(chan[c]) <= Buffer
    BY ProgressAssumption
  <2>3. ticks \in 0 .. MaxTicks /\ store \in Updates \cup {Nothing}
    BY ProgressAssumption
  <2>4. /\ sse \in [Clients -> {"none", "subscribed", "connected", "leaving", "gone"}]
        /\ closed \in [Clients -> BOOLEAN] /\ missed \in [Clients -> BOOLEAN]
        /\ shown \in [Clients -> Updates \cup {Nothing}] /\ late \in [Clients -> Nat]
    OBVIOUS
  <2>5. QED BY <2>1, <2>2, <2>3, <2>4 DEF TypeOK
<1>3. SliceExact /\ NoneTwice /\ SliceFits(clients)
  BY <1>1 DEF SliceExact, NoneTwice, SliceFits, NilSlice
<1>4. \A p \in Publishers : SliceFits(notifier[p].slice) /\ Ready(p)
  BY DEF SliceFits, NilSlice, Ready
<1>5. TakeTurns
  BY <1>4 DEF TakeTurns, Publishers
<1>6. LatestSent /\ FinalIsLast
  BY <1>4, ProgressAssumption DEF LatestSent, Latest, FinalIsLast, FinalStays, InOrder, Nothing
<1>7. QED BY <1>2, <1>3, <1>4, <1>5, <1>6 DEF IInv

-----------------------------------------------------------------------------
(* Publishing.                                                             *)

LEMMA CopySliceInv ==
  ASSUME IInv, NEW p \in Publishers, CopySlice(p)
  PROVE  IInv'
<1>1. TypeOK'
  <2>1. PICK n \in Notifiers : n = notifier[p]
    BY DEF IInv, TypeOK, Notifiers
  <2>. DEFINE m == [at |-> "sending", update |-> n.update, slice |-> clients, next |-> 1]
  <2>2. notifier' = [notifier EXCEPT ![p] = m]
    BY <2>1 DEF CopySlice, IInv, TypeOK, Notifiers
  <2>3. m \in Notifiers
    BY DEF Notifiers, IInv, TypeOK
  <2>4. notifier' \in [Publishers -> Notifiers]
    BY <2>2, <2>3, Moving DEF IInv
  <2>5. UNCHANGED <<runVars, store, sliceVars, connVars, up>>
    BY DEF CopySlice
  <2>6. QED BY <2>4, <2>5 DEF IInv, TypeOK, Notifiers, runVars, sliceVars, connVars
<1>2. /\ SliceFits(clients)' /\ NoneTwice' /\ SliceExact'
      /\ \A s : SliceFits(s) => SliceFits(s)'
  <2>1. /\ UNCHANGED <<clients, arrays, closed, sse>>
    BY DEF CopySlice, sliceVars, connVars
  <2>2. QED BY <2>1, SlicesKept DEF Subscribed
<1>3. /\ \A q \in Publishers : notifier'[q].slice \in {notifier[q].slice, clients}
      /\ \A q \in Publishers : notifier'[q].at # "idle" => notifier[q].at # "idle" /\ notifier'[q].update = notifier[q].update
      /\ UNCHANGED <<stage, monitorDone, ticks, store, chan, shown, late>>
  BY DEF IInv, TypeOK, CopySlice, runVars, connVars
<1>4. \A q \in Publishers : SliceFits(notifier[q].slice)'
  <2> SUFFICES ASSUME NEW q \in Publishers PROVE SliceFits(notifier[q].slice)'
    OBVIOUS
  <2>1. PICK s : s = notifier'[q].slice
    OBVIOUS
  <2>2. SliceFits(s)
    BY <2>1, <1>3 DEF IInv
  <2>3. SliceFits(s)'
    BY <2>2, <1>2
  <2>4. QED BY <2>1, <2>3 DEF SliceFits
<1>5. TakeTurns' /\ LatestSent' /\ FinalIsLast'
  BY <1>3, OrderKept DEF Ready
<1>6. QED BY <1>1, <1>2, <1>4, <1>5 DEF IInv

LEMMA SentAllInv ==
  ASSUME IInv, NEW p \in Publishers, SentAll(p)
  PROVE  IInv'
<1>1. TypeOK'
  <2>1. notifier' \in [Publishers -> [at: {"idle", "stored", "sending"}, update: Updates \cup {Nothing},
                                      slice: Slices, next: Nat \ {0}]]
    BY ZenonT(60) DEF IInv, TypeOK, SentAll
  <2>2. UNCHANGED <<runVars, store, sliceVars, connVars, up>>
    BY DEF SentAll
  <2>3. QED BY <2>1, <2>2 DEF IInv, TypeOK, runVars, sliceVars, connVars
<1>2. /\ SliceFits(clients)' /\ NoneTwice' /\ SliceExact'
      /\ \A s : SliceFits(s) => SliceFits(s)'
  <2>1. /\ UNCHANGED <<clients, arrays, closed, sse>>
    BY DEF SentAll, sliceVars, connVars
  <2>2. QED BY <2>1, SlicesKept DEF Subscribed
<1>3. /\ \A q \in Publishers : notifier'[q].slice = notifier[q].slice
      /\ \A q \in Publishers : notifier'[q].at # "idle" => notifier[q].at # "idle" /\ notifier'[q].update = notifier[q].update
      /\ UNCHANGED <<stage, monitorDone, ticks, store, arrays, chan, shown, late>>
  BY DEF IInv, TypeOK, SentAll, runVars, sliceVars, connVars
<1>4. \A q \in Publishers : SliceFits(notifier[q].slice)'
  BY <1>3 DEF IInv, SliceFits
<1>5. TakeTurns' /\ LatestSent' /\ FinalIsLast'
  BY <1>3, OrderKept DEF Ready
<1>6. QED BY <1>1, <1>2, <1>4, <1>5 DEF IInv

(* Where a publisher is in its slice there is a connection.                *)
LEMMA NextIsAClient ==
  ASSUME IInv, NEW p \in Publishers, notifier[p].at = "sending", notifier[p].next <= notifier[p].slice.len
  PROVE  /\ arrays[notifier[p].slice.array][notifier[p].next] \in Clients
         /\ notifier[p].update = Latest /\ Latest \in Updates
<1>1. notifier[p] \in Notifiers
  BY DEF IInv, TypeOK, Notifiers
<1>2. PICK s \in Slices : s = notifier[p].slice
  BY <1>1 DEF Notifiers
<1>3. PICK k \in Nat \ {0} : k = notifier[p].next
  BY <1>1 DEF Notifiers
<1>4. SliceFits(s)
  BY <1>2 DEF IInv, SliceFits
<1>5. k \in 1 .. s.len
  BY <1>2, <1>3 DEF Slices
<1>6. arrays[s.array][k] \in Clients
  BY <1>4, <1>5 DEF SliceFits, Slices
<1>7. notifier[p].update = Latest
  BY DEF IInv, LatestSent, Ready
<1>8. stage # "new" /\ (stage \in {"finished", "cleared"} \/ ticks + 1 \in Updates)
  BY ProgressAssumption DEF IInv, TakeTurns, Ready, Publishers, TypeOK, Updates, Final
<1>9. ticks + 1 \in Updates /\ Final \in Updates
  BY ProgressAssumption DEF IInv, TypeOK, Updates, Final
<1>10. QED BY <1>2, <1>3, <1>6, <1>7, <1>8, <1>9 DEF Latest

LEMMA SendNextInv ==
  ASSUME IInv, NEW p \in Publishers, SendNext(p)
  PROVE  IInv'
<1>1. PICK n \in Notifiers : n = notifier[p]
  BY DEF IInv, TypeOK, Notifiers
<1>2. PICK c : c = arrays[n.slice.array][n.next]
  OBVIOUS
<1>3. c \in Clients /\ n.update = Latest /\ Latest \in Updates
  BY <1>1, <1>2, NextIsAClient DEF SendNext
<1>. DEFINE m == [n EXCEPT !.next = @ + 1]
<1>4. /\ notifier' = [notifier EXCEPT ![p] = m]
      /\ IF Len(chan[c]) < Buffer
         THEN chan' = [chan EXCEPT ![c] = Append(@, n.update)] /\ UNCHANGED missed
         ELSE missed' = [missed EXCEPT ![c] = @ \/ n.update = Final] /\ UNCHANGED chan
      /\ UNCHANGED <<runVars, store, sliceVars, sse, closed, shown, late, up>>
  BY <1>1, <1>2 DEF SendNext
<1>5. m \in Notifiers /\ m.at = n.at /\ m.update = n.update /\ m.slice = n.slice
  BY DEF Notifiers
<1>. HIDE DEF m
<1>6. /\ notifier' \in [Publishers -> Notifiers]
      /\ notifier'[p] = m
      /\ \A q \in Publishers : q # p => notifier'[q] = notifier[q]
  BY <1>4, <1>5, Moving DEF IInv
<1>7. /\ chan' \in [Clients -> Seq(Updates)] /\ \A d \in Clients : Len(chan'[d]) <= Buffer
      /\ missed' \in [Clients -> BOOLEAN]
  <2>1. /\ chan \in [Clients -> Seq(Updates)] /\ missed \in [Clients -> BOOLEAN]
        /\ \A d \in Clients : Len(chan[d]) <= Buffer
    BY DEF IInv, TypeOK
  <2>2. CASE Len(chan[c]) < Buffer
    <3>1. chan' = [chan EXCEPT ![c] = Append(@, Latest)] /\ missed' = missed
      BY <1>3, <1>4, <2>2
    <3>2. QED BY <1>3, <2>1, <2>2, <3>1, ProgressAssumption
  <2>3. CASE ~(Len(chan[c]) < Buffer)
    <3>1. chan' = chan /\ missed' = [missed EXCEPT ![c] = missed[c] \/ n.update = Final]
      BY <1>3, <1>4, <2>3
    <3>2. QED BY <1>3, <2>1, <3>1
  <2>4. QED BY <2>2, <2>3
<1>8. TypeOK'
  BY <1>4, <1>6, <1>7 DEF IInv, TypeOK, Notifiers, runVars, sliceVars
<1>9. /\ SliceFits(clients)' /\ NoneTwice' /\ SliceExact'
      /\ \A s : SliceFits(s) => SliceFits(s)'
  <2>1. UNCHANGED <<clients, arrays, closed, sse>>
    BY <1>4 DEF sliceVars
  <2>2. QED BY <2>1, SlicesKept DEF Subscribed
<1>10. \A q \in Publishers : SliceFits(notifier[q].slice)'
  <2>1. \A q \in Publishers : notifier'[q].slice = notifier[q].slice
    BY <1>1, <1>5, <1>6
  <2>2. UNCHANGED arrays
    BY <1>4 DEF sliceVars
  <2>3. QED BY <2>1, <2>2 DEF IInv, SliceFits
<1>11. UNCHANGED <<stage, monitorDone, ticks, store, shown, late>> /\ Latest' = Latest
  BY <1>4 DEF runVars, Latest
<1>12. \A q \in Publishers : notifier'[q].at = notifier[q].at /\ notifier'[q].update = notifier[q].update
  BY <1>1, <1>5, <1>6
<1>13. TakeTurns' /\ FinalStays'
  BY <1>11, <1>12 DEF IInv, TakeTurns, FinalIsLast, FinalStays, Ready, Publishers
<1>14. \A d \in Clients : \/ chan'[d] = chan[d]
                          \/ chan'[d] = Append(chan[d], Latest)
  <2>1. chan \in [Clients -> Seq(Updates)]
    BY DEF IInv, TypeOK
  <2>2. QED BY <1>3, <1>4, <2>1
<1>15. LatestSent' /\ InOrder'
  <2>1. \A q \in Publishers : ~Ready(q)' => notifier'[q].update = Latest'
    BY <1>11, <1>12 DEF IInv, LatestSent, Ready
  <2>2. ASSUME NEW d \in Clients
        PROVE  /\ shown'[d] <= Latest' /\ \A k \in 1 .. Len(chan'[d]) : chan'[d][k] <= Latest'
               /\ \A k \in 1 .. Len(chan'[d]) - 1 : chan'[d][k] <= chan'[d][k + 1]
               /\ late'[d] < Len(chan'[d]) => shown'[d] <= chan'[d][late'[d] + 1]
    <3>1. /\ shown[d] <= Latest /\ \A k \in 1 .. Len(chan[d]) : chan[d][k] <= Latest
          /\ \A k \in 1 .. Len(chan[d]) - 1 : chan[d][k] <= chan[d][k + 1]
          /\ late[d] < Len(chan[d]) => shown[d] <= chan[d][late[d] + 1]
      BY DEF IInv, LatestSent, FinalIsLast, InOrder
    <3>2. CASE chan'[d] = chan[d]
      BY <1>11, <3>1, <3>2
    <3>3. CASE chan'[d] = Append(chan[d], Latest)
      <4>1. chan[d] \in Seq(Updates) /\ Latest \in Nat
        BY <1>3 DEF IInv, TypeOK, Updates
      <4>2. PICK q \in Seq(Updates) : q = chan[d]
        BY <4>1
      <4>3. /\ Len(chan'[d]) = Len(q) + 1 /\ chan'[d][Len(q) + 1] = Latest
            /\ \A k \in 1 .. Len(q) : chan'[d][k] = q[k]
        BY <3>3, <4>2, <1>3
      <4>4. /\ \A k \in 1 .. Len(chan'[d]) : chan'[d][k] <= Latest
            /\ \A k \in 1 .. Len(chan'[d]) - 1 : chan'[d][k] <= chan'[d][k + 1]
        <5>1. Len(q) \in Nat /\ Len(chan'[d]) - 1 = Len(q)
          BY <4>3
        <5>2. ASSUME NEW k \in 1 .. Len(chan'[d]) PROVE chan'[d][k] <= Latest
          <6>1. CASE k = Len(q) + 1
            BY <4>1, <4>3, <6>1
          <6>2. CASE k # Len(q) + 1
            <7>1. k \in 1 .. Len(q)
              BY <4>3, <5>1, <6>2
            <7>2. QED BY <3>1, <4>2, <4>3, <7>1
          <6>3. QED BY <6>1, <6>2
        <5>3. ASSUME NEW k \in 1 .. Len(q) PROVE chan'[d][k] <= chan'[d][k + 1]
          <6>1. CASE k = Len(q)
            BY <3>1, <4>2, <4>3, <6>1
          <6>2. CASE k # Len(q)
            <7>1. k + 1 \in 1 .. Len(q) /\ k \in 1 .. Len(q) - 1
              BY <5>1, <6>2
            <7>2. chan'[d][k] = q[k] /\ chan'[d][k + 1] = q[k + 1]
              BY <4>3, <7>1
            <7>3. QED BY <3>1, <4>2, <7>1, <7>2
          <6>3. QED BY <6>1, <6>2
        <5>4. QED BY <5>1, <5>2, <5>3
      <4>5. late[d] < Len(chan'[d]) => shown[d] <= chan'[d][late[d] + 1]
        <5> SUFFICES ASSUME late[d] < Len(chan'[d]) PROVE shown[d] <= chan'[d][late[d] + 1]
          OBVIOUS
        <5>1. PICK l \in Nat : l = late[d]
          BY DEF IInv, TypeOK
        <5>2. Len(q) \in Nat
          BY <4>2
        <5>3. CASE l = Len(q)
          BY <3>1, <4>3, <5>1, <5>3
        <5>4. CASE l # Len(q)
          <6>1. l < Len(q) /\ l + 1 \in 1 .. Len(q)
            BY <4>3, <5>1, <5>2, <5>4
          <6>2. QED BY <3>1, <4>2, <4>3, <5>1, <6>1
        <5>5. QED BY <5>3, <5>4
      <4>6. QED BY <1>11, <3>1, <4>4, <4>5
    <3>4. QED BY <1>14, <3>2, <3>3
  <2>3. store' <= Latest'
    BY <1>11 DEF IInv, LatestSent
  <2>4. QED BY <2>1, <2>2, <2>3 DEF LatestSent, InOrder
<1>16. QED BY <1>8, <1>9, <1>10, <1>13, <1>15 DEF IInv, FinalIsLast

LEMMA SendPanicsInv ==
  ASSUME IInv, NEW p \in Publishers, SendPanics(p)
  PROVE  IInv'
<1>1. /\ notifier' = [notifier EXCEPT ![p].at = "idle"]
      /\ \/ p = "monitor" /\ up' = FALSE /\ stage' = stage
         \/ p = "handler" /\ stage' = "died" /\ up' = up
      /\ UNCHANGED <<monitorDone, ticks, store, clients, arrays, sse, chan, closed, shown, late, missed>>
  BY DEF SendPanics, sliceVars, connVars, Publishers
<1>2. /\ notifier' \in [Publishers -> Notifiers]
      /\ notifier'[p].at = "idle" /\ notifier[p].at # "idle"
      /\ \A q \in Publishers : q # p => notifier'[q] = notifier[q]
      /\ \A q \in Publishers : notifier'[q].slice = notifier[q].slice
  <2>1. notifier \in [Publishers -> Notifiers]
    BY DEF IInv, TypeOK, Notifiers
  <2>2. PICK n \in Notifiers : n = notifier[p]
    BY <2>1
  <2>. DEFINE m == [n EXCEPT !.at = "idle"]
  <2>3. notifier' = [notifier EXCEPT ![p] = m] /\ n.at # "idle"
    BY <1>1, <2>2 DEF SendPanics
  <2>4. m \in Notifiers /\ m.at = "idle" /\ m.slice = n.slice
    BY DEF Notifiers
  <2>. HIDE DEF m
  <2>5. /\ notifier' \in [Publishers -> Notifiers]
        /\ notifier'[p] = m
        /\ \A q \in Publishers : q # p => notifier'[q] = notifier[q]
    BY <2>3, <2>4, Moving DEF IInv
  <2>6. QED BY <2>2, <2>3, <2>4, <2>5
<1>3. TypeOK'
  BY <1>1, <1>2 DEF IInv, TypeOK, Notifiers
<1>4. /\ SliceFits(clients)' /\ NoneTwice' /\ SliceExact'
      /\ \A s : SliceFits(s) => SliceFits(s)'
  BY <1>1, SlicesKept DEF Subscribed
<1>5. \A q \in Publishers : SliceFits(notifier[q].slice)'
  BY <1>1, <1>2 DEF IInv, SliceFits
<1>6. Latest' = Latest /\ TakeTurns' /\ FinalStays'
  BY <1>1, <1>2, ProgressAssumption
  DEF IInv, TakeTurns, Latest, FinalIsLast, FinalStays, Ready, Publishers
<1>7. LatestSent' /\ InOrder'
  BY <1>1, <1>2, <1>6 DEF IInv, LatestSent, FinalIsLast, InOrder, Ready
<1>8. QED BY <1>3, <1>4, <1>5, <1>6, <1>7 DEF IInv, FinalIsLast

(* What publishing keeps, whoever does it.                                 *)
LEMMA UpdateProgressKeeps ==
  ASSUME IInv, NEW p \in Publishers, NEW update \in Updates, UpdateProgress(p, update)
  PROVE  /\ notifier' \in [Publishers -> Notifiers]
         /\ notifier[p].at = "idle" /\ notifier'[p].at = "stored" /\ notifier'[p].update = update
         /\ \A q \in Publishers : q # p => notifier'[q] = notifier[q]
         /\ SliceFits(clients)' /\ NoneTwice' /\ SliceExact'
         /\ \A q \in Publishers : SliceFits(notifier[q].slice)'
         /\ store' = update /\ UNCHANGED <<clients, arrays, sse, chan, closed, shown, late, missed, up>>
<1>1. PICK n \in Notifiers : n = notifier[p]
  BY DEF IInv, TypeOK, Notifiers
<1>. DEFINE m == [n EXCEPT !.at = "stored", !.update = update]
<1>2. notifier' = [notifier EXCEPT ![p] = m] /\ n.at = "idle"
  BY <1>1 DEF UpdateProgress, Ready
<1>3. m \in Notifiers /\ m.at = "stored" /\ m.update = update /\ m.slice = n.slice
  BY DEF Notifiers
<1>. HIDE DEF m
<1>4. /\ notifier' \in [Publishers -> Notifiers]
      /\ notifier'[p] = m
      /\ \A q \in Publishers : q # p => notifier'[q] = notifier[q]
  BY <1>2, <1>3, Moving DEF IInv
<1>5. store' = update /\ UNCHANGED <<clients, arrays, sse, chan, closed, shown, late, missed, up>>
  BY DEF UpdateProgress, sliceVars, connVars
<1>6. SliceFits(clients)' /\ NoneTwice' /\ SliceExact'
  BY <1>5, SlicesKept DEF Subscribed
<1>7. \A q \in Publishers : notifier'[q].slice = notifier[q].slice
  BY <1>1, <1>3, <1>4
<1>8. \A q \in Publishers : SliceFits(notifier[q].slice)'
  BY <1>5, <1>7 DEF IInv, SliceFits
<1>9. QED BY <1>1, <1>2, <1>3, <1>4, <1>5, <1>6, <1>8

(* Nobody has an update later than the latest, so a later one is in order. *)
LEMMA LaterIsLatest ==
  ASSUME IInv, UNCHANGED <<chan, shown, late>>, Latest' \in Nat, Latest <= Latest'
  PROVE  /\ \A c \in Clients : shown'[c] <= Latest' /\ \A k \in 1 .. Len(chan'[c]) : chan'[c][k] <= Latest'
         /\ InOrder'
<1>1. Latest \in Nat
  BY ProgressAssumption DEF Latest, IInv, TypeOK, Nothing, Final
<1>2. ASSUME NEW c \in Clients
      PROVE  shown'[c] <= Latest' /\ \A k \in 1 .. Len(chan'[c]) : chan'[c][k] <= Latest'
  <2>1. shown[c] \in Nat /\ shown[c] <= Latest
    BY DEF IInv, TypeOK, LatestSent, Updates, Nothing
  <2>2. \A k \in 1 .. Len(chan[c]) : chan[c][k] \in Nat /\ chan[c][k] <= Latest
    <3>1. chan[c] \in Seq(Updates) /\ \A k \in 1 .. Len(chan[c]) : chan[c][k] <= Latest
      BY DEF IInv, TypeOK, LatestSent
    <3>2. Updates \subseteq Nat
      BY DEF Updates
    <3>3. PICK q \in Seq(Updates) : q = chan[c]
      BY <3>1
    <3>4. \A k \in 1 .. Len(q) : q[k] \in Updates
      OBVIOUS
    <3>5. QED BY <3>1, <3>2, <3>3, <3>4
  <2>3. QED BY <1>1, <2>1, <2>2
<1>3. InOrder'
  BY DEF IInv, FinalIsLast, InOrder
<1>4. QED BY <1>2, <1>3

LEMMA StartRunMonitorInv == ASSUME IInv, StartRunMonitor PROVE IInv'
<1>1. /\ stage = "new" /\ stage' = "starting" /\ UpdateProgress("handler", 1)
      /\ UNCHANGED <<monitorDone, ticks>>
  BY DEF StartRunMonitor, HandlerMoves
<1>2. 1 \in Updates /\ "handler" \in Publishers
  BY ProgressAssumption DEF Updates, Final, Publishers
<1>3. /\ notifier' \in [Publishers -> Notifiers]
      /\ notifier'["handler"].at = "stored" /\ notifier'["handler"].update = 1
      /\ notifier'["monitor"] = notifier["monitor"]
      /\ SliceFits(clients)' /\ NoneTwice' /\ SliceExact'
      /\ \A q \in Publishers : SliceFits(notifier[q].slice)'
      /\ store' = 1 /\ UNCHANGED <<clients, arrays, sse, chan, closed, shown, late, missed, up>>
  BY <1>1, <1>2, UpdateProgressKeeps DEF Publishers
<1>4. TypeOK'
  BY <1>1, <1>2, <1>3 DEF IInv, TypeOK, Notifiers
<1>5. ticks = 0 /\ ~monitorDone /\ notifier["monitor"].at = "idle"
  BY <1>1 DEF IInv, TakeTurns, Ready
<1>6. TakeTurns' /\ FinalStays' /\ Latest = 0 /\ Latest' = 1
  BY <1>1, <1>3, <1>5 DEF TakeTurns, FinalStays, Latest, Ready, Nothing
<1>7. LatestSent' /\ InOrder'
  BY <1>3, <1>5, <1>6, LaterIsLatest DEF LatestSent, Ready, Publishers
<1>8. QED BY <1>3, <1>4, <1>6, <1>7 DEF IInv, FinalIsLast

LEMMA FinishInv == ASSUME IInv, Finish PROVE IInv'
<1>1. /\ stage = "stopping" /\ stage' = "finished" /\ UpdateProgress("handler", Final)
      /\ monitorDone /\ UNCHANGED <<monitorDone, ticks>>
  BY DEF Finish, HandlerMoves
<1>2. Final \in Updates /\ "handler" \in Publishers
  BY ProgressAssumption DEF Updates, Final, Publishers
<1>3. /\ notifier' \in [Publishers -> Notifiers]
      /\ notifier'["handler"].at = "stored" /\ notifier'["handler"].update = Final
      /\ notifier'["monitor"] = notifier["monitor"]
      /\ SliceFits(clients)' /\ NoneTwice' /\ SliceExact'
      /\ \A q \in Publishers : SliceFits(notifier[q].slice)'
      /\ store' = Final /\ UNCHANGED <<clients, arrays, sse, chan, closed, shown, late, missed, up>>
  BY <1>1, <1>2, UpdateProgressKeeps DEF Publishers
<1>4. TypeOK'
  <2>1. stage' = "finished" /\ monitorDone' = monitorDone /\ ticks' = ticks /\ store' \in Updates
    BY <1>1, <1>2, <1>3
  <2>2. QED BY <1>3, <2>1 DEF IInv, TypeOK, Notifiers
<1>5. notifier["monitor"].at = "idle" /\ ticks \in 0 .. MaxTicks
  BY <1>1 DEF IInv, TypeOK, TakeTurns, Ready
<1>6. TakeTurns' /\ FinalStays' /\ Latest = ticks + 1 /\ Latest' = Final
  BY <1>1, <1>3, <1>5 DEF TakeTurns, FinalStays, Latest, Ready
<1>7. Latest' \in Nat /\ Latest <= Latest'
  BY <1>5, <1>6, ProgressAssumption DEF Final
<1>8. LatestSent' /\ InOrder'
  BY <1>3, <1>5, <1>6, <1>7, LaterIsLatest DEF LatestSent, Ready, Publishers
<1>9. QED BY <1>3, <1>4, <1>6, <1>8 DEF IInv, FinalIsLast

LEMMA TickInv == ASSUME IInv, Tick PROVE IInv'
<1>1. /\ stage \in {"running", "stopping"} /\ ~monitorDone /\ UpdateProgress("monitor", ticks + 2)
      /\ ticks < MaxTicks /\ ticks' = ticks + 1 /\ UNCHANGED <<stage, monitorDone>>
  BY DEF Tick, Monitoring, IInv, TypeOK, TakeTurns
<1>2. ticks + 2 \in Updates /\ "monitor" \in Publishers /\ ticks \in 0 .. MaxTicks
  BY <1>1, ProgressAssumption DEF Updates, Final, Publishers, IInv, TypeOK
<1>3. /\ notifier' \in [Publishers -> Notifiers]
      /\ notifier'["monitor"].at = "stored" /\ notifier'["monitor"].update = ticks + 2
      /\ notifier'["handler"] = notifier["handler"]
      /\ SliceFits(clients)' /\ NoneTwice' /\ SliceExact'
      /\ \A q \in Publishers : SliceFits(notifier[q].slice)'
      /\ store' = ticks + 2 /\ UNCHANGED <<clients, arrays, sse, chan, closed, shown, late, missed, up>>
  BY <1>1, <1>2, UpdateProgressKeeps DEF Publishers
<1>4. TypeOK'
  <2>1. stage' = stage /\ monitorDone' = monitorDone /\ ticks' \in 0 .. MaxTicks /\ store' \in Updates
    BY <1>1, <1>2, <1>3, ProgressAssumption
  <2>2. QED BY <1>3, <2>1 DEF IInv, TypeOK, Notifiers
<1>5. notifier["handler"].at = "idle"
  BY <1>1 DEF IInv, TakeTurns, Ready
<1>6. TakeTurns' /\ FinalStays' /\ Latest = ticks + 1 /\ Latest' = ticks + 2
  BY <1>1, <1>2, <1>3, <1>5 DEF TakeTurns, FinalStays, Latest, Ready
<1>7. Latest' \in Nat /\ Latest <= Latest'
  BY <1>2, <1>6, ProgressAssumption
<1>8. LatestSent' /\ InOrder'
  BY <1>3, <1>5, <1>6, <1>7, LaterIsLatest DEF LatestSent, Ready, Publishers
<1>9. QED BY <1>3, <1>4, <1>6, <1>8 DEF IInv, FinalIsLast

(* The steps that publish nothing and only move the handler or the         *)
(* monitor.                                                                *)
LEMMA StageInv ==
  ASSUME IInv, GoMonitor \/ StopMonitor \/ ClearProgress \/ MonitorEnds
  PROVE  IInv'
<1>1. UNCHANGED <<ticks, notifier, clients, arrays, sse, chan, closed, shown, late, missed, up>>
  BY DEF GoMonitor, StopMonitor, ClearProgress, MonitorEnds, sliceVars, connVars
<1>2. TypeOK'
  BY <1>1 DEF GoMonitor, StopMonitor, ClearProgress, MonitorEnds, HandlerMoves, IInv, TypeOK
<1>3. /\ SliceFits(clients)' /\ NoneTwice' /\ SliceExact'
      /\ \A q \in Publishers : SliceFits(notifier[q].slice)'
  <2>1. SliceFits(clients)' /\ NoneTwice' /\ SliceExact'
    BY <1>1, SlicesKept DEF Subscribed
  <2>2. QED BY <1>1, <2>1 DEF IInv, SliceFits
<1>4. TakeTurns' /\ FinalStays'
  BY <1>1 DEF GoMonitor, StopMonitor, ClearProgress, MonitorEnds, HandlerMoves, Monitoring, IInv,
    TypeOK, TakeTurns, FinalIsLast, FinalStays, Ready
<1>5. Latest' = Latest
  BY <1>1 DEF GoMonitor, StopMonitor, ClearProgress, MonitorEnds, HandlerMoves, Monitoring, IInv,
    TypeOK, TakeTurns, Latest
<1>6. LatestSent' /\ InOrder'
  <2>1. Latest \in Nat
    BY ProgressAssumption DEF Latest, IInv, TypeOK, Nothing, Final
  <2>2. store' \in {store, Nothing}
    BY DEF GoMonitor, StopMonitor, ClearProgress, MonitorEnds
  <2>3. store' <= Latest'
    BY <1>5, <2>1, <2>2 DEF IInv, LatestSent, Nothing
  <2>4. QED BY <1>1, <1>5, <2>3 DEF IInv, LatestSent, FinalIsLast, InOrder, Ready
<1>7. QED BY <1>2, <1>3, <1>4, <1>6 DEF IInv, FinalIsLast

-----------------------------------------------------------------------------
(* The connections.                                                        *)

LEMMA MovesType ==
  ASSUME TypeOK, NEW c \in Clients, NEW from,
         NEW to \in {"none", "subscribed", "connected", "leaving", "gone"}, ConnMoves(c, from, to)
  PROVE  /\ sse' \in [Clients -> {"none", "subscribed", "connected", "leaving", "gone"}]
         /\ sse[c] = from /\ sse'[c] = to
         /\ \A d \in Clients : d # c => sse'[d] = sse[d]
BY DEF TypeOK, ConnMoves

Subscribing == {"subscribed", "connected", "leaving"}

(* A connection that moves and stays subscribed leaves the slice alone.    *)
LEMMA StaysSubscribed ==
  ASSUME IInv, NEW c \in Clients, NEW from \in Subscribing, NEW to \in Subscribing,
         ConnMoves(c, from, to), UNCHANGED <<clients, arrays, closed, notifier>>
  PROVE  /\ sse' \in [Clients -> {"none", "subscribed", "connected", "leaving", "gone"}]
         /\ SliceFits(clients)' /\ NoneTwice' /\ SliceExact'
         /\ \A q \in Publishers : SliceFits(notifier[q].slice)'
<1>1. /\ sse' \in [Clients -> {"none", "subscribed", "connected", "leaving", "gone"}]
      /\ sse[c] = from /\ sse'[c] = to
      /\ \A d \in Clients : d # c => sse'[d] = sse[d]
  BY MovesType DEF IInv, Subscribing
<1>2. Subscribed' = Subscribed /\ \A d \in Clients : sse'[d] = "gone" <=> sse[d] = "gone"
  BY <1>1 DEF Subscribed, Subscribing
<1>3. SliceFits(clients)' /\ NoneTwice' /\ SliceExact'
  BY <1>2, SlicesKept
<1>4. \A q \in Publishers : SliceFits(notifier[q].slice)'
  BY DEF IInv, SliceFits
<1>5. QED BY <1>1, <1>3, <1>4

LEMMA DisconnectInv ==
  ASSUME IInv, NEW c \in Clients, Disconnect(c)
  PROVE  IInv'
<1>1. /\ UNCHANGED <<stage, monitorDone, ticks, store, notifier, clients, arrays, chan, closed, shown, late, missed, up>>
      /\ \E from, to \in Subscribing : ConnMoves(c, from, to)
  BY DEF Disconnect, runVars, sliceVars, Subscribing
<1>2. /\ sse' \in [Clients -> {"none", "subscribed", "connected", "leaving", "gone"}]
      /\ SliceFits(clients)' /\ NoneTwice' /\ SliceExact'
      /\ \A q \in Publishers : SliceFits(notifier[q].slice)'
  BY <1>1, StaysSubscribed
<1>3. TypeOK'
  BY <1>1, <1>2 DEF IInv, TypeOK
<1>4. TakeTurns' /\ LatestSent' /\ FinalIsLast'
  BY <1>1, OrderKept DEF Ready
<1>5. QED BY <1>2, <1>3, <1>4 DEF IInv

(* The stored update may be later than what waits in the channel, but what *)
(* is queued from here on is not older.                                    *)
LEMMA SendCurrentInv ==
  ASSUME IInv, NEW c \in Clients, SendCurrent(c)
  PROVE  IInv'
<1>1. /\ UNCHANGED <<stage, monitorDone, ticks, store, notifier, clients, arrays, chan, closed, missed, up>>
      /\ \E from, to \in Subscribing : ConnMoves(c, from, to)
  BY DEF SendCurrent, runVars, sliceVars, Subscribing
<1>2. /\ sse' \in [Clients -> {"none", "subscribed", "connected", "leaving", "gone"}]
      /\ SliceFits(clients)' /\ NoneTwice' /\ SliceExact'
      /\ \A q \in Publishers : SliceFits(notifier[q].slice)'
  BY <1>1, StaysSubscribed
<1>3. \/ UNCHANGED <<shown, late>>
      \/ shown' = [shown EXCEPT ![c] = store] /\ late' = [late EXCEPT ![c] = Len(chan[c])]
  BY DEF SendCurrent
<1>4. store \in Updates \cup {Nothing} /\ store <= Latest /\ Len(chan[c]) \in Nat
  <2>1. chan[c] \in Seq(Updates)
    BY DEF IInv, TypeOK
  <2>2. QED BY <2>1 DEF IInv, TypeOK, LatestSent
<1>5. shown' \in [Clients -> Updates \cup {Nothing}] /\ late' \in [Clients -> Nat]
  BY <1>3, <1>4 DEF IInv, TypeOK
<1>6. TypeOK'
  BY <1>1, <1>2, <1>5 DEF IInv, TypeOK
<1>7. \A d \in Clients : \/ shown'[d] = shown[d] /\ late'[d] = late[d]
                         \/ shown'[d] = store /\ late'[d] = Len(chan[d])
  BY <1>3 DEF IInv, TypeOK
<1>8. \A d \in Clients : shown'[d] <= Latest
  BY <1>4, <1>7 DEF IInv, LatestSent
<1>9. TakeTurns' /\ LatestSent' /\ FinalIsLast'
  BY <1>1, <1>7, <1>8, OrderKeptBut DEF Ready
<1>10. QED BY <1>2, <1>6, <1>9 DEF IInv

LEMMA ReceiveUpdateInv ==
  ASSUME IInv, NEW c \in Clients, ReceiveUpdate(c)
  PROVE  IInv'
<1>1. /\ UNCHANGED <<stage, monitorDone, ticks, store, notifier, clients, arrays, closed, missed, up>>
      /\ \E from, to \in Subscribing : ConnMoves(c, from, to)
  BY DEF ReceiveUpdate, runVars, sliceVars, Subscribing
<1>2. /\ sse' \in [Clients -> {"none", "subscribed", "connected", "leaving", "gone"}]
      /\ SliceFits(clients)' /\ NoneTwice' /\ SliceExact'
      /\ \A q \in Publishers : SliceFits(notifier[q].slice)'
  BY <1>1, StaysSubscribed
<1>3. PICK q \in Seq(Updates) : q = chan[c]
  BY DEF IInv, TypeOK
<1>4. /\ q # <<>> /\ chan' = [chan EXCEPT ![c] = Tail(q)]
      /\ shown' = [shown EXCEPT ![c] = Head(q)] /\ late' = [late EXCEPT ![c] = 0]
  BY <1>3 DEF ReceiveUpdate
<1>5. /\ Len(q) \in Nat \ {0} /\ Head(q) = q[1] /\ q[1] \in Updates
      /\ Tail(q) \in Seq(Updates) /\ Len(Tail(q)) = Len(q) - 1
      /\ \A k \in 1 .. Len(q) - 1 : Tail(q)[k] = q[k + 1]
  BY <1>4
<1>6. /\ chan' \in [Clients -> Seq(Updates)] /\ shown' \in [Clients -> Updates \cup {Nothing}]
      /\ late' \in [Clients -> Nat]
      /\ chan'[c] = Tail(q) /\ shown'[c] = q[1] /\ late'[c] = 0
      /\ \A d \in Clients : d # c => chan'[d] = chan[d] /\ shown'[d] = shown[d] /\ late'[d] = late[d]
  BY <1>4, <1>5 DEF IInv, TypeOK
<1>7. TypeOK'
  <2>1. \A d \in Clients : Len(chan'[d]) <= Buffer
    <3>1. /\ \A d \in Clients : d # c => Len(chan'[d]) = Len(chan[d])
          /\ Len(chan'[c]) = Len(q) - 1
      BY <1>5, <1>6
    <3>2. Len(q) <= Buffer /\ \A d \in Clients : Len(chan[d]) <= Buffer
      BY <1>3 DEF IInv, TypeOK
    <3>3. Len(q) - 1 <= Buffer
      BY <1>5, <3>2, ProgressAssumption
    <3>4. QED BY <3>1, <3>2, <3>3
  <2>2. QED BY <1>1, <1>2, <1>6, <2>1 DEF IInv, TypeOK
<1>8. /\ \A k \in 1 .. Len(q) : q[k] <= Latest
      /\ \A k \in 1 .. Len(q) - 1 : q[k] <= q[k + 1]
  BY <1>3 DEF IInv, LatestSent, FinalIsLast, InOrder
<1>9. Latest' = Latest
  BY <1>1 DEF Latest
<1>10. TakeTurns' /\ FinalStays'
  BY <1>1 DEF IInv, TakeTurns, Ready, FinalIsLast, FinalStays
<1>11. LatestSent'
  <2>1. \A p \in Publishers : ~Ready(p)' => notifier'[p].update = Latest'
    BY <1>1, <1>9 DEF IInv, LatestSent, Ready
  <2>2. ASSUME NEW d \in Clients
        PROVE  shown'[d] <= Latest' /\ \A k \in 1 .. Len(chan'[d]) : chan'[d][k] <= Latest'
    <3>1. CASE d = c
      <4>1. shown'[d] <= Latest'
        BY <1>5, <1>6, <1>8, <1>9, <3>1
      <4>2. ASSUME NEW k \in 1 .. Len(Tail(q)) PROVE Tail(q)[k] <= Latest
        <5>1. k \in 1 .. Len(q) - 1 /\ k + 1 \in 1 .. Len(q)
          BY <1>5
        <5>2. QED BY <1>5, <1>8, <5>1
      <4>3. QED BY <1>6, <1>9, <3>1, <4>1, <4>2
    <3>2. CASE d # c
      BY <1>6, <1>9, <3>2 DEF IInv, LatestSent
    <3>3. QED BY <3>1, <3>2
  <2>3. store' <= Latest'
    BY <1>1, <1>9 DEF IInv, LatestSent
  <2>4. QED BY <2>1, <2>2, <2>3 DEF LatestSent
<1>12. InOrder'
  <2> SUFFICES ASSUME NEW d \in Clients
               PROVE  /\ \A k \in 1 .. Len(chan'[d]) - 1 : chan'[d][k] <= chan'[d][k + 1]
                      /\ late'[d] < Len(chan'[d]) => shown'[d] <= chan'[d][late'[d] + 1]
    BY DEF InOrder
  <2>1. CASE d = c
    <3>1. \A k \in 1 .. Len(Tail(q)) - 1 : Tail(q)[k] <= Tail(q)[k + 1]
      BY <1>5, <1>8
    <3>2. 0 < Len(Tail(q)) => q[1] <= Tail(q)[1]
      BY <1>5, <1>8
    <3>3. chan'[d] = Tail(q) /\ shown'[d] = q[1] /\ late'[d] = 0 /\ late'[d] + 1 = 1
      BY <1>6, <2>1
    <3>4. QED BY <3>1, <3>2, <3>3
  <2>2. CASE d # c
    BY <1>6, <2>2 DEF IInv, FinalIsLast, InOrder
  <2>3. QED BY <2>1, <2>2
<1>13. QED BY <1>2, <1>7, <1>10, <1>11, <1>12 DEF IInv, FinalIsLast

LEMMA SubscribedFinite ==
  /\ IsFiniteSet(Subscribed) /\ Cardinality(Subscribed) \in Nat
  /\ \A S \in SUBSET Clients : Cardinality(S) <= MaxClients
<1>1. IsFiniteSet(Clients)
  BY FS_Interval, ProgressAssumption DEF Clients
<1>2. Cardinality(Clients) = MaxClients
  <2>1. Cardinality(1 .. MaxClients) = IF 1 > MaxClients THEN 0 ELSE MaxClients - 1 + 1
    BY FS_Interval, ProgressAssumption
  <2>2. QED BY <2>1, ProgressAssumption DEF Clients
<1>3. \A S \in SUBSET Clients : IsFiniteSet(S) /\ Cardinality(S) <= MaxClients
  BY <1>1, <1>2, FS_Subset
<1>4. QED BY <1>3, FS_CardinalityType DEF Subscribed

(* What is in a sequence after a change and after an append.               *)
LEMMA Changed ==
  ASSUME NEW S, NEW q \in Seq(S), NEW i \in 1 .. Len(q), NEW e \in S, NEW t, t = [q EXCEPT ![i] = e]
  PROVE  /\ t \in Seq(S) /\ Len(t) = Len(q) /\ t[i] = e
         /\ \A j \in 1 .. Len(q) : j # i => t[j] = q[j]
OBVIOUS

LEMMA Appended ==
  ASSUME NEW S, NEW q \in Seq(S), NEW e \in S, NEW t, t = Append(q, e)
  PROVE  /\ t \in Seq(S) /\ Len(q) \in Nat /\ Len(t) = Len(q) + 1 /\ t[Len(q) + 1] = e
         /\ \A j \in 1 .. Len(q) : t[j] = q[j]
OBVIOUS

(* append puts a connection behind those there are, in the same array or   *)
(* in another, and no array gets shorter or loses a connection otherwise.  *)
LEMMA AppendPuts ==
  ASSUME IInv, NEW c \in Clients, Subscribe(c), clients.len < MaxClients
  PROVE  LET n == clients.len IN
         /\ arrays' \in Seq(Arrays) /\ Len(arrays') \in Nat /\ Len(arrays) <= Len(arrays')
         /\ \A i \in 1 .. Len(arrays) :
              /\ Len(arrays'[i]) = Len(arrays[i])
              /\ \A k \in 1 .. Len(arrays[i]) : arrays'[i][k] \in {arrays[i][k], c}
         /\ clients' \in Slices /\ clients'.len = n + 1
         /\ clients'.array \in 1 .. Len(arrays') /\ n + 1 <= Len(arrays'[clients'.array])
         /\ \A k \in 1 .. n : arrays'[clients'.array][k] = arrays[clients.array][k]
         /\ arrays'[clients'.array][n + 1] = c
<1>1. PICK s \in Slices : s = clients
  BY DEF IInv, TypeOK
<1>2. PICK all \in Seq(Arrays) : all = arrays
  BY DEF IInv, TypeOK
<1>3. PICK n \in Nat : n = s.len
  BY DEF Slices
<1>4. PICK A \in Nat : A = s.array
  BY DEF Slices
<1>5. n # 0 => A \in 1 .. Len(all) /\ all[A] \in Arrays /\ n <= Len(all[A])
  <2>1. /\ s.array = 0 <=> s.len = 0
        /\ s.array <= Len(arrays)
        /\ s.len > 0 => s.len <= Len(arrays[s.array])
    BY <1>1 DEF IInv, SliceFits
  <2>2. QED BY <1>2, <1>3, <1>4, <2>1
<1>6. PICK old : old = IF n = 0 THEN <<>> ELSE all[A]
  OBVIOUS
<1>7. old \in Arrays /\ n <= Len(old) /\ Len(old) \in Nat
  <2>1. CASE n = 0
    BY <1>6, <2>1, EmptySeq DEF Arrays
  <2>2. CASE n # 0
    <3>1. old = all[A] /\ old \in Arrays /\ n <= Len(old)
      BY <1>5, <1>6, <2>2
    <3>2. QED BY <3>1, LenProperties DEF Arrays
  <2>3. QED BY <2>1, <2>2
<1>8. PICK size \in Nat : size = IF n = 0 THEN 1 ELSE 2 * n
  OBVIOUS
<1>9. IF n < Len(old)
      THEN /\ arrays' = [all EXCEPT ![A][n + 1] = c]
           /\ clients' = [s EXCEPT !.len = n + 1]
      ELSE /\ arrays' = Append(all, [k \in 1 .. size |->
                          IF k <= n THEN old[k] ELSE IF k = n + 1 THEN c ELSE NoClient])
           /\ clients' = [array |-> Len(arrays'), len |-> n + 1]
  BY <1>1, <1>2, <1>3, <1>4, <1>6, <1>8 DEF Subscribe
<1>10. CASE n < Len(old)
  <2>1. n # 0 /\ old = all[A] /\ A \in 1 .. Len(all)
    <3>1. n # 0
      <4>1. SUFFICES ASSUME n = 0 PROVE FALSE
        OBVIOUS
      <4>2. old = <<>> /\ Len(<<>>) = 0
        BY <1>6, <4>1
      <4>3. QED BY <1>10, <4>1, <4>2
    <3>2. QED BY <1>5, <1>6, <3>1
  <2>2. PICK b : b = [old EXCEPT ![n + 1] = c]
    OBVIOUS
  <2>3. /\ b \in Arrays /\ Len(b) = Len(old)
        /\ b[n + 1] = c /\ \A k \in 1 .. Len(old) : k # n + 1 => b[k] = old[k]
    BY <1>7, <1>10, <2>2 DEF Arrays
  <2>4. arrays' = [all EXCEPT ![A] = b] /\ clients' = [s EXCEPT !.len = n + 1]
    BY <1>9, <1>10, <2>1, <2>2
  <2>5. /\ arrays' \in Seq(Arrays) /\ Len(arrays') = Len(all)
        /\ arrays'[A] = b /\ \A i \in 1 .. Len(all) : i # A => arrays'[i] = all[i]
    BY <2>1, <2>3, <2>4, Changed
  <2>6. clients' \in Slices /\ clients'.len = n + 1 /\ clients'.array = A
    BY <1>4, <2>4 DEF Slices
  <2>7. \A i \in 1 .. Len(all) : /\ Len(arrays'[i]) = Len(all[i])
                                /\ \A k \in 1 .. Len(all[i]) : arrays'[i][k] \in {all[i][k], c}
    BY <2>1, <2>3, <2>5
  <2>8. /\ n + 1 <= Len(arrays'[A]) /\ arrays'[A][n + 1] = c
        /\ \A k \in 1 .. n : arrays'[A][k] = all[A][k]
    <3>1. \A k \in 1 .. n : k \in 1 .. Len(old) /\ k # n + 1
      BY <1>7
    <3>2. n + 1 <= Len(old)
      BY <1>7, <1>10
    <3>3. QED BY <2>1, <2>3, <2>5, <3>1, <3>2
  <2>9. QED BY <1>1, <1>2, <1>3, <1>4, <2>1, <2>5, <2>6, <2>7, <2>8
<1>11. CASE ~(n < Len(old))
  <2>1. n = Len(old) /\ size >= n + 1
    BY <1>7, <1>8, <1>11
  <2>2. PICK b : b = [k \in 1 .. size |-> IF k <= n THEN old[k] ELSE IF k = n + 1 THEN c ELSE NoClient]
    OBVIOUS
  <2>3. /\ b \in Arrays /\ Len(b) = size
        /\ b[n + 1] = c /\ \A k \in 1 .. n : b[k] = old[k]
    BY <1>7, <2>1, <2>2 DEF Arrays
  <2>4. arrays' = Append(all, b) /\ clients' = [array |-> Len(arrays'), len |-> n + 1]
    BY <1>9, <1>11, <2>2
  <2>5. /\ arrays' \in Seq(Arrays) /\ Len(arrays') = Len(all) + 1
        /\ arrays'[Len(all) + 1] = b /\ \A i \in 1 .. Len(all) : arrays'[i] = all[i]
    BY <2>3, <2>4, Appended
  <2>6. clients' \in Slices /\ clients'.len = n + 1 /\ clients'.array = Len(all) + 1
    <3>1. Len(all) \in Nat
      BY LenProperties
    <3>2. Len(arrays') \in Nat /\ n + 1 \in Nat /\ Len(arrays') = Len(all) + 1
      BY <2>5, <3>1
    <3>3. QED BY <2>4, <3>2 DEF Slices
  <2>7. \A k \in 1 .. n : old[k] = all[A][k]
    <3>1. CASE n = 0
      BY <3>1
    <3>2. CASE n # 0
      BY <1>6, <3>2
    <3>3. QED BY <3>1, <3>2
  <2>8. QED BY <1>1, <1>2, <1>3, <1>4, <2>1, <2>3, <2>5, <2>6, <2>7
<1>12. QED BY <1>10, <1>11

(* A slice that fits stays so when no array gets shorter and none gets     *)
(* anything but connections.                                               *)
LEMMA FitsStill ==
  ASSUME Len(arrays) \in Nat, Len(arrays') \in Nat, Len(arrays) <= Len(arrays'),
         NEW s \in Slices, SliceFits(s),
         s.len > 0 => /\ Len(arrays'[s.array]) = Len(arrays[s.array])
                      /\ \A k \in 1 .. s.len : arrays'[s.array][k] \in Clients
  PROVE  SliceFits(s)'
BY DEF SliceFits, Slices

LEMMA SubscribeInv ==
  ASSUME IInv, NEW c \in Clients, Subscribe(c)
  PROVE  IInv'
<1>1. /\ ConnMoves(c, "none", "subscribed")
      /\ UNCHANGED <<stage, monitorDone, ticks, store, notifier, chan, closed, shown, late, missed, up>>
  BY DEF Subscribe, runVars
<1>2. /\ sse' \in [Clients -> {"none", "subscribed", "connected", "leaving", "gone"}]
      /\ sse[c] = "none" /\ sse'[c] = "subscribed"
      /\ \A d \in Clients : d # c => sse'[d] = sse[d]
  BY <1>1, MovesType DEF IInv
<1>3. c \notin Subscribed /\ Subscribed' = Subscribed \cup {c} /\ Subscribed' \subseteq Clients
  BY <1>2 DEF Subscribed
<1>4. PICK n \in Nat : n = clients.len
  BY DEF IInv, TypeOK, Slices
<1>5. Cardinality(Subscribed) = n /\ Cardinality(Subscribed') = n + 1 /\ n + 1 <= MaxClients
  <2>1. Cardinality(Subscribed) = n
    BY <1>4 DEF IInv, SliceExact
  <2>2. Cardinality(Subscribed \cup {c}) = Cardinality(Subscribed) + 1
    BY <1>3, SubscribedFinite, FS_AddElement
  <2>3. Cardinality(Subscribed') <= MaxClients
    BY <1>3, SubscribedFinite
  <2>4. QED BY <1>3, <2>1, <2>2, <2>3
<1>6. n < MaxClients
  BY <1>5, ProgressAssumption
<1>7. /\ arrays' \in Seq(Arrays) /\ Len(arrays') \in Nat /\ Len(arrays) <= Len(arrays')
      /\ \A i \in 1 .. Len(arrays) :
           /\ Len(arrays'[i]) = Len(arrays[i])
           /\ \A k \in 1 .. Len(arrays[i]) : arrays'[i][k] \in {arrays[i][k], c}
      /\ clients' \in Slices /\ clients'.len = n + 1
      /\ clients'.array \in 1 .. Len(arrays') /\ n + 1 <= Len(arrays'[clients'.array])
      /\ \A k \in 1 .. n : arrays'[clients'.array][k] = arrays[clients.array][k]
      /\ arrays'[clients'.array][n + 1] = c
  BY <1>4, <1>6, AppendPuts
<1>8. TypeOK'
  <2>1. clients'.len \in 0 .. MaxClients
    BY <1>5, <1>7
  <2>2. QED BY <1>1, <1>2, <1>7, <2>1 DEF IInv, TypeOK
<1>9. {arrays[clients.array][k] : k \in 1 .. n} = Subscribed
  BY <1>4 DEF IInv, SliceExact
<1>10. \A k \in 1 .. n + 1 : k \in 1 .. n \/ k = n + 1
  OBVIOUS
<1>11. SliceFits(clients)'
  <2>1. \A k \in 1 .. n : arrays'[clients'.array][k] \in Clients
    BY <1>7, <1>9 DEF Subscribed
  <2>2. \A k \in 1 .. n + 1 : arrays'[clients'.array][k] \in Clients
    BY <1>7, <1>10, <2>1
  <2>3. /\ clients'.array # 0 /\ clients'.len # 0 /\ clients'.array <= Len(arrays')
        /\ clients'.len <= Len(arrays'[clients'.array])
    BY <1>7
  <2>4. QED BY <1>7, <2>2, <2>3 DEF SliceFits
<1>12. NoneTwice'
  <2>1. \A j, k \in 1 .. n : arrays[clients.array][j] = arrays[clients.array][k] => j = k
    BY <1>4 DEF IInv, NoneTwice
  <2>2. \A j \in 1 .. n : arrays'[clients'.array][j] # c
    BY <1>3, <1>7, <1>9
  <2>3. \A j, k \in 1 .. n + 1 : arrays'[clients'.array][j] = arrays'[clients'.array][k] => j = k
    BY <1>7, <1>10, <2>1, <2>2
  <2>4. QED BY <1>7, <2>3 DEF NoneTwice
<1>13. SliceExact'
  <2>1. {arrays'[clients'.array][k] : k \in 1 .. n + 1} = Subscribed \cup {c}
    <3>1. \A k \in 1 .. n : arrays'[clients'.array][k] \in Subscribed
      BY <1>7, <1>9
    <3>2. \A x \in Subscribed : \E k \in 1 .. n : x = arrays'[clients'.array][k]
      BY <1>7, <1>9
    <3>3. \A k \in 1 .. n : k \in 1 .. n + 1
      OBVIOUS
    <3>4. \A k \in 1 .. n + 1 : arrays'[clients'.array][k] \in Subscribed \cup {c}
      BY <1>7, <1>10, <3>1
    <3>5. n + 1 \in 1 .. n + 1 /\ arrays'[clients'.array][n + 1] = c
      BY <1>7
    <3>6. \A x \in Subscribed \cup {c} : \E k \in 1 .. n + 1 : x = arrays'[clients'.array][k]
      BY <3>2, <3>3, <3>5
    <3>7. QED BY <3>4, <3>6
  <2>2. \A d \in Clients : closed'[d] <=> sse'[d] = "gone"
    BY <1>1, <1>2 DEF IInv, SliceExact
  <2>3. QED BY <1>3, <1>5, <1>7, <2>1, <2>2 DEF SliceExact
<1>14. ASSUME NEW q \in Publishers PROVE SliceFits(notifier[q].slice)'
  <2>1. PICK s \in Slices : s = notifier[q].slice
    BY DEF IInv, TypeOK
  <2>2. SliceFits(s)
    BY <2>1 DEF IInv
  <2>3. s.len > 0 => /\ s.array \in 1 .. Len(arrays) /\ s.len <= Len(arrays[s.array])
                     /\ \A k \in 1 .. s.len : arrays[s.array][k] \in Clients
    BY <2>2 DEF SliceFits, Slices
  <2>4. s.len > 0 => /\ Len(arrays'[s.array]) = Len(arrays[s.array])
                     /\ \A k \in 1 .. s.len : arrays'[s.array][k] \in Clients
    <3> SUFFICES ASSUME s.len > 0
                 PROVE  /\ Len(arrays'[s.array]) = Len(arrays[s.array])
                        /\ \A k \in 1 .. s.len : arrays'[s.array][k] \in Clients
      OBVIOUS
    <3>1. Len(arrays[s.array]) \in Nat
      <4>1. arrays \in Seq(Arrays) /\ s.array \in 1 .. Len(arrays)
        BY <2>3 DEF IInv, TypeOK
      <4>2. arrays[s.array] \in Arrays
        BY <4>1
      <4>3. QED BY <4>2 DEF Arrays
    <3>2. \A k \in 1 .. s.len : k \in 1 .. Len(arrays[s.array])
      BY <2>3, <3>1 DEF Slices
    <3>3. QED BY <1>7, <2>3, <3>2
  <2>5. Len(arrays) \in Nat
    BY LenProperties DEF IInv, TypeOK
  <2>6. SliceFits(s)'
    BY <1>7, <2>2, <2>4, <2>5, FitsStill
  <2>7. s = notifier'[q].slice
    BY <1>1, <2>1
  <2>8. QED BY <2>6, <2>7 DEF SliceFits
<1>15. TakeTurns' /\ LatestSent' /\ FinalIsLast'
  BY <1>1, OrderKept DEF Ready
<1>16. QED BY <1>8, <1>11, <1>12, <1>13, <1>14, <1>15 DEF IInv

(* A connection that leaves has one place in the slice; those behind it    *)
(* come down by one.                                                       *)
LEMMA UnsubscribeInv ==
  ASSUME IInv, NEW c \in Clients, Unsubscribe(c)
  PROVE  IInv'
<1>1. /\ ConnMoves(c, "leaving", "gone") /\ closed' = [closed EXCEPT ![c] = TRUE]
      /\ UNCHANGED <<stage, monitorDone, ticks, store, notifier, chan, missed, up>>
      /\ shown' = [shown EXCEPT ![c] = Nothing] /\ late' = [late EXCEPT ![c] = 0]
  BY DEF Unsubscribe, runVars
<1>2. /\ sse' \in [Clients -> {"none", "subscribed", "connected", "leaving", "gone"}]
      /\ sse[c] = "leaving" /\ sse'[c] = "gone"
      /\ \A d \in Clients : d # c => sse'[d] = sse[d]
  BY <1>1, MovesType DEF IInv
<1>3. c \in Subscribed /\ Subscribed' = Subscribed \ {c}
  BY <1>2 DEF Subscribed
<1>4. PICK n \in Nat : n = clients.len
  BY DEF IInv, TypeOK, Slices
<1>5. PICK A \in Nat : A = clients.array
  BY DEF IInv, TypeOK, Slices
<1>6. PICK all \in Seq(Arrays) : all = arrays
  BY DEF IInv, TypeOK
<1>7. {all[A][k] : k \in 1 .. n} = Subscribed /\ n <= MaxClients
  BY <1>4, <1>5, <1>6 DEF IInv, SliceExact, TypeOK
<1>8. n # 0
  BY <1>3, <1>7
<1>9. A \in 1 .. Len(all) /\ n <= Len(all[A]) /\ \A k \in 1 .. n : all[A][k] \in Clients
  BY <1>4, <1>5, <1>6, <1>8 DEF IInv, SliceFits
<1>10. PICK a \in Arrays : a = all[A]
  BY <1>9
<1>11. PICK L \in Nat : L = Len(a) /\ \A k \in 1 .. L : a[k] \in Clients \cup {NoClient}
  BY <1>10 DEF Arrays
<1>12. PICK i \in 1 .. n : i = CHOOSE k \in 1 .. n : a[k] = c
  BY <1>3, <1>7, <1>10
<1>13. a[i] = c
  BY <1>3, <1>7, <1>10, <1>12
<1>14. PICK b : b = [k \in 1 .. L |-> IF k >= i /\ k < n THEN a[k + 1] ELSE a[k]]
  OBVIOUS
<1>15. /\ arrays' = [all EXCEPT ![A] = b]
       /\ clients' = IF n = 1 THEN NilSlice ELSE [clients EXCEPT !.len = n - 1]
  BY <1>4, <1>5, <1>6, <1>10, <1>11, <1>12, <1>14 DEF Unsubscribe
<1>16. n <= L /\ \A k \in 1 .. L : k >= i /\ k < n => k + 1 \in 1 .. L
  BY <1>9, <1>10, <1>11
<1>17. b \in Arrays /\ Len(b) = L
  BY <1>11, <1>14, <1>16 DEF Arrays
<1>18. /\ arrays' \in Seq(Arrays) /\ Len(arrays') = Len(all) /\ Len(all) \in Nat
       /\ arrays'[A] = b /\ \A j \in 1 .. Len(all) : j # A => arrays'[j] = all[j]
  BY <1>9, <1>15, <1>17, Changed
<1>19. /\ clients' \in Slices /\ clients'.len = n - 1
       /\ n - 1 # 0 => clients'.array = A
       /\ n - 1 = 0 => clients'.array = 0
  <2>1. CASE n = 1
    BY <1>15, <2>1 DEF NilSlice, Slices
  <2>2. CASE n # 1
    <3>1. PICK s \in Slices : s = clients
      BY DEF IInv, TypeOK
    <3>2. clients' = [s EXCEPT !.len = n - 1] /\ n - 1 \in Nat
      BY <1>8, <1>15, <2>2, <3>1
    <3>3. QED BY <1>5, <2>2, <3>1, <3>2 DEF Slices
  <2>3. QED BY <2>1, <2>2
<1>20. /\ \A k \in 1 .. n - 1 : b[k] = IF k < i THEN a[k] ELSE a[k + 1]
       /\ \A k \in 1 .. L : b[k] = IF k >= i /\ k < n THEN a[k + 1] ELSE a[k]
  BY <1>14, <1>16
<1>21. \A j, k \in 1 .. n : a[j] = a[k] => j = k
  BY <1>4, <1>5, <1>6, <1>10 DEF IInv, NoneTwice
<1>22. TypeOK'
  <2>1. clients'.len \in 0 .. MaxClients
    BY <1>7, <1>8, <1>19, ProgressAssumption
  <2>2. /\ closed' \in [Clients -> BOOLEAN]
        /\ shown' \in [Clients -> Updates \cup {Nothing}] /\ late' \in [Clients -> Nat]
    BY <1>1 DEF IInv, TypeOK
  <2>3. QED BY <1>1, <1>2, <1>18, <1>19, <2>1, <2>2 DEF IInv, TypeOK
<1>23. \A k \in 1 .. L : k <= n => b[k] \in Clients
  BY <1>9, <1>10, <1>20
<1>24. SliceFits(clients)'
  <2>1. CASE n - 1 = 0
    BY <1>18, <1>19, <2>1 DEF SliceFits
  <2>2. CASE n - 1 # 0
    <3>1. clients'.array = A /\ A # 0 /\ A <= Len(arrays') /\ clients'.len = n - 1
      BY <1>9, <1>18, <1>19, <2>2
    <3>2. n - 1 <= Len(b) /\ \A k \in 1 .. n - 1 : b[k] \in Clients
      BY <1>16, <1>17, <1>23
    <3>3. QED BY <1>18, <2>2, <3>1, <3>2 DEF SliceFits
  <2>3. QED BY <2>1, <2>2
<1>25. NoneTwice'
  <2>1. \A j, k \in 1 .. n - 1 : b[j] = b[k] => j = k
    <3> SUFFICES ASSUME NEW j \in 1 .. n - 1, NEW k \in 1 .. n - 1, b[j] = b[k] PROVE j = k
      OBVIOUS
    <3>1. j \in 1 .. n /\ j + 1 \in 1 .. n /\ k \in 1 .. n /\ k + 1 \in 1 .. n
      OBVIOUS
    <3>2. QED BY <1>20, <1>21, <3>1
  <2>2. CASE n - 1 = 0
    BY <1>19, <2>2 DEF NoneTwice
  <2>3. CASE n - 1 # 0
    BY <1>18, <1>19, <2>1, <2>3 DEF NoneTwice
  <2>4. QED BY <2>2, <2>3
<1>26. {b[k] : k \in 1 .. n - 1} = Subscribed \ {c}
  <2>1. ASSUME NEW k \in 1 .. n - 1 PROVE b[k] \in Subscribed \ {c}
    <3>1. PICK j \in 1 .. n : b[k] = a[j] /\ j # i
      <4>1. CASE k < i
        BY <1>20, <4>1
      <4>2. CASE ~(k < i)
        <5>1. k + 1 \in 1 .. n /\ k + 1 # i
          BY <4>2
        <5>2. QED BY <1>20, <4>2, <5>1
      <4>3. QED BY <4>1, <4>2
    <3>2. QED BY <1>7, <1>10, <1>13, <1>21, <3>1
  <2>2. ASSUME NEW x \in Subscribed \ {c} PROVE \E k \in 1 .. n - 1 : x = b[k]
    <3>1. PICK j \in 1 .. n : x = a[j]
      BY <1>7, <1>10
    <3>2. j # i
      BY <1>13, <3>1
    <3>3. CASE j < i
      <4>1. j \in 1 .. n - 1
        BY <3>3
      <4>2. QED BY <1>20, <3>1, <3>3, <4>1
    <3>4. CASE ~(j < i)
      <4>1. j - 1 \in 1 .. n - 1 /\ ~(j - 1 < i) /\ j - 1 + 1 = j
        BY <3>2, <3>4
      <4>2. b[j - 1] = a[j]
        BY <1>20, <4>1
      <4>3. QED BY <3>1, <4>1, <4>2
    <3>5. QED BY <3>3, <3>4
  <2>3. QED BY <2>1, <2>2
<1>27. SliceExact'
  <2>1. {arrays'[clients'.array][k] : k \in 1 .. clients'.len} = Subscribed'
    <3>1. CASE n - 1 = 0
      BY <1>3, <1>19, <1>26, <3>1
    <3>2. CASE n - 1 # 0
      BY <1>3, <1>18, <1>19, <1>26, <3>2
    <3>3. QED BY <3>1, <3>2
  <2>2. Cardinality(Subscribed') = n - 1
    <3>1. Cardinality(Subscribed) = n
      BY <1>4 DEF IInv, SliceExact
    <3>2. Cardinality(Subscribed \ {c}) = Cardinality(Subscribed) - 1
      BY <1>3, SubscribedFinite, FS_RemoveElement
    <3>3. QED BY <1>3, <3>1, <3>2
  <2>3. \A d \in Clients : closed'[d] <=> sse'[d] = "gone"
    BY <1>1, <1>2 DEF IInv, TypeOK, SliceExact
  <2>4. QED BY <1>19, <2>1, <2>2, <2>3 DEF SliceExact
<1>28. ASSUME NEW q \in Publishers PROVE SliceFits(notifier[q].slice)'
  <2>1. PICK s \in Slices : s = notifier[q].slice
    BY DEF IInv, TypeOK
  <2>2. SliceFits(s)
    BY <2>1 DEF IInv
  <2>3. s.len > 0 => /\ s.array \in 1 .. Len(all) /\ s.len <= Len(all[s.array])
                     /\ \A k \in 1 .. s.len : all[s.array][k] \in Clients
    BY <1>6, <2>2 DEF SliceFits, Slices
  <2>4. s.len > 0 => /\ Len(arrays'[s.array]) = Len(all[s.array])
                     /\ \A k \in 1 .. s.len : arrays'[s.array][k] \in Clients
    <3>1. CASE s.array # A
      BY <1>18, <2>3, <3>1
    <3>2. CASE s.array = A
      <4>1. s.len > 0 => \A k \in 1 .. s.len : b[k] \in Clients
        <5> SUFFICES ASSUME s.len > 0, NEW k \in 1 .. s.len PROVE b[k] \in Clients
          OBVIOUS
        <5>1. k \in 1 .. L /\ a[k] \in Clients
          BY <1>10, <1>11, <2>3, <3>2 DEF Slices
        <5>2. QED BY <1>20, <1>23, <5>1
      <4>2. QED BY <1>10, <1>11, <1>17, <1>18, <3>2, <4>1
    <3>3. QED BY <3>1, <3>2
  <2>5. SliceFits(s)'
    BY <1>6, <1>18, <2>2, <2>4, FitsStill
  <2>6. s = notifier'[q].slice
    BY <1>1, <2>1
  <2>7. QED BY <2>5, <2>6 DEF SliceFits
<1>29. TakeTurns' /\ LatestSent' /\ FinalIsLast'
  <2>1. Latest \in Nat
    BY ProgressAssumption DEF Latest, IInv, TypeOK, Nothing, Final
  <2>2. \A d \in Clients : \/ shown'[d] = shown[d] /\ late'[d] = late[d]
                           \/ shown'[d] = Nothing /\ late'[d] = 0
    BY <1>1 DEF IInv, TypeOK
  <2>3. \A d \in Clients : shown'[d] <= Latest
    BY <2>1, <2>2 DEF IInv, LatestSent, Nothing
  <2>4. QED BY <1>1, <2>2, <2>3, OrderKeptBut DEF Ready
<1>30. QED BY <1>22, <1>24, <1>25, <1>27, <1>28, <1>29 DEF IInv

-----------------------------------------------------------------------------
LEMMA NextInv == IInv /\ [Next]_vars => IInv'
<1> SUFFICES ASSUME IInv, [Next]_vars PROVE IInv'
  OBVIOUS
<1>1. ASSUME NEW p \in Publishers, PublisherStep(p) PROVE IInv'
  BY <1>1, CopySliceInv, SendNextInv, SendPanicsInv, SentAllInv DEF PublisherStep
<1>2. CASE HandlerStep
  BY <1>2, StartRunMonitorInv, FinishInv, StageInv DEF HandlerStep
<1>3. CASE StopMonitor \/ MonitorEnds
  BY <1>3, StageInv
<1>4. CASE Tick
  BY <1>4, TickInv
<1>5. ASSUME NEW c \in Clients, Subscribe(c) \/ Disconnect(c) PROVE IInv'
  BY <1>5, SubscribeInv, DisconnectInv
<1>6. ASSUME NEW c \in Clients, ConnStep(c) PROVE IInv'
  BY <1>6, SendCurrentInv, ReceiveUpdateInv, UnsubscribeInv DEF ConnStep
<1>7. CASE UNCHANGED vars
  <2>1. UNCHANGED <<stage, monitorDone, ticks, store, notifier, clients, arrays, sse, chan, closed, shown, late, missed, up>>
    BY <1>7 DEF vars, runVars, sliceVars, connVars
  <2>2. TypeOK'
    BY <2>1 DEF IInv, TypeOK
  <2>3. /\ SliceFits(clients)' /\ NoneTwice' /\ SliceExact'
        /\ \A s : SliceFits(s) => SliceFits(s)'
    BY <2>1, SlicesKept DEF Subscribed
  <2>4. \A q \in Publishers : SliceFits(notifier[q].slice)'
    BY <2>1 DEF IInv, SliceFits
  <2>5. TakeTurns' /\ LatestSent' /\ FinalIsLast'
    BY <2>1, OrderKept DEF Ready
  <2>6. QED BY <2>2, <2>3, <2>4, <2>5 DEF IInv
<1>8. QED BY <1>1, <1>2, <1>3, <1>4, <1>5, <1>6, <1>7 DEF Next

(* The inductive invariant holds in every reachable state, for any number  *)
(* of connections, of updates and of places in a channel: in particular    *)
(* type correctness, and that the handler and the monitor take turns.      *)
THEOREM Invariance == Spec => []IInv
<1>1. Safety => []IInv
  BY InitInv, NextInv, PTL DEF Safety
<1>2. QED BY <1>1, PTL DEF Spec

(* However connections come and go, and whatever the array that append and *)
(* the removal share: the slice holds each open connection once and no     *)
(* other, and a channel is closed when its connection is gone, not before. *)
THEOREM SliceStaysExact == Spec => []SliceExact
<1>1. IInv => SliceExact
  BY DEF IInv
<1>2. QED BY <1>1, Invariance, PTL

(* A tick of the monitor neither overwrites the final update in the store  *)
(* nor comes after it in a channel.  A browser is shown the stored update  *)
(* past its channel, so it may be taken back to what waited there; that    *)
(* happens once at most, and never to an update queued later.              *)
THEOREM TheFinalUpdateIsLast == Spec => []FinalIsLast
<1>1. IInv => FinalIsLast
  BY DEF IInv
<1>2. QED BY <1>1, Invariance, PTL
=============================================================================
