--------------------------- MODULE Servers_proofs ---------------------------
(***************************************************************************)
(* Proofs about Servers, for any handlers, requests, savers and sides: IInv*)
(* is an inductive invariant, so an echo is what its shares say, and whole;*)
(* a multi-server puts the answers of all its targets together in order; an*)
(* index misses no result but those of the tick in which it was made; a    *)
(* fetch that is alone has its own options; a gzip writer has one handler; *)
(* and a relay delivers what it read.                                      *)
(***************************************************************************)
EXTENDS Servers, FiniteSetTheorems, SequenceTheorems, WellFoundedInduction, TLAPS

-----------------------------------------------------------------------------
(* The relay.                                                              *)

SideRecords == [sent: Nat, ended: BOOLEAN, gone: BOOLEAN]
FlowRecords == [unread: Seq(Nat), out: Seq(Nat), copy: {"off", "on", "end", "over"},
                eof: BOOLEAN, failed: BOOLEAN]

Upto(n) == [i \in 1 .. n |-> i]

(* One message more was read, and one less is unread.                      *)
LEMMA UptoNext ==
  ASSUME NEW n \in Nat, NEW out \in Seq(Nat), NEW unread \in Seq(Nat), out \o unread = Upto(n)
  PROVE  out \o Append(unread, n + 1) = Upto(n + 1)
<1>1. Upto(n) \in Seq(Nat) /\ Len(Upto(n)) = n
  BY DEF Upto
<1>2. Append(unread, n + 1) = unread \o <<n + 1>> /\ <<n + 1>> \in Seq(Nat)
  OBVIOUS
<1>3. out \o Append(unread, n + 1) = Upto(n) \o <<n + 1>>
  BY <1>2, ConcatAssociative, SMTT(60)
<1>4. Upto(n) \o <<n + 1>> = Append(Upto(n), n + 1)
  BY <1>1
<1>5. Append(Upto(n), n + 1) = Upto(n + 1)
  BY <1>1 DEF Upto
<1>6. QED BY <1>3, <1>4, <1>5

(* What a copy moves is still there, in its order.                         *)
LEMMA PieceMoves ==
  ASSUME NEW out \in Seq(Nat), NEW unread \in Seq(Nat), unread # <<>>
  PROVE  /\ Append(out, Head(unread)) \o Tail(unread) = out \o unread
         /\ Append(out, Head(unread)) \in Seq(Nat) /\ Tail(unread) \in Seq(Nat)
<1>1. Head(unread) \in Nat /\ Tail(unread) \in Seq(Nat) /\ <<Head(unread)>> \in Seq(Nat)
  OBVIOUS
<1>2. unread = <<Head(unread)>> \o Tail(unread)
  OBVIOUS
<1>3. Append(out, Head(unread)) = out \o <<Head(unread)>>
  BY <1>1
<1>4. (out \o <<Head(unread)>>) \o Tail(unread) = out \o (<<Head(unread)>> \o Tail(unread))
  BY <1>1, ConcatAssociative, SMTT(60)
<1>5. out \o (<<Head(unread)>> \o Tail(unread)) = out \o unread
  BY <1>2
<1>6. Append(out, Head(unread)) \in Seq(Nat)
  BY <1>1
<1>7. QED BY <1>1, <1>3, <1>4, <1>5, <1>6

(* What is known of a direction, in terms of its record and its ends.      *)
Right(f, s, gone) ==
  /\ ~s.gone /\ ~gone /\ ~f.failed => f.out \o f.unread = Upto(s.sent)
  /\ f.eof /\ ~f.failed /\ ~gone => Len(f.out) = s.sent
  /\ f.copy \in {"off", "on"} => ~f.failed
  /\ (f.copy = "end" \/ f.eof) /\ ~f.failed /\ ~gone =>
       s.ended /\ f.unread = <<>> /\ Len(f.out) = s.sent

RightFlow(d) == Right(flow[d], side[Src(d)], side[Dst(d)].gone)

(* What is known of a relay, flow by flow, now and after a step.           *)
LEMMA RelayParts ==
  RelayInv <=> /\ side \in [Sides -> SideRecords]
               /\ flow \in [Flows -> FlowRecords]
               /\ flow["up"].copy = "off" <=> flow["down"].copy = "off"
               /\ mode.kind # "udp" => \A d \in Flows : RightFlow(d)
BY DEF RelayInv, RelayExact, CopyKnown, RightFlow, Right, Upto, SideRecords, FlowRecords

LEMMA RelayPartsNext ==
  RelayInv' <=> /\ side' \in [Sides -> SideRecords]
                /\ flow' \in [Flows -> FlowRecords]
                /\ flow'["up"].copy = "off" <=> flow'["down"].copy = "off"
                /\ mode'.kind # "udp" => \A d \in Flows : RightFlow(d)'
BY DEF RelayInv, RelayExact, CopyKnown, RightFlow, Right, Upto, SideRecords, FlowRecords

(* Each direction has two ends, and the other direction has them swapped.  *)
LEMMA Ends ==
  \A d \in Flows : Src(d) \in Sides /\ Dst(d) \in Sides /\ Src(d) # IF d = "up" THEN "right" ELSE "left"
BY DEF Flows, Sides, Src, Dst

(* Both parts of the state at once: what is known of each direction stays. *)
LEMMA RelayByFlows ==
  ASSUME RelayInv, mode' = mode, side' \in [Sides -> SideRecords], flow' \in [Flows -> FlowRecords],
         (\A d \in Flows : flow'[d].copy = "off" <=> flow[d].copy = "off") \/ \A d \in Flows : flow'[d].copy # "off",
         ASSUME NEW d \in Flows, mode.kind # "udp", RightFlow(d)
         PROVE  Right(flow'[d], side'[Src(d)], side'[Dst(d)].gone)
  PROVE  RelayInv'
<1>1. mode'.kind # "udp" => \A d \in Flows : RightFlow(d)'
  <2> SUFFICES ASSUME mode'.kind # "udp", NEW d \in Flows PROVE RightFlow(d)'
    OBVIOUS
  <2>1. RightFlow(d) /\ mode.kind # "udp"
    BY RelayParts
  <2>2. Src(d)' = Src(d) /\ Dst(d)' = Dst(d)
    BY DEF Src, Dst
  <2>3. QED BY <2>1, <2>2 DEF RightFlow
<1>2. flow'["up"].copy = "off" <=> flow'["down"].copy = "off"
  BY RelayParts DEF Flows
<1>3. QED BY <1>1, <1>2, RelayPartsNext

(* A side sends one message more.                                          *)
LEMMA SendsRelay ==
  ASSUME RelayInv, NEW s \in Sides, Sends(s)
  PROVE  RelayInv'
<1> DEFINE e == IF s = "left" THEN "up" ELSE "down"
<1>1. PICK old \in SideRecords : old = side[s]
  BY RelayParts
<1>2. PICK f \in FlowRecords : f = flow[e]
  BY RelayParts DEF Flows, Sides
<1>3. PICK n \in Nat : n = old.sent
  BY DEF SideRecords
<1>4. PICK new : new = [old EXCEPT !.sent = n + 1]
  OBVIOUS
<1>0. PICK longer \in Seq(Nat) : longer = Append(f.unread, n + 1)
  <2>1. PICK u \in Seq(Nat) : u = f.unread
    BY DEF FlowRecords
  <2>2. Append(u, n + 1) \in Seq(Nat)
    OBVIOUS
  <2>3. QED BY <2>1, <2>2
<1>5. PICK g : g = [f EXCEPT !.unread = longer]
  OBVIOUS
<1>6. new \in SideRecords /\ new.sent = n + 1 /\ new.ended = old.ended /\ new.gone = old.gone
  BY <1>3, <1>4 DEF SideRecords
<1>7. /\ g \in FlowRecords /\ g.unread = Append(f.unread, n + 1)
      /\ g.out = f.out /\ g.copy = f.copy /\ g.eof = f.eof /\ g.failed = f.failed
      /\ f.unread \in Seq(Nat) /\ f.out \in Seq(Nat)
  BY <1>0, <1>5 DEF FlowRecords
<1>8. side' = [side EXCEPT ![s] = new] /\ mode' = mode /\ ~old.ended /\ ~old.gone
  BY <1>1, <1>3, <1>4 DEF Sends
<1>9. (mode.kind = "udp" /\ flow' = flow) \/ flow' = [flow EXCEPT ![e] = g]
  BY <1>0, <1>1, <1>2, <1>3, <1>5 DEF Sends
<1>10. side' \in [Sides -> SideRecords] /\ flow' \in [Flows -> FlowRecords]
  BY <1>6, <1>7, <1>8, <1>9, RelayParts DEF Flows, Sides
<1>11. ASSUME NEW d \in Flows, mode.kind # "udp", RightFlow(d)
       PROVE  Right(flow'[d], side'[Src(d)], side'[Dst(d)].gone)
  <2>1. side'[Dst(d)].gone = side[Dst(d)].gone
    BY <1>1, <1>6, <1>8, Ends, RelayParts
  <2>2. CASE d = e
    <3>1. Src(d) = s /\ flow'[d] = g /\ side'[s] = new
      BY <2>2, <1>8, <1>9, <1>11, RelayParts DEF Src, Sides, Flows
    <3>2. f.out \o f.unread = Upto(n) => g.out \o g.unread = Upto(n + 1)
      BY <1>7, UptoNext
    <3>3. Right(f, old, side[Dst(d)].gone)
      BY <3>1, <2>2, <1>1, <1>2, <1>11 DEF RightFlow
    <3>4. Right(g, new, side[Dst(d)].gone)
      BY <3>2, <3>3, <1>3, <1>6, <1>7, <1>8 DEF Right
    <3>5. QED BY <3>1, <3>4, <2>1
  <2>3. CASE d # e
    <3>1. Src(d) # s /\ Src(d) \in Sides
      BY <2>3 DEF Src, Sides, Flows
    <3>2. flow'[d] = flow[d] /\ side'[Src(d)] = side[Src(d)]
      BY <3>1, <2>3, <1>8, <1>9, RelayParts
    <3>3. QED BY <3>2, <2>1, <1>11 DEF RightFlow
  <2>4. QED BY <2>2, <2>3
<1>12. \A d \in Flows : flow'[d].copy = flow[d].copy
  BY <1>2, <1>7, <1>9, RelayParts
<1>13. QED BY <1>8, <1>10, <1>11, <1>12, RelayByFlows

(* A side that ends, or leaves, changes nothing of what was copied.        *)
LEMMA SideRelay ==
  ASSUME RelayInv, NEW s \in Sides, EndsSending(s) \/ Leaves(s)
  PROVE  RelayInv'
<1>1. PICK old \in SideRecords : old = side[s]
  BY RelayParts
<1>2. PICK new : new = IF EndsSending(s) THEN [old EXCEPT !.ended = TRUE] ELSE [old EXCEPT !.gone = TRUE]
  OBVIOUS
<1>3. /\ new \in SideRecords /\ new.sent = old.sent
      /\ old.ended => new.ended
      /\ old.gone => new.gone
  BY <1>2 DEF SideRecords
<1>4. side' = [side EXCEPT ![s] = new] /\ mode' = mode /\ flow' = flow
  BY <1>1, <1>2 DEF EndsSending, Leaves
<1>5. side' \in [Sides -> SideRecords] /\ flow' \in [Flows -> FlowRecords]
  BY <1>3, <1>4, RelayParts
<1>6. \A q \in Sides : /\ side'[q].sent = side[q].sent
                       /\ side[q].ended => side'[q].ended
                       /\ side[q].gone => side'[q].gone
  BY <1>1, <1>3, <1>4, RelayParts
<1>7. ASSUME NEW d \in Flows, mode.kind # "udp", RightFlow(d)
      PROVE  Right(flow'[d], side'[Src(d)], side'[Dst(d)].gone)
  BY <1>4, <1>6, <1>7, Ends DEF RightFlow, Right
<1>8. QED BY <1>4, <1>5, <1>7, RelayByFlows

(* The copies and their ends.                                              *)
LEMMA ConnectsRelay == ASSUME RelayInv, Connects PROVE RelayInv'
<1>1. /\ mode' = mode /\ side' = side
      /\ DOMAIN flow' = Flows
      /\ flow["up"].copy = "off"
  BY DEF Connects
<1>2. ASSUME NEW d \in Flows
      PROVE  \E c \in {"on", "over"} : flow'[d] = [flow[d] EXCEPT !.copy = c]
  BY <1>2 DEF Connects
<1>3. ASSUME NEW d \in Flows
      PROVE  /\ flow'[d] \in FlowRecords /\ flow'[d].copy \in {"on", "over"}
             /\ flow'[d].unread = flow[d].unread /\ flow'[d].out = flow[d].out
             /\ flow'[d].eof = flow[d].eof /\ flow'[d].failed = flow[d].failed
  <2>1. PICK f \in FlowRecords : f = flow[d]
    BY RelayParts
  <2>2. PICK c \in {"on", "over"} : flow'[d] = [f EXCEPT !.copy = c]
    BY <1>2, <2>1
  <2>3. PICK g : g = [f EXCEPT !.copy = c]
    OBVIOUS
  <2>4. /\ g \in FlowRecords /\ g.copy = c /\ g.unread = f.unread /\ g.out = f.out
        /\ g.eof = f.eof /\ g.failed = f.failed
    BY <2>1, <2>3 DEF FlowRecords
  <2>5. QED BY <2>1, <2>2, <2>3, <2>4
<1>4. flow["up"].copy = "off" /\ flow["down"].copy = "off"
  BY <1>1, RelayParts
<1>5. ASSUME NEW d \in Flows, mode.kind # "udp", RightFlow(d)
      PROVE  Right(flow'[d], side'[Src(d)], side'[Dst(d)].gone)
  <2>1. ~flow[d].failed /\ flow[d].copy = "off"
    BY <1>4, <1>5 DEF Flows, RightFlow, Right
  <2>2. QED BY <1>1, <1>3, <1>5, <2>1 DEF RightFlow, Right
<1>6. flow' \in [Flows -> FlowRecords] /\ \A d \in Flows : flow'[d].copy # "off"
  <2>1. \A d \in Flows : flow'[d] \in FlowRecords /\ flow'[d].copy # "off"
    BY <1>3
  <2>2. flow' = [d \in Flows |-> flow'[d]]
    BY DEF Connects
  <2>3. QED BY <2>1, <2>2
<1>7. QED BY <1>1, <1>5, <1>6, RelayByFlows, RelayParts

(* One direction moves.                                                    *)
LEMMA OneFlow ==
  ASSUME RelayInv, NEW d \in Flows, NEW g \in FlowRecords, flow' = [flow EXCEPT ![d] = g],
         flow[d].copy # "off", g.copy # "off", UNCHANGED <<mode, side>>,
         mode.kind # "udp" /\ RightFlow(d) => Right(g, side[Src(d)], side[Dst(d)].gone)
  PROVE  RelayInv'
<1>1. flow' \in [Flows -> FlowRecords] /\ side' \in [Sides -> SideRecords]
  BY RelayParts
<1>2. \A c \in Flows : flow'[c] = IF c = d THEN g ELSE flow[c]
  BY RelayParts
<1>3. \A c \in Flows : flow'[c].copy = "off" <=> flow[c].copy = "off"
  BY <1>2
<1>4. ASSUME NEW c \in Flows, mode.kind # "udp", RightFlow(c)
      PROVE  Right(flow'[c], side'[Src(c)], side'[Dst(c)].gone)
  BY <1>2, <1>4 DEF RightFlow
<1>5. QED BY <1>1, <1>3, <1>4, RelayByFlows

(* A copy moves what it read.                                              *)
LEMMA CopyMovesRelay ==
  ASSUME RelayInv, NEW d \in Flows, CopyMoves(d)
  PROVE  RelayInv'
<1>1. PICK f \in FlowRecords : f = flow[d]
  BY RelayParts
<1>2. PICK out \in Seq(Nat) : out = f.out
  BY DEF FlowRecords
<1>3. PICK unread \in Seq(Nat) : unread = f.unread
  BY DEF FlowRecords
<1>4. unread # <<>> /\ f.copy = "on" /\ UNCHANGED <<mode, side>>
  BY <1>1, <1>3 DEF CopyMoves
<1>5. PICK written \in Seq(Nat) : written = Append(out, Head(unread))
  BY <1>4, PieceMoves
<1>6. PICK rest \in Seq(Nat) : rest = Tail(unread)
  BY <1>4, PieceMoves
<1>7. written \o rest = out \o unread
  BY <1>4, <1>5, <1>6, PieceMoves
<1>8. CASE ~side[Dst(d)].gone
  <2>1. PICK g : g = [f EXCEPT !.unread = rest, !.out = written]
    OBVIOUS
  <2>2. /\ g \in FlowRecords /\ g.copy = f.copy /\ g.unread = rest /\ g.out = written
        /\ g.eof = f.eof /\ g.failed = f.failed
    BY <2>1 DEF FlowRecords
  <2>3. flow' = [flow EXCEPT ![d] = g]
    BY <1>1, <1>2, <1>3, <1>5, <1>6, <1>8, <2>1 DEF CopyMoves
  <2>4. RightFlow(d) => Right(g, side[Src(d)], side[Dst(d)].gone)
    BY <1>1, <1>2, <1>3, <1>4, <1>7, <1>8, <2>2 DEF RightFlow, Right
  <2>5. QED BY <1>1, <1>4, <2>2, <2>3, <2>4, OneFlow
<1>9. CASE side[Dst(d)].gone
  <2>1. PICK lost : lost = [f EXCEPT !.unread = rest]
    OBVIOUS
  <2>2. PICK fails : fails = [f EXCEPT !.unread = rest, !.copy = "end", !.failed = TRUE]
    OBVIOUS
  <2>3. lost \in FlowRecords /\ lost.copy = f.copy /\ lost.eof = f.eof /\ lost.failed = f.failed
    BY <2>1 DEF FlowRecords
  <2>4. fails \in FlowRecords /\ fails.copy = "end" /\ fails.failed
    BY <2>2 DEF FlowRecords
  <2>5. flow' = [flow EXCEPT ![d] = lost] \/ flow' = [flow EXCEPT ![d] = fails]
    BY <1>1, <1>3, <1>6, <1>9, <2>1, <2>2 DEF CopyMoves
  <2>6. RightFlow(d) => Right(lost, side[Src(d)], side[Dst(d)].gone)
    BY <1>1, <1>4, <1>9, <2>3 DEF RightFlow, Right
  <2>7. Right(fails, side[Src(d)], side[Dst(d)].gone)
    BY <1>9, <2>4 DEF Right
  <2>8. QED BY <1>1, <1>4, <2>3, <2>4, <2>5, <2>6, <2>7, OneFlow
<1>10. QED BY <1>8, <1>9

(* A copy ends, with an error or because its source did.                   *)
LEMMA CopyEndsRelay ==
  ASSUME RelayInv, NEW d \in Flows, CopyEnds(d)
  PROVE  RelayInv'
<1>1. PICK f \in FlowRecords : f = flow[d]
  BY RelayParts
<1>2. PICK s \in SideRecords : s = side[Src(d)]
  BY Ends, RelayParts
<1>3. PICK g : g = [f EXCEPT !.copy = "end", !.failed = s.gone]
  OBVIOUS
<1>4. /\ g \in FlowRecords /\ g.copy = "end" /\ g.failed = s.gone
      /\ g.unread = f.unread /\ g.out = f.out /\ g.eof = f.eof
      /\ f.out \in Seq(Nat) /\ s.sent \in Nat
  BY <1>3 DEF FlowRecords, SideRecords
<1>5. /\ f.copy = "on" /\ UNCHANGED <<mode, side>> /\ flow' = [flow EXCEPT ![d] = g]
      /\ mode.kind # "udp" => s.gone \/ (f.unread = <<>> /\ s.ended)
  BY <1>1, <1>2, <1>3 DEF CopyEnds
<1>6. ASSUME mode.kind # "udp", RightFlow(d)
      PROVE  Right(g, s, side[Dst(d)].gone)
  <2>1. Right(f, s, side[Dst(d)].gone)
    BY <1>1, <1>2, <1>6 DEF RightFlow
  <2>2. CASE s.gone
    BY <1>4, <2>2 DEF Right
  <2>3. CASE ~s.gone /\ f.unread = <<>> /\ s.ended
    <3>1. ~side[Dst(d)].gone => f.out \o f.unread = Upto(s.sent)
      BY <1>5, <2>1, <2>3 DEF Right
    <3>2. f.out \o <<>> = f.out /\ Len(Upto(s.sent)) = s.sent
      BY <1>4 DEF Upto
    <3>3. ~side[Dst(d)].gone => f.out = Upto(s.sent) /\ Len(f.out) = s.sent
      BY <2>3, <3>1, <3>2
    <3>4. QED BY <1>4, <2>3, <3>1, <3>3 DEF Right
  <2>4. QED BY <1>5, <1>6, <2>2, <2>3
<1>7. QED BY <1>1, <1>2, <1>4, <1>5, <1>6, OneFlow

(* The end is passed on.                                                   *)
LEMMA TransferEndsRelay ==
  ASSUME RelayInv, NEW d \in Flows, TransferEnds(d)
  PROVE  RelayInv'
<1>1. PICK f \in FlowRecords : f = flow[d]
  BY RelayParts
<1>2. PICK told \in BOOLEAN : told = (mode.kind = "proxy" \/ (mode.kind = "netcat" /\ d = "up"))
  OBVIOUS
<1>3. PICK g : g = [f EXCEPT !.copy = "over", !.eof = told]
  OBVIOUS
<1>4. /\ g \in FlowRecords /\ g.copy = "over" /\ g.failed = f.failed
      /\ g.unread = f.unread /\ g.out = f.out
  BY <1>3 DEF FlowRecords
<1>5. f.copy = "end" /\ UNCHANGED <<mode, side>> /\ flow' = [flow EXCEPT ![d] = g]
  BY <1>1, <1>2, <1>3 DEF TransferEnds
<1>6. RightFlow(d) => Right(g, side[Src(d)], side[Dst(d)].gone)
  BY <1>1, <1>4, <1>5 DEF RightFlow, Right
<1>7. QED BY <1>1, <1>4, <1>5, <1>6, OneFlow

(* No step of a handler is one of a relay.                                 *)
LEMMA RelayStill == ASSUME RelayInv, UNCHANGED <<mode, side, flow>> PROVE RelayInv'
BY DEF RelayInv, RelayExact, CopyKnown, Src, Dst

LEMMA RelayMoves == ASSUME RelayInv, RelayWorks \/ SidesMove PROVE RelayInv'
<1>1. CASE Returns
  BY <1>1, RelayStill DEF Returns
<1>2. QED BY <1>1, ConnectsRelay, CopyMovesRelay, CopyEndsRelay, TransferEndsRelay, SendsRelay, SideRelay
          DEF RelayWorks, SidesMove

-----------------------------------------------------------------------------
(* The handlers, by what they are asked for.                               *)

(* The kinds of a step of a handler, where each goes from and to, and the  *)
(* fields of what it keeps.                                                *)
Kinds == {"echo", "tee", "fetch", "fetch2", "index", "other"}
TosOf == [echo |-> {"echo", "debug"}, tee |-> {"tee"}, fetch |-> {"fetch"}, fetch2 |-> {"fetch2"},
          index |-> {"index"}, other |-> {"names", "result"}]
(* Where a handler of an echo has drawn its status and size.               *)
Drew == {"write", "fails", "finish", "put", "done"}
FetchPlaces == {"timeout", "transport", "do", "send", "sent"}
PlacesOf == [echo |-> EchoPlaces, tee |-> {"serial", "parallel"}, fetch |-> {"fetch"}, fetch2 |-> FetchPlaces,
             index |-> {"locks", "reads"}, other |-> {}]

Answer == {"status", "length", "close", "body"}

(* What a step of a handler does: it moves on among the places of its kind *)
(* and touches no answer but its own.                                      *)
HandlerEffect(h, k) ==
  /\ UNCHANGED <<conf, req>>
  /\ req[h].to \in TosOf[k]
  /\ at[h] \in PlacesOf[k] \cup {"arrived"}
  /\ at'[h] \in PlacesOf[k] \cup {"done"}
  /\ DOMAIN at' = Handlers /\ DOMAIN resp' = Handlers
  /\ \A g \in Handlers : g # h => at'[g] = at[g] /\ resp'[g] = resp[g]
  /\ DOMAIN resp'[h] = Answer

(* What a handler does leaves all of them where their requests took them.  *)
LEMMA WebByHandler ==
  ASSUME WebInv, NEW h \in Handlers, NEW k \in Kinds, HandlerEffect(h, k)
  PROVE  WebInv'
<1>1. \A g \in Handlers : g # h => at'[g] = at[g] /\ resp'[g] = resp[g]
  BY DEF HandlerEffect
<1>2. /\ conf' \in Confs /\ DOMAIN at' = Handlers /\ DOMAIN req' = Handlers /\ DOMAIN resp' = Handlers
      /\ \A g \in Handlers : DOMAIN resp'[g] = Answer
  BY DEF WebInv, HandlerEffect, Answer
<1>3. \A g \in Handlers : at'[g] # "idle" => req'[g] \in conf'.requests[g]
  BY DEF WebInv, HandlerEffect, Kinds, PlacesOf, EchoPlaces, FetchPlaces
<1>4. ASSUME NEW g \in Handlers, g # h PROVE Placed(g)'
  BY <1>1, <1>4 DEF WebInv, Placed, HandlerEffect, Fetching
<1>5. Placed(h)'
  <2>1. req'[h].to \in TosOf[k] /\ at'[h] \in PlacesOf[k] \cup {"done"}
    BY DEF HandlerEffect
  <2>2. QED BY <2>1 DEF Placed, Kinds, TosOf, PlacesOf, EchoPlaces, FetchPlaces, Fetching
<1>6. QED BY <1>2, <1>3, <1>4, <1>5 DEF WebInv, Answer

(* Each kind of step has its effect and no other.                          *)
LEMMA RespondsEffect ==
  ASSUME WebInv, NEW h \in Handlers, NEW status, NEW length, NEW body, Responds(h, status, length, body)
  PROVE  /\ DOMAIN resp' = Handlers /\ DOMAIN resp'[h] = Answer
         /\ \A g \in Handlers : g # h => resp'[g] = resp[g]
         /\ gz' = gz \/ \E w, held : gz' = [gz EXCEPT ![w].held = held]
BY DEF WebInv, Responds, Sent, Answer

LEMMA EchoEffect ==
  ASSUME WebInv, WriterInv, NEW h \in Handlers, EchoStep(h)
  PROVE  HandlerEffect(h, "echo")
<1> USE DEF HandlerEffect, TosOf, PlacesOf, EchoPlaces, Goes
<1>1. CASE DebugReads(h) \/ EchoArrives(h) \/ Delays(h) \/ Awakes(h)
  BY <1>1 DEF DebugReads, EchoArrives, Delays, Awakes, WebInv, Placed, Answer
<1>2. CASE Closes(h)
  BY <1>2 DEF Closes, WebInv, Placed, Answer
<1>3. CASE EchoDraws(h)
  BY <1>3 DEF EchoDraws, WebInv, Placed, Answer
<1>4. CASE ReadFails(h)
  BY <1>4, RespondsEffect DEF ReadFails, WebInv, Placed
<1>5. CASE EchoWrites(h)
  <2>1. UNCHANGED resp \/ \E status, length, body : Responds(h, status, length, body)
    BY <1>5 DEF EchoWrites
  <2>2. UNCHANGED <<conf, req>> /\ at[h] = "write" /\ at' = [at EXCEPT ![h] = "finish"]
    BY <1>5 DEF EchoWrites
  <2>3. QED BY <2>1, <2>2, RespondsEffect DEF WebInv, Placed, Answer
<1>6. CASE ClosesWriter(h)
  <2>1. resp' = resp \/ \E body : resp' = [resp EXCEPT ![h].body = body]
    BY <1>6 DEF ClosesWriter, WebInv, WriterInv, WriterOwn
  <2>2. UNCHANGED <<conf, req>> /\ at[h] = "finish" /\ \E to \in {"put", "done"} : at' = [at EXCEPT ![h] = to]
    BY <1>6, ZenonT(60) DEF ClosesWriter
  <2>3. QED BY <2>1, <2>2 DEF WebInv, Placed, Answer
<1>7. CASE PutsWriter(h)
  BY <1>7 DEF PutsWriter, WebInv, Placed, Answer
<1>8. QED BY <1>1, <1>2, <1>3, <1>4, <1>5, <1>6, <1>7 DEF EchoStep

LEMMA ForwardEffect ==
  ASSUME WebInv, NEW h \in Handlers, ForwardStep(h)
  PROVE  \/ HandlerEffect(h, "tee") /\ UNCHANGED <<proxy, used>>
         \/ HandlerEffect(h, "fetch") /\ UNCHANGED <<proxy, used>>
         \/ HandlerEffect(h, "fetch2")
<1> USE DEF HandlerEffect, TosOf, PlacesOf, FetchPlaces, Goes
<1>1. CASE TeeHandler(h)
  BY <1>1, RespondsEffect DEF TeeHandler, WebInv, Placed, Answer
<1>2. CASE TeeSerial(h) \/ TeeSerialSkips(h)
  BY <1>2, ZenonT(60) DEF TeeSerial, TeeSerialSkips, WebInv, Placed, Answer
<1>3. CASE \E i \in Targets : SingleRequest(h, i)
  BY <1>3 DEF SingleRequest, webVars, WebInv, Placed, Answer
<1>4. CASE TeeParallel(h)
  <2>1. \E status, length, body : Responds(h, status, length, body)
    BY <1>4 DEF TeeParallel
  <2>2. UNCHANGED <<conf, req, forwardVars>> /\ at[h] = "parallel" /\ at' = [at EXCEPT ![h] = "done"]
    BY <1>4 DEF TeeParallel
  <2>3. QED BY <2>1, <2>2, RespondsEffect DEF forwardVars, WebInv, Placed
<1>5. CASE FetcherHandler2(h)
  BY <1>5, RespondsEffect DEF FetcherHandler2, WebInv, Placed, Answer
<1>6. CASE SetsTimeout(h) \/ SetsTransport(h) \/ DoReadsTimeout(h) \/ DoSends(h)
  BY <1>6 DEF SetsTimeout, SetsTransport, DoReadsTimeout, DoSends, Fetching, WebInv, Placed, Answer
<1>7. CASE DoReturns(h)
  BY <1>7, RespondsEffect DEF DoReturns, Fetching, WebInv, Placed
<1>8. CASE FetcherHandler(h)
  BY <1>8, RespondsEffect DEF FetcherHandler, forwardVars, WebInv, Placed, Answer
<1>9. CASE Fetches(h)
  <2>1. UNCHANGED resp \/ \E status, length, body : Responds(h, status, length, body)
    BY <1>9 DEF Fetches
  <2>2. UNCHANGED <<conf, req, forwardVars>> /\ at[h] = "fetch" /\ at' = [at EXCEPT ![h] = "done"]
    BY <1>9 DEF Fetches
  <2>3. QED BY <2>1, <2>2, RespondsEffect DEF forwardVars, WebInv, Placed, Answer
<1>10. QED BY <1>1, <1>2, <1>3, <1>4, <1>5, <1>6, <1>7, <1>8, <1>9 DEF ForwardStep

LEMMA DataEffect ==
  ASSUME WebInv, NEW h \in Handlers, DataStep(h)
  PROVE  HandlerEffect(h, "index") \/ (HandlerEffect(h, "other") /\ UNCHANGED dataVars)
<1>1. CASE Stats(h)
  <2>1. HandlerEffect(h, "index")
    BY <1>1 DEF Stats, Goes, HandlerEffect, TosOf, PlacesOf, WebInv, Answer
  <2>2. QED BY <2>1
<1>2. CASE Lists(h) \/ ReadsFile(h)
  <2>1. HandlerEffect(h, "index")
    BY <1>2 DEF Lists, ReadsFile, Goes, HandlerEffect, TosOf, PlacesOf, webVars, WebInv, Placed, Answer
  <2>2. QED BY <2>1
<1>3. CASE UsesCache(h) \/ Stores(h)
  <2>1. HandlerEffect(h, "index")
    <3>1. \E b : resp' = [resp EXCEPT ![h].status = 200, ![h].body = b]
      BY <1>3 DEF UsesCache, Stores, Serves, Goes
    <3>2. UNCHANGED <<conf, req>> /\ at[h] \in {"locks", "reads"} /\ at' = [at EXCEPT ![h] = "done"]
      BY <1>3 DEF UsesCache, Stores, Serves, Goes
    <3>3. QED BY <3>1, <3>2 DEF HandlerEffect, TosOf, PlacesOf, WebInv, Placed, Answer
  <2>2. QED BY <2>1
<1>4. CASE OtherData(h)
  <2>1. HandlerEffect(h, "other") /\ UNCHANGED dataVars
    BY <1>4 DEF OtherData, Serves, Goes, HandlerEffect, TosOf, PlacesOf, WebInv, Answer
  <2>2. QED BY <2>1
<1>5. QED BY <1>1, <1>2, <1>3, <1>4 DEF DataStep

-----------------------------------------------------------------------------
(* The gzip writers.                                                       *)

JobFields == {"status", "size", "writer", "rolls"}
GzFields == {"pooled", "to", "held"}

(* What a writer holds is nothing to who has it.                           *)
LEMMA OnlyHeld ==
  ASSUME WriterInv, NEW w, NEW held, gz' = gz \/ gz' = [gz EXCEPT ![w].held = held]
  PROVE  /\ DOMAIN gz' = GzipWriters
         /\ \A v \in GzipWriters : DOMAIN gz'[v] = GzFields /\ gz'[v].pooled = gz[v].pooled /\ gz'[v].to = gz[v].to
BY DEF WriterInv, GzFields

(* Writers and jobs stay, and whoever moved has its own as before or is no *)
(* longer where it has one.                                                *)
LEMMA WriterStays ==
  ASSUME WriterInv, NEW h \in Handlers, NEW w, NEW held,
         gz' = gz \/ gz' = [gz EXCEPT ![w].held = held],
         job' = job,
         \A g \in Handlers : g # h => at'[g] = at[g],
         at'[h] \notin EchoPlaces \cup {"done"} => at[h] \notin EchoPlaces \cup {"done"},
         at'[h] \in EchoPlaces => at[h] \in EchoPlaces \cup {"arrived"}
  PROVE  WriterInv'
<1>1. /\ DOMAIN gz' = GzipWriters
      /\ \A v \in GzipWriters : DOMAIN gz'[v] = GzFields /\ gz'[v].pooled = gz[v].pooled /\ gz'[v].to = gz[v].to
  BY OnlyHeld
<1>2. ASSUME NEW g \in Handlers PROVE WriterOwn(g)'
  BY <1>1, <1>2 DEF WriterInv, WriterOwn, EchoPlaces
<1>3. QED BY <1>1, <1>2 DEF WriterInv, GzFields

(* A handler takes a writer that nobody has.                               *)
LEMMA WriterByTakes ==
  ASSUME WriterInv, NEW h \in Handlers, NEW drawn, DOMAIN drawn = JobFields, Takes(h, drawn),
         \A g \in Handlers : g # h => at'[g] = at[g], at'[h] \in EchoPlaces
  PROVE  WriterInv'
<1>1. PICK w \in GzipWriters :
        /\ gz[w].pooled
        /\ gz' = [gz EXCEPT ![w] = [pooled |-> FALSE, to |-> h, held |-> <<>>]]
        /\ job' = [job EXCEPT ![h] = [drawn EXCEPT !.writer = w]]
  BY DEF Takes
<1>2. PICK mine : mine = [drawn EXCEPT !.writer = w]
  OBVIOUS
<1>3. DOMAIN mine = JobFields /\ mine.writer = w
  BY <1>2 DEF JobFields
<1>4. DOMAIN job' = Handlers /\ job'[h] = mine /\ \A g \in Handlers : g # h => job'[g] = job[g]
  BY <1>1, <1>2 DEF WriterInv
<1>5. /\ DOMAIN gz' = GzipWriters /\ DOMAIN gz'[w] = GzFields
      /\ ~gz'[w].pooled /\ gz'[w].to = h
      /\ \A v \in GzipWriters : v # w => gz'[v] = gz[v]
  BY <1>1 DEF WriterInv, GzFields
<1>6. ASSUME NEW g \in Handlers, g # h PROVE WriterOwn(g)'
  BY <1>1, <1>4, <1>5, <1>6 DEF WriterInv, WriterOwn
<1>7. WriterOwn(h)'
  BY <1>3, <1>4, <1>5 DEF WriterOwn, EchoPlaces
<1>8. QED BY <1>3, <1>4, <1>5, <1>6, <1>7 DEF WriterInv, GzFields, JobFields

(* Each step of an echo keeps the writers apart; other steps leave them.   *)
LEMMA WriterByEcho ==
  ASSUME WebInv, WriterInv, NEW h \in Handlers, EchoStep(h)
  PROVE  WriterInv'
<1>1. /\ \A g \in Handlers : g # h => at'[g] = at[g]
      /\ at[h] \in EchoPlaces \cup {"arrived"} /\ at'[h] \in EchoPlaces \cup {"done"}
      /\ at'[h] \notin {"idle", "arrived"}
  BY EchoEffect DEF HandlerEffect, PlacesOf, EchoPlaces
<1>2. CASE UNCHANGED echoVars
  BY <1>1, <1>2, WriterStays DEF echoVars
<1>3. CASE DebugReads(h)
  <2>1. CASE Takes(h, job[h])
    <3>1. at'[h] \in EchoPlaces
      BY <1>1, <1>3 DEF DebugReads, Goes, WebInv, EchoPlaces
    <3>2. QED BY <1>1, <2>1, <3>1, WriterByTakes DEF WriterInv, JobFields
  <2>2. QED BY <1>2, <1>3, <2>1 DEF DebugReads
<1>4. CASE EchoDraws(h)
  <2>1. PICK drawn :
          /\ DOMAIN drawn = JobFields /\ drawn.writer = NoOne
          /\ Takes(h, drawn) \/ (job' = [job EXCEPT ![h] = drawn] /\ gz' = gz)
    BY <1>4 DEF EchoDraws, JobFields
  <2>2. at'[h] \in EchoPlaces
    BY <1>4 DEF EchoDraws, Goes, WebInv, EchoPlaces
  <2>3. CASE Takes(h, drawn)
    BY <1>1, <2>1, <2>2, <2>3, WriterByTakes
  <2>4. CASE job' = [job EXCEPT ![h] = drawn] /\ gz' = gz
    <3>1. DOMAIN job' = Handlers /\ job'[h] = drawn /\ \A g \in Handlers : g # h => job'[g] = job[g]
      BY <2>4 DEF WriterInv
    <3>2. WriterOwn(h)' /\ \A g \in Handlers : g # h => WriterOwn(g)'
      BY <1>1, <2>1, <2>4, <3>1 DEF WriterInv, WriterOwn
    <3>3. QED BY <2>1, <2>4, <3>1, <3>2 DEF WriterInv, JobFields
  <2>5. QED BY <2>1, <2>3, <2>4
<1>5. CASE ReadFails(h) \/ EchoWrites(h)
  <2>1. gz' = gz \/ \E status, length, body : Responds(h, status, length, body)
    BY <1>5, SMTT(60) DEF ReadFails, EchoWrites
  <2>2. PICK w, held : gz' = gz \/ gz' = [gz EXCEPT ![w].held = held]
    BY <2>1, RespondsEffect
  <2>3. job' = job
    BY <1>5, SMTT(60) DEF ReadFails, EchoWrites
  <2>4. QED BY <1>1, <2>2, <2>3, WriterStays
<1>6. CASE ClosesWriter(h)
  <2>1. PICK w, held : gz' = gz \/ gz' = [gz EXCEPT ![w].held = held]
    BY <1>6, ZenonT(60) DEF ClosesWriter
  <2>2. job' = job
    BY <1>6, ZenonT(60) DEF ClosesWriter
  <2>3. QED BY <1>1, <2>1, <2>2, WriterStays
<1>7. CASE PutsWriter(h)
  <2>1. PICK w : w = job[h].writer
    OBVIOUS
  <2>2. gz' = [gz EXCEPT ![w].pooled = TRUE] /\ job' = job /\ at[h] = "put" /\ at'[h] = "done"
    BY <1>7, <2>1 DEF PutsWriter, Goes, WebInv
  <2>3. /\ DOMAIN gz' = GzipWriters
        /\ \A v \in GzipWriters : /\ DOMAIN gz'[v] = GzFields /\ gz'[v].to = gz[v].to
                                 /\ v # w => gz'[v].pooled = gz[v].pooled
    BY <2>2 DEF WriterInv, GzFields
  <2>4. ASSUME NEW g \in Handlers, g # h PROVE WriterOwn(g)'
    <3>1. at[g] \in EchoPlaces /\ job[g].writer # NoOne => job[g].writer # w
      BY <2>1, <2>2, <2>4 DEF WriterInv, WriterOwn, EchoPlaces
    <3>2. QED BY <1>1, <2>2, <2>3, <2>4, <3>1 DEF WriterInv, WriterOwn
  <2>5. WriterOwn(h)'
    BY <2>2 DEF WriterOwn, EchoPlaces
  <2>6. QED BY <2>2, <2>3, <2>4, <2>5 DEF WriterInv, GzFields
<1>8. QED BY <1>2, <1>3, <1>4, <1>5, <1>6, <1>7 DEF EchoStep, EchoArrives, Delays, Awakes, Closes

LEMMA WriterAside ==
  ASSUME WebInv, WriterInv, NEW h \in Handlers, NEW k \in Kinds \ {"echo"}, HandlerEffect(h, k),
         UNCHANGED <<gz, job>>
  PROVE  WriterInv'
<1>1. at'[h] \notin EchoPlaces /\ at[h] \notin EchoPlaces \cup {"done"}
  BY DEF HandlerEffect, Kinds, PlacesOf, EchoPlaces, FetchPlaces
<1>2. \A g \in Handlers : g # h => at'[g] = at[g]
  BY DEF HandlerEffect
<1>3. QED BY <1>1, <1>2, WriterStays

(* A handler that passes a request on has no gzip writer.                  *)
LEMMA ForwardWrites ==
  ASSUME WebInv, WriterInv, NEW h \in Handlers, ForwardStep(h)
  PROVE  UNCHANGED <<job, gz>>
<1>1. gz' = gz \/ \E status, length, body : Responds(h, status, length, body)
  <2>1. CASE TeeHandler(h) \/ FetcherHandler2(h)
    BY <2>1 DEF TeeHandler, FetcherHandler2
  <2>2. CASE TeeParallel(h)
    BY <2>2 DEF TeeParallel
  <2>3. CASE DoReturns(h) \/ FetcherHandler(h) \/ Fetches(h)
    BY <2>3, SMTT(60) DEF DoReturns, FetcherHandler, Fetches
  <2>4. QED
    BY <2>1, <2>2, <2>3 DEF ForwardStep, TeeSerial, TeeSerialSkips, SingleRequest,
       SetsTimeout, SetsTransport, DoReadsTimeout, DoSends, echoVars
<1>2. job' = job
  BY DEF ForwardStep, TeeHandler, TeeSerial, TeeSerialSkips, TeeParallel, SingleRequest, FetcherHandler2,
         SetsTimeout, SetsTransport, DoReadsTimeout, DoSends, DoReturns, FetcherHandler, Fetches, echoVars, forwardVars
<1>3. job[h].writer = NoOne
  <2>1. PICK k \in {"tee", "fetch", "fetch2"} : HandlerEffect(h, k)
    BY ForwardEffect
  <2>2. at[h] \notin EchoPlaces \cup {"done"}
    BY <2>1 DEF HandlerEffect, PlacesOf, EchoPlaces, FetchPlaces
  <2>3. QED BY <2>2 DEF WriterInv, WriterOwn
<1>4. QED BY <1>1, <1>2, <1>3, SMTT(60) DEF Responds

-----------------------------------------------------------------------------
(* Sequences that are joined, and the shares of a list.  What is defined by*)
(* recursion over a sequence is known at each place of it, as the least    *)
(* place where it would not hold cannot be.                                *)

(* A set of naturals that is not empty has a first member: what is defined *)
(* by recursion is proved by the first place where it would fail.          *)
LEMMA FirstOf ==
  ASSUME NEW S \in SUBSET Nat, S # {}
  PROVE  \E i \in S : \A j \in S : i <= j
<1>1. PICK R : R = OpToRel(<, Nat)
  OBVIOUS
<1>2. IsWellFoundedOn(R, Nat)
  BY <1>1, NatLessThanWellFounded
<1>3. PICK i \in S : \A j \in S : <<j, i>> \notin R
  BY <1>2, WFMin
<1>4. \A j \in S : ~ (j < i)
  BY <1>1, <1>3 DEF OpToRel
<1>5. QED BY <1>3, <1>4

(* Sequences put together one after the other, up to each.                 *)
Joins(g, ss, m) ==
  /\ g = [i \in 1 .. m |-> g[i]]
  /\ \A i \in 1 .. m : g[i] = IF i = 1 THEN ss[i] ELSE g[i - 1] \o ss[i]

(* The function that joins ever more of a sequence exists.                 *)
LEMMA JoinsExist ==
  ASSUME NEW S, NEW ss \in Seq(Seq(S)), NEW n \in Nat, n = Len(ss)
  PROVE  \E g : Joins(g, ss, n)
<1> SUFFICES ASSUME \A g : ~Joins(g, ss, n) PROVE FALSE
  OBVIOUS
<1>0. PICK T : T = {k \in 0 .. n : \A g : ~Joins(g, ss, k)}
  OBVIOUS
<1>1. PICK m \in T : \A j \in T : m <= j
  <2>1. T \in SUBSET Nat /\ n \in T
    BY <1>0
  <2>2. QED BY <2>1, FirstOf
<1>2. m # 0
  <2>1. Joins([i \in 1 .. 0 |-> 0], ss, 0)
    BY DEF Joins
  <2>2. QED BY <1>0, <1>1, <2>1
<1>3. m \in Nat /\ m - 1 \in 0 .. n /\ ~(m <= m - 1)
  BY <1>0, <1>1, <1>2
<1>4. PICK g : Joins(g, ss, m - 1)
  BY <1>0, <1>1, <1>3
<1>5. PICK h : h = [i \in 1 .. m |-> IF i < m THEN g[i] ELSE IF m = 1 THEN ss[m] ELSE g[m - 1] \o ss[m]]
  OBVIOUS
<1>6. Joins(h, ss, m)
  <2>1. h = [i \in 1 .. m |-> h[i]]
    BY <1>5
  <2>2. ASSUME NEW i \in 1 .. m PROVE h[i] = IF i = 1 THEN ss[i] ELSE h[i - 1] \o ss[i]
    <3>1. CASE i < m
      <4>1. h[i] = g[i] /\ (i # 1 => h[i - 1] = g[i - 1] /\ i - 1 \in 1 .. m) /\ i \in 1 .. m - 1
        BY <1>3, <1>5, <3>1
      <4>2. g[i] = IF i = 1 THEN ss[i] ELSE g[i - 1] \o ss[i]
        BY <1>4, <4>1 DEF Joins
      <4>3. QED BY <4>1, <4>2
    <3>2. CASE i = m
      <4>1. m # 1 => h[m - 1] = g[m - 1]
        BY <1>3, <1>5
      <4>2. QED BY <1>3, <1>5, <3>2, <4>1
    <3>3. QED BY <1>3, <3>1, <3>2
  <2>3. QED BY <2>1, <2>2 DEF Joins
<1>7. QED BY <1>0, <1>1, <1>6

(* It gives sequences of what the joined ones hold.                        *)
LEMMA JoinsTyped ==
  ASSUME NEW S, NEW ss \in Seq(Seq(S)), NEW g, Joins(g, ss, Len(ss))
  PROVE  \A j \in 1 .. Len(ss) : g[j] \in Seq(S)
<1>1. PICK n \in Nat : n = Len(ss)
  OBVIOUS
<1>2. PICK T \in SUBSET (1 .. n) : T = {j \in 1 .. n : g[j] \notin Seq(S)}
  OBVIOUS
<1>3. T = {}
  <2> SUFFICES ASSUME T # {} PROVE FALSE
    OBVIOUS
  <2>1. PICK m \in T : \A j \in T : m <= j
    <3>1. T \in SUBSET Nat
      BY <1>2
    <3>2. QED BY <3>1, FirstOf
  <2>2. m \in 1 .. n /\ m \in Nat /\ m \in 1 .. Len(ss)
    BY <1>1, <1>2, <2>1
  <2>0. g[m] = IF m = 1 THEN ss[m] ELSE g[m - 1] \o ss[m]
    BY <2>2 DEF Joins
  <2>3. ss[m] \in Seq(S)
    BY <1>1, <2>2
  <2>4. m # 1 => g[m - 1] \in Seq(S)
    BY <1>2, <2>1, <2>2
  <2>5. g[m] \in Seq(S)
    BY <2>0, <2>3, <2>4
  <2>6. QED BY <1>2, <2>1, <2>5
<1>4. QED BY <1>1, <1>2, <1>3

(* FlattenSeq is its last value.                                           *)
LEMMA Flattened ==
  ASSUME NEW S, NEW ss \in Seq(Seq(S)), ss # <<>>
  PROVE  \E g : Joins(g, ss, Len(ss)) /\ FlattenSeq(ss) = g[Len(ss)]
<1>1. PICK n \in Nat : n = Len(ss) /\ n # 0
  OBVIOUS
<1> DEFINE F(g) == [i \in 1 .. Len(ss) |-> IF i = 1 THEN ss[i] ELSE g[i - 1] \o ss[i]]
<1>2. PICK g : Joins(g, ss, n)
  BY <1>1, JoinsExist
<1>3. g = F(g)
  BY <1>1, <1>2 DEF Joins
<1>4. PICK f : f = CHOOSE x : x = F(x)
  OBVIOUS
<1>5. f = F(f)
  BY <1>3, <1>4
<1>6. FlattenSeq(ss) = f[Len(ss)]
  BY <1>1, <1>4 DEF FlattenSeq
<1>7. Joins(f, ss, n)
  BY <1>1, <1>5 DEF Joins
<1>8. QED BY <1>1, <1>6, <1>7
(* tt is ss, whose entries from the i-th on are empty, with an i-th one.   *)
Filled(S, ss, tt, n, i) ==
  /\ ss \in Seq(Seq(S)) /\ tt \in Seq(Seq(S)) /\ n \in Nat /\ n = Len(ss) /\ n = Len(tt)
  /\ i \in 1 .. n /\ tt[i] \in Seq(S)
  /\ \A j \in 1 .. n : j # i => tt[j] = ss[j]
  /\ \A j \in 1 .. n : j >= i => ss[j] = <<>>

(* Put together, it is what ss is with that one behind.                    *)
LEMMA FlattenNext ==
  ASSUME NEW S, NEW ss, NEW tt, NEW n, NEW i, Filled(S, ss, tt, n, i)
  PROVE  FlattenSeq(tt) = FlattenSeq(ss) \o tt[i]
<1>0. PICK t \in Seq(S) : t = tt[i]
  BY DEF Filled
<1> USE DEF Filled
<1>1. DOMAIN ss = 1 .. n
  <2>1. PICK SS : SS = Seq(S)
    OBVIOUS
  <2>2. ss \in Seq(SS)
    BY <2>1
  <2>3. DOMAIN ss = 1 .. Len(ss)
    BY <2>2, LenProperties
  <2>4. QED BY <2>3
<1>2. Len(ss) # 0 /\ Len(tt) # 0
  OBVIOUS
<1>3. ss # <<>> /\ tt # <<>>
  <2>1. Len(<<>>) = 0
    OBVIOUS
  <2>2. QED BY <1>2, <2>1, Zenon
<1>4. PICK g : Joins(g, ss, n) /\ FlattenSeq(ss) = g[n]
  BY <1>3, Flattened
<1>5. PICK h : Joins(h, tt, n) /\ FlattenSeq(tt) = h[n]
  BY <1>3, Flattened
<1>6. \A j \in 1 .. n : g[j] \in Seq(S)
  BY <1>4, JoinsTyped
<1> DEFINE Wanted(j) == IF j < i THEN g[j] ELSE g[j] \o t
<1>7. PICK T \in SUBSET (1 .. n) : T = {j \in 1 .. n : h[j] # Wanted(j)}
  OBVIOUS
<1>8. T = {}
  <2> SUFFICES ASSUME T # {} PROVE FALSE
    OBVIOUS
  <2>1. PICK m \in T : \A j \in T : m <= j
    <3>1. T \in SUBSET Nat
      BY <1>7
    <3>2. QED BY <3>1, FirstOf
  <2>2. m \in 1 .. n /\ m \in Nat /\ h[m] # Wanted(m) /\ \A j \in 1 .. n : j < m => h[j] = Wanted(j)
    BY <1>7, <2>1
  <2>3. h[m] = IF m = 1 THEN tt[m] ELSE h[m - 1] \o tt[m]
    BY <1>5, <2>2 DEF Joins
  <2>4. g[m] = IF m = 1 THEN ss[m] ELSE g[m - 1] \o ss[m]
    BY <1>4, <2>2 DEF Joins
  <2>5. g[m] \in Seq(S) /\ <<>> \o t = t
    BY <1>6, <2>2
  <2>6. CASE m = 1
    <3>1. CASE i = 1
      <4>1. h[m] = t /\ g[m] = <<>>
        BY <1>0, <2>3, <2>4, <2>6, <3>1
      <4>2. QED BY <2>2, <2>5, <2>6, <3>1, <4>1
    <3>2. CASE i # 1
      <4>1. h[m] = g[m]
        BY <2>2, <2>3, <2>4, <2>6, <3>2
      <4>2. QED BY <2>2, <2>6, <3>2, <4>1
    <3>3. QED BY <3>1, <3>2
  <2>7. CASE m # 1
    <3>1. m - 1 \in 1 .. n /\ m - 1 < m
      BY <2>2, <2>7
    <3>2. h[m - 1] = Wanted(m - 1) /\ g[m - 1] \in Seq(S)
      BY <1>6, <2>2, <3>1
    <3>3. h[m] = h[m - 1] \o tt[m] /\ g[m] = g[m - 1] \o ss[m]
      BY <2>3, <2>4, <2>7
    <3>4. PICK p \in Seq(S) : p = g[m - 1]
      BY <3>2
    <3>5. p \o <<>> = p /\ (p \o t) \o <<>> = p \o t
      OBVIOUS
    <3>6. CASE m < i
      <4>1. tt[m] = ss[m] /\ m - 1 < i
        BY <2>2, <3>6
      <4>2. h[m] = g[m]
        BY <3>2, <3>3, <4>1
      <4>3. QED BY <2>2, <3>6, <4>2
    <3>7. CASE m = i
      <4>1. ss[m] = <<>> /\ tt[m] = t /\ m - 1 < i /\ ~(m < i)
        BY <1>0, <2>2, <3>7
      <4>2. h[m] = p \o t /\ g[m] = p
        BY <3>2, <3>3, <3>4, <3>5, <4>1
      <4>3. QED BY <2>2, <4>1, <4>2
    <3>8. CASE m > i
      <4>1. ss[m] = <<>> /\ tt[m] = <<>> /\ ~(m - 1 < i) /\ ~(m < i)
        BY <2>2, <3>8
      <4>2. h[m] = p \o t /\ g[m] = p
        BY <3>2, <3>3, <3>4, <3>5, <4>1
      <4>3. QED BY <2>2, <4>1, <4>2
    <3>9. QED BY <2>2, <3>6, <3>7, <3>8
  <2>8. QED BY <2>6, <2>7
<1>9. n \in 1 .. n /\ ~(n < i)
  OBVIOUS
<1>10. QED BY <1>0, <1>4, <1>5, <1>7, <1>8, <1>9

(* Nothing put together with nothing is nothing.                           *)
LEMMA FlattenNone ==
  ASSUME NEW n \in Nat
  PROVE  FlattenSeq([i \in 1 .. n |-> <<>>]) = <<>>
<1>1. CASE n = 0
  <2>1. [i \in 1 .. n |-> <<>>] = <<>>
    BY <1>1
  <2>2. QED BY <2>1 DEF FlattenSeq
<1>2. CASE n # 0
  <2>1. PICK ss \in Seq(Seq(Nat)) : ss = [i \in 1 .. n |-> <<>>]
    <3>1. PICK SS : SS = Seq(Nat)
      OBVIOUS
    <3>2. [i \in 1 .. n |-> <<>>] \in Seq(SS)
      BY <3>1
    <3>3. QED BY <3>1, <3>2
  <2>2. Len(ss) = n /\ ss # <<>> /\ \A i \in 1 .. n : ss[i] = <<>>
    BY <1>2, <2>1
  <2>3. PICK g : Joins(g, ss, n) /\ FlattenSeq(ss) = g[n]
    BY <2>2, Flattened
  <2>4. PICK T \in SUBSET (1 .. n) : T = {i \in 1 .. n : g[i] # <<>>}
    OBVIOUS
  <2>5. T = {}
    <3> SUFFICES ASSUME T # {} PROVE FALSE
      OBVIOUS
    <3>1. PICK m \in T : \A j \in T : m <= j
      <4>1. T \in SUBSET Nat
        BY <2>4
      <4>2. QED BY <4>1, FirstOf
    <3>2. m \in 1 .. n /\ m \in Nat /\ g[m] # <<>> /\ \A j \in 1 .. n : j < m => g[j] = <<>>
      BY <2>4, <3>1
    <3>3. g[m] = IF m = 1 THEN ss[m] ELSE g[m - 1] \o ss[m]
      BY <2>3, <3>2 DEF Joins
    <3>4. m # 1 => m - 1 \in 1 .. n /\ m - 1 < m
      BY <3>2
    <3>5. <<>> \o <<>> = <<>>
      OBVIOUS
    <3>6. QED BY <2>2, <3>2, <3>3, <3>4, <3>5
  <2>6. n \in 1 .. n
    BY <1>2
  <2>7. QED BY <2>1, <2>3, <2>4, <2>5, <2>6
<1>3. QED BY <1>1, <1>2


(* g adds up the shares of the first entries; Sums is such a function.     *)
Adds(g, list, m) ==
  /\ g = [i \in 0 .. m |-> g[i]]
  /\ g[0] = 0
  /\ \A i \in 1 .. m : g[i] = g[i - 1] + list[i].share

LEMMA AddsExist ==
  ASSUME NEW list, NEW n \in Nat
  PROVE  \E g : Adds(g, list, n)
<1> SUFFICES ASSUME \A g : ~Adds(g, list, n) PROVE FALSE
  OBVIOUS
<1>0. PICK T : T = {k \in 0 .. n : \A g : ~Adds(g, list, k)}
  OBVIOUS
<1>1. PICK m \in T : \A j \in T : m <= j
  <2>1. T \in SUBSET Nat /\ n \in T
    BY <1>0
  <2>2. QED BY <2>1, FirstOf
<1>2. m # 0
  <2>1. PICK g : g = [i \in 0 .. 0 |-> 0]
    OBVIOUS
  <2>2. Adds(g, list, 0)
    BY <2>1 DEF Adds
  <2>3. QED BY <1>0, <1>1, <2>2
<1>3. m \in Nat /\ m - 1 \in 0 .. n /\ ~(m <= m - 1)
  BY <1>0, <1>1, <1>2
<1>4. PICK g : Adds(g, list, m - 1)
  BY <1>0, <1>1, <1>3
<1>5. PICK h : h = [i \in 0 .. m |-> IF i < m THEN g[i] ELSE g[m - 1] + list[m].share]
  OBVIOUS
<1>6. Adds(h, list, m)
  <2>1. h = [i \in 0 .. m |-> h[i]] /\ h[0] = 0
    BY <1>3, <1>4, <1>5, <1>2 DEF Adds
  <2>2. ASSUME NEW i \in 1 .. m PROVE h[i] = h[i - 1] + list[i].share
    <3>1. h[i - 1] = g[i - 1]
      BY <1>3, <1>5
    <3>2. CASE i < m
      <4>1. i \in 1 .. m - 1 /\ h[i] = g[i]
        BY <1>3, <1>5, <3>2
      <4>2. QED BY <1>4, <3>1, <4>1 DEF Adds
    <3>3. CASE i = m
      <4>1. h[m] = g[m - 1] + list[m].share
        BY <1>3, <1>5
      <4>2. QED BY <3>1, <3>3, <4>1
    <3>4. QED BY <1>3, <3>2, <3>3
  <2>3. QED BY <2>1, <2>2 DEF Adds
<1>7. QED BY <1>0, <1>1, <1>6

LEMMA SumsAdd ==
  ASSUME NEW list, NEW n \in Nat, n = Len(list)
  PROVE  Adds(Sums(list), list, n)
<1> DEFINE F(g) == [i \in 0 .. Len(list) |-> IF i = 0 THEN 0 ELSE g[i - 1] + list[i].share]
<1>1. PICK g : Adds(g, list, n)
  BY AddsExist
<1>2. g = F(g)
  <2>1. \A i \in 0 .. n : g[i] = IF i = 0 THEN 0 ELSE g[i - 1] + list[i].share
    <3> SUFFICES ASSUME NEW i \in 0 .. n, i # 0 PROVE g[i] = g[i - 1] + list[i].share
      BY <1>1 DEF Adds
    <3>1. i \in 1 .. n
      OBVIOUS
    <3>2. QED BY <1>1, <3>1 DEF Adds
  <2>2. g = [i \in 0 .. n |-> g[i]]
    BY <1>1 DEF Adds
  <2>3. QED BY <2>1, <2>2
<1>3. PICK f : f = CHOOSE x : x = F(x)
  OBVIOUS
<1>4. f = F(f)
  BY <1>2, <1>3
<1>5. Sums(list) = f
  BY <1>3 DEF Sums
<1>6. Adds(f, list, n)
  BY <1>4 DEF Adds
<1>7. QED BY <1>5, <1>6

(* An entry of a list of shares has a value and a share.                   *)
LEMMA EntryOf ==
  ASSUME NEW list \in Shares, NEW n \in Nat, n = Len(list)
  PROVE  /\ DOMAIN list = 1 .. n
         /\ \A i \in 1 .. n : list[i].value \in Int /\ list[i].share \in Int
<1>1. PICK S : S = [value: Int, share: Int]
  OBVIOUS
<1>2. list \in Seq(S)
  BY <1>1 DEF Shares
<1>3. DOMAIN list = 1 .. n /\ \A i \in 1 .. n : list[i] \in S
  BY <1>2
<1>4. QED BY <1>1, <1>3

(* The sums of shares that are none below 0 grow.                          *)
LEMMA SumsGrow ==
  ASSUME NEW list \in Shares, NEW n \in Nat, n = Len(list), \A i \in 1 .. n : list[i].share \in Nat
  PROVE  \A i \in 0 .. n : Sums(list)[i] \in Nat /\ \A j \in 0 .. i : Sums(list)[j] <= Sums(list)[i]
<1>1. PICK g : g = Sums(list) /\ Adds(g, list, n)
  BY SumsAdd
<1> DEFINE Grown(i) == g[i] \in Nat /\ \A j \in 0 .. i : g[j] <= g[i]
<1>2. PICK T \in SUBSET (0 .. n) : T = {i \in 0 .. n : ~Grown(i)}
  OBVIOUS
<1>3. T = {}
  <2> SUFFICES ASSUME T # {} PROVE FALSE
    OBVIOUS
  <2>1. PICK m \in T : \A j \in T : m <= j
    <3>1. T \in SUBSET Nat
      BY <1>2
    <3>2. QED BY <3>1, FirstOf
  <2>2. m \in 0 .. n /\ m \in Nat /\ ~Grown(m) /\ \A j \in 0 .. n : j < m => Grown(j)
    BY <1>2, <2>1
  <2>3. m # 0
    BY <1>1, <2>2 DEF Adds
  <2>4. g[m] = g[m - 1] + list[m].share /\ m \in 1 .. n /\ m - 1 \in 0 .. n /\ m - 1 < m
    <3>1. m \in 1 .. n /\ m - 1 \in 0 .. n /\ m - 1 < m
      BY <2>2, <2>3
    <3>2. QED BY <1>1, <3>1 DEF Adds
  <2>5. Grown(m - 1)
    BY <2>2, <2>4
  <2>6. g[m] \in Nat /\ g[m - 1] <= g[m]
    BY <2>4, <2>5
  <2>7. \A j \in 0 .. m : g[j] <= g[m]
    <3> SUFFICES ASSUME NEW j \in 0 .. m PROVE g[j] <= g[m]
      OBVIOUS
    <3>1. CASE j = m
      BY <2>6, <3>1
    <3>2. CASE j # m
      <4>1. j \in 0 .. m - 1 /\ j \in 0 .. n /\ j < m
        BY <2>2, <3>2
      <4>2. g[j] <= g[m - 1] /\ g[j] \in Nat /\ g[m - 1] \in Nat
        BY <2>2, <2>5, <4>1
      <4>3. QED BY <2>6, <4>2
    <3>3. QED BY <3>1, <3>2
  <2>8. QED BY <2>2, <2>6, <2>7
<1>4. QED BY <1>1, <1>2, <1>3


(* The slots: each holds the value of the entry whose sums it is between.  *)
LEMMA SlotsAre ==
  ASSUME NEW list \in Shares, NEW n \in Nat, n = Len(list), n # 0, \A i \in 1 .. n : list[i].share \in Nat
  PROVE  /\ Slots(list) \in Seq(Int) /\ Len(Slots(list)) = Sums(list)[n]
         /\ \A k \in 1 .. Sums(list)[n] : \E i \in 1 .. n :
              Slots(list)[k] = list[i].value /\ Sums(list)[i - 1] < k /\ k <= Sums(list)[i]
<1> DEFINE Block(i) == [k \in 1 .. list[i].share |-> list[i].value]
<1>1. DOMAIN list = 1 .. n /\ \A i \in 1 .. n : list[i].value \in Int /\ list[i].share \in Int
  BY EntryOf
<1>2. \A i \in 1 .. n : Block(i) \in Seq(Int) /\ Len(Block(i)) = list[i].share
  BY <1>1
<1>3. PICK ss \in Seq(Seq(Int)) : ss = [i \in DOMAIN list |-> Block(i)]
  <2>1. PICK SS : SS = Seq(Int)
    OBVIOUS
  <2>2. [i \in 1 .. n |-> Block(i)] \in Seq(SS)
    BY <1>2, <2>1
  <2>3. QED BY <1>1, <2>1, <2>2
<1>4. Len(ss) = n /\ ss # <<>> /\ \A i \in 1 .. n : ss[i] = Block(i)
  BY <1>1, <1>3
<1>5. PICK g : Joins(g, ss, n) /\ Slots(list) = g[n]
  <2>1. Slots(list) = FlattenSeq(ss)
    BY <1>3 DEF Slots
  <2>2. QED BY <1>4, <2>1, Flattened
<1>6. \A i \in 1 .. n : g[i] \in Seq(Int)
  BY <1>4, <1>5, JoinsTyped
<1>7. PICK sums : sums = Sums(list) /\ Adds(sums, list, n)
  BY SumsAdd
<1>8. \A i \in 0 .. n : sums[i] \in Nat
  BY <1>7, SumsGrow
<1> DEFINE From(s, k, i) == s[k] = list[i].value /\ sums[i - 1] < k /\ k <= sums[i]
           Laid(m) == Len(g[m]) = sums[m] /\ \A k \in 1 .. sums[m] : \E i \in 1 .. m : From(g[m], k, i)
<1>9. PICK T \in SUBSET (1 .. n) : T = {m \in 1 .. n : ~Laid(m)}
  OBVIOUS
<1>10. T = {}
  <2> SUFFICES ASSUME T # {} PROVE FALSE
    OBVIOUS
  <2>1. PICK m \in T : \A j \in T : m <= j
    <3>1. T \in SUBSET Nat
      BY <1>9
    <3>2. QED BY <3>1, FirstOf
  <2>2. m \in 1 .. n /\ m \in Nat /\ ~Laid(m) /\ \A j \in 1 .. n : j < m => Laid(j)
    BY <1>9, <2>1
  <2>3. g[m] = IF m = 1 THEN ss[m] ELSE g[m - 1] \o ss[m]
    BY <1>5, <2>2 DEF Joins
  <2>4. sums[m] = sums[m - 1] + list[m].share
    BY <1>7, <2>2 DEF Adds
  <2>5. PICK b \in Seq(Int) : b = ss[m] /\ b = Block(m)
    BY <1>2, <1>4, <2>2
  <2>6. PICK more \in Nat : more = list[m].share /\ Len(b) = more /\ \A k \in 1 .. more : b[k] = list[m].value
    BY <1>2, <2>2, <2>5
  <2>7. CASE m = 1
    <3>1. sums[m - 1] = 0 /\ sums[m] = more /\ g[m] = b
      BY <1>7, <2>3, <2>4, <2>5, <2>6, <2>7 DEF Adds
    <3>2. \A k \in 1 .. sums[m] : \E i \in 1 .. m : From(g[m], k, i)
      <4>1. m \in 1 .. m
        BY <2>2
      <4>2. \A k \in 1 .. sums[m] : From(g[m], k, m)
        BY <2>6, <3>1
      <4>3. QED BY <4>1, <4>2
    <3>3. Laid(m)
      <4>1. Len(g[m]) = sums[m]
        BY <2>6, <3>1
      <4>2. QED BY <3>2, <4>1
    <3>4. QED BY <2>2, <3>3
  <2>8. CASE m # 1
    <3>1. m - 1 \in 1 .. n /\ m - 1 < m /\ m - 1 \in 0 .. n
      BY <2>2, <2>8
    <3>2. PICK s \in Seq(Int) : s = g[m - 1]
      BY <1>6, <3>1
    <3>3. PICK c \in Nat : c = sums[m - 1]
      BY <1>8, <3>1
    <3>4. Len(s) = c /\ \A k \in 1 .. c : \E i \in 1 .. m - 1 : From(s, k, i)
      <4>1. Laid(m - 1)
        BY <2>2, <3>1
      <4>2. QED BY <3>2, <3>3, <4>1
    <3>5. g[m] = s \o b /\ sums[m] = c + more
      BY <2>3, <2>4, <2>5, <2>6, <2>8, <3>2, <3>3
    <3>6. /\ Len(s \o b) = c + more
          /\ \A k \in 1 .. c : (s \o b)[k] = s[k]
          /\ \A k \in 1 .. c + more : k > c => (s \o b)[k] = b[k - c] /\ k - c \in 1 .. more
      <4>1. Len(s) = c /\ Len(b) = more
        BY <2>6, <3>4
      <4>2. \A k \in 1 .. c + more : (s \o b)[k] = IF k <= c THEN s[k] ELSE b[k - c]
        BY <4>1, ConcatProperties
      <4>3. Len(s \o b) = c + more
        BY <4>1, ConcatProperties
      <4>4. \A k \in 1 .. c : k \in 1 .. c + more /\ k <= c
        OBVIOUS
      <4>5. \A k \in 1 .. c + more : k > c => ~(k <= c) /\ k - c \in 1 .. more
        OBVIOUS
      <4>6. QED BY <4>2, <4>3, <4>4, <4>5
    <3>7. ASSUME NEW k \in 1 .. c + more PROVE \E i \in 1 .. m : From(s \o b, k, i)
      <4>1. CASE k <= c
        <5>0. k \in 1 .. c
          BY <4>1
        <5>1. PICK i \in 1 .. m - 1 : From(s, k, i)
          BY <3>4, <5>0
        <5>2. (s \o b)[k] = s[k] /\ i \in 1 .. m
          BY <2>2, <3>6, <4>1
        <5>3. QED BY <5>1, <5>2
      <4>2. CASE ~(k <= c)
        <5>1. (s \o b)[k] = list[m].value
          BY <2>6, <3>6, <4>2
        <5>2. From(s \o b, k, m) /\ m \in 1 .. m
          BY <2>2, <3>3, <3>5, <4>2, <5>1
        <5>3. QED BY <5>2
      <4>3. QED BY <4>1, <4>2
    <3>8. Laid(m)
      BY <3>5, <3>6, <3>7
    <3>9. QED BY <2>2, <3>8
  <2>9. QED BY <2>7, <2>8
<1>11. Laid(n)
  <2>1. n \in 1 .. n
    OBVIOUS
  <2>2. QED BY <1>9, <1>10, <2>1
<1>12. QED BY <1>5, <1>6, <1>7, <1>11

(* What a roll draws of a list is the value that has its place among the   *)
(* shares.                                                                 *)
LEMMA DrawnIsShare ==
  ASSUME NEW list \in Shares, NEW roll \in Rolls, NEW bad, NEW other
  PROVE  Share(list, roll, bad, other) = IF Malformed(list) THEN bad ELSE Drawn(list, roll, other)
<1>1. PICK n \in Nat : n = Len(list)
  BY DEF Shares
<1>2. DOMAIN list = 1 .. n /\ \A i \in 1 .. n : list[i].value \in Int /\ list[i].share \in Int
  BY <1>1, EntryOf
<1>3. PICK sums : sums = Sums(list) /\ Adds(sums, list, n)
  BY <1>1, SumsAdd
<1>4. CASE \E i \in DOMAIN list : list[i].share \notin 0 .. Full
  BY <1>4 DEF Share, Malformed
<1>5. CASE ~ \E i \in DOMAIN list : list[i].share \notin 0 .. Full
  <2>1. \A i \in 1 .. n : list[i].share \in Nat
    BY <1>2, <1>5 DEF Full
  <2>2. \A i \in 0 .. n : sums[i] \in Nat /\ \A j \in 0 .. i : sums[j] <= sums[i]
    BY <1>1, <1>3, <2>1, SumsGrow
  <2>3. CASE n = 0
    <3>1. DOMAIN list = {} /\ list = <<>> /\ Slots(list) = <<>>
      <4>1. list = <<>>
        <5>1. PICK S : S = [value: Int, share: Int]
          OBVIOUS
        <5>2. list \in Seq(S)
          BY <5>1 DEF Shares
        <5>3. QED BY <1>1, <2>3, <5>2, EmptySeq
      <4>2. [i \in DOMAIN list |-> [k \in 1 .. list[i].share |-> list[i].value]] = <<>>
        BY <4>1
      <4>3. FlattenSeq(<<>>) = <<>>
        BY DEF FlattenSeq
      <4>4. QED BY <4>1, <4>2, <4>3 DEF Slots
    <3>2. Share(list, roll, bad, other) = other
      BY <1>5, <3>1 DEF Share, Full
    <3>3. ~Malformed(list) /\ Drawn(list, roll, other) = other
      BY <3>1 DEF Malformed, Drawn
    <3>4. QED BY <3>2, <3>3
  <2>4. CASE n # 0
    <3>1. PICK slots \in Seq(Int) :
            /\ slots = Slots(list) /\ Len(slots) = sums[n]
            /\ \A k \in 1 .. sums[n] : \E i \in 1 .. n :
                 slots[k] = list[i].value /\ sums[i - 1] < k /\ k <= sums[i]
      <4>1. /\ Slots(list) \in Seq(Int) /\ Len(Slots(list)) = Sums(list)[n]
            /\ \A k \in 1 .. Sums(list)[n] : \E i \in 1 .. n :
                 Slots(list)[k] = list[i].value /\ Sums(list)[i - 1] < k /\ k <= Sums(list)[i]
        BY <1>1, <2>1, <2>4, SlotsAre
      <4>2. Sums(list) = sums
        BY <1>3
      <4>3. PICK slots \in Seq(Int) : slots = Slots(list)
        BY <4>1
      <4>4. QED BY <4>1, <4>2, <4>3
    <3>2. PICK all \in Nat : all = sums[n]
      BY <2>2
    <3>3. Malformed(list) <=> all > Full
      <4>1. n \in 1 .. n /\ \A i \in 1 .. n : sums[i] <= all /\ sums[i] \in Nat
        BY <2>2, <2>4, <3>2
      <4>2. Malformed(list) <=> \E i \in 1 .. n : sums[i] > Full
        BY <1>2, <1>3, <1>5 DEF Malformed
      <4>3. QED BY <3>2, <4>1, <4>2 DEF Full
    <3>4. CASE all > Full
      BY <1>5, <3>1, <3>2, <3>3, <3>4 DEF Share
    <3>5. CASE ~(all > Full)
      <4>1. PICK hits \in SUBSET (1 .. n) : hits = {i \in 1 .. n : roll <= sums[i]}
        OBVIOUS
      <4>2. Drawn(list, roll, other) =
              IF hits = {} THEN other ELSE list[CHOOSE i \in hits : \A j \in hits : i <= j].value
        BY <1>2, <1>3, <4>1 DEF Drawn
      <4>3. ~Malformed(list) /\ Share(list, roll, bad, other) =
              IF roll = 0 THEN list[1].value ELSE IF roll \in 1 .. all THEN slots[roll] ELSE other
        <5>1. DOMAIN slots = 1 .. all /\ list # <<>>
          BY <1>1, <2>4, <3>1, <3>2
        <5>2. ~Malformed(list) /\ ~(Len(slots) > Full)
          BY <3>1, <3>2, <3>3, <3>5
        <5>3. QED BY <1>5, <3>1, <5>1, <5>2 DEF Share
      <4>4. ASSUME NEW first \in hits, \A j \in hits : first <= j
            PROVE  hits # {} /\ (CHOOSE i \in hits : \A j \in hits : i <= j) = first
        <5>1. \A i \in hits : (\A j \in hits : i <= j) => i = first
          BY <4>1, <4>4
        <5>2. QED BY <4>4, <5>1
      <4>5. CASE roll = 0
        <5>1. 1 \in hits /\ \A j \in hits : 1 <= j
          BY <2>2, <2>4, <4>1, <4>5
        <5>2. Drawn(list, roll, other) = list[1].value
          BY <4>2, <4>4, <5>1
        <5>3. QED BY <4>3, <4>5, <5>2
      <4>6. CASE roll \in 1 .. all
        <5>1. PICK i \in 1 .. n : slots[roll] = list[i].value /\ sums[i - 1] < roll /\ roll <= sums[i]
          BY <3>1, <3>2, <4>6
        <5>2. i \in hits /\ \A j \in hits : i <= j
          <6>1. i \in hits
            BY <4>1, <5>1
          <6>2. ASSUME NEW j \in hits, j < i PROVE FALSE
            <7>1. j \in 0 .. i - 1 /\ i - 1 \in 0 .. n /\ roll <= sums[j] /\ j \in 0 .. n
              BY <4>1, <6>2
            <7>2. sums[j] <= sums[i - 1] /\ sums[j] \in Nat /\ sums[i - 1] \in Nat
              BY <2>2, <7>1
            <7>3. QED BY <4>6, <5>1, <7>1, <7>2
          <6>3. QED BY <4>1, <6>1, <6>2
        <5>3. Drawn(list, roll, other) = list[i].value
          BY <4>2, <4>4, <5>2
        <5>4. QED BY <4>3, <4>6, <5>1, <5>3
      <4>7. CASE roll > all
        <5>1. hits = {}
          <6> SUFFICES ASSUME NEW i \in hits PROVE FALSE
            OBVIOUS
          <6>1. i \in 0 .. n /\ n \in 0 .. n /\ i \in 0 .. n /\ roll <= sums[i]
            BY <4>1
          <6>2. sums[i] <= all /\ sums[i] \in Nat
            BY <2>2, <3>2, <6>1
          <6>3. QED BY <4>7, <6>1, <6>2 DEF Rolls, Full
        <5>2. QED BY <4>2, <4>3, <4>7, <5>1
      <4>8. QED BY <3>2, <4>5, <4>6, <4>7 DEF Rolls, Full
    <3>6. QED BY <3>4, <3>5
  <2>5. QED BY <2>3, <2>4
<1>6. QED BY <1>4, <1>5

-----------------------------------------------------------------------------
(* The echo.                                                               *)

(* What a request asks for, or the default, has lists of shares.           *)
LEMMA ParamsKnown ==
  ASSUME WebInv, NEW h \in Handlers, at[h] # "idle"
  PROVE  Params(h) \in ParamSets
<1>1. req[h] \in Requests /\ conf.defaults \in Seq(ParamSets)
  BY ServersAssumption DEF WebInv
<1>2. req[h].params \in ParamSets /\ (conf.defaults # <<>> => conf.defaults[1] \in ParamSets)
  BY <1>1 DEF Requests
<1>3. QED BY <1>2 DEF Params

(* A list of sizes is one of sizes that are no less than 0.                *)
LEMMA ValidatedKnown ==
  ASSUME NEW list \in Shares
  PROVE  /\ Validated(list) \in Shares
         /\ \A i \in DOMAIN Validated(list) : i \in Nat /\ Validated(list)[i].value \in Nat
<1>1. PICK S : S = [value: Int, share: Int]
  OBVIOUS
<1>2. list \in Seq(S)
  BY <1>1 DEF Shares
<1>3. PICK n \in Nat : n = Len(list) /\ DOMAIN list = 1 .. n
  BY <1>2, LenProperties
<1>4. PICK valid : valid = [i \in 1 .. n |-> [list[i] EXCEPT !.value = ValidatePayloadSize(@)]]
  OBVIOUS
<1>5. ASSUME NEW i \in 1 .. n PROVE valid[i] \in S /\ valid[i].value \in Nat
  <2>1. PICK e \in S : e = list[i]
    BY <1>2, <1>3
  <2>2. valid[i] = [e EXCEPT !.value = ValidatePayloadSize(@)]
    BY <1>4, <2>1
  <2>3. ValidatePayloadSize(e.value) \in Nat
    BY <1>1, <2>1, EchoAssumption DEF ValidatePayloadSize
  <2>4. QED BY <1>1, <2>1, <2>2, <2>3
<1>6. valid \in Seq(S)
  <2>1. valid \in [1 .. n -> S]
    BY <1>4, <1>5
  <2>2. Seq(S) = UNION {[1 .. m -> S] : m \in Nat}
    BY SeqDef
  <2>3. QED BY <2>1, <2>2
<1>7. Validated(list) = valid /\ DOMAIN valid = 1 .. n
  BY <1>3, <1>4 DEF Validated
<1>8. QED BY <1>1, <1>5, <1>6, <1>7 DEF Shares

(* A size that is drawn is none or a natural.                              *)
LEMMA SizeKnown ==
  ASSUME WebInv, NEW h \in Handlers, at[h] # "idle", NEW roll
  PROVE  generateSize(Params(h).size, roll) \in Nat \cup {-1}
<1>1. PICK list \in Shares : list = Params(h).size
  BY ParamsKnown DEF ParamSets
<1>2. PICK valid : valid = Validated(list)
  OBVIOUS
<1>3. \A i \in DOMAIN valid : i \in Nat /\ valid[i].value \in Nat
  BY <1>2, ValidatedKnown
<1>4. Drawn(valid, roll, -1) \in Nat \cup {-1}
  <2>1. PICK hits : hits = {i \in DOMAIN valid : roll <= Sums(valid)[i]}
    OBVIOUS
  <2>2. hits # {} => (CHOOSE i \in hits : \A j \in hits : i <= j) \in hits
    <3>1. hits \in SUBSET Nat
      BY <1>3, <2>1
    <3>2. QED BY <3>1, FirstOf
  <2>3. hits # {} => valid[CHOOSE i \in hits : \A j \in hits : i <= j].value \in Nat
    BY <1>3, <2>1, <2>2
  <2>4. QED BY <2>1, <2>3 DEF Drawn
<1>5. QED BY <1>1, <1>2, <1>4 DEF generateSize

(* What is known of an echo, in terms of its parts: also of whether, and   *)
(* which, a length is asked for.                                           *)
FinalOf(r, status) == IF status \in 100 .. 199 /\ (status = 101 => r.h2) THEN 200 ELSE status

BodiesOf(status, plain, asks) ==
  IF Bodyless(status) THEN {<<>>} ELSE {plain, <<<<"gzip", plain>>>>} \cup IF asks THEN {<<>>} ELSE {}

Answered(r, s, j, asks, n) ==
  /\ s.status = IF j.status \in 100 .. 999 THEN FinalOf(r, j.status) ELSE 0
  /\ \/ s.length \in {-1, Len(s.body)}
     \/ Bodyless(s.status) /\ r.h2
     \/ asks /\ s.length = n

EchoRight(place, r, s, j, held, plain, asks, n) ==
  LET told == j.status \in 100 .. 999
  IN /\ place \in Unwritten =>
          /\ s.status = 0 /\ s.length = -1 /\ s.body = <<>>
          /\ j.writer # NoOne => held = <<>>
     /\ place = "fails" => r.cut
     /\ j.size \in Nat \cup {-1}
     /\ r.to = "echo" /\ ~r.cut /\ place \in {"finish", "put", "done"} =>
          /\ Answered(r, s, j, asks, n)
          /\ place = "finish" /\ j.writer # NoOne => s.length = -1
          /\ told /\ place = "finish" =>
               IF j.writer = NoOne THEN s.body \in BodiesOf(s.status, plain, asks) ELSE held = plain /\ s.body = <<>>
          /\ told /\ place # "finish" => s.body \in BodiesOf(s.status, plain, asks)

LEMMA EchoParts ==
  ASSUME NEW h \in Handlers
  PROVE  EchoKnown(h) <=> EchoRight(at[h], req[h], resp[h], job[h], gz[job[h].writer].held,
                                    PlainOf(h), AsksLength(h), Params(h).length)
BY DEF EchoKnown, EchoRight, Answered, FinalOf, BodiesOf, Told, Final, Informational, LengthRight, Bodies

LEMMA EchoPartsNext ==
  ASSUME NEW h \in Handlers
  PROVE  EchoKnown(h)' <=> EchoRight(at'[h], req'[h], resp'[h], job'[h], gz'[job'[h].writer].held,
                                     PlainOf(h)', AsksLength(h)', Params(h).length')
BY DEF EchoKnown, EchoRight, Answered, FinalOf, BodiesOf, Told, Final, Informational, LengthRight, Bodies

(* These are of the request and the job.                                   *)
LEMMA PartsStay ==
  ASSUME NEW h \in Handlers, conf' = conf, req'[h] = req[h], job'[h] = job[h]
  PROVE  PlainOf(h)' = PlainOf(h) /\ AsksLength(h)' = AsksLength(h) /\ Params(h)' = Params(h)
BY DEF PlainOf, InputOf, AsksLength, Params

(* So it arrives, and so it ends.                                          *)
LEMMA RightArrives ==
  ASSUME NEW r, NEW new, NEW s, NEW j, NEW held, NEW plain, NEW asks, NEW n, NEW plain2, NEW asks2, NEW n2,
         EchoRight("idle", r, s, j, held, plain, asks, n)
  PROVE  EchoRight("arrived", new, s, j, held, plain2, asks2, n2)
<1>1. /\ s.status = 0 /\ s.length = -1 /\ s.body = <<>>
      /\ j.writer # NoOne => held = <<>>
      /\ j.size \in Nat \cup {-1}
  BY DEF EchoRight, Unwritten
<1>2. "arrived" \in Unwritten /\ "arrived" \notin {"fails", "finish", "put", "done"}
  BY DEF Unwritten
<1>3. QED BY <1>1, <1>2 DEF EchoRight

Ending(r, s, j, plain, asks, n) ==
  /\ j.size \in Nat \cup {-1}
  /\ r.to = "echo" /\ ~r.cut =>
       /\ Answered(r, s, j, asks, n)
       /\ j.status \in 100 .. 999 => s.body \in BodiesOf(s.status, plain, asks)

LEMMA RightEnds ==
  ASSUME NEW place \in {"put", "done"}, NEW r, NEW s, NEW j, NEW held, NEW plain, NEW asks, NEW n,
         Ending(r, s, j, plain, asks, n)
  PROVE  EchoRight(place, r, s, j, held, plain, asks, n)
<1>1. place \notin Unwritten /\ place # "fails" /\ place # "finish"
  BY DEF Unwritten
<1>2. QED BY <1>1 DEF EchoRight, Ending

(* What of an answer with this status, length and body is sent.            *)
SentAs(r, s, length, body) ==
  /\ s.length = IF Bodyless(s.status) /\ ~r.h2 THEN -1 ELSE length
  /\ s.body = IF Bodyless(s.status) \/ (length # -1 /\ Len(body) > length /\ ~r.h2) THEN <<>> ELSE body

(* What is sent with no writer is right, by the length that is given.      *)
LEMMA SentRight ==
  ASSUME NEW r, NEW s, NEW j, NEW length \in Int, NEW plain, NEW size \in Nat, Len(plain) = size,
         NEW asks \in BOOLEAN, NEW n, length \in {-1, size} \/ (asks /\ length = n),
         j.status \in 100 .. 999, s.status = FinalOf(r, j.status), SentAs(r, s, length, plain)
  PROVE  Answered(r, s, j, asks, n) /\ s.body \in BodiesOf(s.status, plain, asks)
<1>1. PICK q \in BOOLEAN : q = Bodyless(s.status)
  <2>1. Bodyless(s.status) \in BOOLEAN
    BY DEF Bodyless
  <2>2. QED BY <2>1, Zenon
<1>2. CASE q
  <2>1. s.body = <<>> /\ (~r.h2 => s.length = -1)
    BY <1>1, <1>2 DEF SentAs
  <2>2. QED BY <1>1, <1>2, <2>1 DEF Answered, BodiesOf
<1>3. CASE ~q
  <2>1. s.length = length
    BY <1>1, <1>3 DEF SentAs
  <2>2. CASE length # -1 /\ Len(plain) > length /\ ~r.h2
    <3>1. s.body = <<>> /\ asks /\ s.length = n
      BY <1>1, <1>3, <2>1, <2>2 DEF SentAs
    <3>2. QED BY <1>1, <1>3, <3>1 DEF Answered, BodiesOf
  <2>3. CASE ~(length # -1 /\ Len(plain) > length /\ ~r.h2)
    <3>1. s.body = plain
      BY <1>1, <1>3, <2>3 DEF SentAs
    <3>2. s.length \in {-1, Len(s.body)} \/ (asks /\ s.length = n)
      BY <2>1, <3>1
    <3>3. QED BY <1>1, <1>3, <3>1, <3>2 DEF Answered, BodiesOf
  <2>4. QED BY <2>2, <2>3
<1>4. QED BY <1>2, <1>3

(* The others have what they had, when only writers of the pool, or that of*)
(* the handler itself, change.                                             *)
LEMMA EchoOthers ==
  ASSUME WebInv, WriterInv, EchoInv, NEW h \in Handlers, NEW k \in Kinds, HandlerEffect(h, k),
         \A g \in Handlers : g # h => job'[g] = job[g],
         \A v \in GzipWriters : gz[v].pooled \/ gz[v].to = h \/ gz'[v].held = gz[v].held,
         NEW g \in Handlers, g # h
  PROVE  EchoKnown(g)'
<1>1. /\ at'[g] = at[g] /\ req'[g] = req[g] /\ resp'[g] = resp[g] /\ job'[g] = job[g]
      /\ EchoKnown(g)
  BY DEF HandlerEffect, EchoInv
<1>2. at[g] \in EchoPlaces /\ job[g].writer # NoOne => gz'[job[g].writer].held = gz[job[g].writer].held
  BY DEF WriterInv, WriterOwn
<1>3. at[g] \in Unwritten \cup {"finish"} /\ job[g].writer # NoOne => at[g] \in EchoPlaces
  BY DEF WriterInv, WriterOwn, Unwritten, EchoPlaces
<1>4. at[g] \in Unwritten /\ job[g].writer # NoOne => gz'[job[g].writer].held = gz[job[g].writer].held
  BY <1>2, <1>3
<1>5. at[g] = "finish" /\ job[g].writer # NoOne => gz'[job[g].writer].held = gz[job[g].writer].held
  BY <1>2, <1>3
<1>6. PlainOf(g)' = PlainOf(g) /\ AsksLength(g)' = AsksLength(g) /\ Params(g)' = Params(g)
  BY <1>1, PartsStay DEF HandlerEffect
<1>7. PICK plain, j, held, holds, asks, n :
        /\ plain = PlainOf(g) /\ j = job[g] /\ held = gz[job[g].writer].held /\ holds = gz'[job[g].writer].held
        /\ asks = AsksLength(g) /\ n = Params(g).length
  OBVIOUS
<1>8. EchoRight(at[g], req[g], resp[g], j, held, plain, asks, n)
  BY <1>1, <1>7, EchoParts
<1>9. at[g] \in Unwritten \cup {"finish"} /\ j.writer # NoOne => holds = held
  BY <1>4, <1>5, <1>7
<1>10. EchoRight(at[g], req[g], resp[g], j, holds, plain, asks, n)
  BY <1>8, <1>9 DEF EchoRight
<1>11. QED BY <1>1, <1>6, <1>7, <1>10, EchoPartsNext

(* A step of another kind changes nothing that is known of echoes.         *)
LEMMA EchoAside ==
  ASSUME WebInv, WriterInv, EchoInv, NEW h \in Handlers, NEW k \in Kinds \ {"echo"}, HandlerEffect(h, k),
         UNCHANGED <<gz, job>>
  PROVE  EchoInv'
<1>1. /\ req'[h].to # "echo" /\ at'[h] \notin Unwritten
  BY DEF HandlerEffect, Kinds, TosOf, PlacesOf, Unwritten, FetchPlaces
<1>2. EchoKnown(h)'
  BY <1>1 DEF EchoInv, EchoKnown, Unwritten
<1>3. \A g \in Handlers : g # h => EchoKnown(g)'
  BY EchoOthers
<1>4. QED BY <1>2, <1>3 DEF EchoInv

(* A writer that is taken from the pool is empty.                          *)
LEMMA TakesEffect ==
  ASSUME WriterInv, NEW h \in Handlers, NEW drawn, DOMAIN drawn = JobFields, Takes(h, drawn)
  PROVE  /\ \A g \in Handlers : g # h => job'[g] = job[g]
         /\ \A v \in GzipWriters : gz[v].pooled \/ gz'[v].held = gz[v].held
         /\ job'[h].size = drawn.size /\ job'[h].status = drawn.status
         /\ gz'[job'[h].writer].held = <<>>
<1>1. PICK w \in GzipWriters :
        /\ gz[w].pooled
        /\ gz' = [gz EXCEPT ![w] = [pooled |-> FALSE, to |-> h, held |-> <<>>]]
        /\ job' = [job EXCEPT ![h] = [drawn EXCEPT !.writer = w]]
  BY DEF Takes
<1>2. PICK mine : mine = [drawn EXCEPT !.writer = w]
  OBVIOUS
<1>3. mine.writer = w /\ mine.size = drawn.size /\ mine.status = drawn.status
  BY <1>2 DEF JobFields
<1>4. job'[h] = mine /\ \A g \in Handlers : g # h => job'[g] = job[g]
  BY <1>1, <1>2 DEF WriterInv
<1>5. gz'[w].held = <<>> /\ \A v \in GzipWriters : v # w => gz'[v] = gz[v]
  BY <1>1 DEF WriterInv
<1>6. QED BY <1>1, <1>3, <1>4, <1>5

(* Until it writes, what a handler does is to move on and to draw.         *)
LEMMA EchoUnwritten ==
  ASSUME WebInv, WriterInv, EchoInv, NEW h \in Handlers, EchoStep(h),
         at'[h] \in Unwritten
  PROVE  EchoInv'
<1>1. HandlerEffect(h, "echo") /\ EchoKnown(h)
  BY EchoEffect DEF EchoInv
<1>2. at[h] \in Unwritten \ {"idle", "fails"} /\ ~ReadFails(h) /\ ~EchoWrites(h) /\ ~ClosesWriter(h) /\ ~PutsWriter(h)
  <2>1. ~ReadFails(h) /\ ~EchoWrites(h) /\ ~ClosesWriter(h) /\ ~PutsWriter(h)
    BY ZenonT(60) DEF ReadFails, EchoWrites, ClosesWriter, PutsWriter, Goes, WebInv, Unwritten
  <2>2. QED BY <2>1 DEF EchoStep, DebugReads, EchoArrives, Delays, Awakes, Closes, EchoDraws, Unwritten
<1>3. resp[h].status = 0 /\ resp[h].length = -1 /\ resp[h].body = <<>>
  BY <1>1, <1>2 DEF EchoKnown
<1>4. resp'[h].status = 0 /\ resp'[h].length = -1 /\ resp'[h].body = <<>>
  <2>1. CASE resp' = resp
    BY <1>3, <2>1
  <2>2. CASE Closes(h)
    BY <1>3, <2>2 DEF Closes, WebInv
  <2>3. QED BY <1>2, <2>1, <2>2 DEF EchoStep, DebugReads, EchoArrives, Delays, Awakes, EchoDraws
<1>5. at'[h] = "fails" => req'[h].cut
  BY <1>2 DEF EchoStep, DebugReads, EchoArrives, Delays, Awakes, Closes, EchoDraws, Goes, WebInv
<1>6. /\ \A g \in Handlers : g # h => job'[g] = job[g]
      /\ \A v \in GzipWriters : gz[v].pooled \/ gz[v].to = h \/ gz'[v].held = gz[v].held
      /\ job'[h].writer # NoOne => gz'[job'[h].writer].held = <<>>
      /\ job'[h].size \in Nat \cup {-1}
  <2>1. CASE UNCHANGED echoVars
    BY <1>1, <1>2, <2>1 DEF echoVars, EchoKnown
  <2>2. CASE DebugReads(h) /\ Takes(h, job[h])
    BY <1>1, <2>2, TakesEffect DEF EchoKnown, WriterInv, JobFields
  <2>3. CASE EchoDraws(h)
    <3>1. PICK drawn :
            /\ DOMAIN drawn = JobFields /\ drawn.writer = NoOne
            /\ \E z : drawn.size = generateSize(Params(h).size, z)
            /\ Takes(h, drawn) \/ (job' = [job EXCEPT ![h] = drawn] /\ gz' = gz)
      BY <2>3 DEF EchoDraws, JobFields
    <3>2. drawn.size \in Nat \cup {-1}
      BY <1>2, <3>1, SizeKnown
    <3>3. CASE Takes(h, drawn)
      BY <3>1, <3>2, <3>3, TakesEffect
    <3>4. CASE job' = [job EXCEPT ![h] = drawn] /\ gz' = gz
      <4>1. job'[h] = drawn /\ \A g \in Handlers : g # h => job'[g] = job[g]
        BY <3>4 DEF WriterInv
      <4>2. QED BY <3>1, <3>2, <3>4, <4>1
    <3>5. QED BY <3>1, <3>3, <3>4
  <2>4. QED BY <1>2, <2>1, <2>2, <2>3 DEF EchoStep, DebugReads, EchoArrives, Delays, Awakes, Closes
<1>7. EchoKnown(h)'
  <2>1. at'[h] \notin {"finish", "put", "done"}
    BY DEF Unwritten
  <2>2. QED BY <1>4, <1>5, <1>6, <2>1 DEF EchoKnown
<1>8. \A g \in Handlers : g # h => EchoKnown(g)'
  BY <1>1, <1>6, EchoOthers DEF Kinds
<1>9. QED BY <1>7, <1>8 DEF EchoInv

(* The bodies of echoes are sequences, with their lengths.                 *)
LEMMA BodySeqs ==
  ASSUME WebInv, EchoInv, NEW h \in Handlers, at[h] # "idle"
  PROVE  /\ Len(InputOf(h)) = req[h].body
         /\ \A n \in Nat : Len(Payload(n)) = n
         /\ <<>> \o PlainOf(h) = PlainOf(h) /\ Len(PlainOf(h)) \in Nat
<1>1. req[h].body \in Nat
  BY ServersAssumption DEF WebInv, Requests
<1>2. job[h].size \in Nat \cup {-1}
  BY DEF EchoInv, EchoKnown
<1>3. \A n \in Nat : Len(Payload(n)) = n
  BY DEF Payload
<1>4. Len(InputOf(h)) = req[h].body
  BY <1>1 DEF InputOf
<1>5. \E S : PlainOf(h) \in Seq(S)
  <2>1. CASE job[h].size = -1
    <3>1. InputOf(h) \in Seq({<<"input", h>>})
      BY <1>1 DEF InputOf
    <3>2. QED BY <2>1, <3>1 DEF PlainOf
  <2>2. CASE job[h].size \in Nat
    <3>1. Payload(job[h].size) \in Seq({<<"payload", 0>>})
      BY <2>2 DEF Payload
    <3>2. QED BY <2>2, <3>1 DEF PlainOf
  <2>3. QED BY <1>2, <2>1, <2>2
<1>6. QED BY <1>3, <1>4, <1>5

(* The answer goes to the client, or into the empty writer.                *)
LEMMA RespondsWith ==
  ASSUME WebInv, WriterInv, NEW h \in Handlers, at[h] \in {"write", "fails", "parallel"},
         NEW status, NEW length, NEW body, Responds(h, status, length, body)
  PROVE  /\ resp'[h].status = Final(h, status)
         /\ job[h].writer = NoOne => SentAs(req[h], resp'[h], length, body) /\ gz' = gz
         /\ job[h].writer # NoOne =>
              /\ resp'[h].length = -1 /\ resp'[h].body = resp[h].body
              /\ gz'[job[h].writer].held = gz[job[h].writer].held \o body
         /\ \A v \in GzipWriters : gz[v].to = h \/ gz'[v].held = gz[v].held
<1>1. PICK w : w = job[h].writer
  OBVIOUS
<1>2. w # NoOne => w \in GzipWriters /\ gz[w].to = h
  BY <1>1 DEF WriterInv, WriterOwn, EchoPlaces
<1>3. DOMAIN resp = Handlers /\ DOMAIN resp[h] = Answer /\ DOMAIN gz = GzipWriters
      /\ \A v \in GzipWriters : DOMAIN gz[v] = GzFields
  BY DEF WebInv, WriterInv, Answer, GzFields
<1>4. CASE w = NoOne
  <2>1. PICK final : final = Final(h, status)
    OBVIOUS
  <2>2. PICK sent : sent = Sent(h, final, length, body)
    OBVIOUS
  <2>3. resp'[h] = sent /\ gz' = gz
    BY <1>1, <1>3, <1>4, <2>1, <2>2 DEF Responds
  <2>4. PICK given : given = IF Bodyless(final) /\ ~req[h].h2 THEN -1 ELSE length
    OBVIOUS
  <2>5. PICK gone :
          gone = IF Bodyless(final) \/ (length # -1 /\ Len(body) > length /\ ~req[h].h2) THEN <<>> ELSE body
    OBVIOUS
  <2>6. sent = [resp[h] EXCEPT !.status = final, !.length = given, !.body = gone]
    BY <2>2, <2>4, <2>5 DEF Sent
  <2>7. sent.status = final /\ sent.length = given /\ sent.body = gone
    BY <1>3, <2>6 DEF Answer
  <2>8. SentAs(req[h], resp'[h], length, body)
    BY <2>3, <2>4, <2>5, <2>7 DEF SentAs
  <2>9. QED BY <1>1, <1>4, <2>1, <2>3, <2>7, <2>8
<1>5. CASE w # NoOne
  BY <1>1, <1>2, <1>3, <1>5 DEF Responds, Answer, GzFields
<1>6. QED BY <1>1, <1>4, <1>5

(* The answer is written, to the writer if there is one.                   *)
LEMMA EchoWritesInv ==
  ASSUME WebInv, WriterInv, EchoInv, NEW h \in Handlers, EchoWrites(h)
  PROVE  EchoInv'
<1>1. /\ HandlerEffect(h, "echo") /\ EchoKnown(h) /\ req' = req /\ job' = job
      /\ at[h] = "write" /\ at'[h] = "finish"
  BY EchoEffect DEF EchoStep, EchoInv, EchoWrites, Goes, WebInv
<1>2. PICK w : w = job[h].writer
  OBVIOUS
<1>3. /\ resp[h].status = 0 /\ resp[h].length = -1 /\ resp[h].body = <<>>
      /\ w # NoOne => gz[w].held = <<>>
  BY <1>1, <1>2 DEF EchoKnown, Unwritten
<1>4. (resp' = resp /\ gz' = gz) \/ \E status, length, body : Responds(h, status, length, body)
  BY DEF EchoWrites
<1>5. \A v \in GzipWriters : gz[v].to = h \/ gz'[v].held = gz[v].held
  BY <1>1, <1>4, RespondsWith
<1>6. \A g \in Handlers : g # h => EchoKnown(g)'
  BY <1>1, <1>5, EchoOthers DEF Kinds
<1>7. PlainOf(h)' = PlainOf(h) /\ AsksLength(h)' = AsksLength(h) /\ Params(h)' = Params(h)
  BY <1>1, PartsStay DEF HandlerEffect
<1>0. PICK r, s, j, plain, asks, n :
        /\ r = req[h] /\ s = resp'[h] /\ j = job[h] /\ plain = PlainOf(h)
        /\ asks = AsksLength(h) /\ n = Params(h).length
  OBVIOUS
<1> DEFINE Written ==
             /\ Answered(r, s, j, asks, n)
             /\ w # NoOne => s.length = -1
             /\ j.status \in 100 .. 999 =>
                  IF w = NoOne THEN s.body \in BodiesOf(s.status, plain, asks)
                  ELSE gz'[w].held = plain /\ s.body = <<>>
<1> HIDE DEF Written
<1>8. ASSUME req[h].to = "echo", ~req[h].cut PROVE Written
  <2>1. CASE job[h].status \notin 100 .. 999
    <3>1. resp' = resp
      BY <1>8, <2>1 DEF EchoWrites
    <3>2. s.status = 0 /\ s.length = -1
      BY <1>0, <1>3, <3>1
    <3>3. QED BY <1>0, <2>1, <3>2 DEF Written, Answered
  <2>2. CASE job[h].status \in 100 .. 999
    <3>1. PICK status, final : status = job[h].status /\ final = Final(h, status)
      OBVIOUS
    <3>2. PICK length \in Int :
            /\ Responds(h, status, length, plain)
            /\ length \in {-1, Len(plain)} \/ (asks /\ length = n)
      <4>1. CASE job[h].size \in Nat
        <5>1. PICK size \in Nat : size = job[h].size
          BY <4>1
        <5>2. plain = Payload(size) /\ Len(plain) = size
          BY <1>0, <1>1, <4>1, <5>1, BodySeqs DEF PlainOf
        <5>3. Responds(h, status, size, plain)
          <6>1. Responds(h, job[h].status, job[h].size, Payload(job[h].size))
            BY <1>8, <2>2, <4>1 DEF EchoWrites
          <6>2. QED BY <3>1, <5>1, <5>2, <6>1 DEF Responds
        <5>4. QED BY <5>2, <5>3
      <4>2. CASE job[h].size = -1
        <5>1. plain = InputOf(h) /\ Len(plain) = req[h].body
          BY <1>0, <1>1, <4>2, BodySeqs DEF PlainOf
        <5>2. PICK length : length = LengthOf(h)
          OBVIOUS
        <5>3. Responds(h, status, length, plain)
          <6>1. Responds(h, job[h].status, LengthOf(h), InputOf(h))
            BY <1>8, <2>2, <4>2 DEF EchoWrites
          <6>2. QED BY <3>1, <5>1, <5>2, <6>1 DEF Responds
        <5>4. req[h].body \in Nat /\ n \in Nat \cup {-1}
          BY <1>0, <1>1, ParamsKnown, ServersAssumption DEF WebInv, Requests, ParamSets
        <5>5. n # -1 => asks
          BY <1>0, <4>2 DEF AsksLength
        <5>6. length = IF n # -1 THEN n ELSE IF req[h].length THEN req[h].body ELSE -1
          BY <1>0, <5>2 DEF LengthOf
        <5>7. length \in Int /\ (length \in {-1, Len(plain)} \/ (asks /\ length = n))
          <6>1. CASE n # -1
            BY <5>4, <5>5, <5>6, <6>1
          <6>2. CASE n = -1
            BY <5>1, <5>4, <5>6, <6>2
          <6>3. QED BY <6>1, <6>2
        <5>8. QED BY <5>3, <5>7
      <4>3. QED BY <1>1, <4>1, <4>2 DEF EchoKnown
    <3>3. final = FinalOf(r, j.status) /\ s.status = final
      <4>1. final = FinalOf(r, j.status)
        BY <1>0, <3>1 DEF Final, FinalOf, Informational
      <4>2. resp'[h].status = Final(h, status)
        BY <1>1, <3>2, RespondsWith
      <4>3. QED BY <1>0, <3>1, <4>1, <4>2
    <3>4. Len(plain) \in Nat /\ <<>> \o plain = plain
      BY <1>0, <1>1, BodySeqs
    <3>5. CASE w = NoOne
      <4>1. SentAs(r, s, length, plain)
        <5>1. SentAs(req[h], resp'[h], length, plain)
          BY <1>1, <1>2, <3>2, <3>5, RespondsWith
        <5>2. QED BY <1>0, <5>1
      <4>2. asks \in BOOLEAN /\ j.status \in 100 .. 999
        BY <1>0, <2>2 DEF AsksLength
      <4>3. Answered(r, s, j, asks, n) /\ s.body \in BodiesOf(s.status, plain, asks)
        BY <3>2, <3>3, <3>4, <4>1, <4>2, SentRight
      <4>4. QED BY <3>5, <4>3 DEF Written
    <3>6. CASE w # NoOne
      <4>1. s.length = -1 /\ s.body = resp[h].body /\ gz'[w].held = gz[w].held \o plain
        BY <1>0, <1>1, <1>2, <3>2, <3>6, RespondsWith
      <4>2. s.body = <<>> /\ gz'[w].held = plain
        BY <1>3, <3>4, <3>6, <4>1
      <4>3. Answered(r, s, j, asks, n)
        BY <1>0, <2>2, <3>3, <4>1 DEF Answered
      <4>4. QED BY <3>6, <4>1, <4>2, <4>3 DEF Written
    <3>7. QED BY <3>5, <3>6
  <2>3. QED BY <2>1, <2>2
<1>9. EchoKnown(h)'
  <2>1. "finish" \notin Unwritten \cup {"fails"}
    BY DEF Unwritten
  <2>2. j.size \in Nat \cup {-1}
    BY <1>0, <1>1 DEF EchoKnown
  <2>3. EchoRight("finish", r, s, j, gz'[w].held, plain, asks, n)
    BY <1>0, <1>2, <1>8, <2>1, <2>2 DEF EchoRight, Written
  <2>4. QED BY <1>0, <1>1, <1>2, <1>7, <2>3, EchoPartsNext
<1>10. QED BY <1>6, <1>9 DEF EchoInv

(* A body that cannot be read is answered with an error.                   *)
LEMMA EchoFailsInv ==
  ASSUME WebInv, WriterInv, EchoInv, NEW h \in Handlers, ReadFails(h)
  PROVE  EchoInv'
<1>1. /\ HandlerEffect(h, "echo") /\ EchoKnown(h) /\ req' = req /\ job' = job
      /\ at[h] = "fails" /\ at'[h] = "finish"
  BY EchoEffect DEF EchoStep, EchoInv, ReadFails, Goes, WebInv
<1>2. \A v \in GzipWriters : gz[v].to = h \/ gz'[v].held = gz[v].held
  BY <1>1, RespondsWith DEF ReadFails
<1>3. EchoKnown(h)'
  BY <1>1 DEF EchoKnown, Unwritten
<1>4. \A g \in Handlers : g # h => EchoKnown(g)'
  BY <1>1, <1>2, EchoOthers DEF Kinds
<1>5. QED BY <1>3, <1>4 DEF EchoInv

(* The writer, if there is one, writes what it holds, compressed.          *)
LEMMA EchoClosesInv ==
  ASSUME WebInv, WriterInv, EchoInv, NEW h \in Handlers, ClosesWriter(h)
  PROVE  EchoInv'
<1>1. /\ HandlerEffect(h, "echo") /\ EchoKnown(h) /\ req' = req /\ job' = job
      /\ at[h] = "finish" /\ at'[h] \in {"put", "done"}
  BY EchoEffect DEF EchoStep, EchoInv, ClosesWriter, Goes, WebInv
<1>2. PICK w : w = job[h].writer
  OBVIOUS
<1>3. PlainOf(h)' = PlainOf(h) /\ AsksLength(h)' = AsksLength(h) /\ Params(h)' = Params(h)
  BY <1>1, PartsStay DEF HandlerEffect
<1>4. PICK place, r, s, new, j, held, plain, asks, n :
        /\ place = at'[h] /\ r = req[h] /\ s = resp[h] /\ new = resp'[h] /\ j = job[h] /\ held = gz[w].held
        /\ plain = PlainOf(h) /\ asks = AsksLength(h) /\ n = Params(h).length
  OBVIOUS
<1>5. EchoRight("finish", r, s, j, held, plain, asks, n) /\ w = j.writer /\ place \in {"put", "done"}
  BY <1>1, <1>2, <1>4, EchoParts
<1>6. /\ Ending(r, new, j, plain, asks, n)
      /\ \A v \in GzipWriters : gz[v].to = h \/ gz'[v].held = gz[v].held
  <2>1. CASE w = NoOne
    <3>1. new = s /\ gz' = gz
      BY <1>2, <1>4, <2>1 DEF ClosesWriter
    <3>2. Ending(r, s, j, plain, asks, n)
      BY <1>5, <2>1 DEF EchoRight, Ending
    <3>3. QED BY <3>1, <3>2
  <2>2. CASE w # NoOne
    <3>1. w \in GzipWriters /\ gz[w].to = h
      BY <1>1, <1>2, <2>2 DEF WriterInv, WriterOwn, EchoPlaces
    <3>2. /\ resp' = IF Bodyless(s.status) THEN resp ELSE [resp EXCEPT ![h].body = @ \o <<<<"gzip", held>>>>]
          /\ gz' = [gz EXCEPT ![w].held = <<>>]
      BY <1>2, <1>4, <2>2, <3>1 DEF ClosesWriter
    <3>3. \A v \in GzipWriters : gz[v].to = h \/ gz'[v].held = gz[v].held
      BY <3>1, <3>2 DEF WriterInv
    <3>4. /\ new.status = s.status /\ new.length = s.length
          /\ new.body = IF Bodyless(s.status) THEN s.body ELSE s.body \o <<<<"gzip", held>>>>
      BY <1>4, <3>2 DEF WebInv
    <3>5. <<>> \o <<<<"gzip", held>>>> = <<<<"gzip", held>>>>
      <4>1. PICK x : x = <<"gzip", held>>
        OBVIOUS
      <4>2. <<x>> \in Seq({x})
        OBVIOUS
      <4>3. <<>> \o <<x>> = <<x>>
        BY <4>2
      <4>4. QED BY <4>1, <4>3
    <3>6. ASSUME r.to = "echo", ~r.cut
          PROVE  /\ Answered(r, s, j, asks, n) /\ s.length = -1
                 /\ j.status \in 100 .. 999 => s.body = <<>> /\ held = plain
      BY <1>5, <2>2, <3>6 DEF EchoRight
    <3>7. ASSUME r.to = "echo", ~r.cut
          PROVE  /\ Answered(r, new, j, asks, n)
                 /\ j.status \in 100 .. 999 => new.body \in BodiesOf(new.status, plain, asks)
      <4>1. Answered(r, new, j, asks, n)
        BY <3>4, <3>6, <3>7 DEF Answered
      <4>2. ASSUME j.status \in 100 .. 999
            PROVE  new.body = IF Bodyless(new.status) THEN <<>> ELSE <<<<"gzip", plain>>>>
        BY <3>4, <3>5, <3>6, <3>7, <4>2
      <4>3. QED BY <4>1, <4>2 DEF BodiesOf
    <3>8. j.size \in Nat \cup {-1}
      BY <1>5 DEF EchoRight
    <3>9. Ending(r, new, j, plain, asks, n)
      BY <3>7, <3>8 DEF Ending
    <3>10. QED BY <3>3, <3>9
  <2>3. QED BY <2>1, <2>2
<1>7. EchoRight(place, r, new, j, gz'[w].held, plain, asks, n)
  BY <1>5, <1>6, RightEnds
<1>8. EchoKnown(h)'
  BY <1>1, <1>2, <1>3, <1>4, <1>7, EchoPartsNext
<1>9. \A g \in Handlers : g # h => EchoKnown(g)'
  BY <1>1, <1>6, EchoOthers DEF Kinds
<1>10. QED BY <1>8, <1>9 DEF EchoInv

(* Last, it goes back to the pool.                                         *)
LEMMA EchoPutsInv ==
  ASSUME WebInv, WriterInv, EchoInv, NEW h \in Handlers, PutsWriter(h)
  PROVE  EchoInv'
<1>1. /\ HandlerEffect(h, "echo") /\ EchoKnown(h) /\ UNCHANGED <<req, job, resp>>
      /\ at[h] = "put" /\ at'[h] = "done"
  BY EchoEffect DEF EchoStep, EchoInv, PutsWriter, Goes, WebInv
<1>2. \A v \in GzipWriters : gz'[v].held = gz[v].held
  BY DEF PutsWriter, WriterInv
<1>3. PlainOf(h)' = PlainOf(h) /\ AsksLength(h)' = AsksLength(h) /\ Params(h)' = Params(h)
  BY <1>1, PartsStay DEF HandlerEffect
<1>4. EchoKnown(h)'
  <2>1. PICK r, s, j, held, plain, asks, n :
          /\ r = req[h] /\ s = resp[h] /\ j = job[h] /\ held = gz'[job[h].writer].held
          /\ plain = PlainOf(h) /\ asks = AsksLength(h) /\ n = Params(h).length
    OBVIOUS
  <2>2. Ending(r, s, j, plain, asks, n)
    BY <1>1, <2>1, EchoParts DEF EchoRight, Ending
  <2>3. EchoRight("done", r, s, j, held, plain, asks, n)
    BY <2>2, RightEnds
  <2>4. QED BY <1>1, <1>3, <2>1, <2>3, EchoPartsNext
<1>5. \A g \in Handlers : g # h => EchoKnown(g)'
  BY <1>1, <1>2, EchoOthers DEF Kinds
<1>6. QED BY <1>4, <1>5 DEF EchoInv

(* So each step of an echo keeps what is known of echoes.                  *)
LEMMA EchoByEcho ==
  ASSUME WebInv, WriterInv, EchoInv, NEW h \in Handlers, EchoStep(h)
  PROVE  EchoInv'
<1>1. CASE EchoWrites(h) \/ ReadFails(h) \/ ClosesWriter(h) \/ PutsWriter(h)
  BY <1>1, EchoWritesInv, EchoFailsInv, EchoClosesInv, EchoPutsInv
<1>2. CASE ~(EchoWrites(h) \/ ReadFails(h) \/ ClosesWriter(h) \/ PutsWriter(h))
  <2>1. at'[h] \in Unwritten
    BY <1>2 DEF EchoStep, DebugReads, EchoArrives, Delays, Awakes, Closes, EchoDraws, Goes, WebInv, Unwritten
  <2>2. QED BY <2>1, EchoUnwritten
<1>3. QED BY <1>1, <1>2

-----------------------------------------------------------------------------
(* What an echo drew.                                                      *)

(* What was drawn stays: for the others, when the job stays; when another  *)
(* kind of step is made; and when the echo goes on.                        *)
LEMMA DrawOthers ==
  ASSUME WebInv, DrawInv, NEW h \in Handlers, NEW k \in Kinds, HandlerEffect(h, k),
         NEW g \in Handlers, job'[g] = job[g], g # h \/ (at'[h] \in Drew => at[h] \in Drew) \/ req[h].to # "echo"
  PROVE  DrawKnown(g)'
<1>1. /\ UNCHANGED <<conf, req>> /\ (g # h => at'[g] = at[g]) /\ job'[g] = job[g] /\ Params(g)' = Params(g)
  BY DEF HandlerEffect, Params
<1>2. DrawKnown(g)
  BY DEF DrawInv
<1>3. QED BY <1>1, <1>2 DEF DrawKnown, Drew

LEMMA DrawSame ==
  ASSUME NEW g \in Handlers, DrawKnown(g), conf' = conf, at'[g] = at[g], req'[g] = req[g], job'[g] = job[g]
  PROVE  DrawKnown(g)'
<1>1. Params(g)' = Params(g)
  BY DEF Params
<1>2. QED BY <1>1 DEF DrawKnown

LEMMA DrawAside ==
  ASSUME WebInv, DrawInv, NEW h \in Handlers, NEW k \in Kinds \ {"echo"}, HandlerEffect(h, k), job' = job
  PROVE  DrawInv'
<1>1. req[h].to # "echo"
  BY DEF HandlerEffect, Kinds, TosOf
<1>2. \A g \in Handlers : DrawKnown(g)'
  BY <1>1, DrawOthers
<1>3. QED BY <1>2 DEF DrawInv

(* It is drawn once, from the lists of the request.                        *)
LEMMA DrawByEcho ==
  ASSUME WebInv, WriterInv, DrawInv, NEW h \in Handlers, EchoStep(h)
  PROVE  DrawInv'
<1>1. HandlerEffect(h, "echo") /\ "echo" \in Kinds
  BY EchoEffect DEF Kinds
<1>2. CASE EchoDraws(h)
  <2>1. PICK p : p = Params(h)
    OBVIOUS
  <2> DEFINE What(r, z) ==
        [status |-> generateStatus(p.status, r), size |-> generateSize(p.size, z), writer |-> NoOne, rolls |-> <<r, z>>]
  <2>11. PICK r \in RollsFor(p.status), z \in RollsFor(p.size) :
           Takes(h, What(r, z)) \/ job' = [job EXCEPT ![h] = What(r, z)]
    BY <1>2, <2>1 DEF EchoDraws
  <2>12. PICK drawn : drawn = What(r, z)
    OBVIOUS
  <2>2. /\ drawn = What(r, z)
        /\ Takes(h, drawn) \/ job' = [job EXCEPT ![h] = drawn]
    BY <2>11, <2>12
  <2>3. PICK w : job' = [job EXCEPT ![h] = [drawn EXCEPT !.writer = w]]
    <3>1. CASE Takes(h, drawn)
      BY <3>1 DEF Takes
    <3>2. CASE job' = [job EXCEPT ![h] = drawn]
      <4>1. drawn = [drawn EXCEPT !.writer = NoOne]
        BY <2>2
      <4>2. QED BY <3>2, <4>1
    <3>3. QED BY <2>2, <3>1, <3>2
  <2>4. PICK mine : mine = [drawn EXCEPT !.writer = w]
    OBVIOUS
  <2>5. mine.status = drawn.status /\ mine.size = drawn.size /\ mine.rolls = <<r, z>>
    BY <2>2, <2>4
  <2>6. job'[h] = mine /\ \A g \in Handlers : g # h => job'[g] = job[g]
    BY <2>3, <2>4 DEF WriterInv
  <2>7. Params(h)' = p
    BY <1>1, <2>1 DEF HandlerEffect, Params
  <2>8. DrawKnown(h)'
    BY <2>2, <2>5, <2>6, <2>7 DEF DrawKnown
  <2>9. \A g \in Handlers : g # h => DrawKnown(g)'
    BY <1>1, <2>6, DrawOthers
  <2>10. QED BY <2>8, <2>9 DEF DrawInv
<1>3. CASE DebugReads(h)
  <2>1. req[h].to # "echo" /\ \A g \in Handlers : g # h => job'[g] = job[g]
    <3>1. job' = job \/ \E v : job' = [job EXCEPT ![h] = v]
      BY <1>3 DEF DebugReads, Takes, echoVars
    <3>2. req[h].to # "echo"
      BY <1>3 DEF DebugReads
    <3>3. QED BY <3>1, <3>2 DEF WriterInv
  <2>2. \A g \in Handlers : g # h => DrawKnown(g)'
    BY <1>1, <2>1, DrawOthers, SMTT(60)
  <2>3. DrawKnown(h)'
    BY <1>1, <2>1, SMTT(60) DEF DrawKnown, HandlerEffect
  <2>4. QED BY <2>2, <2>3 DEF DrawInv
<1>4. CASE ~EchoDraws(h) /\ ~DebugReads(h)
  <2>1. job' = job
    BY <1>4, ZenonT(60) DEF EchoStep, EchoArrives, Delays, Awakes, Closes, ReadFails, EchoWrites, ClosesWriter, PutsWriter, echoVars
  <2>2. (at'[h] \in Drew => at[h] \in Drew) \/ req[h].to # "echo"
    BY <1>4, ZenonT(60) DEF EchoStep, EchoArrives, Delays, Awakes, Closes, ReadFails, EchoWrites, ClosesWriter, PutsWriter, Drew,
       Goes, WebInv
  <2>3. \A g \in Handlers : DrawKnown(g)'
    BY <1>1, <2>1, <2>2, DrawOthers
  <2>4. QED BY <2>3, SMTT(60) DEF DrawInv
<1>5. QED BY <1>2, <1>3, <1>4

(* What was drawn is each value for its share of the rolls.                *)
LEMMA DrawnRight ==
  ASSUME WebInv, DrawInv, NEW h \in Handlers, Done(h, "echo")
  PROVE  /\ job[h].status = Share(Params(h).status, job[h].rolls[1], 400, 200)
         /\ job[h].size = Share(Validated(Params(h).size), job[h].rolls[2], -1, -1)
<1>1. at[h] = "done" /\ req[h].to = "echo" /\ DrawKnown(h)
  BY DEF Done, DrawInv
<1>2. PICK statuses \in Shares : statuses = Params(h).status
  BY <1>1, ParamsKnown DEF ParamSets
<1>3. PICK sizes \in Shares : sizes = Params(h).size
  BY <1>1, ParamsKnown DEF ParamSets
<1>4. PICK r \in Rolls : r = job[h].rolls[1]
  BY <1>1, <1>2 DEF DrawKnown, RollsFor, Rolls, Full
<1>5. PICK z \in Rolls : z = job[h].rolls[2]
  BY <1>1, <1>3 DEF DrawKnown, RollsFor, Rolls, Full
<1>6. job[h].status = generateStatus(statuses, r) /\ job[h].size = generateSize(sizes, z)
  BY <1>1, <1>2, <1>3, <1>4, <1>5 DEF DrawKnown
<1>7. generateStatus(statuses, r) = Share(statuses, r, 400, 200)
  <2>1. CASE statuses = <<>>
    <3>1. ~Malformed(<<>>) /\ Drawn(<<>>, r, 200) = 200
      BY DEF Malformed, Drawn
    <3>2. QED BY <2>1, <3>1, DrawnIsShare DEF generateStatus
  <2>2. CASE statuses # <<>>
    BY <2>2, DrawnIsShare DEF generateStatus
  <2>3. QED BY <2>1, <2>2
<1>8. generateSize(sizes, z) = Share(Validated(sizes), z, -1, -1)
  <2>1. PICK valid \in Shares : valid = Validated(sizes)
    BY ValidatedKnown
  <2>2. QED BY <2>1, DrawnIsShare DEF generateSize
<1>9. QED BY <1>2, <1>3, <1>4, <1>5, <1>6, <1>7, <1>8

-----------------------------------------------------------------------------
(* The multi-server.                                                       *)

(* The fields of a tee and the words of the texts it puts together.        *)
TeeFields == {"next", "first", "left", "got", "text"}
Words == {"error", "body"} \X Nat

(* Targets are numbered, and those that can be asked are some of them.     *)
LEMMA TargetsKnown ==
  ASSUME WebInv
  PROVE  \E n \in Nat : Targets = 1 .. n /\ Good \subseteq 1 .. n
<1>1. PICK S : S = [good: BOOLEAN]
  OBVIOUS
<1>2. conf.targets \in Seq(S)
  BY <1>1, ServersAssumption DEF WebInv
<1>3. PICK n \in Nat : DOMAIN conf.targets = 1 .. n
  BY <1>2, LenProperties
<1>4. QED BY <1>3 DEF Targets, Good

(* What a target answers has a code that is not 0 and a text of words.     *)
LEMMA AnswersKnown ==
  ASSUME WebInv
  PROVE  /\ \A i \in Targets : \A a \in AnswersOf(i) :
              a \in TargetAnswers /\ a.code \in {-1, 200, 204, 404} /\ a.text \in Seq(Words)
         /\ NoAnswer \in TargetAnswers
         /\ \A a \in TargetAnswers : /\ a.code \in {-1, 0, 200, 204, 404} /\ a.text \in Seq(Words)
                                     /\ a.code = 0 => a.text = <<>>
<1>1. PICK n \in Nat : Targets = 1 .. n
  BY TargetsKnown
<1>2. ASSUME NEW i \in Targets, NEW a \in AnswersOf(i)
      PROVE  a.code \in {-1, 200, 204, 404} /\ a.text \in Seq(Words)
  <2>1. i \in Nat
    BY <1>1
  <2>2. <<"error", i>> \in Words /\ <<"body", i>> \in Words
    BY <2>1 DEF Words
  <2>3. PICK W : W = Words
    OBVIOUS
  <2>4. <<<<"error", i>>>> \in Seq(W) /\ <<<<"body", i>>>> \in Seq(W) /\ <<>> \in Seq(W)
    BY <2>2, <2>3
  <2>5. \/ a = [code |-> -1, text |-> <<<<"error", i>>>>]
        \/ a = [code |-> 204, text |-> <<>>]
        \/ \E c \in {200, 404}, t \in {<<>>, <<<<"body", i>>>>} : a = [code |-> c, text |-> t]
    BY DEF AnswersOf
  <2>6. CASE a = [code |-> -1, text |-> <<<<"error", i>>>>]
    BY <2>3, <2>4, <2>6
  <2>9. CASE a = [code |-> 204, text |-> <<>>]
    BY <2>3, <2>4, <2>9
  <2>7. ASSUME NEW c \in {200, 404}, NEW t \in {<<>>, <<<<"body", i>>>>}, a = [code |-> c, text |-> t]
        PROVE  a.code \in {-1, 200, 204, 404} /\ a.text \in Seq(Words)
    <3>1. t \in Seq(W)
      BY <2>4
    <3>2. a.code = c /\ a.text = t
      BY <2>7
    <3>3. QED BY <2>3, <3>1, <3>2
  <2>8. QED BY <2>5, <2>6, <2>7, <2>9
<1>3. NoAnswer.code = 0 /\ NoAnswer.text = <<>> /\ NoAnswer.text \in Seq(Words)
  BY DEF NoAnswer
<1>4. \A a \in TargetAnswers : a = NoAnswer \/ \E i \in Targets : a \in AnswersOf(i)
  BY DEF TargetAnswers
<1>5. \A a \in TargetAnswers : a.code \in {-1, 0, 200, 204, 404} /\ a.text \in Seq(Words) /\ (a.code = 0 => a.text = <<>>)
  <2> SUFFICES ASSUME NEW a \in TargetAnswers
               PROVE  a.code \in {-1, 0, 200, 204, 404} /\ a.text \in Seq(Words) /\ (a.code = 0 => a.text = <<>>)
    OBVIOUS
  <2>1. CASE a = NoAnswer
    BY <1>3, <2>1
  <2>2. CASE \E i \in Targets : a \in AnswersOf(i)
    <3>1. a.code \in {-1, 200, 204, 404} /\ a.text \in Seq(Words)
      BY <1>2, <2>2
    <3>2. QED BY <3>1
  <2>3. QED BY <1>4, <2>1, <2>2
<1>6. NoAnswer \in TargetAnswers /\ \A i \in Targets : AnswersOf(i) \subseteq TargetAnswers
  BY DEF TargetAnswers
<1>7. QED BY <1>2, <1>5, <1>6

(* The first of the places gives the status.                               *)
LEMMA FirstGives ==
  ASSUME NEW answers, NEW places \in SUBSET Nat, NEW p \in places, \A j \in places : p <= j
  PROVE  StatusOfFirst(answers, places) = IF answers[p].code <= 0 THEN 503 ELSE answers[p].code
<1>1. \A i \in places : (\A j \in places : i <= j) => i = p
  OBVIOUS
<1>2. (CHOOSE i \in places : \A j \in places : i <= j) = p
  BY <1>1
<1>3. QED BY <1>2 DEF StatusOfFirst

(* What is known of a handler whose parts stay stays.                      *)
LEMMA TeeSame ==
  ASSUME NEW g \in Handlers, TeeKnown(g), conf' = conf,
         at'[g] = at[g], req'[g] = req[g], resp'[g] = resp[g], tee'[g] = tee[g]
  PROVE  TeeKnown(g)'
<1>1. Targets' = Targets /\ Good' = Good
  BY DEF Targets, Good
<1>2. TargetAnswers' = TargetAnswers
  BY <1>1 DEF TargetAnswers, AnswersOf
<1>3. TeeRight(g)' = TeeRight(g)
  BY <1>1 DEF TeeRight
<1>4. QED BY <1>1, <1>2, <1>3 DEF TeeKnown, Done

(* A step changes what one handler has of its targets, or nothing.         *)
LEMMA TeeByHandler ==
  ASSUME WebInv, TeeInv, NEW h \in Handlers, NEW k \in Kinds, HandlerEffect(h, k),
         DOMAIN tee' = Handlers, \A g \in Handlers : g # h => tee'[g] = tee[g],
         DOMAIN tee'[h] = TeeFields, TeeKnown(h)'
  PROVE  TeeInv'
<1>1. ASSUME NEW g \in Handlers, g # h PROVE DOMAIN tee'[g] = TeeFields /\ TeeKnown(g)'
  <2>1. at'[g] = at[g] /\ resp'[g] = resp[g] /\ conf' = conf /\ req' = req /\ tee'[g] = tee[g]
    BY <1>1 DEF HandlerEffect
  <2>2. TeeKnown(g) /\ DOMAIN tee[g] = TeeFields
    BY DEF TeeInv, TeeFields
  <2>3. QED BY <2>1, <2>2, TeeSame
<1>2. QED BY <1>1 DEF TeeInv, TeeFields

LEMMA TeeAside ==
  ASSUME WebInv, TeeInv, NEW h \in Handlers, NEW k \in Kinds \ {"tee"}, HandlerEffect(h, k), tee' = tee
  PROVE  TeeInv'
<1>1. at'[h] \notin {"idle", "arrived", "serial", "parallel"} /\ req'[h].to # "tee"
  BY DEF HandlerEffect, Kinds, TosOf, PlacesOf, EchoPlaces, FetchPlaces
<1>2. TeeKnown(h)'
  BY <1>1 DEF TeeKnown, Done
<1>3. QED BY <1>2, TeeByHandler DEF TeeInv, TeeFields

(* Its request: all is empty.                                              *)
LEMMA TeeBegins ==
  ASSUME WebInv, EchoInv, TeeInv, NEW h \in Handlers, TeeHandler(h), HandlerEffect(h, "tee")
  PROVE  TeeInv'
<1> DEFINE none == [i \in Targets |-> NoAnswer]
           empty == [i \in Targets |-> <<>>]
<1>1. PICK n \in Nat : Targets = 1 .. n /\ Good \subseteq 1 .. n
  BY TargetsKnown
<1>2. PICK t : t = tee[h] /\ DOMAIN t = TeeFields
  BY DEF TeeInv, TeeFields
<1>3. PICK mine : mine = [t EXCEPT !.got = none, !.text = empty, !.left = IF conf.serial THEN {} ELSE Good]
  OBVIOUS
<1>4. tee' = [tee EXCEPT ![h] = mine] /\ at[h] = "arrived"
  BY <1>2, <1>3 DEF TeeHandler
<1>5. /\ DOMAIN mine = TeeFields /\ mine.got = none /\ mine.text = empty /\ mine.next = t.next /\ mine.first = t.first
      /\ mine.left = IF conf.serial THEN {} ELSE Good
  BY <1>2, <1>3 DEF TeeFields
<1>6. t.next = 1 /\ t.first
  BY <1>2, <1>4 DEF TeeInv, TeeKnown
<1>7. /\ DOMAIN tee' = Handlers /\ tee'[h] = mine /\ \A g \in Handlers : g # h => tee'[g] = tee[g]
  BY <1>4 DEF TeeInv
<1>8. conf' = conf /\ req' = req /\ Targets' = Targets /\ Good' = Good
  BY DEF HandlerEffect, Targets, Good
<1>9. TargetAnswers' = TargetAnswers
  BY <1>8 DEF TargetAnswers, AnswersOf
<1>10. /\ none \in [Targets -> TargetAnswers]
       /\ \A i \in Targets : none[i].code = 0
       /\ TextsOf(none) = empty
  <2>1. \A i \in Targets : none[i] = NoAnswer /\ NoAnswer.code = 0 /\ NoAnswer.text = <<>>
    BY DEF NoAnswer
  <2>2. TextsOf(none) = [i \in Targets |-> none[i].text]
    BY DEF TextsOf
  <2>3. QED BY <2>1, <2>2, AnswersKnown
<1>11. FlattenSeq(empty) = <<>>
  BY <1>1, FlattenNone
<1>12. CASE req[h].cut
  <2>1. at'[h] = "done"
    BY <1>12 DEF TeeHandler, Goes, WebInv
  <2>2. TeeKnown(h)'
    BY <1>8, <1>12, <2>1 DEF TeeKnown
  <2>3. QED BY <1>5, <1>7, <2>2, TeeByHandler DEF Kinds
<1>13. CASE ~req[h].cut /\ conf.serial
  <2>1. at'[h] = "serial" /\ resp' = resp
    BY <1>13 DEF TeeHandler, Goes, WebInv
  <2>2. resp[h].body = <<>>
    BY <1>4 DEF EchoInv, EchoKnown, Unwritten
  <2>3. {i \in Targets : none[i].code # 0} = {} /\ {i \in Good : i < 1} = {}
    <3>1. {i \in Targets : none[i].code # 0} = {}
      BY <1>10
    <3>2. \A i \in Good : i \in Nat /\ ~(i < 1)
      BY <1>1
    <3>3. QED BY <3>1, <3>2
  <2>4. TeeKnown(h)'
    <3> HIDE DEF none, empty
    <3>1. {i \in Targets : tee[h].got[i].code # 0}' = {} /\ {i \in Good : i < tee[h].next}' = {}
      BY <1>5, <1>6, <1>7, <1>8, <2>3
    <3>2. resp'[h].body = <<>> /\ FlattenSeq(TextsOf(mine.got)) = <<>>
      BY <1>5, <1>10, <1>11, <2>1, <2>2
    <3>3. PICK m : m = tee'[h] /\ m.next = 1 /\ m.first /\ m.got = none
      BY <1>5, <1>6, <1>7
    <3>4. /\ m.got \in [Targets -> TargetAnswers]
          /\ resp'[h].body = IF Bodyless(resp'[h].status) THEN <<>> ELSE FlattenSeq(TextsOf(m.got))
      BY <1>5, <1>10, <3>2, <3>3
    <3>5. conf'.serial /\ at'[h] = "serial"
      BY <1>8, <1>13, <2>1
    <3>6. {i \in Targets : m.got[i].code # 0} = {} /\ {i \in Good : i < m.next} = {}
      BY <2>3, <3>3
    <3>7. QED BY <1>8, <1>9, <3>3, <3>4, <3>5, <3>6 DEF TeeKnown, Done
  <2>5. QED BY <1>5, <1>7, <2>4, TeeByHandler DEF Kinds
<1>14. CASE ~req[h].cut /\ ~conf.serial
  <2>1. at'[h] = "parallel"
    BY <1>14 DEF TeeHandler, Goes, WebInv
  <2>2. {i \in Targets : none[i].code # 0} = {}
    BY <1>1, <1>10
  <2>3. TeeKnown(h)'
    <3> HIDE DEF none, empty
    <3>1. {i \in Targets : tee[h].got[i].code # 0}' = {} /\ mine.left = Good
      BY <1>5, <1>7, <1>8, <1>14, <2>2
    <3>2. QED BY <1>5, <1>7, <1>8, <1>9, <1>10, <1>14, <2>1, <3>1 DEF TeeKnown, Done
  <2>4. QED BY <1>5, <1>7, <2>3, TeeByHandler DEF Kinds
<1>15. QED BY <1>12, <1>13, <1>14

(* An answer comes to its place.                                           *)
LEMMA GotNext ==
  ASSUME WebInv, NEW got \in [Targets -> TargetAnswers], NEW i \in Targets, NEW a \in AnswersOf(i),
         NEW more \in [Targets -> TargetAnswers], more[i] = a,
         \A j \in Targets : j # i => more[j] = got[j]
  PROVE  /\ \A j \in Targets : more[j].code # 0 <=> got[j].code # 0 \/ j = i
         /\ TextsOf(more) = [TextsOf(got) EXCEPT ![i] = a.text]
<1>1. a.code # 0
  BY AnswersKnown
<1>2. TextsOf(more) = [j \in Targets |-> more[j].text] /\ TextsOf(got) = [j \in Targets |-> got[j].text]
  BY DEF TextsOf
<1>3. TextsOf(more) = [TextsOf(got) EXCEPT ![i] = a.text]
  BY <1>2
<1>4. QED BY <1>1, <1>3

(* The texts are sequences, empty where there is no answer.                *)
LEMMA TextsKnown ==
  ASSUME WebInv, NEW got \in [Targets -> TargetAnswers], NEW n \in Nat, Targets = 1 .. n
  PROVE  /\ TextsOf(got) \in Seq(Seq(Words)) /\ Len(TextsOf(got)) = n
         /\ \A j \in 1 .. n : got[j].code = 0 => TextsOf(got)[j] = <<>>
<1>1. \A j \in 1 .. n : got[j].text \in Seq(Words) /\ (got[j].code = 0 => got[j].text = <<>>)
  BY AnswersKnown
<1>2. PICK W : W = Seq(Words)
  OBVIOUS
<1>3. TextsOf(got) = [j \in 1 .. n |-> got[j].text]
  BY DEF TextsOf
<1>4. [j \in 1 .. n |-> got[j].text] \in Seq(W)
  BY <1>1, <1>2
<1>5. QED BY <1>1, <1>2, <1>3, <1>4

(* With no answer there is no text.                                        *)
LEMMA NoTexts ==
  ASSUME WebInv, NEW got \in [Targets -> TargetAnswers], NEW n \in Nat, Targets = 1 .. n,
         {j \in Targets : got[j].code # 0} = {}
  PROVE  FlattenSeq(TextsOf(got)) = <<>>
<1>1. \A j \in 1 .. n : got[j].code = 0
  OBVIOUS
<1>2. \A j \in 1 .. n : got[j].text = <<>>
  BY <1>1, AnswersKnown
<1>3. TextsOf(got) = [j \in 1 .. n |-> <<>>]
  BY <1>2 DEF TextsOf
<1>4. QED BY <1>3, FlattenNone

(* One after the other.                                                    *)
LEMMA TeeNext ==
  ASSUME WebInv, TeeInv, NEW h \in Handlers, TeeSerial(h), HandlerEffect(h, "tee")
  PROVE  TeeInv'
<1> DEFINE StatusBy(b) == IF ~tee[h].first THEN resp[h].status ELSE IF b.code = -1 THEN 503 ELSE b.code
           BodyBy(b) == IF Bodyless(StatusBy(b)) THEN resp[h].body ELSE resp[h].body \o b.text
<1>1. PICK n \in Nat : Targets = 1 .. n /\ Good \subseteq 1 .. n
  BY TargetsKnown
<1>2. PICK t : t = tee[h] /\ DOMAIN t = TeeFields
  BY DEF TeeInv, TeeFields
<1>3. at[h] = "serial" /\ at' = at /\ t.next \in Good
  BY <1>2 DEF TeeSerial
<1>4. TeeKnown(h)
  BY DEF TeeInv
<1>5. PICK i \in 1 .. n : i = t.next /\ i \in Good
  BY <1>1, <1>3
<1>6. PICK got \in [Targets -> TargetAnswers] : got = t.got
  BY <1>2, <1>3, <1>4 DEF TeeKnown
<1>7. PICK asked : asked = {j \in Targets : got[j].code # 0}
  OBVIOUS
<1>8. /\ conf.serial /\ asked = {j \in Good : j < i}
      /\ t.first <=> asked = {}
      /\ resp[h].body = IF Bodyless(resp[h].status) THEN <<>> ELSE FlattenSeq(TextsOf(got))
      /\ ~t.first => resp[h].status = StatusOfFirst(got, asked)
  BY <1>2, <1>3, <1>4, <1>5, <1>6, <1>7 DEF TeeKnown
<1>9. PICK a \in AnswersOf(i) :
        /\ tee' = [tee EXCEPT ![h].next = i + 1, ![h].first = FALSE, ![h].got[i] = a]
        /\ resp' = [resp EXCEPT ![h].status = StatusBy(a), ![h].body = BodyBy(a)]
  BY <1>2, <1>5 DEF TeeSerial
<1>25. PICK status, body : status = StatusBy(a) /\ body = BodyBy(a)
  OBVIOUS
<1>10. PICK gets : gets = [got EXCEPT ![i] = a]
  OBVIOUS
<1>11. PICK mine : mine = [t EXCEPT !.next = i + 1, !.first = FALSE, !.got = gets]
  OBVIOUS
<1>12. DOMAIN mine = TeeFields /\ mine.next = i + 1 /\ mine.first = FALSE /\ mine.got = gets
  BY <1>2, <1>11 DEF TeeFields
<1>13. tee' = [tee EXCEPT ![h] = mine]
  BY <1>2, <1>6, <1>9, <1>10, <1>11 DEF TeeFields
<1>14. DOMAIN tee' = Handlers /\ tee'[h] = mine /\ \A g \in Handlers : g # h => tee'[g] = tee[g]
  BY <1>13 DEF TeeInv
<1>15. conf' = conf /\ Targets' = Targets /\ Good' = Good
  BY DEF HandlerEffect, Targets, Good
<1>16. TargetAnswers' = TargetAnswers
  BY <1>15 DEF TargetAnswers, AnswersOf
<1>17. /\ gets \in [Targets -> TargetAnswers]
       /\ {j \in Targets : gets[j].code # 0} = asked \cup {i}
       /\ TextsOf(gets) = [TextsOf(got) EXCEPT ![i] = a.text]
       /\ gets[i] = a /\ \A j \in Targets : j # i => gets[j] = got[j]
  <2>1. i \in Targets /\ a \in AnswersOf(i) /\ a \in TargetAnswers
    BY <1>1, <1>9, AnswersKnown
  <2>2. gets \in [Targets -> TargetAnswers] /\ gets[i] = a /\ \A j \in Targets : j # i => gets[j] = got[j]
    BY <1>10, <2>1
  <2>3. /\ \A j \in Targets : gets[j].code # 0 <=> got[j].code # 0 \/ j = i
        /\ TextsOf(gets) = [TextsOf(got) EXCEPT ![i] = a.text]
    BY <2>1, <2>2, GotNext
  <2>4. {j \in Targets : gets[j].code # 0} = asked \cup {i}
    BY <1>7, <2>1, <2>3
  <2>5. QED BY <2>2, <2>3, <2>4
<1>18. a.code \in {-1, 200, 204, 404} /\ a.text \in Seq(Words)
  BY <1>1, AnswersKnown
<1>19. asked \cup {i} = {j \in Good : j < i + 1}
  <2>1. \A j \in Good : j \in Nat /\ (j < i + 1 <=> j < i \/ j = i)
    BY <1>1
  <2>2. \A j \in asked : j \in Good /\ j < i
    BY <1>8
  <2>3. \A j \in Good : j < i => j \in asked
    BY <1>8
  <2>4. ASSUME NEW j PROVE j \in asked \cup {i} <=> j \in Good /\ j < i + 1
    BY <1>5, <2>1, <2>2, <2>3
  <2>5. QED BY <2>4
<1>20. /\ resp'[h].status = status /\ resp'[h].body = body
       /\ status = IF ~t.first THEN resp[h].status ELSE IF a.code = -1 THEN 503 ELSE a.code
       /\ body = IF Bodyless(status) THEN resp[h].body ELSE resp[h].body \o a.text
  <2>1. resp' = [resp EXCEPT ![h].status = status, ![h].body = body]
    BY <1>9, <1>25
  <2>2. resp'[h].status = status /\ resp'[h].body = body
    BY <2>1 DEF WebInv
  <2>3. QED BY <1>2, <1>25, <2>2
<1>26. asked = {} => FlattenSeq(TextsOf(got)) = <<>>
  BY <1>1, <1>7, NoTexts
<1>21. resp'[h].body = IF Bodyless(resp'[h].status) THEN <<>> ELSE FlattenSeq(TextsOf(gets))
  <2>1. PICK texts \in Seq(Seq(Words)) : texts = TextsOf(got) /\ Len(texts) = n
                                         /\ \A j \in 1 .. n : got[j].code = 0 => texts[j] = <<>>
    BY <1>1, TextsKnown
  <2>2. \A j \in 1 .. n : j >= i => texts[j] = <<>>
    <3> SUFFICES ASSUME NEW j \in 1 .. n, j >= i PROVE texts[j] = <<>>
      OBVIOUS
    <3>1. j \notin asked
      BY <1>8
    <3>2. QED BY <1>1, <1>7, <2>1, <3>1
  <2>3. PICK more \in Seq(Seq(Words)) : more = TextsOf(gets) /\ Len(more) = n
    BY <1>1, <1>17, TextsKnown
  <2>4. more[i] = a.text /\ \A j \in 1 .. n : j # i => more[j] = texts[j]
    <3>1. DOMAIN TextsOf(got) = 1 .. n
      BY <1>1 DEF TextsOf
    <3>2. QED BY <1>17, <2>1, <2>3, <3>1
  <2>5. FlattenSeq(more) = FlattenSeq(texts) \o a.text
    <3>1. n \in Nat /\ i \in 1 .. n
      OBVIOUS
    <3>2. Filled(Words, texts, more, n, i)
      BY <1>18, <2>1, <2>2, <2>3, <2>4, <3>1 DEF Filled
    <3>3. FlattenSeq(more) = FlattenSeq(texts) \o more[i]
      BY <3>2, FlattenNext
    <3>4. QED BY <2>4, <3>3
  <2>6. FlattenSeq(TextsOf(gets)) = FlattenSeq(TextsOf(got)) \o a.text
    BY <2>1, <2>3, <2>5
  <2>7. CASE asked = {}
    <3>1. resp[h].body = <<>> /\ FlattenSeq(TextsOf(got)) = <<>>
      BY <1>8, <1>26, <2>7
    <3>2. QED BY <1>20, <2>6, <3>1
  <2>8. CASE asked # {}
    <3>1. status = resp[h].status
      BY <1>8, <1>20, <2>8
    <3>2. QED BY <1>8, <1>20, <2>6, <3>1
  <2>9. QED BY <2>7, <2>8
<1>22. resp'[h].status = StatusOfFirst(gets, asked \cup {i})
  <2>1. asked \in SUBSET Nat /\ \A j \in asked : j < i /\ j \in Targets
    BY <1>1, <1>7, <1>8
  <2>2. PICK places \in SUBSET Nat : places = asked \cup {i}
    <3>1. i \in Nat
      OBVIOUS
    <3>2. asked \cup {i} \in SUBSET Nat
      BY <2>1, <3>1
    <3>3. QED BY <3>2
  <2>3. CASE asked = {}
    <3>1. i \in places /\ \A j \in places : i <= j
      BY <2>2, <2>3
    <3>2. StatusOfFirst(gets, places) = IF gets[i].code <= 0 THEN 503 ELSE gets[i].code
      BY <3>1, FirstGives
    <3>3. QED BY <1>8, <1>17, <1>18, <1>20, <2>2, <2>3, <3>2
  <2>4. CASE asked # {}
    <3>1. PICK p \in asked : \A j \in asked : p <= j
      BY <2>1, <2>4, FirstOf
    <3>2. p \in Nat /\ p < i /\ p \in places /\ \A j \in places : p <= j
      BY <2>1, <2>2, <3>1
    <3>3. StatusOfFirst(gets, places) = IF gets[p].code <= 0 THEN 503 ELSE gets[p].code
      BY <3>2, FirstGives
    <3>4. StatusOfFirst(got, asked) = IF got[p].code <= 0 THEN 503 ELSE got[p].code
      BY <2>1, <3>1, FirstGives
    <3>5. gets[p] = got[p]
      BY <1>17, <2>1, <3>1
    <3>6. QED BY <1>8, <1>20, <2>2, <2>4, <3>3, <3>4, <3>5
  <2>5. QED BY <2>3, <2>4
<1>23. TeeKnown(h)'
  <2>1. PICK m : m = tee'[h] /\ m.next = i + 1 /\ m.first = FALSE /\ m.got = gets
    BY <1>12, <1>14
  <2>2. /\ m.got \in [Targets -> TargetAnswers]
        /\ {j \in Targets : m.got[j].code # 0} = asked \cup {i}
        /\ {j \in Good : j < m.next} = asked \cup {i}
        /\ resp'[h].body = IF Bodyless(resp'[h].status) THEN <<>> ELSE FlattenSeq(TextsOf(m.got))
        /\ resp'[h].status = StatusOfFirst(m.got, asked \cup {i})
        /\ m.next \in Nat \ {0} /\ asked \cup {i} # {}
    <3>1. m.got \in [Targets -> TargetAnswers] /\ {j \in Targets : m.got[j].code # 0} = asked \cup {i}
      BY <1>17, <2>1
    <3>2. {j \in Good : j < m.next} = asked \cup {i}
      BY <1>19, <2>1
    <3>3. /\ resp'[h].body = IF Bodyless(resp'[h].status) THEN <<>> ELSE FlattenSeq(TextsOf(m.got))
          /\ resp'[h].status = StatusOfFirst(m.got, asked \cup {i})
      BY <1>21, <1>22, <2>1
    <3>4. m.next \in Nat \ {0} /\ asked \cup {i} # {}
      BY <2>1
    <3>5. QED BY <3>1, <3>2, <3>3, <3>4
  <2>3. conf'.serial /\ at'[h] = "serial"
    BY <1>3, <1>8, <1>15
  <2>4. QED BY <1>15, <1>16, <2>1, <2>2, <2>3 DEF TeeKnown, Done
<1>24. QED BY <1>12, <1>14, <1>23, TeeByHandler DEF Kinds

(* It skips a target that cannot be asked, and ends after the last.        *)
LEMMA TeeSkips ==
  ASSUME WebInv, TeeInv, NEW h \in Handlers, TeeSerialSkips(h), HandlerEffect(h, "tee")
  PROVE  TeeInv'
<1>1. PICK n \in Nat : Targets = 1 .. n /\ Good \subseteq 1 .. n
  BY TargetsKnown
<1>2. PICK t : t = tee[h] /\ DOMAIN t = TeeFields
  BY DEF TeeInv, TeeFields
<1>3. at[h] = "serial" /\ t.next \notin Good
  BY <1>2 DEF TeeSerialSkips
<1>4. TeeKnown(h)
  BY DEF TeeInv
<1>5. PICK got \in [Targets -> TargetAnswers] : got = t.got
  BY <1>2, <1>3, <1>4 DEF TeeKnown
<1>6. PICK i \in Nat \ {0} : i = t.next
  BY <1>2, <1>3, <1>4 DEF TeeKnown
<1>7. PICK asked : asked = {j \in Targets : got[j].code # 0}
  OBVIOUS
<1>8. /\ conf.serial /\ asked = {j \in Good : j < i}
      /\ t.first <=> asked = {}
      /\ resp[h].body = IF Bodyless(resp[h].status) THEN <<>> ELSE FlattenSeq(TextsOf(got))
      /\ ~t.first => resp[h].status = StatusOfFirst(got, asked)
  BY <1>2, <1>3, <1>4, <1>5, <1>6, <1>7 DEF TeeKnown
<1>9. conf' = conf /\ Targets' = Targets /\ Good' = Good
  BY DEF HandlerEffect, Targets, Good
<1>10. TargetAnswers' = TargetAnswers
  BY <1>9 DEF TargetAnswers, AnswersOf
<1>11. CASE i \in Targets
  <2>1. tee' = [tee EXCEPT ![h].next = i + 1] /\ UNCHANGED <<at, resp>>
    BY <1>2, <1>6, <1>11 DEF TeeSerialSkips
  <2>2. PICK mine : mine = [t EXCEPT !.next = i + 1]
    OBVIOUS
  <2>3. DOMAIN mine = TeeFields /\ mine.next = i + 1 /\ mine.first = t.first /\ mine.got = got
    BY <1>2, <1>5, <2>2 DEF TeeFields
  <2>4. DOMAIN tee' = Handlers /\ tee'[h] = mine /\ \A g \in Handlers : g # h => tee'[g] = tee[g]
    BY <1>2, <2>1, <2>2 DEF TeeInv
  <2>5. {j \in Good : j < i + 1} = asked
    <3>1. \A j \in Good : j \in Nat /\ j # i
      BY <1>1, <1>3, <1>6
    <3>2. QED BY <1>8, <3>1
  <2>6. TeeKnown(h)'
    <3>1. PICK m : m = tee'[h] /\ m.next = i + 1 /\ m.first = t.first /\ m.got = got
      BY <2>3, <2>4
    <3>2. /\ {j \in Targets : m.got[j].code # 0} = asked /\ {j \in Good : j < m.next} = asked
          /\ m.next \in Nat \ {0}
      BY <1>7, <2>5, <3>1
    <3>3. conf'.serial /\ at'[h] = "serial" /\ resp'[h] = resp[h]
      BY <1>3, <1>8, <1>9, <2>1
    <3>4. QED BY <1>8, <1>9, <1>10, <3>1, <3>2, <3>3 DEF TeeKnown, Done
  <2>7. QED BY <2>3, <2>4, <2>6, TeeByHandler DEF Kinds
<1>12. CASE i \notin Targets
  <2>1. /\ at'[h] = "done" /\ tee' = tee
        /\ resp'[h].body = resp[h].body
        /\ resp'[h].status = IF t.first THEN 200 ELSE resp[h].status
    BY <1>2, <1>6, <1>12 DEF TeeSerialSkips, Goes, WebInv
  <2>2. asked = Good
    <3>1. \A j \in Good : j \in Nat /\ j < i
      BY <1>1, <1>12
    <3>2. QED BY <1>8, <3>1
  <2>3. TeeRight(h)'
    <3>1. tee'[h].got = got /\ conf'.serial
      BY <1>2, <1>5, <1>8, <1>9, <2>1
    <3>2. {j \in Targets : got[j].code # IF conf'.serial THEN 0 ELSE 200} = asked
      BY <1>7, <3>1
    <3>3. resp'[h].status = IF asked = {} THEN 200 ELSE StatusOfFirst(got, asked)
      BY <1>8, <2>1
    <3>5. asked = {} => FlattenSeq(TextsOf(got)) = <<>>
      BY <1>1, <1>7, NoTexts
    <3>6. resp'[h].body = IF Bodyless(resp'[h].status) THEN <<>> ELSE FlattenSeq(TextsOf(got))
      <4>1. CASE asked = {}
        BY <1>8, <2>1, <3>5, <4>1
      <4>2. CASE asked # {}
        BY <1>8, <2>1, <4>2
      <4>3. QED BY <4>1, <4>2
    <3>4. QED BY <1>7, <1>8, <1>9, <2>1, <2>2, <3>1, <3>2, <3>3, <3>6 DEF TeeRight
  <2>4. TeeKnown(h)'
    BY <2>1, <2>3 DEF TeeKnown
  <2>5. QED BY <1>2, <2>1, <2>4, TeeByHandler DEF Kinds, TeeInv
<1>13. QED BY <1>11, <1>12

(* All at once.                                                            *)
LEMMA TeeGets ==
  ASSUME WebInv, TeeInv, NEW h \in Handlers, NEW i \in Targets, SingleRequest(h, i), HandlerEffect(h, "tee")
  PROVE  TeeInv'
<1>1. PICK t : t = tee[h] /\ DOMAIN t = TeeFields
  BY DEF TeeInv, TeeFields
<1>2. at[h] = "parallel" /\ UNCHANGED <<conf, at, resp>> /\ i \in t.left
  BY <1>1 DEF SingleRequest, webVars
<1>3. TeeKnown(h)
  BY DEF TeeInv
<1>4. PICK got \in [Targets -> TargetAnswers] : got = t.got
  BY <1>1, <1>2, <1>3 DEF TeeKnown
<1>5. PICK asked : asked = {j \in Targets : got[j].code # 0}
  OBVIOUS
<1>6. ~conf.serial /\ t.left \subseteq Good /\ asked = Good \ t.left /\ t.text = TextsOf(got)
  BY <1>1, <1>2, <1>3, <1>4, <1>5 DEF TeeKnown
<1>7. PICK a \in AnswersOf(i) :
        tee' = [tee EXCEPT ![h].left = @ \ {i}, ![h].got[i] = a, ![h].text[i] = a.text]
  BY DEF SingleRequest
<1>8. PICK gets : gets = [got EXCEPT ![i] = a]
  OBVIOUS
<1>9. /\ gets \in [Targets -> TargetAnswers]
      /\ {j \in Targets : gets[j].code # 0} = asked \cup {i}
      /\ TextsOf(gets) = [TextsOf(got) EXCEPT ![i] = a.text]
  <2>1. a \in TargetAnswers
    BY <1>7, AnswersKnown
  <2>2. gets \in [Targets -> TargetAnswers] /\ gets[i] = a /\ \A j \in Targets : j # i => gets[j] = got[j]
    BY <1>8, <2>1
  <2>3. /\ \A j \in Targets : gets[j].code # 0 <=> got[j].code # 0 \/ j = i
        /\ TextsOf(gets) = [TextsOf(got) EXCEPT ![i] = a.text]
    BY <1>7, <2>2, GotNext
  <2>4. {j \in Targets : gets[j].code # 0} = asked \cup {i}
    BY <1>5, <2>3
  <2>5. QED BY <2>2, <2>3, <2>4
<1>10. PICK mine : mine = [t EXCEPT !.left = t.left \ {i}, !.got = gets, !.text = [t.text EXCEPT ![i] = a.text]]
  OBVIOUS
<1>11. DOMAIN mine = TeeFields /\ mine.left = t.left \ {i} /\ mine.got = gets /\ mine.text = TextsOf(gets)
  BY <1>1, <1>6, <1>9, <1>10 DEF TeeFields
<1>12. tee' = [tee EXCEPT ![h] = mine]
  BY <1>1, <1>4, <1>7, <1>8, <1>10 DEF TeeFields
<1>13. DOMAIN tee' = Handlers /\ tee'[h] = mine /\ \A g \in Handlers : g # h => tee'[g] = tee[g]
  BY <1>12 DEF TeeInv
<1>14. Targets' = Targets /\ Good' = Good /\ TargetAnswers' = TargetAnswers
  <2>1. Targets' = Targets /\ Good' = Good
    BY <1>2 DEF Targets, Good
  <2>2. QED BY <2>1 DEF TargetAnswers, AnswersOf
<1>15. asked \cup {i} = Good \ (t.left \ {i}) /\ t.left \ {i} \subseteq Good
  BY <1>2, <1>6
<1>16. TeeKnown(h)'
  <2>1. PICK m : m = tee'[h] /\ m.left = t.left \ {i} /\ m.got = gets /\ m.text = TextsOf(gets)
    BY <1>11, <1>13
  <2>2. /\ {j \in Targets : m.got[j].code # 0} = Good \ m.left /\ m.left \subseteq Good
        /\ m.got \in [Targets -> TargetAnswers] /\ m.text = TextsOf(m.got)
    BY <1>9, <1>15, <2>1
  <2>3. ~conf'.serial /\ at'[h] = "parallel"
    BY <1>2, <1>6
  <2>4. QED BY <1>14, <2>1, <2>2, <2>3 DEF TeeKnown, Done
<1>17. QED BY <1>11, <1>13, <1>16, TeeByHandler DEF Kinds

(* When none is left the answer is written.                                *)
LEMMA TeeAnswers ==
  ASSUME WebInv, WriterInv, TeeInv, NEW h \in Handlers, TeeParallel(h), HandlerEffect(h, "tee")
  PROVE  TeeInv'
<1>1. PICK n \in Nat : Targets = 1 .. n /\ Good \subseteq 1 .. n
  BY TargetsKnown
<1>2. PICK t : t = tee[h] /\ DOMAIN t = TeeFields
  BY DEF TeeInv, TeeFields
<1>3. at[h] = "parallel" /\ tee' = tee /\ t.left = {} /\ at'[h] = "done" /\ TeeKnown(h)
  BY <1>2 DEF TeeParallel, forwardVars, Goes, WebInv, TeeInv
<1>4. PICK got \in [Targets -> TargetAnswers] : got = t.got
  BY <1>2, <1>3 DEF TeeKnown
<1>5. ~conf.serial /\ {j \in Targets : got[j].code # 0} = Good /\ t.text = TextsOf(got)
  BY <1>2, <1>3, <1>4 DEF TeeKnown
<1>6. conf' = conf /\ Targets' = Targets /\ Good' = Good
  BY DEF HandlerEffect, Targets, Good
<1> DEFINE bad == {i \in Targets : tee[h].got[i].code # 200}
           code == IF bad = {} THEN 200 ELSE tee[h].got[CHOOSE i \in bad : \A j \in bad : i <= j].code
<1>7. Responds(h, IF code <= 0 THEN 503 ELSE code, -1, FlattenSeq(tee[h].text))
  BY DEF TeeParallel
<1>8. bad # {} => StatusOfFirst(tee[h].got, bad) = IF code <= 0 THEN 503 ELSE code
  BY DEF StatusOfFirst
<1> HIDE DEF code
<1>9. bad = {} => code = 200
  BY DEF code
<1> HIDE DEF bad
<1>10. job[h].writer = NoOne
  BY <1>3 DEF WriterInv, WriterOwn, EchoPlaces
<1>16. PICK status, text : status = (IF code <= 0 THEN 503 ELSE code) /\ text = FlattenSeq(tee[h].text)
  OBVIOUS
<1>17. status \in {200, 204, 404, 503}
  <2>1. code \in {-1, 0, 200, 204, 404}
    <3>1. CASE bad = {}
      BY <1>9, <3>1
    <3>2. CASE bad # {}
      <4>1. bad \in SUBSET Nat /\ bad \subseteq Targets
        BY <1>1 DEF bad
      <4>2. PICK p \in bad : \A j \in bad : p <= j
        BY <3>2, <4>1, FirstOf
      <4>3. StatusOfFirst(tee[h].got, bad) = IF tee[h].got[p].code <= 0 THEN 503 ELSE tee[h].got[p].code
        BY <4>1, <4>2, FirstGives
      <4>4. (CHOOSE i \in bad : \A j \in bad : i <= j) = p
        <5>1. \A i \in bad : (\A j \in bad : i <= j) => i = p
          BY <4>1, <4>2
        <5>2. QED BY <4>2, <5>1
      <4>5. code = got[p].code
        BY <1>2, <1>4, <3>2, <4>4 DEF code
      <4>6. QED BY <4>1, <4>2, <4>5, AnswersKnown
    <3>3. QED BY <3>1, <3>2
  <2>2. QED BY <1>16, <2>1
<1>18. Final(h, status) = status
  BY <1>17 DEF Final, Informational
<1>19. Responds(h, status, -1, text)
  BY <1>7, <1>16 DEF Responds
<1>11. /\ resp'[h].status = status
       /\ resp'[h].body = IF Bodyless(status) THEN <<>> ELSE text
  <2>1. resp'[h].status = status /\ SentAs(req[h], resp'[h], -1, text)
    BY <1>3, <1>10, <1>18, <1>19, RespondsWith
  <2>2. QED BY <2>1 DEF SentAs
<1>12. resp'[h].status = IF bad = {} THEN 200 ELSE StatusOfFirst(got, bad)
  BY <1>2, <1>4, <1>8, <1>9, <1>11, <1>16
<1>13. TeeRight(h)'
  <2>1. tee'[h].got = got /\ ~conf'.serial
    BY <1>2, <1>3, <1>4, <1>5, <1>6
  <2>2. PICK telling : telling = {j \in Targets : got[j].code # 200}
    OBVIOUS
  <2>3. telling = bad
    BY <1>2, <1>4, <2>2 DEF bad
  <2>4. {j \in Targets : got[j].code # IF conf'.serial THEN 0 ELSE 200} = telling
    BY <2>1, <2>2
  <2>5. resp'[h].body = IF Bodyless(resp'[h].status) THEN <<>> ELSE FlattenSeq(TextsOf(got))
    BY <1>2, <1>5, <1>11, <1>16
  <2>6. resp'[h].status = IF telling = {} THEN 200 ELSE StatusOfFirst(got, telling)
    BY <1>12, <2>3
  <2>7. DOMAIN tee'[h].got = Targets' /\ {i \in Targets' : tee'[h].got[i].code # 0} = Good'
    BY <1>5, <1>6, <2>1
  <2>8. {i \in Targets' : tee'[h].got[i].code # IF conf'.serial THEN 0 ELSE 200} = telling
    BY <1>6, <2>1, <2>4
  <2>9. /\ resp'[h].body = IF Bodyless(resp'[h].status) THEN <<>> ELSE FlattenSeq(TextsOf(tee'[h].got))
        /\ resp'[h].status = IF telling = {} THEN 200 ELSE StatusOfFirst(tee'[h].got, telling)
    BY <2>1, <2>5, <2>6
  <2>10. QED BY <2>7, <2>8, <2>9 DEF TeeRight
<1>14. TeeKnown(h)'
  BY <1>3, <1>13 DEF TeeKnown
<1>15. QED BY <1>2, <1>3, <1>14, TeeByHandler, SMTT(60) DEF Kinds, TeeInv

(* So each step of a forwarder keeps what is known of tees.                *)
LEMMA TeeByForward ==
  ASSUME WebInv, WriterInv, EchoInv, TeeInv, NEW h \in Handlers, ForwardStep(h)
  PROVE  TeeInv'
<1>1. PICK k \in {"tee", "fetch", "fetch2"} : HandlerEffect(h, k)
  BY ForwardEffect
<1>2. req[h].to \in TosOf[k]
  BY <1>1 DEF HandlerEffect
<1>3. CASE TeeHandler(h) \/ TeeSerial(h) \/ TeeSerialSkips(h) \/ TeeParallel(h) \/ \E i \in Targets : SingleRequest(h, i)
  <2>1. req[h].to = "tee"
    BY <1>3 DEF TeeHandler, TeeSerial, TeeSerialSkips, TeeParallel, SingleRequest, WebInv, Placed
  <2>2. HandlerEffect(h, "tee")
    BY <1>1, <1>2, <2>1 DEF TosOf
  <2>3. QED BY <1>3, <2>2, TeeBegins, TeeNext, TeeSkips, TeeAnswers, TeeGets, SMTT(60)
<1>4. CASE FetcherHandler2(h) \/ SetsTimeout(h) \/ SetsTransport(h) \/ DoReadsTimeout(h) \/ DoSends(h) \/ DoReturns(h)
           \/ FetcherHandler(h) \/ Fetches(h)
  <2>1. tee' = tee
    BY <1>4 DEF FetcherHandler2, SetsTimeout, SetsTransport, DoReadsTimeout, DoSends, DoReturns, FetcherHandler,
       Fetches, forwardVars
  <2>2. req[h].to \in {"fetch", "fetch2"}
    BY <1>4 DEF FetcherHandler2, SetsTimeout, SetsTransport, DoReadsTimeout, DoSends, DoReturns, FetcherHandler, Fetches,
       WebInv, Placed, Fetching
  <2>3. k # "tee"
    BY <1>2, <2>2 DEF TosOf
  <2>4. QED BY <1>1, <2>1, <2>3, TeeAside DEF Kinds
<1>5. QED BY <1>3, <1>4 DEF ForwardStep

-----------------------------------------------------------------------------
(* The fetches.                                                            *)

(* The fields of what a fetch used.                                        *)
UsedFields == {"timeout", "transport", "alone"}

(* Handlers that do not fetch leave the shared client as it is.            *)
LEMMA FetchAside ==
  ASSUME WebInv, FetchInv, NEW h \in Handlers, NEW k \in Kinds \ {"fetch2"}, HandlerEffect(h, k),
         UNCHANGED <<proxy, used>>
  PROVE  FetchInv'
<1>1. /\ \A g \in Handlers : g # h => at'[g] = at[g]
      /\ UNCHANGED <<conf, req>> /\ req[h].to # "fetch2"
      /\ at[h] \notin FetchPlaces /\ at'[h] \notin FetchPlaces
  BY DEF HandlerEffect, Kinds, TosOf, PlacesOf, EchoPlaces, FetchPlaces
<1>2. \A g \in Handlers : FetchedOwn(g)'
  BY <1>1 DEF FetchInv, FetchedOwn, Done
<1>3. \A g \in Handlers : FetchAlone(g)'
  BY <1>1 DEF FetchInv, FetchAlone, Fetching, FetchPlaces
<1>4. QED BY <1>2, <1>3 DEF FetchInv

(* The step of a handler that leaves alone who fetches alone.              *)
LEMMA FetchByStage ==
  ASSUME WebInv, FetchInv, NEW h \in Handlers, Fetching(h), HandlerEffect(h, "fetch2"),
         DOMAIN proxy' = {"timeout", "transport"}, DOMAIN used' = Handlers, DOMAIN used'[h] = UsedFields,
         used'[h].alone = used[h].alone, \A g \in Handlers : g # h => used'[g] = used[g],
         FetchAlone(h)', FetchedOwn(h)'
  PROVE  FetchInv'
<1>1. \A g \in Handlers : g # h => at'[g] = at[g] /\ req'[g] = req[g]
  BY DEF HandlerEffect
<1>2. ASSUME NEW g \in Handlers, g # h PROVE FetchAlone(g)' /\ FetchedOwn(g)'
  BY <1>1, <1>2 DEF FetchInv, FetchAlone, FetchedOwn, Done, Fetching
<1>3. QED BY <1>2 DEF FetchInv, UsedFields

(* A fetch begins, alone or not.                                           *)
LEMMA FetchBegins ==
  ASSUME WebInv, FetchInv, NEW h \in Handlers, FetcherHandler2(h), HandlerEffect(h, "fetch2")
  PROVE  FetchInv'
<1>1. \A g \in Handlers : g # h => at'[g] = at[g]
  BY DEF HandlerEffect
<1>2. CASE ~req[h].good
  <2>1. at'[h] = "done" /\ UNCHANGED <<req, proxy, used>> /\ at[h] = "arrived"
    BY <1>2 DEF FetcherHandler2, Goes, WebInv
  <2>2. \A g \in Handlers : FetchedOwn(g)'
    BY <1>1, <1>2, <2>1 DEF FetchInv, FetchedOwn, Done
  <2>3. \A g \in Handlers : FetchAlone(g)'
    BY <1>1, <2>1 DEF FetchInv, FetchAlone, Fetching
  <2>4. QED BY <2>1, <2>2, <2>3 DEF FetchInv
<1>3. CASE req[h].good
  <2> DEFINE others == {g \in Handlers \ {h} : Fetching(g)}
  <2>1. /\ at'[h] = "timeout" /\ UNCHANGED <<req, proxy>> /\ at[h] = "arrived"
        /\ used' = [g \in Handlers |->
                      IF g \in others \/ (g = h /\ others # {}) THEN [used[g] EXCEPT !.alone = FALSE] ELSE used[g]]
    BY <1>3 DEF FetcherHandler2, Goes, WebInv
  <2>2. ASSUME NEW g \in Handlers
        PROVE  /\ DOMAIN used'[g] = UsedFields
               /\ used'[g].timeout = used[g].timeout /\ used'[g].transport = used[g].transport
               /\ used'[g].alone => used[g].alone
               /\ g \in others => ~used'[g].alone
               /\ g = h /\ others # {} => ~used'[g].alone
    BY <2>1 DEF FetchInv, UsedFields
  <2>3. \A g \in Handlers : FetchedOwn(g)'
    BY <1>1, <2>1, <2>2 DEF FetchInv, FetchedOwn, Done
  <2>4. \A g \in Handlers : FetchAlone(g)'
    BY <1>1, <2>1, <2>2 DEF FetchInv, FetchAlone, Fetching
  <2>5. QED BY <2>1, <2>2, <2>3, <2>4 DEF FetchInv, UsedFields
<1>4. QED BY <1>2, <1>3

(* It sets its options, reads them, and is sent.                           *)
LEMMA FetchGoesOn ==
  ASSUME WebInv, FetchInv, NEW h \in Handlers, ForwardStep(h), HandlerEffect(h, "fetch2"), ~FetcherHandler2(h)
  PROVE  FetchInv'
<1>0. DOMAIN used = Handlers /\ DOMAIN used[h] = UsedFields /\ DOMAIN proxy = {"timeout", "transport"}
  BY DEF FetchInv, UsedFields
<1>1. /\ \A g \in Handlers : g # h => at'[g] = at[g]
      /\ req[h].to = "fetch2" /\ req' = req
  BY DEF HandlerEffect, TosOf
<1>2. CASE SetsTimeout(h)
  <2>1. Fetching(h) /\ at'[h] = "transport" /\ used' = used /\ proxy' = [proxy EXCEPT !.timeout = h]
    BY <1>2 DEF SetsTimeout, Goes, Fetching, WebInv
  <2>2. DOMAIN proxy' = {"timeout", "transport"} /\ proxy'.timeout = h
    BY <1>0, <2>1
  <2>3. FetchAlone(h)' /\ FetchedOwn(h)'
    BY <1>1, <2>1, <2>2 DEF FetchInv, FetchAlone, FetchedOwn, Done, Fetching
  <2>4. QED BY <1>0, <2>1, <2>2, <2>3, FetchByStage
<1>3. CASE SetsTransport(h)
  <2>1. /\ Fetching(h) /\ at[h] = "transport" /\ at'[h] = "do" /\ used' = used
        /\ proxy' = [proxy EXCEPT !.transport = h]
    BY <1>3 DEF SetsTransport, Goes, Fetching, WebInv
  <2>2. DOMAIN proxy' = {"timeout", "transport"} /\ proxy'.transport = h /\ proxy'.timeout = proxy.timeout
    BY <1>0, <2>1
  <2>3. FetchAlone(h)' /\ FetchedOwn(h)'
    BY <1>1, <2>1, <2>2 DEF FetchInv, FetchAlone, FetchedOwn, Done, Fetching
  <2>4. QED BY <1>0, <2>1, <2>2, <2>3, FetchByStage
<1>4. CASE DoReadsTimeout(h)
  <2>1. /\ Fetching(h) /\ at[h] = "do" /\ at'[h] = "send" /\ proxy' = proxy
        /\ used' = [used EXCEPT ![h].timeout = proxy.timeout]
    BY <1>4 DEF DoReadsTimeout, Goes, Fetching, WebInv
  <2>2. /\ DOMAIN used' = Handlers /\ DOMAIN used'[h] = UsedFields /\ used'[h].timeout = proxy.timeout
        /\ used'[h].transport = used[h].transport /\ used'[h].alone = used[h].alone
        /\ \A g \in Handlers : g # h => used'[g] = used[g]
    BY <1>0, <2>1 DEF UsedFields
  <2>3. FetchAlone(h)' /\ FetchedOwn(h)'
    BY <1>1, <2>1, <2>2 DEF FetchInv, FetchAlone, FetchedOwn, Done, Fetching
  <2>4. QED BY <1>0, <2>1, <2>2, <2>3, FetchByStage
<1>5. CASE DoSends(h)
  <2>1. /\ Fetching(h) /\ at[h] = "send" /\ at'[h] = "sent" /\ proxy' = proxy
        /\ used' = [used EXCEPT ![h].transport = proxy.transport]
    BY <1>5 DEF DoSends, Goes, Fetching, WebInv
  <2>2. /\ DOMAIN used' = Handlers /\ DOMAIN used'[h] = UsedFields /\ used'[h].transport = proxy.transport
        /\ used'[h].timeout = used[h].timeout /\ used'[h].alone = used[h].alone
        /\ \A g \in Handlers : g # h => used'[g] = used[g]
    BY <1>0, <2>1 DEF UsedFields
  <2>3. FetchAlone(h)' /\ FetchedOwn(h)'
    BY <1>1, <2>1, <2>2 DEF FetchInv, FetchAlone, FetchedOwn, Done, Fetching
  <2>4. QED BY <1>0, <2>1, <2>2, <2>3, FetchByStage
<1>6. CASE DoReturns(h)
  <2>1. Fetching(h) /\ at[h] = "sent" /\ at'[h] = "done" /\ proxy' = proxy /\ used' = used
    BY <1>6 DEF DoReturns, Goes, Fetching, WebInv
  <2>2. FetchAlone(h)' /\ FetchedOwn(h)'
    BY <1>1, <2>1 DEF FetchInv, FetchAlone, FetchedOwn, Done, Fetching
  <2>3. QED BY <1>0, <2>1, <2>2, FetchByStage
<1>7. at[h] \notin {"serial", "parallel", "fetch"} /\ (at[h] = "arrived" => FetcherHandler2(h))
  <2>1. at[h] \notin {"serial", "parallel", "fetch"}
    BY <1>1 DEF WebInv, Placed
  <2>2. at[h] # "arrived"
    BY <1>1, <2>1 DEF ForwardStep, TeeHandler, TeeSerial, TeeSerialSkips, TeeParallel, SingleRequest,
       SetsTimeout, SetsTransport, DoReadsTimeout, DoSends, DoReturns, FetcherHandler, Fetches
  <2>3. QED BY <2>1, <2>2
<1>8. QED BY <1>1, <1>2, <1>3, <1>4, <1>5, <1>6, <1>7
          DEF ForwardStep, TeeHandler, TeeSerial, TeeSerialSkips, TeeParallel, SingleRequest, FetcherHandler, Fetches

(* So each step of a forwarder keeps what is known of fetches.             *)
LEMMA FetchByForward ==
  ASSUME WebInv, FetchInv, NEW h \in Handlers, ForwardStep(h)
  PROVE  FetchInv'
BY ForwardEffect, FetchAside, FetchBegins, FetchGoesOn DEF Kinds

-----------------------------------------------------------------------------
(* The list of the results: the name before which there are k others is at *)
(* place k + 1.                                                            *)

(* Finitely many savers have created finitely many files, so those after a *)
(* given one can be counted and the list by rank has each of them.         *)
LEMMA PresentFinite ==
  ASSUME WebInv
  PROVE  /\ Present \subseteq Names /\ Names \subseteq Nat /\ IsFiniteSet(Present)
         /\ Cardinality(Present) \in Nat
         /\ \A s \in Savers : conf.names[s] \in Names
<1>1. conf.names \in [Savers -> Nat] /\ IsFiniteSet(Savers)
  BY ServersAssumption DEF WebInv
<1>2. conf.names \in Surjection(Savers, Names) /\ Names \subseteq Nat
  BY <1>1 DEF Surjection, Names
<1>3. IsFiniteSet(Names)
  BY <1>1, <1>2, FS_Surjection
<1>4. Present \in SUBSET Names
  BY DEF Present
<1>5. QED BY <1>1, <1>2, <1>3, <1>4, FS_Subset, FS_CardinalityType DEF Names

LEMMA NewerCounts ==
  ASSUME WebInv, NEW f \in Present
  PROVE  /\ Cardinality(Newer(f)) \in 0 .. Cardinality(Present) - 1
         /\ \A g \in Present : Cardinality(Newer(g)) = Cardinality(Newer(f)) => g = f
<1>1. \A g \in Present : /\ Newer(g) \in SUBSET Present /\ IsFiniteSet(Newer(g))
                         /\ Cardinality(Newer(g)) \in Nat /\ Cardinality(Newer(g)) <= Cardinality(Present)
                         /\ Cardinality(Newer(g)) = Cardinality(Present) => Newer(g) = Present
  <2> SUFFICES ASSUME NEW g \in Present
               PROVE  /\ Newer(g) \in SUBSET Present /\ IsFiniteSet(Newer(g))
                      /\ Cardinality(Newer(g)) \in Nat /\ Cardinality(Newer(g)) <= Cardinality(Present)
                      /\ Cardinality(Newer(g)) = Cardinality(Present) => Newer(g) = Present
    OBVIOUS
  <2>1. Newer(g) \in SUBSET Present
    BY DEF Newer
  <2>2. QED BY <2>1, PresentFinite, FS_Subset, FS_CardinalityType
<1>2. \A g \in Present : g \in Nat /\ g \notin Newer(g)
  BY PresentFinite DEF Newer
<1>3. ASSUME NEW g \in Present, NEW e \in Present, g > e
      PROVE  Cardinality(Newer(g)) # Cardinality(Newer(e))
  <2>1. Newer(g) \in SUBSET Newer(e) /\ g \in Newer(e)
    BY <1>2, <1>3 DEF Newer
  <2>2. Newer(g) # Newer(e)
    BY <1>2, <2>1
  <2>3. QED BY <1>1, <2>1, <2>2, FS_Subset
<1>4. Cardinality(Newer(f)) # Cardinality(Present)
  BY <1>1, <1>2
<1>5. Cardinality(Newer(f)) \in 0 .. Cardinality(Present) - 1
  BY <1>1, <1>4, PresentFinite
<1>6. ASSUME NEW g \in Present, Cardinality(Newer(g)) = Cardinality(Newer(f)) PROVE g = f
  BY <1>2, <1>3, <1>6
<1>7. QED BY <1>5, <1>6

LEMMA ListIsPresent ==
  ASSUME WebInv
  PROVE  DataList \in Seq(Names) /\ ToSet(DataList) = Present
<1> DEFINE n == Cardinality(Present)
           R(k) == CHOOSE f \in Present : Cardinality(Newer(f)) = k - 1
<1>1. n \in Nat /\ IsFiniteSet(Present) /\ Present \subseteq Names
  BY PresentFinite
<1>2. PICK rank : rank = [f \in Present |-> Cardinality(Newer(f)) + 1]
  OBVIOUS
<1>3. rank \in [Present -> 1 .. n]
  BY <1>1, <1>2, NewerCounts
<1>4. \A f, g \in Present : rank[f] = rank[g] => f = g
  <2>1. \A f \in Present : rank[f] = Cardinality(Newer(f)) + 1 /\ Cardinality(Newer(f)) \in Int
    BY <1>2, NewerCounts
  <2>2. \A f, g \in Present : rank[f] = rank[g] => Cardinality(Newer(f)) = Cardinality(Newer(g))
    BY <2>1
  <2>3. QED BY <2>2, NewerCounts
<1>5. rank \in Injection(Present, 1 .. n)
  BY <1>3, <1>4 DEF Injection, IsInjective
<1>6. IsFiniteSet(1 .. n) /\ Cardinality(1 .. n) = n
  <2>1. IsFiniteSet(1 .. n) /\ Cardinality(1 .. n) = IF 1 > n THEN 0 ELSE n - 1 + 1
    BY <1>1, FS_Interval
  <2>2. QED BY <1>1, <2>1
<1>7. rank \in Surjection(Present, 1 .. n)
  BY <1>5, <1>6, FS_Injection
<1>8. ASSUME NEW k \in 1 .. n
      PROVE  R(k) \in Present /\ rank[R(k)] = k
  <2>1. \E f \in Present : rank[f] = k
    BY <1>7 DEF Surjection
  <2>2. PICK f \in Present : rank[f] = k
    BY <2>1
  <2>3. Cardinality(Newer(f)) = k - 1
    BY <1>2, <2>2, NewerCounts
  <2>4. R(k) \in Present /\ Cardinality(Newer(R(k))) = k - 1
    BY <2>3
  <2>5. QED BY <1>2, <2>4
<1>9. DataList = [k \in 1 .. n |-> R(k)]
  BY DEF DataList
<1> HIDE DEF n, R
<1>10. DataList \in [1 .. n -> Names] /\ DOMAIN DataList = 1 .. n
  BY <1>1, <1>8, <1>9
<1>11. DataList \in Seq(Names)
  BY <1>1, <1>10
<1>12. ASSUME NEW f \in Present PROVE \E k \in 1 .. n : DataList[k] = f
  <2>1. rank[f] \in 1 .. n
    BY <1>3
  <2>2. R(rank[f]) = f
    BY <1>4, <1>8, <2>1
  <2>3. QED BY <1>9, <2>1, <2>2
<1>13. \A k \in 1 .. n : DataList[k] \in Present
  BY <1>8, <1>9
<1>14. QED BY <1>10, <1>11, <1>12, <1>13 DEF ToSet

-----------------------------------------------------------------------------
(* The index.                                                              *)

(* What a handler has of an index it makes.                                *)
IxFields == [time: Nat, seen: SUBSET Names, todo: Seq(Names), rows: Seq(Rows)]

(* Rows that cover the files do so still when files only come.             *)
LEMMA CoversStays ==
  ASSUME NEW rows, NEW t, NEW rest, UNCHANGED <<conf, files>>, Covers(rows, t, rest)
  PROVE  Covers(rows, t, rest)'
BY DEF Covers, Present, Names

(* What a saver does: files come with a time of their own, none goes.      *)
Grows ==
  /\ Present \subseteq Present' /\ dir <= dir'
  /\ \A f \in Present : files'[f].born = files[f].born
  /\ \A f \in Present' \ Present : files'[f].born >= dir

(* So what is known of every index stays when the files grow.              *)
LEMMA IndexGrows ==
  ASSUME IndexInv, UNCHANGED <<webVars, cache, ix>>, DataTypeOK', Grows,
         \A f \in Names : FileKnown(f)',
         \A s \in Savers : saves'[s] = "writing" => conf.names[s] \in Present'
  PROVE  IndexInv'
<1>1. /\ dir \in Nat /\ dir' \in Nat /\ Names' = Names /\ conf' = conf
      /\ \A f \in Names : files[f].born \in Nat /\ files'[f].born \in Nat
      /\ cache.time \in Int /\ cache.time <= dir
      /\ \A h \in Handlers : ix[h].time \in Nat
      /\ Present \subseteq Names /\ Present' \subseteq Names
  <2>1. Names' = Names /\ conf' = conf
    BY DEF webVars, Names
  <2>2. Present \subseteq Names /\ Present' \subseteq Names
    BY <2>1 DEF Present
  <2>3. \A f \in Names : files[f].born \in Nat /\ files'[f].born \in Nat
    BY <2>1 DEF IndexInv, DataTypeOK
  <2>4. cache.time \in Int /\ cache.time <= dir /\ dir \in Nat /\ dir' \in Nat
    BY DEF IndexInv, DataTypeOK
  <2>5. \A h \in Handlers : ix[h].time \in Nat
    BY DEF IndexInv, DataTypeOK
  <2>6. QED BY <2>1, <2>2, <2>3, <2>4, <2>5
<1>2. ASSUME NEW rows, NEW t \in Int, NEW rest, t <= dir, Covers(rows, t, rest)
      PROVE  Covers(rows, t, rest)'
  BY <1>1, <1>2 DEF Covers, Grows
<1>3. cache'.time <= dir' /\ Covers(cache.rows, cache.time, {})'
  <2>1. Covers(cache.rows, cache.time, {})
    BY DEF IndexInv
  <2>2. PICK t \in Int : t = cache.time
    BY <1>1
  <2>5. PICK rows : rows = cache.rows
    OBVIOUS
  <2>3. Covers(rows, t, {})'
    BY <1>1, <1>2, <2>1, <2>2, <2>5
  <2>4. QED BY <1>1, <2>2, <2>3, <2>5 DEF Grows, Covers
<1>4. ASSUME NEW h \in Handlers PROVE IndexKnown(h)'
  <2>1. UNCHANGED <<at, req, resp, ix>> /\ IndexKnown(h)
    BY DEF webVars, IndexInv
  <2>2. ASSUME at[h] \in {"locks", "reads"} \/ Indexed(h)
        PROVE  /\ ix[h].time <= dir'
               /\ \A f \in ix[h].seen : f \in Present' /\ files'[f].born <= ix[h].time
    BY <1>1, <2>1, <2>2 DEF IndexKnown, Grows
  <2>3. at[h] = "reads" =>
          ToSet(ix[h].todo) \subseteq Present' /\ Covers(ix[h].rows, ix[h].time, ToSet(ix[h].todo))'
    <3> HAVE at[h] = "reads"
    <3>0. PICK t \in Int : t = ix[h].time
      BY <1>1
    <3>1. PICK rows, rest : rows = ix[h].rows /\ rest = ToSet(ix[h].todo)
      OBVIOUS
    <3>2. Covers(rows, t, rest)'
      BY <1>2, <2>1, <3>0, <3>1 DEF IndexKnown
    <3>3. QED BY <2>1, <3>0, <3>1, <3>2 DEF IndexKnown, Grows, Covers, ToSet
  <2>4. Indexed(h) => Covers(resp[h].body, ix[h].time, {})'
    <3> HAVE Indexed(h)
    <3>0. PICK t \in Int : t = ix[h].time
      BY <1>1
    <3>1. PICK rows : rows = resp[h].body
      OBVIOUS
    <3>2. Covers(rows, t, {})'
      BY <1>2, <2>1, <3>0, <3>1 DEF IndexKnown
    <3>3. QED BY <2>1, <3>0, <3>1, <3>2 DEF Covers
  <2>5. Indexed(h)' = Indexed(h)
    BY <2>1 DEF Indexed, Done
  <2>6. QED BY <2>1, <2>2, <2>3, <2>4, <2>5 DEF IndexKnown
<1>5. QED BY <1>1, <1>3, <1>4 DEF IndexInv

(* Time passes; a file is created, written, or its saving fails.           *)
LEMMA IndexPasses == ASSUME WebInv, IndexInv, Passes, UNCHANGED webVars PROVE IndexInv'
<1>1. UNCHANGED <<files, dir, saves, cache, ix>> /\ clock' = clock + 1 /\ conf' = conf
  BY DEF Passes, webVars
<1>2. Names' = Names /\ Present' = Present /\ Rows' = Rows
  BY <1>1 DEF Names, Present, Rows, Hosts
<1>3. DataTypeOK'
  BY <1>1, <1>2 DEF IndexInv, DataTypeOK
<1>4. Grows
  BY <1>1, <1>2 DEF Grows, IndexInv, DataTypeOK
<1>5. \A f \in Names : FileKnown(f)'
  BY <1>1, <1>2 DEF IndexInv, FileKnown
<1>6. QED BY <1>1, <1>2, <1>3, <1>4, <1>5, IndexGrows DEF IndexInv

(* The files and the fields of each.                                       *)
FileRecords == [size: {-1, 0, Whole}, version: Nat, born: Nat, saver: Savers \cup {NoOne}]

LEMMA FilesTyped ==
  ASSUME WebInv, IndexInv
  PROVE  /\ files \in [Names -> FileRecords] /\ saves \in [Savers -> Stages]
         /\ dir \in Nat /\ clock \in Nat /\ dir <= clock
         /\ \A f \in Names : f \in Present <=> files[f].size # -1
         /\ \A s \in Savers : conf.names[s] \in Names
<1>1. files \in [Names -> FileRecords] /\ saves \in [Savers -> Stages] /\ dir \in Nat /\ clock \in Nat /\ dir <= clock
  BY DEF IndexInv, DataTypeOK, FileRecords
<1>2. Whole \in Nat
  BY ServersAssumption
<1>3. \A f \in Names : f \in Present <=> files[f].size # -1
  BY <1>1, <1>2 DEF Present, FileRecords
<1>4. QED BY <1>1, <1>3, PresentFinite

LEMMA IndexCreates ==
  ASSUME WebInv, IndexInv, NEW s \in Savers, Creates(s), UNCHANGED webVars PROVE IndexInv'
<1>1. PICK f \in Names : f = conf.names[s]
  BY FilesTyped
<1>2. PICK old \in FileRecords : old = files[f]
  BY FilesTyped
<1>3. PICK born \in Nat : born = IF old.size = -1 THEN clock ELSE old.born
  BY FilesTyped DEF FileRecords
<1>4. PICK n \in Nat : n = old.version + 1
  BY DEF FileRecords
<1>5. PICK new : new = [old EXCEPT !.size = 0, !.saver = s, !.version = n, !.born = born]
  OBVIOUS
<1>6. new \in FileRecords /\ new.size = 0 /\ new.saver = s /\ new.born = born
  BY <1>5 DEF FileRecords
<1>7. /\ saves[s] = "ready" /\ saves' = [saves EXCEPT ![s] = "writing"]
      /\ files' = [files EXCEPT ![f] = new]
      /\ dir' = IF old.size = -1 THEN clock ELSE dir
      /\ UNCHANGED <<clock, cache, ix, conf>>
  BY <1>1, <1>2, <1>3, <1>4, <1>5 DEF Creates, webVars
<1>8. Names' = Names /\ Rows' = Rows
  BY <1>7 DEF Names, Rows, Hosts
<1>9. files' \in [Names -> FileRecords] /\ files'[f] = new /\ \A g \in Names : g # f => files'[g] = files[g]
  BY <1>1, <1>6, <1>7, FilesTyped
<1>10. saves' \in [Savers -> Stages] /\ saves'[s] = "writing" /\ \A q \in Savers : q # s => saves'[q] = saves[q]
  BY <1>7, FilesTyped DEF Stages
<1>11. dir' \in Nat /\ dir' <= clock' /\ dir <= dir'
  BY <1>7, FilesTyped
<1>12. DataTypeOK'
  BY <1>7, <1>8, <1>9, <1>10, <1>11 DEF IndexInv, DataTypeOK, FileRecords
<1>13. Present' = Present \cup {f}
  <2>1. \A g \in Names : files'[g].size >= 0 <=> g \in Present \/ g = f
    BY <1>6, <1>9 DEF Present
  <2>2. QED BY <1>1, <1>8, <2>1 DEF Present
<1>14. \A g \in Present : files'[g].born = files[g].born
  BY <1>2, <1>3, <1>6, <1>9, FilesTyped DEF Present
<1>15. f \notin Present => files'[f].born = clock /\ dir' = clock
  BY <1>2, <1>3, <1>6, <1>7, <1>9, FilesTyped
<1>16. Grows
  BY <1>11, <1>13, <1>14, <1>15, FilesTyped DEF Grows
<1>17. ASSUME NEW g \in Names, g \in Present' PROVE FileKnown(g)'
  <2>1. g \in Present => files'[g].born <= dir'
    <3>1. g \in Present => files[g].born <= dir /\ files[g].born \in Nat
      BY FilesTyped DEF IndexInv, FileKnown, FileRecords
    <3>2. QED BY <1>11, <1>14, <3>1, FilesTyped
  <2>2. CASE g = f
    <3>1. files'[f].born <= dir'
      BY <1>11, <1>15, <2>1, <2>2, FilesTyped
    <3>2. QED BY <1>1, <1>6, <1>7, <1>9, <1>10, <2>2, <3>1 DEF FileKnown
  <2>3. CASE g # f
    <3>1. g \in Present /\ files'[g] = files[g]
      BY <1>9, <1>13, <1>17, <2>3
    <3>2. QED BY <1>7, <1>10, <2>1, <3>1 DEF IndexInv, FileKnown
  <2>4. QED BY <2>2, <2>3
<1>18. \A g \in Names : FileKnown(g)'
  BY <1>17 DEF FileKnown
<1>19. \A q \in Savers : saves'[q] = "writing" => conf.names[q] \in Present'
  BY <1>1, <1>10, <1>13 DEF IndexInv
<1>20. QED BY <1>7, <1>12, <1>16, <1>18, <1>19, IndexGrows

(* A file that is written is whole.                                        *)
LEMMA IndexWrites ==
  ASSUME WebInv, IndexInv, NEW s \in Savers, Writes(s), UNCHANGED webVars PROVE IndexInv'
<1>1. PICK f \in Names : f = conf.names[s]
  BY FilesTyped
<1>2. PICK old \in FileRecords : old = files[f]
  BY FilesTyped
<1>3. PICK new : new = [old EXCEPT !.size = Whole]
  OBVIOUS
<1>4. new \in FileRecords /\ new.size = Whole /\ new.saver = old.saver /\ new.born = old.born
  BY <1>3 DEF FileRecords
<1>5. /\ saves[s] = "writing" /\ saves' = [saves EXCEPT ![s] = "saved"]
      /\ files' = [files EXCEPT ![f] = new]
      /\ UNCHANGED <<dir, clock, cache, ix, conf>>
  BY <1>1, <1>2, <1>3 DEF Writes, webVars
<1>6. Names' = Names /\ Rows' = Rows
  BY <1>5 DEF Names, Rows, Hosts
<1>7. files' \in [Names -> FileRecords] /\ files'[f] = new /\ \A g \in Names : g # f => files'[g] = files[g]
  BY <1>1, <1>4, <1>5, FilesTyped
<1>8. saves' \in [Savers -> Stages] /\ saves'[s] = "saved" /\ \A q \in Savers : q # s => saves'[q] = saves[q]
  BY <1>5, FilesTyped DEF Stages
<1>9. DataTypeOK'
  BY <1>5, <1>6, <1>7, <1>8 DEF IndexInv, DataTypeOK, FileRecords
<1>10. f \in Present
  BY <1>1, <1>5 DEF IndexInv
<1>11. Present' = Present
  <2>1. \A g \in Names : files'[g].size >= 0 <=> g \in Present
    BY <1>4, <1>7, <1>10, ServersAssumption DEF Present
  <2>2. QED BY <1>6, <2>1 DEF Present
<1>12. \A g \in Names : files'[g].born = files[g].born
  BY <1>2, <1>4, <1>7
<1>13. Grows
  BY <1>5, <1>11, <1>12, FilesTyped DEF Grows, Present
<1>14. ASSUME NEW g \in Names PROVE FileKnown(g)'
  <2>1. files'[g].born = files[g].born /\ files'[g].saver = files[g].saver
    BY <1>2, <1>4, <1>7, <1>12
  <2>2. g # f => files'[g] = files[g]
    BY <1>7
  <2>3. QED BY <1>1, <1>4, <1>5, <1>7, <1>8, <1>11, <2>1, <2>2 DEF IndexInv, FileKnown
<1>15. \A q \in Savers : saves'[q] = "writing" => conf.names[q] \in Present'
  BY <1>8, <1>11 DEF IndexInv
<1>16. QED BY <1>5, <1>6, <1>9, <1>13, <1>14, <1>15, IndexGrows

(* A saving that fails leaves what is there.                               *)
LEMMA IndexSaveFails ==
  ASSUME WebInv, IndexInv, NEW s \in Savers, SaveFails(s), UNCHANGED webVars PROVE IndexInv'
<1>1. /\ saves' = [saves EXCEPT ![s] = "failed"] /\ saves[s] # "saved"
      /\ UNCHANGED <<files, dir, clock, cache, ix, conf>>
  BY DEF SaveFails, webVars
<1>2. Names' = Names /\ Present' = Present /\ Rows' = Rows
  BY <1>1 DEF Names, Present, Rows, Hosts
<1>3. saves' \in [Savers -> Stages] /\ saves'[s] = "failed" /\ \A q \in Savers : q # s => saves'[q] = saves[q]
  BY <1>1, FilesTyped DEF Stages
<1>4. DataTypeOK'
  BY <1>1, <1>2, <1>3 DEF IndexInv, DataTypeOK
<1>5. Grows
  BY <1>1, <1>2, FilesTyped DEF Grows
<1>6. \A f \in Names : FileKnown(f)'
  BY <1>1, <1>2, <1>3 DEF IndexInv, FileKnown
<1>7. \A q \in Savers : saves'[q] = "writing" => conf.names[q] \in Present'
  BY <1>2, <1>3 DEF IndexInv
<1>8. QED BY <1>1, <1>2, <1>4, <1>5, <1>6, <1>7, IndexGrows

(* The requests: the files stay as they are.                               *)
LEMMA IndexByHandler ==
  ASSUME IndexInv, NEW h \in Handlers, NEW k \in Kinds, HandlerEffect(h, k),
         UNCHANGED <<files, dir, clock, saves>>,
         cache' \in [time: Nat \cup {-1}, rows: Seq(Rows)],
         ix' \in [Handlers -> IxFields],
         cache'.time <= dir, Covers(cache.rows, cache.time, {})',
         \A g \in Handlers : g # h => ix'[g] = ix[g],
         IndexKnown(h)'
  PROVE  IndexInv'
<1>1. UNCHANGED <<conf, req>> /\ \A g \in Handlers : g # h => at'[g] = at[g] /\ resp'[g] = resp[g]
  BY DEF HandlerEffect
<1>2. Names' = Names /\ Present' = Present /\ Rows' = Rows
  BY <1>1 DEF Names, Present, Rows, Hosts
<1>3. DataTypeOK'
  BY <1>1, <1>2 DEF IndexInv, DataTypeOK, IxFields
<1>4. \A f \in Names' : FileKnown(f)'
  BY <1>1, <1>2 DEF IndexInv, FileKnown
<1>5. \A s \in Savers : saves'[s] = "writing" => conf'.names[s] \in Present'
  BY <1>1, <1>2 DEF IndexInv
<1>6. ASSUME NEW g \in Handlers, g # h PROVE IndexKnown(g)'
  <2>1. IndexKnown(g)
    BY DEF IndexInv
  <2>2. /\ at'[g] = at[g] /\ resp'[g] = resp[g] /\ req'[g] = req[g] /\ ix'[g] = ix[g]
        /\ UNCHANGED <<files, dir, conf>>
    BY <1>1, <1>6
  <2>3. /\ Covers(ix[g].rows, ix[g].time, ToSet(ix[g].todo))' = Covers(ix[g].rows, ix[g].time, ToSet(ix[g].todo))
        /\ Covers(resp[g].body, ix[g].time, {})' = Covers(resp[g].body, ix[g].time, {})
    BY <1>2, <2>2 DEF Covers
  <2>4. QED BY <1>2, <2>1, <2>2, <2>3 DEF IndexKnown, Indexed, Done
<1>7. QED BY <1>3, <1>4, <1>5, <1>6 DEF IndexInv

(* A step of another kind leaves the indexes.                              *)
LEMMA IndexAside ==
  ASSUME WebInv, IndexInv, NEW h \in Handlers, NEW k \in Kinds \ {"index"}, HandlerEffect(h, k),
         UNCHANGED dataVars
  PROVE  IndexInv'
<1>1. /\ at'[h] \notin {"idle", "arrived", "locks", "reads"} /\ req'[h].to # "index" /\ conf' = conf
  BY DEF HandlerEffect, Kinds, TosOf, PlacesOf, EchoPlaces, FetchPlaces
<1>2. IndexKnown(h)'
  BY <1>1 DEF IndexKnown, Indexed, Done
<1>3. Covers(cache.rows, cache.time, {})'
  BY <1>1 DEF IndexInv, Covers, dataVars, Present, Names
<1>4. QED BY <1>2, <1>3, IndexByHandler DEF IndexInv, DataTypeOK, dataVars, IxFields

LEMMA IndexStill ==
  ASSUME IndexInv, UNCHANGED <<webVars, dataVars>>
  PROVE  IndexInv'
<1>0. Names' = Names /\ Rows' = Rows
  BY DEF webVars, Names, Rows, Hosts
<1>1. DataTypeOK'
  BY <1>0 DEF IndexInv, DataTypeOK, dataVars
<1> USE DEF webVars, dataVars, Names, Present
<1>2. \A f \in Names' : FileKnown(f)'
  BY DEF IndexInv, FileKnown
<1>3. \A h \in Handlers : IndexKnown(h)'
  BY DEF IndexInv, IndexKnown, Indexed, Done, Covers
<1>4. cache'.time <= dir' /\ Covers(cache.rows, cache.time, {})'
  BY DEF IndexInv, Covers
<1>5. \A s \in Savers : saves'[s] = "writing" => conf'.names[s] \in Present'
  BY DEF IndexInv
<1>6. QED BY <1>1, <1>2, <1>3, <1>4, <1>5 DEF IndexInv

(* So each step of a saver keeps what is known of them.                    *)
LEMMA IndexSaves ==
  ASSUME WebInv, IndexInv, SaveSteps, UNCHANGED webVars PROVE IndexInv'
BY IndexPasses, IndexCreates, IndexWrites, IndexSaveFails DEF SaveSteps

(* A request for an index looks at the time of the directory, then takes   *)
(* the one that is kept, or lists the files.                               *)
LEMMA IndexStats ==
  ASSUME WebInv, IndexInv, NEW h \in Handlers, Stats(h), HandlerEffect(h, "index") PROVE IndexInv'
<1>0. UNCHANGED <<files, dir, clock, saves, cache, conf, req>> /\ at[h] = "arrived"
  BY DEF Stats
<1>1. ix[h] \in IxFields /\ dir \in Nat /\ ix \in [Handlers -> IxFields] /\ ix[h].rows = <<>>
  BY <1>0 DEF IndexInv, DataTypeOK, IxFields, IndexKnown
<1>2. \/ at'[h] = "locks" /\ ix' = [ix EXCEPT ![h].time = dir, ![h].seen = Present]
      \/ at'[h] = "done" /\ ix' = ix /\ resp'[h].status = 503
  BY DEF Stats, Goes, WebInv
<1>3. Covers(cache.rows, cache.time, {})' /\ cache'.time <= dir /\ cache' \in [time: Nat \cup {-1}, rows: Seq(Rows)]
  BY <1>0 DEF IndexInv, DataTypeOK, Covers, Present, Names
<1>4. CASE at'[h] = "locks"
  <2>0. PICK new : new = [ix[h] EXCEPT !.time = dir, !.seen = Present]
    OBVIOUS
  <2>1. new = [ix[h] EXCEPT !.time = dir, !.seen = Present] /\ ix' = [ix EXCEPT ![h] = new]
    BY <1>2, <1>4, <2>0
  <2>2. new \in IxFields /\ new.time = dir /\ new.seen = Present /\ new.rows = <<>>
    BY <1>1, <2>1, PresentFinite DEF IxFields
  <2>3. ix' \in [Handlers -> IxFields] /\ ix'[h] = new /\ \A g \in Handlers : g # h => ix'[g] = ix[g]
    BY <1>1, <2>1, <2>2
  <2>4. \A f \in Present : files[f].born <= dir
    BY PresentFinite DEF IndexInv, FileKnown
  <2>5. Present' = Present
    BY <1>0 DEF Present, Names
  <2>6. dir <= dir
    BY <1>1
  <2>7. IndexKnown(h)'
    BY <1>0, <1>4, <2>2, <2>3, <2>4, <2>5, <2>6 DEF IndexKnown, Indexed, Done
  <2>8. QED BY <1>0, <1>3, <2>3, <2>7, IndexByHandler DEF Kinds
<1>5. CASE at'[h] = "done"
  <2>1. ix' = ix /\ resp'[h].status = 503
    BY <1>2, <1>5
  <2>2. IndexKnown(h)'
    BY <1>5, <2>1 DEF IndexKnown, Indexed, Done
  <2>3. QED BY <1>0, <1>1, <1>3, <2>1, <2>2, IndexByHandler DEF Kinds
<1>6. QED BY <1>2, <1>4, <1>5

LEMMA IndexUsesCache ==
  ASSUME WebInv, IndexInv, NEW h \in Handlers, UsesCache(h), HandlerEffect(h, "index") PROVE IndexInv'
<1>1. /\ UNCHANGED <<conf, req, dataVars>> /\ at[h] = "locks" /\ at'[h] = "done"
      /\ ix[h].time = cache.time /\ resp'[h].body = cache.rows
  BY DEF UsesCache, Serves, Goes, WebInv
<1>2. Covers(cache.rows, cache.time, {})' /\ Covers(cache.rows, cache.time, {})
  BY <1>1 DEF IndexInv, Covers, dataVars, Present, Names
<1>3. IndexKnown(h)
  BY DEF IndexInv
<1>4. Covers(resp[h].body, ix[h].time, {})'
  BY <1>1, <1>2 DEF Covers, dataVars, Present, Names
<1>5. IndexKnown(h)'
  BY <1>1, <1>3, <1>4 DEF IndexKnown, dataVars, Present, Names
<1>6. QED BY <1>1, <1>2, <1>5, IndexByHandler DEF Kinds, IndexInv, DataTypeOK, dataVars, IxFields

LEMMA IndexLists ==
  ASSUME WebInv, IndexInv, NEW h \in Handlers, Lists(h), HandlerEffect(h, "index") PROVE IndexInv'
<1>1. PICK list \in Seq(Names) : list = DataList /\ ToSet(list) = Present
  BY ListIsPresent
<1>2. PICK new : new = [ix[h] EXCEPT !.todo = list]
  OBVIOUS
<1>3. /\ UNCHANGED <<conf, req, files, dir, clock, saves, cache>> /\ at[h] = "locks" /\ at'[h] = "reads"
      /\ ix' = [ix EXCEPT ![h] = new]
  BY <1>1, <1>2 DEF Lists, Goes, WebInv
<1>4. ix[h] \in IxFields /\ ix \in [Handlers -> IxFields] /\ ix[h].rows = <<>>
  BY <1>3 DEF IndexInv, DataTypeOK, IxFields, IndexKnown
<1>5. new \in IxFields /\ new.time = ix[h].time /\ new.seen = ix[h].seen /\ new.todo = list /\ new.rows = <<>>
  BY <1>2, <1>4 DEF IxFields
<1>6. ix' \in [Handlers -> IxFields] /\ ix'[h] = new /\ \A g \in Handlers : g # h => ix'[g] = ix[g]
  BY <1>3, <1>4, <1>5
<1>7. Covers(cache.rows, cache.time, {})' /\ cache'.time <= dir /\ cache' \in [time: Nat \cup {-1}, rows: Seq(Rows)]
  BY <1>3 DEF IndexInv, DataTypeOK, Covers, Present, Names
<1>8. Present' = Present
  BY <1>3 DEF Present, Names
<1>9. ToSet(ix'[h].todo) = Present /\ ix'[h].rows = <<>> /\ ToSet(<<>>) = {}
  BY <1>1, <1>5, <1>6 DEF ToSet
<1>10. ToSet(ix[h].todo)' = ToSet(ix'[h].todo)
  BY DEF ToSet
<1>11. ToSet(ix[h].rows)' = {}
  BY <1>9 DEF ToSet
<1>12. Covers(ix[h].rows, ix[h].time, ToSet(ix[h].todo))'
  BY <1>3, <1>8, <1>9, <1>10, <1>11 DEF Covers
<1>13. IndexKnown(h)
  BY DEF IndexInv
<1>14. IndexKnown(h)'
  BY <1>3, <1>5, <1>6, <1>8, <1>9, <1>10, <1>12, <1>13 DEF IndexKnown, Indexed, Done
<1>15. QED BY <1>3, <1>6, <1>7, <1>14, IndexByHandler DEF Kinds

(* A row that is read joins the others; one that cannot be leaves them.    *)
LEMMA CoversNext ==
  ASSUME NEW S, NEW todo \in Seq(S), todo # <<>>, NEW rows \in Seq(Rows), NEW row \in Rows, NEW t,
         NEW more, more = rows \/ more = Append(rows, row),
         Head(todo) \notin conf.unreadable => more = Append(rows, row),
         row.name = Head(todo), row.size = Whole \/ row.stage # "saved",
         Covers(rows, t, ToSet(todo))
  PROVE  Covers(more, t, ToSet(Tail(todo)))
<1>1. \A e \in ToSet(todo) : e = Head(todo) \/ e \in ToSet(Tail(todo))
  <2> SUFFICES ASSUME NEW e \in ToSet(todo), e # Head(todo) PROVE e \in ToSet(Tail(todo))
    OBVIOUS
  <2>1. PICK i \in 1 .. Len(todo) : e = todo[i]
    BY DEF ToSet
  <2>2. i # 1 /\ i - 1 \in 1 .. Len(Tail(todo)) /\ Tail(todo)[i - 1] = e
    BY <2>1
  <2>3. Tail(todo) \in Seq(S) /\ DOMAIN Tail(todo) = 1 .. Len(Tail(todo))
    OBVIOUS
  <2>4. i - 1 \in DOMAIN Tail(todo) /\ e = Tail(todo)[i - 1]
    BY <2>1, <2>2, <2>3
  <2>5. QED BY <2>4 DEF ToSet
<1>2. ToSet(Append(rows, row)) = ToSet(rows) \cup {row}
  <2>1. Len(Append(rows, row)) = Len(rows) + 1 /\ Append(rows, row)[Len(rows) + 1] = row
    OBVIOUS
  <2>2. \A i \in 1 .. Len(rows) : Append(rows, row)[i] = rows[i]
    OBVIOUS
  <2>3. DOMAIN Append(rows, row) = 1 .. Len(rows) + 1 /\ DOMAIN rows = 1 .. Len(rows) /\ Len(rows) \in Nat
    OBVIOUS
  <2>4. \A i \in 1 .. Len(rows) + 1 : i \in 1 .. Len(rows) \/ i = Len(rows) + 1
    BY <2>3
  <2>5. QED BY <2>1, <2>2, <2>3, <2>4 DEF ToSet
<1>3. QED BY <1>1, <1>2 DEF Covers

(* Each file of the list is read, or cannot be.                            *)
LEMMA IndexReads ==
  ASSUME WebInv, IndexInv, NEW h \in Handlers, ReadsFile(h), HandlerEffect(h, "index") PROVE IndexInv'
<1>1. /\ UNCHANGED <<webVars, files, dir, clock, saves, cache>> /\ conf' = conf /\ at' = at
      /\ at[h] = "reads" /\ ix[h].todo # <<>>
  BY DEF ReadsFile, webVars
<1>2. ix[h] \in IxFields /\ ix \in [Handlers -> IxFields]
  BY DEF IndexInv, DataTypeOK, IxFields
<1>3. PICK todo \in Seq(Names) : todo = ix[h].todo
  BY <1>2 DEF IxFields
<1>4. PICK rows \in Seq(Rows) : rows = ix[h].rows
  BY <1>2 DEF IxFields
<1>5. IndexKnown(h) /\ \A f \in Names : FileKnown(f)
  BY DEF IndexInv
<1>6. PICK f \in Names : f = Head(todo) /\ f \in Present
  <2>1. ToSet(todo) \subseteq Present /\ todo # <<>>
    BY <1>1, <1>3, <1>5 DEF IndexKnown
  <2>2. Head(todo) \in ToSet(todo) /\ Head(todo) \in Names
    BY <2>1 DEF ToSet
  <2>3. QED BY <2>1, <2>2
<1>7. PICK row : row = [name |-> f, size |-> files[f].size, version |-> files[f].version, urlPrefix |-> req[h].host,
                        stage |-> saves[files[f].saver]]
  OBVIOUS
<1>8. req[h].host \in Hosts
  BY <1>1 DEF WebInv, Hosts
<1>9. row \in Rows /\ row.name = f /\ (row.size = Whole \/ row.stage # "saved")
  <2>1. files[f] \in FileRecords /\ files[f].size # -1 /\ files[f].saver \in Savers
        /\ (saves[files[f].saver] = "saved" => files[f].size = Whole)
    BY <1>5, <1>6, FilesTyped DEF FileKnown
  <2>2. files[f].size \in {0, Whole} /\ files[f].version \in Nat /\ saves[files[f].saver] \in Stages
    BY <2>1, FilesTyped DEF FileRecords
  <2>3. QED BY <1>7, <1>8, <2>1, <2>2 DEF Rows
<1>11. PICK rest \in Seq(Names) : rest = Tail(todo)
  <2>1. Tail(todo) \in Seq(Names)
    BY <1>1, <1>3, HeadTailProperties
  <2>2. QED BY <2>1
<1>10. PICK more \in Seq(Rows) :
         /\ more = rows \/ more = Append(rows, row)
         /\ f \notin conf.unreadable => more = Append(rows, row)
         /\ ix' = [ix EXCEPT ![h] = [ix[h] EXCEPT !.todo = rest, !.rows = more]]
  <2>1. Append(rows, row) \in Seq(Rows)
    BY <1>9, AppendProperties
  <2>2. CASE ix' = [ix EXCEPT ![h] = [ix[h] EXCEPT !.todo = rest, !.rows = Append(rows, row)]]
    BY <2>1, <2>2
  <2>3. CASE f \in conf.unreadable /\ ix' = [ix EXCEPT ![h] = [ix[h] EXCEPT !.todo = rest]]
    <3>1. [ix[h] EXCEPT !.todo = rest] = [ix[h] EXCEPT !.todo = rest, !.rows = rows]
      BY <1>2, <1>4 DEF IxFields
    <3>2. QED BY <2>3, <3>1
  <2>4. QED BY <1>3, <1>4, <1>6, <1>7, <1>11, <2>2, <2>3 DEF ReadsFile
<1>12. PICK new : new = [ix[h] EXCEPT !.todo = rest, !.rows = more]
  OBVIOUS
<1>13. new \in IxFields /\ new.time = ix[h].time /\ new.seen = ix[h].seen /\ new.todo = rest /\ new.rows = more
  BY <1>2, <1>12 DEF IxFields
<1>14. ix' = [ix EXCEPT ![h] = new]
  BY <1>10, <1>12
<1>15. ix' \in [Handlers -> IxFields] /\ ix'[h] = new /\ \A g \in Handlers : g # h => ix'[g] = ix[g]
  BY <1>2, <1>13, <1>14
<1>16. Covers(cache.rows, cache.time, {})' /\ cache'.time <= dir /\ cache' \in [time: Nat \cup {-1}, rows: Seq(Rows)]
  BY <1>1 DEF IndexInv, DataTypeOK, Covers, Present, Names
<1>17. Present' = Present
  BY <1>1 DEF Present, Names
<1>18. PICK t : t = ix[h].time
  OBVIOUS
<1>19. Covers(rows, t, ToSet(todo))
  BY <1>1, <1>3, <1>4, <1>5, <1>18 DEF IndexKnown
<1>20. Covers(more, t, ToSet(rest))
  BY <1>1, <1>3, <1>6, <1>9, <1>10, <1>11, <1>19, CoversNext
<1>21. ToSet(rest) \subseteq ToSet(todo)
  BY <1>1, <1>3, <1>11 DEF ToSet
<1>22. IndexKnown(h)'
  <2>1. ToSet(ix[h].todo)' = ToSet(rest) /\ ToSet(ix[h].rows)' = ToSet(more)
    BY <1>13, <1>15 DEF ToSet
  <2>2. Covers(ix[h].rows, ix[h].time, ToSet(ix[h].todo))'
    BY <1>1, <1>13, <1>15, <1>17, <1>18, <1>20, <2>1 DEF Covers
  <2>3. ToSet(todo) \subseteq Present /\ ix[h].time <= dir
        /\ \A g \in ix[h].seen : g \in Present /\ files[g].born <= ix[h].time
    BY <1>1, <1>3, <1>5 DEF IndexKnown
  <2>4. QED BY <1>1, <1>13, <1>15, <1>17, <1>21, <2>1, <2>2, <2>3 DEF IndexKnown, Indexed, Done
<1>23. QED BY <1>1, <1>15, <1>16, <1>22, IndexByHandler DEF Kinds

(* The rows are kept and sent.                                             *)
LEMMA IndexStores ==
  ASSUME WebInv, IndexInv, NEW h \in Handlers, Stores(h), HandlerEffect(h, "index") PROVE IndexInv'
<1>1. /\ UNCHANGED <<conf, req, files, dir, clock, saves, ix>> /\ at[h] = "reads" /\ at'[h] = "done"
      /\ ix[h].todo = <<>> /\ resp'[h].body = ix[h].rows
      /\ cache' = [time |-> ix[h].time, rows |-> ix[h].rows]
  BY DEF Stores, Serves, Goes, WebInv
<1>2. ix[h] \in IxFields /\ ix \in [Handlers -> IxFields] /\ IndexKnown(h)
  BY DEF IndexInv, DataTypeOK, IxFields
<1>3. PICK rows \in Seq(Rows) : rows = ix[h].rows
  BY <1>2 DEF IxFields
<1>4. PICK t \in Nat : t = ix[h].time
  BY <1>2 DEF IxFields
<1>5. Covers(rows, t, {}) /\ t <= dir /\ \A f \in ix[h].seen : f \in Present /\ files[f].born <= t
  <2>1. ToSet(ix[h].todo) = {}
    BY <1>1 DEF ToSet
  <2>2. QED BY <1>1, <1>2, <1>3, <1>4, <2>1 DEF IndexKnown
<1>6. Covers(rows, t, {})'
  BY <1>1, <1>5 DEF Covers, Present, Names
<1>7. cache' \in [time: Nat \cup {-1}, rows: Seq(Rows)] /\ cache'.time = t /\ cache'.rows = rows
  BY <1>1, <1>3, <1>4
<1>8. Covers(cache.rows, cache.time, {})' /\ Covers(resp[h].body, ix[h].time, {})'
  BY <1>1, <1>3, <1>4, <1>6, <1>7 DEF Covers
<1>9. Present' = Present
  BY <1>1 DEF Present, Names
<1>10. IndexKnown(h)'
  BY <1>1, <1>4, <1>5, <1>8, <1>9 DEF IndexKnown
<1>11. QED BY <1>1, <1>2, <1>5, <1>7, <1>8, <1>10, IndexByHandler DEF Kinds

(* So each step of the index keeps what is known of it.                    *)
LEMMA IndexByData ==
  ASSUME WebInv, IndexInv, NEW h \in Handlers, DataStep(h)
  PROVE  IndexInv'
<1>1. CASE HandlerEffect(h, "index")
  <2>1. ~OtherData(h)
    BY <1>1 DEF OtherData, HandlerEffect, TosOf
  <2>2. QED BY <1>1, <2>1, IndexStats, IndexUsesCache, IndexLists, IndexReads, IndexStores DEF DataStep
<1>2. CASE HandlerEffect(h, "other") /\ UNCHANGED dataVars
  BY <1>2, IndexAside DEF Kinds
<1>3. QED BY <1>1, <1>2, DataEffect

-----------------------------------------------------------------------------
(* A request arrives: its handler wakes, and nothing else changes.         *)

(* A request arrives.                                                      *)
LEMMA ArrivesInv ==
  ASSUME WebInv, WriterInv, EchoInv, DrawInv, TeeInv, FetchInv, IndexInv, NEW h \in Handlers, Arrives(h)
  PROVE  WebInv' /\ WriterInv' /\ EchoInv' /\ DrawInv' /\ TeeInv' /\ FetchInv' /\ IndexInv'
<1>1. /\ at[h] = "idle" /\ at' = [at EXCEPT ![h] = "arrived"]
      /\ UNCHANGED <<conf, resp, job, gz, tee, proxy, used, files, dir, clock, saves, cache, ix>>
  BY DEF Arrives, Goes, echoVars, forwardVars, dataVars
<1>2. PICK r \in conf.requests[h] : req' = [req EXCEPT ![h] = r]
  BY DEF Arrives
<1>3. /\ DOMAIN at' = Handlers /\ DOMAIN req' = Handlers /\ at'[h] = "arrived" /\ req'[h] = r
      /\ \A g \in Handlers : g # h => at'[g] = at[g] /\ req'[g] = req[g]
  BY <1>1, <1>2 DEF WebInv
<1>4. WebInv'
  <2>1. \A g \in Handlers : Placed(g)'
    BY <1>3 DEF WebInv, Placed, EchoPlaces, Fetching
  <2>2. \A g \in Handlers : at'[g] # "idle" => req'[g] \in conf'.requests[g]
    BY <1>1, <1>2, <1>3 DEF WebInv
  <2>3. QED BY <1>1, <1>3, <2>1, <2>2 DEF WebInv
<1>5. WriterInv'
  <2>1. \A g \in Handlers : WriterOwn(g)'
    BY <1>1, <1>3 DEF WriterInv, WriterOwn, EchoPlaces
  <2>2. QED BY <1>1, <2>1 DEF WriterInv
<1>6. FetchInv'
  <2>1. \A g \in Handlers : FetchAlone(g)'
    BY <1>1, <1>3 DEF FetchInv, FetchAlone, Fetching
  <2>2. \A g \in Handlers : FetchedOwn(g)'
    BY <1>1, <1>3 DEF FetchInv, FetchedOwn, Done
  <2>3. QED BY <1>1, <2>1, <2>2 DEF FetchInv
<1>7. IndexInv'
  <2>1. Names' = Names /\ Present' = Present /\ Rows' = Rows
    BY <1>1 DEF Names, Present, Rows, Hosts
  <2>2. DataTypeOK'
    BY <1>1, <2>1 DEF IndexInv, DataTypeOK
  <2>3. \A f \in Names' : FileKnown(f)'
    BY <1>1, <2>1 DEF IndexInv, FileKnown
  <2>4. \A g \in Handlers : IndexKnown(g)'
    BY <1>1, <1>3, <2>1 DEF IndexInv, IndexKnown, Indexed, Done, Covers
  <2>5. cache'.time <= dir' /\ Covers(cache.rows, cache.time, {})'
    BY <1>1, <2>1 DEF IndexInv, Covers
  <2>6. \A s \in Savers : saves'[s] = "writing" => conf'.names[s] \in Present'
    BY <1>1, <2>1 DEF IndexInv
  <2>7. QED BY <2>2, <2>3, <2>4, <2>5, <2>6 DEF IndexInv
<1>8. EchoInv'
  <2> SUFFICES ASSUME NEW g \in Handlers PROVE EchoKnown(g)'
    BY DEF EchoInv
  <2>1. CASE g = h
    <3>1. EchoRight("idle", req[h], resp[h], job[h], gz[job[h].writer].held,
                    PlainOf(h), AsksLength(h), Params(h).length)
      BY <1>1, EchoParts DEF EchoInv
    <3>2. PICK plain, asks, n : plain = PlainOf(h)' /\ asks = AsksLength(h)' /\ n = Params(h).length'
      OBVIOUS
    <3>3. EchoRight("arrived", req'[h], resp[h], job[h], gz[job[h].writer].held, plain, asks, n)
      BY <3>1, RightArrives
    <3>4. QED BY <1>1, <1>3, <2>1, <3>2, <3>3, EchoPartsNext
  <2>2. CASE g # h
    <3>1. PlainOf(g)' = PlainOf(g) /\ AsksLength(g)' = AsksLength(g) /\ Params(g)' = Params(g)
      BY <1>1, <1>3, <2>2, PartsStay
    <3>2. /\ at'[g] = at[g] /\ req'[g] = req[g] /\ resp'[g] = resp[g] /\ job'[g] = job[g]
          /\ gz'[job'[g].writer].held = gz[job[g].writer].held
      BY <1>1, <1>3, <2>2
    <3>3. EchoKnown(g)
      BY DEF EchoInv
    <3>4. QED BY <3>1, <3>2, <3>3, EchoParts, EchoPartsNext
  <2>3. QED BY <2>1, <2>2
<1>9. DrawInv'
  <2>1. DrawKnown(h)'
    BY <1>3 DEF DrawKnown
  <2>2. ASSUME NEW g \in Handlers, g # h PROVE DrawKnown(g)'
    <3>1. DrawKnown(g)
      BY DEF DrawInv
    <3>2. QED BY <1>1, <1>3, <2>2, <3>1, DrawSame
  <2>3. QED BY <2>1, <2>2 DEF DrawInv
<1>10. TeeInv'
  <2>1. TeeKnown(h)'
    <3>1. TeeKnown(h)
      BY DEF TeeInv
    <3>2. tee'[h].next = 1 /\ tee'[h].first
      BY <1>1, <3>1 DEF TeeKnown
    <3>3. QED BY <1>3, <3>2 DEF TeeKnown, Done
  <2>2. ASSUME NEW g \in Handlers, g # h PROVE TeeKnown(g)'
    <3>1. TeeKnown(g) /\ at'[g] = at[g] /\ req'[g] = req[g] /\ resp'[g] = resp[g] /\ tee'[g] = tee[g]
      BY <1>1, <1>3, <2>2 DEF TeeInv
    <3>2. QED BY <1>1, <3>1, TeeSame
  <2>3. \A g \in Handlers : TeeKnown(g)'
    BY <2>1, <2>2
  <2>4. QED BY <1>1, <2>3 DEF TeeInv
<1>11. QED BY <1>4, <1>5, <1>6, <1>7, <1>8, <1>9, <1>10

(* A handler goes on.                                                      *)
LEMMA HandlesInv ==
  ASSUME WebInv, WriterInv, EchoInv, DrawInv, TeeInv, FetchInv, IndexInv, NEW h \in Handlers, Handles(h)
  PROVE  WebInv' /\ WriterInv' /\ EchoInv' /\ DrawInv' /\ TeeInv' /\ FetchInv' /\ IndexInv'
<1>1. CASE EchoStep(h) /\ UNCHANGED <<forwardVars, dataVars>>
  <2>1. HandlerEffect(h, "echo")
    BY <1>1, EchoEffect
  <2>2. WebInv' /\ WriterInv' /\ EchoInv'
    BY <1>1, <2>1, WebByHandler, WriterByEcho, EchoByEcho DEF Kinds
  <2>6. DrawInv' /\ TeeInv'
    BY <1>1, <2>1, DrawByEcho, TeeAside DEF Kinds, forwardVars
  <2>3. FetchInv'
    BY <1>1, <2>1, FetchAside DEF Kinds, forwardVars
  <2>4. IndexInv'
    BY <1>1, <2>1, IndexAside DEF Kinds
  <2>5. QED BY <2>2, <2>3, <2>4, <2>6
<1>2. CASE ForwardStep(h) /\ UNCHANGED dataVars
  <2>1. PICK k \in {"tee", "fetch", "fetch2"} : HandlerEffect(h, k)
    BY <1>2, ForwardEffect
  <2>2. WebInv' /\ FetchInv' /\ IndexInv'
    BY <1>2, <2>1, WebByHandler, FetchByForward, IndexAside DEF Kinds
  <2>3. WriterInv' /\ EchoInv'
    BY <1>2, <2>1, WriterAside, EchoAside, ForwardWrites DEF Kinds
  <2>4. DrawInv' /\ TeeInv'
    BY <1>2, <2>1, DrawAside, ForwardWrites, TeeByForward DEF Kinds
  <2>5. QED BY <2>2, <2>3, <2>4
<1>3. CASE DataStep(h) /\ UNCHANGED forwardVars
  <2>1. PICK k \in {"index", "other"} : HandlerEffect(h, k)
    BY <1>3, DataEffect
  <2>2. UNCHANGED echoVars
    BY <1>3 DEF DataStep, Stats, UsesCache, Lists, ReadsFile, Stores, OtherData
  <2>3. WebInv' /\ IndexInv'
    BY <1>3, <2>1, WebByHandler, IndexByData DEF Kinds
  <2>4. WriterInv' /\ EchoInv'
    BY <2>1, <2>2, WriterAside, EchoAside DEF Kinds, echoVars
  <2>5. FetchInv'
    BY <1>3, <2>1, FetchAside DEF Kinds, forwardVars
  <2>6. DrawInv' /\ TeeInv'
    BY <1>3, <2>1, <2>2, DrawAside, TeeAside DEF Kinds, forwardVars, echoVars
  <2>7. QED BY <2>3, <2>4, <2>5, <2>6
<1>4. QED BY <1>1, <1>2, <1>3 DEF Handles

(* What is known of handlers stays when none moves.                        *)
LEMMA WebStill ==
  ASSUME WebInv, WriterInv, EchoInv, DrawInv, TeeInv, FetchInv, UNCHANGED <<webVars, echoVars, forwardVars>>
  PROVE  WebInv' /\ WriterInv' /\ EchoInv' /\ DrawInv' /\ TeeInv' /\ FetchInv'
<1> USE DEF webVars, echoVars, forwardVars
<1>1. WebInv'
  BY DEF WebInv, Placed, Fetching
<1>2. WriterInv'
  BY DEF WriterInv, WriterOwn
<1>3. FetchInv'
  BY DEF FetchInv, FetchAlone, FetchedOwn, Fetching, Done
<1>4. EchoInv'
  <2> SUFFICES ASSUME NEW h \in Handlers PROVE EchoKnown(h)'
    BY DEF EchoInv
  <2>1. PlainOf(h)' = PlainOf(h) /\ AsksLength(h)' = AsksLength(h) /\ Params(h)' = Params(h)
    BY PartsStay
  <2>2. /\ at'[h] = at[h] /\ req'[h] = req[h] /\ resp'[h] = resp[h] /\ job'[h] = job[h]
        /\ gz'[job'[h].writer].held = gz[job[h].writer].held
    OBVIOUS
  <2>3. EchoKnown(h)
    BY DEF EchoInv
  <2>4. QED BY <2>1, <2>2, <2>3, EchoParts, EchoPartsNext
<1>5. DrawInv'
  <2> SUFFICES ASSUME NEW h \in Handlers PROVE DrawKnown(h)'
    BY DEF DrawInv
  <2>1. DrawKnown(h)
    BY DEF DrawInv
  <2>2. QED BY <2>1, DrawSame
<1>6. TeeInv'
  <2>1. ASSUME NEW h \in Handlers PROVE TeeKnown(h)'
    <3>1. TeeKnown(h)
      BY DEF TeeInv
    <3>2. QED BY <3>1, TeeSame
  <2>2. QED BY <2>1 DEF TeeInv
<1>7. QED BY <1>1, <1>2, <1>3, <1>4, <1>5, <1>6

-----------------------------------------------------------------------------
(* IInv holds at first, and each step keeps it.                            *)
LEMMA InitInv == Init => IInv
<1> SUFFICES ASSUME Init PROVE IInv
  OBVIOUS
<1>1. WebInv
  BY DEF Init, WebInv, Placed, Fetching, EchoPlaces, Nothing
<1>2. WriterInv
  BY DEF Init, EchoInit, WriterInv, WriterOwn, EchoPlaces
<1>3. FetchInv
  BY DEF Init, ForwardInit, Nobody, FetchInv, FetchAlone, FetchedOwn, Fetching, Done
<1>4. IndexInv
  <2>0. /\ files = [f \in Names |-> Absent] /\ dir = 0 /\ clock = 1
        /\ saves \in [Savers -> {"ready", "saved"}]
        /\ cache = [time |-> -1, rows |-> <<>>]
        /\ ix = [h \in Handlers |-> [time |-> 0, seen |-> {}, todo |-> <<>>, rows |-> <<>>]]
        /\ \A h \in Handlers : at[h] = "idle"
    BY DEF Init, DataInit
  <2>1. DataTypeOK
    <3>1. Absent \in [size: {-1, 0, Whole}, version: Nat, born: Nat, saver: Savers \cup {NoOne}]
      BY DEF Absent, NoOne
    <3>2. files \in [Names -> [size: {-1, 0, Whole}, version: Nat, born: Nat, saver: Savers \cup {NoOne}]]
      BY <2>0, <3>1
    <3>3. cache \in [time: Nat \cup {-1}, rows: Seq(Rows)]
      BY <2>0
    <3>4. ix \in [Handlers -> [time: Nat, seen: SUBSET Names, todo: Seq(Names), rows: Seq(Rows)]]
      BY <2>0
    <3>5. QED BY <2>0, <3>2, <3>3, <3>4 DEF DataTypeOK, Stages
  <2>2. Present = {}
    BY <2>0 DEF Present, Absent
  <2>3. \A f \in Names : FileKnown(f)
    BY <2>2 DEF FileKnown
  <2>4. cache.time <= dir /\ Covers(cache.rows, cache.time, {})
    BY <2>0, <2>2 DEF Covers, ToSet
  <2>5. \A h \in Handlers : IndexKnown(h)
    BY <2>0 DEF IndexKnown, Indexed, Done
  <2>6. \A s \in Savers : saves[s] # "writing"
    BY <2>0
  <2>7. QED BY <2>1, <2>3, <2>4, <2>5, <2>6 DEF IndexInv
<1>5. RelayInv
  <2>1. side \in [Sides -> SideRecords] /\ flow \in [Flows -> FlowRecords]
    BY DEF Init, RelayInit, SideRecords, FlowRecords
  <2>2. ASSUME NEW d \in Flows
        PROVE  /\ flow[d].unread = <<>> /\ flow[d].out = <<>> /\ flow[d].copy = "off"
               /\ ~flow[d].eof /\ side[Src(d)].sent = 0
    BY Ends DEF Init, RelayInit
  <2>3. Upto(0) = <<>>
    BY DEF Upto
  <2>4. \A d \in Flows : ~flow[d].failed
    BY DEF Init, RelayInit
  <2>5. \A d \in Flows : RightFlow(d)
    <3> SUFFICES ASSUME NEW d \in Flows PROVE RightFlow(d)
      OBVIOUS
    <3>1. <<>> \o <<>> = <<>>
      OBVIOUS
    <3>2. QED BY <2>2, <2>3, <2>4, <3>1 DEF RightFlow, Right
  <2>6. QED BY <2>1, <2>2, <2>5, RelayParts DEF Flows
<1>6. EchoInv
  BY DEF Init, EchoInit, Nothing, EchoInv, EchoKnown, Unwritten
<1>7. DrawInv
  BY DEF Init, DrawInv, DrawKnown
<1>8. TeeInv
  BY DEF Init, ForwardInit, TeeInv, TeeKnown, Done
<1>9. QED BY <1>1, <1>2, <1>3, <1>4, <1>5, <1>6, <1>7, <1>8 DEF IInv

LEMMA NextInv == IInv /\ [Next]_vars => IInv'
<1> SUFFICES ASSUME IInv, [Next]_vars PROVE IInv'
  OBVIOUS
<1>0. WebInv /\ WriterInv /\ EchoInv /\ DrawInv /\ TeeInv /\ FetchInv /\ IndexInv /\ RelayInv
  BY DEF IInv
<1>1. ASSUME NEW h \in Handlers, Arrives(h) \/ Handles(h) PROVE IInv'
  <2>1. UNCHANGED relayVars
    BY <1>1 DEF Arrives, Handles
  <2>2. RelayInv'
    BY <1>0, <2>1, RelayStill DEF relayVars
  <2>3. QED BY <1>0, <1>1, <2>2, ArrivesInv, HandlesInv DEF IInv
<1>2. CASE Saves
  <2>1. SaveSteps /\ UNCHANGED <<webVars, echoVars, forwardVars, relayVars>>
    BY <1>2 DEF Saves
  <2>2. RelayInv'
    BY <1>0, <2>1, RelayStill DEF relayVars
  <2>3. QED BY <1>0, <2>1, <2>2, WebStill, IndexSaves DEF IInv
<1>3. CASE Relays \/ OthersMove
  <2>1. (RelayWorks \/ SidesMove) /\ UNCHANGED <<webVars, echoVars, forwardVars, dataVars>>
    BY <1>3 DEF Relays, OthersMove
  <2>2. QED BY <1>0, <2>1, WebStill, IndexStill, RelayMoves DEF IInv
<1>4. CASE UNCHANGED vars
  <2>1. UNCHANGED <<webVars, echoVars, forwardVars, dataVars, relayVars>>
    BY <1>4 DEF vars
  <2>2. RelayInv'
    BY <1>0, <2>1, RelayStill DEF relayVars
  <2>3. QED BY <1>0, <2>1, <2>2, WebStill, IndexStill DEF IInv
<1>5. QED BY <1>1, <1>2, <1>3, <1>4 DEF Next

Safety == Init /\ [][Next]_vars

(* The inductive invariant holds in every reachable state, for any         *)
(* requests, handlers, gzip writers and savers, and any relay.             *)
THEOREM Invariance == Spec => []IInv
<1>1. Safety => []IInv
  BY InitInv, NextInv, PTL DEF Safety
<1>2. QED BY <1>1, PTL DEF Spec, Safety

(* Data that went through a relay is what was sent, in its order; and when *)
(* a copy came to its end without an error, with both sides there, it is   *)
(* all of it: CopyKnown is why, the copy ends only when its source did.    *)
THEOREM RelayStaysExact == Spec => []RelayExact
<1>1. IInv => RelayExact
  BY DEF IInv, RelayInv
<1>2. QED BY <1>1, Invariance, PTL

(* What is known of an echo that is done makes it whole.                   *)
LEMMA WholeKnown == IInv => \A h \in Handlers : EchoWhole(h)
<1> SUFFICES ASSUME IInv, NEW h \in Handlers, Done(h, "echo"), ~req[h].cut
             PROVE  /\ resp[h].status = IF Told(h) THEN Final(h, job[h].status) ELSE 0
                    /\ Told(h) => resp[h].body \in Bodies(h)
                    /\ LengthRight(h)
  BY DEF EchoWhole
<1>1. EchoKnown(h) /\ at[h] = "done" /\ req[h].to = "echo" /\ ~req[h].cut
  BY DEF IInv, EchoInv, Done
<1>2. QED BY <1>1 DEF EchoKnown

(* The answer of an echo is whole: its status is the one drawn, or what the*)
(* library sends after one that is only informational; its body is the     *)
(* input, or the size that was drawn, and that of no other handler,        *)
(* compressed as a whole or not at all, and empty where the status         *)
(* allows none; its length is that of the body; and only who asks for      *)
(* another length gets that, and may get no body for it.                   *)
THEOREM EchoIsWhole == Spec => [](\A h \in Handlers : EchoWhole(h))
BY WholeKnown, Invariance, PTL

(* And what was drawn is what the rolls give by the definition of a share: *)
(* each value for as many of them as its share, the default for the rest.  *)
THEOREM EchoStaysExact == Spec => []EchoExact
<1>1. IInv => EchoExact
  <2> SUFFICES ASSUME IInv, NEW h \in Handlers, Done(h, "echo")
               PROVE  /\ job[h].status = Share(Params(h).status, job[h].rolls[1], 400, 200)
                      /\ job[h].size = Share(Validated(Params(h).size), job[h].rolls[2], -1, -1)
                      /\ EchoWhole(h)
    BY DEF EchoExact
  <2>1. WebInv /\ DrawInv /\ EchoWhole(h)
    BY WholeKnown DEF IInv
  <2>2. QED BY <2>1, DrawnRight
<1>2. QED BY <1>1, Invariance, PTL

(* A multi-server asked every target it could ask: the bodies are in its   *)
(* answer in the order of the targets, unless the status allows none; that *)
(* is of the first to answer in sequence, or of the first failure in       *)
(* parallel.  A fetch that was alone was made with its own options.        *)
THEOREM ForwardedStaysRight == Spec => []ForwardedRight
<1>1. IInv => ForwardedRight
  BY DEF IInv, TeeInv, TeeKnown, FetchInv, ForwardedRight
<1>2. QED BY <1>1, Invariance, PTL

(* An index, made for this request or kept from an earlier one, misses no  *)
(* result that was there when the request looked at the time of the        *)
(* directory, but one whose reading may fail or created in that very tick. *)
THEOREM IndexStaysFresh == Spec => []IndexFresh
<1>1. IInv => IndexFresh
  <2> SUFFICES ASSUME IInv, NEW h \in Handlers, Indexed(h)
               PROVE  /\ \A f \in ix[h].seen \ conf.unreadable :
                           (\E row \in ToSet(resp[h].body) : row.name = f) \/ files[f].born = ix[h].time
                      /\ \A row \in ToSet(resp[h].body) : row.size = Whole \/ row.stage # "saved"
    BY DEF IndexFresh, Indexed
  <2>1. IndexKnown(h) /\ DataTypeOK
    BY DEF IInv, IndexInv
  <2>2. /\ \A f \in ix[h].seen : f \in Present /\ files[f].born <= ix[h].time
        /\ Covers(resp[h].body, ix[h].time, {})
    BY <2>1 DEF IndexKnown
  <2>3. /\ ix[h].time \in Nat
        /\ \A f \in Present : files[f].born \in Nat
    BY <2>1 DEF DataTypeOK, Present
  <2>4. QED BY <2>2, <2>3 DEF Covers
<1>2. QED BY <1>1, Invariance, PTL

(* A fetch during which no other came near the shared client was made with *)
(* the timeout and the transport that it set there.                        *)
THEOREM FetchAloneIsOwn == Spec => [](\A h \in Handlers : FetchedOwn(h))
<1>1. IInv => \A h \in Handlers : FetchedOwn(h)
  BY DEF IInv, FetchInv
<1>2. QED BY <1>1, Invariance, PTL

(* Two handlers that answer at the same time never write through the same  *)
(* gzip writer of the pool.                                                *)
WritersApart ==
  \A g, h \in Handlers :
    at[g] \in EchoPlaces /\ at[h] \in EchoPlaces /\ job[g].writer = job[h].writer => g = h \/ job[g].writer = NoOne

THEOREM WritersStayApart == Spec => []WritersApart
<1>1. IInv => WritersApart
  BY DEF IInv, WriterInv, WriterOwn, WritersApart
<1>2. QED BY <1>1, Invariance, PTL
=============================================================================
