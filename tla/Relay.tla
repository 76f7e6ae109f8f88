------------------------------- MODULE Relay --------------------------------
(***************************************************************************)
(* fnet's copying between two sides: the TCP proxy between its client and  *)
(* its destination, NetCat between standard input and output and a socket, *)
(* over TCP or UDP, and the TCP echo server between a client and itself.   *)
(*                                                                         *)
(* The left side is the proxy's client, NetCat's input and output or the   *)
(* client of the echo server; "up" is what is read from it.                *)
(***************************************************************************)
EXTENDS Integers, Sequences

CONSTANT MaxSent  \* what a side sends, at most

VARIABLES
  mode,  \* what relays, and how its sides behave
  side,  \* each side: what it sent, whether it has ended that, or is gone
  flow,  \* each direction: not read yet, delivered, the copy, and what its end was told
  open   \* the connections that are open: left, right

relayVars == <<mode, side, flow, open>>

Sides == {"left", "right"}
Flows == {"up", "down"}
Src(d) == IF d = "up" THEN "left" ELSE "right"
Dst(d) == IF d = "up" /\ mode.kind # "echo" THEN "right" ELSE "left"

RelayInit ==
  /\ side = [s \in Sides |-> [sent |-> 0, ended |-> FALSE, gone |-> FALSE]]
  /\ flow = [d \in Flows |-> [unread |-> <<>>, out |-> <<>>, copy |-> "off", eof |-> FALSE, failed |-> FALSE]]
  /\ open = IF mode.kind \in {"proxy", "echo"} THEN {"left"} ELSE {}

(* The other end of each connection; a datagram may be lost.               *)
Sends(s) ==
  LET d == IF s = "left" THEN "up" ELSE "down"
  IN /\ side[s].sent < MaxSent /\ ~side[s].ended /\ ~side[s].gone
     /\ mode.kind = "echo" => s = "left"
     /\ side' = [side EXCEPT ![s].sent = @ + 1]
     /\ \/ flow' = [flow EXCEPT ![d].unread = Append(@, side[s].sent + 1)]
        \/ mode.kind = "udp" /\ UNCHANGED flow
     /\ UNCHANGED <<mode, open>>

(* A server may wait for the end of the requests before it ends.           *)
EndsSending(s) ==
  /\ ~side[s].ended /\ ~side[s].gone
  /\ s = "right" /\ mode.patient => flow["up"].eof
  /\ mode.kind = "udp" => s = "left"
  /\ side' = [side EXCEPT ![s].ended = TRUE]
  /\ UNCHANGED <<mode, flow, open>>

Leaves(s) ==
  /\ mode.mayLeave
  /\ ~side[s].gone
  /\ side' = [side EXCEPT ![s].gone = TRUE]
  /\ UNCHANGED <<mode, flow, open>>

-----------------------------------------------------------------------------
(* The connection to the destination, or none.                             *)
Connects ==
  /\ flow["up"].copy = "off"
  /\ \/ /\ flow' = [d \in Flows |-> [flow[d] EXCEPT !.copy = IF mode.kind = "echo" /\ d = "down" THEN "over" ELSE "on"]]
        /\ open' = open \cup IF mode.kind = "echo" THEN {} ELSE {"right"}
     \/ /\ mode.kind # "echo"
        /\ flow' = [d \in Flows |-> [flow[d] EXCEPT !.copy = "over"]]
        /\ open' = {}
  /\ UNCHANGED <<mode, side>>

(* Copy reads a piece and writes it: to a side that is gone, that fails, or*)
(* is lost with no error when nobody told yet.                             *)
CopyMoves(d) ==
  LET f == flow[d]
      rest == [f EXCEPT !.unread = Tail(@)]
  IN /\ f.copy = "on" /\ f.unread # <<>>
     /\ \/ ~side[Dst(d)].gone /\ flow' = [flow EXCEPT ![d] = [rest EXCEPT !.out = Append(@, Head(f.unread))]]
        \/ side[Dst(d)].gone /\ flow' = [flow EXCEPT ![d] = rest]
        \/ side[Dst(d)].gone /\ flow' = [flow EXCEPT ![d] = [rest EXCEPT !.copy = "end", !.failed = TRUE]]
     /\ UNCHANGED <<mode, side, open>>

(* Mutant: the end is looked at before what was read with it is written.   *)
CopyEndsFirst(d) ==
  LET f == flow[d]
      s == side[Src(d)]
  IN /\ f.copy = "on"
     /\ s.ended \/ s.gone
     /\ flow' = [flow EXCEPT ![d].copy = "end", ![d].failed = s.gone]
     /\ UNCHANGED <<mode, side, open>>

(* The source ended or is gone; UDP has a deadline once all is written.    *)
CopyEnds(d) ==
  LET f == flow[d]
      s == side[Src(d)]
  IN /\ f.copy = "on"
     /\ \/ f.unread = <<>> /\ s.ended
        \/ s.gone
        \/ mode.kind = "udp" /\ d = "down" /\ flow["up"].copy = "over"
     /\ flow' = [flow EXCEPT ![d].copy = "end", ![d].failed = s.gone]
     /\ UNCHANGED <<mode, side, open>>

(* Mutant: the end of one side is not passed on to the other.              *)
TransferEndsAlone(d) ==
  /\ flow[d].copy = "end"
  /\ flow' = [flow EXCEPT ![d].copy = "over"]
  /\ UNCHANGED <<mode, side, open>>

(* transfer tells the destination that no more will come.  NetCat does so  *)
(* for the socket only.                                                    *)
TransferEnds(d) ==
  /\ flow[d].copy = "end"
  /\ flow' = [flow EXCEPT ![d].copy = "over",
                          ![d].eof = mode.kind = "proxy" \/ (mode.kind = "netcat" /\ d = "up")]
  /\ UNCHANGED <<mode, side, open>>

(* The proxy and the echo server close when both copies are over; NetCat   *)
(* when its output is, and unless it is to stop then, its input.  With UDP *)
(* it leaves its socket open.                                              *)
Returns ==
  /\ flow["down"].copy = "over"
  /\ flow["up"].copy = "over" \/ (mode.kind = "netcat" /\ mode.stopOnEOF)
  /\ open # {} /\ mode.kind # "udp"
  /\ open' = {}
  /\ UNCHANGED <<mode, side, flow>>

RelayWorks == Connects \/ Returns \/ \E d \in Flows : CopyMoves(d) \/ CopyEnds(d) \/ TransferEnds(d)

SidesMove == \E s \in Sides : Sends(s) \/ EndsSending(s) \/ Leaves(s)
=============================================================================
