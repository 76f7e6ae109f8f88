------------------------------ MODULE Sockets ------------------------------
(***************************************************************************)
(* The connections of the clients, as the code of the clients sees them:   *)
(* the kernel, the network and the server behind them.  A client has one   *)
(* connection at a time; one it drops without closing it stays "up" until  *)
(* it dials again, when the collector closes it for the program.           *)
(*                                                                         *)
(* bytes: what the server sent, or will, and the client has not read yet.  *)
(* end: what comes after it: more for the next request ("open", and until  *)
(* then a read runs into its deadline), the end of the stream, a reset.    *)
(***************************************************************************)
EXTENDS Integers, Sequences, FiniteSets

CONSTANT Clients

ASSUME SocketsAssumption == IsFiniteSet(Clients)

VARIABLE net

Ends == {"open", "eof", "reset"}
NoConn == [up |-> FALSE, bytes |-> <<>>, end |-> "open"]

SocketsInit == net = [c \in Clients |-> NoConn]

Dialed(c) == net' = [net EXCEPT ![c] = [NoConn EXCEPT !.up = TRUE]]

Closed(c) == net' = [net EXCEPT ![c] = NoConn]

(* The server gets a request and sends an answer, or a part of one, unless *)
(* it already closed: then the request goes nowhere.                       *)
Sends(c, bytes, end) ==
  /\ net[c].end = "open"
  /\ net' = [net EXCEPT ![c].bytes = @ \o bytes, ![c].end = end]

Unheard(c) ==
  /\ net[c].end # "open"
  /\ UNCHANGED net

Takes(c, k) == net' = [net EXCEPT ![c].bytes = SubSeq(@, k + 1, Len(@))]

(* A server closes, or a middlebox resets, a connection nothing happens on.*)
IdleEnds(c, end) ==
  /\ net[c].up
  /\ net[c].end = "open"
  /\ end # "open"
  /\ net' = [net EXCEPT ![c].end = end]
=============================================================================
