---------------------------- MODULE EchoClients ----------------------------
(***************************************************************************)
(* The clients of tcprunner and udprunner, which send a message and expect *)
(* it back, kafkarunner's and fgrpc's, and fhttp's standard client around  *)
(* net/http's.                                                             *)
(* Like FastClient the first two try once more when a reused socket cannot *)
(* be written to; unlike it they keep a socket only after a call that went *)
(* well, and close it only if they do.                                     *)
(***************************************************************************)
EXTENDS FastClient

CONSTANT MessageSize  \* of the payload, in the units a read may stop at

ASSUME MessageAssumption == MessageSize \in Nat \ {0}

VARIABLE echo   \* messageCount, bytesSent, bytesReceived, what was read; messagesSent and metrics

EchoInit ==
  echo = [c \in Clients |-> [messages |-> 0, sent |-> 0, received |-> 0, got |-> <<>>,
                             acked |-> 0, requests |-> 0, errors |-> 0]]

IsEcho == conf.kind \in {"tcp", "udp"}

(* GeneratePayload makes each message unique; a payload given by the user  *)
(* is the same each time.  From connection 10000 on, what is generated is  *)
(* longer than the buffer, made for the first one.                         *)
Message(e) == IF conf.generate THEN e.messages ELSE 0
Unit(m) == <<"echo", m>>
Units == {"echo"} \X (Nat \cup {-1})

(* What the bytes of a connection are, and for UDP, its datagrams.         *)
Stream == CASE conf.kind = "fast" -> Seq(Tokens) [] conf.kind = "udp" -> Seq(Seq(Units)) [] OTHER -> Seq(Units)
Request(e) == [i \in 1 .. MessageSize + (IF conf.wide THEN 1 ELSE 0) |-> Unit(Message(e))]

EchoFetch(c) ==
  LET reused == cl[c].socket
  IN /\ \/ At(c, "called")
        \/ At(c, "again")
     /\ IsEcho
     /\ echo' = [echo EXCEPT ![c].messages = @ + 1, ![c].got = <<>>]
     /\ cl' = [cl EXCEPT ![c].pc = IF reused THEN "write" ELSE "connect",
                         ![c].reused = reused, ![c].socket = FALSE, ![c].code = SocketError]
     /\ UNCHANGED <<net, fast, dnsVars>>

EchoConnect(c) ==
  /\ At(c, "connect")
  /\ IsEcho
  /\ \/ cl' = [cl EXCEPT ![c].pc = "write", ![c].sockets = @ + 1, ![c].connects = @ + 1] /\ Dialed(c)
     \/ cl' = [cl EXCEPT ![c].pc = "done", ![c].sockets = @ + 1, ![c].connects = @ + 1] /\ UNCHANGED net
  /\ UNCHANGED <<fast, echo, dnsVars>>

EchoWriteFails(c) ==
  /\ At(c, "write")
  /\ IsEcho
  /\ Retries(c) \/ Abandons(c)
  /\ UNCHANGED echo

(* A server of another kind may send anything back, or more than it got.   *)
(* A stream may be cut anywhere; a datagram is lost, whole or doubled.     *)
Replies(c) ==
  LET right == Request(echo[c])
      wrong == [right EXCEPT ![1] = Unit(-1)]
  IN {<<bytes, "open">> : bytes \in {right, wrong, right \o right}}
       \cup {<<SubSeq(right, 1, n), end>> : n \in 0 .. Len(right), end \in Ends}

Datagrams(c) ==
  {<<<<>>, "open">>, <<<<Request(echo[c])>>, "open">>, <<<<Request(echo[c]), Request(echo[c])>>, "open">>,
   <<<<Tail(Request(echo[c]))>>, "open">>}

DatagramSent(c) == conf.kind = "udp" /\ \E r \in Datagrams(c) : Sends(c, r[1], r[2])

(* The write returns, if it does: ClientRuns states no fairness for tcp's. *)
EchoWrite(c) ==
  /\ At(c, "write")
  /\ IsEcho
  /\ \/ conf.kind = "tcp" /\ \E r \in Replies(c) : Sends(c, r[1], r[2])
     \/ DatagramSent(c)
     \/ Unheard(c)
  /\ cl' = [cl EXCEPT ![c].pc = "read", ![c].tries = @ + 1]
  /\ echo' = [echo EXCEPT ![c].sent = @ + Len(Request(echo[c]))]
  /\ UNCHANGED <<fast, dnsVars>>

(* TCP reads until it has as much as it sent, and compares.  A read into a *)
(* buffer with no room left gives nothing.                                 *)
EchoRead(c) ==
  LET room == MessageSize - Len(echo[c].got)
  IN /\ At(c, "read")
     /\ conf.kind = "tcp"
     /\ \/ \E k \in 1 .. room :
             LET got == echo[c].got \o SubSeq(net[c].bytes, 1, k)
             IN /\ k <= Len(net[c].bytes)
                /\ Takes(c, k)
                /\ echo' = [echo EXCEPT ![c].got = got, ![c].received = @ + k]
                /\ IF Len(got) < Len(Request(echo[c])) THEN UNCHANGED cl
                   ELSE cl' = [cl EXCEPT ![c].pc = "done", ![c].socket = (got = Request(echo[c])),
                                         ![c].code = IF got = Request(echo[c]) THEN 200 ELSE SocketError]
        \/ room = 0 /\ UNCHANGED <<net, echo, cl>>
     /\ UNCHANGED <<fast, dnsVars>>

EchoReadFails(c) ==
  /\ At(c, "read")
  /\ IsEcho
  /\ Len(echo[c].got) < MessageSize /\ net[c].bytes = <<>>
  /\ GoesTo(c, "done")
  /\ UNCHANGED <<net, fast, echo, dnsVars>>

(* UDP reads one datagram, cut to the size of the buffer.                  *)
DatagramRead(c) ==
  LET full == Head(net[c].bytes)
      got == SubSeq(full, 1, IF Len(full) < MessageSize THEN Len(full) ELSE MessageSize)
  IN /\ At(c, "read")
     /\ conf.kind = "udp"
     /\ net[c].bytes # <<>>
     /\ Takes(c, 1)
     /\ echo' = [echo EXCEPT ![c].got = got, ![c].received = @ + Len(got)]
     /\ cl' = [cl EXCEPT ![c].pc = "done", ![c].socket = (got = Request(echo[c])),
                         ![c].code = IF got = Request(echo[c]) THEN 200 ELSE SocketError]
     /\ UNCHANGED <<fast, dnsVars>>

EchoStep(c) ==
  \/ EchoFetch(c) \/ EchoConnect(c) \/ EchoWriteFails(c) \/ EchoWrite(c)
  \/ EchoRead(c) \/ EchoReadFails(c) \/ DatagramRead(c)

-----------------------------------------------------------------------------
(* Kafka's client, external, sends a message and waits until it is taken,  *)
(* at most five seconds.  The metrics count what failed only as an error.  *)
Produce(c) ==
  LET metered == IF conf.collect THEN 1 ELSE 0
      counted == [echo[c] EXCEPT !.messages = @ + 1]
  IN /\ At(c, "called")
     /\ conf.kind = "kafka"
     /\ \/ /\ cl' = [cl EXCEPT ![c].pc = "done", ![c].code = 200]
           /\ echo' = [echo EXCEPT ![c] = [counted EXCEPT !.acked = @ + 1, !.requests = @ + metered]]
        \/ /\ cl' = [cl EXCEPT ![c].pc = "done", ![c].code = SocketError]
           /\ echo' = [echo EXCEPT ![c] = [counted EXCEPT !.errors = @ + metered]]
     /\ UNCHANGED <<net, fast, dnsVars>>

-----------------------------------------------------------------------------
(* gRPC's client, external, gives an error or an answer, and has no        *)
(* deadline.  A health check may be answered with another status than      *)
(* SERVING, which is no error.                                             *)
NotServing == 503

Invoke(c) ==
  /\ At(c, "called")
  /\ conf.kind = "grpc"
  /\ \E code \in {200, SocketError} \cup (IF conf.service = "health" THEN {NotServing} ELSE {}) :
       cl' = [cl EXCEPT ![c].pc = "done", ![c].code = code]
  /\ UNCHANGED <<net, fast, echo, dnsVars>>

-----------------------------------------------------------------------------
(* The standard client: net/http's transport, external, dials when it has  *)
(* no idle connection and tries again by itself when that one is dead.     *)
StdFetch(c) ==
  /\ At(c, "called")
  /\ conf.kind = "std"
  /\ cl' = [cl EXCEPT ![c].pc = "do", ![c].code = SocketError]
  /\ UNCHANGED <<net, fast, echo, dnsVars>>

StdDials(c) ==
  /\ At(c, "do")
  /\ ~cl[c].socket \/ net[c].end # "open"
  /\ \/ /\ cl' = [cl EXCEPT ![c].pc = "sent", ![c].socket = TRUE, ![c].sockets = @ + 1,
                            ![c].connects = @ + 1, ![c].lookups = @ + 1]
        /\ Dialed(c)
     \/ /\ cl' = [cl EXCEPT ![c].pc = "done", ![c].socket = FALSE, ![c].sockets = @ + 1,
                            ![c].connects = @ + 1]
        /\ Closed(c)
  /\ UNCHANGED <<fast, echo, dnsVars>>

StdReuses(c) ==
  /\ At(c, "do")
  /\ cl[c].socket /\ net[c].end = "open"
  /\ GoesTo(c, "sent")
  /\ UNCHANGED <<net, fast, echo, dnsVars>>

(* Do gives an answer or an error; then the copy of the body may fail, and *)
(* a good code becomes 204.                                                *)
StdAnswered(c) ==
  /\ At(c, "sent")
  /\ \/ /\ cl' = [cl EXCEPT ![c].pc = "done", ![c].socket = FALSE]
        /\ Closed(c)
     \/ \E a \in Answers[conf.server] :
          /\ cl' = [cl EXCEPT ![c].pc = "done", ![c].socket = conf.keepAlive,
                              ![c].code = a.code, ![c].served = a.code, ![c].whole = TRUE]
          /\ IF conf.keepAlive THEN UNCHANGED net ELSE Closed(c)
     \/ \E a \in Answers[conf.server] :
          /\ cl' = [cl EXCEPT ![c].pc = "done", ![c].socket = FALSE,
                              ![c].code = IF CodeIsOK(a.code) THEN 204 ELSE a.code,
                              ![c].served = a.code, ![c].whole = FALSE]
          /\ Closed(c)
  /\ UNCHANGED <<fast, echo, dnsVars>>

StdStep(c) == StdFetch(c) \/ StdDials(c) \/ StdReuses(c) \/ StdAnswered(c)
=============================================================================
