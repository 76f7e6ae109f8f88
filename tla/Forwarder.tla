----------------------------- MODULE Forwarder ------------------------------
(***************************************************************************)
(* fhttp's servers that pass a request on: the multi-server, which sends it*)
(* to its targets one after the other or all at once and puts their answers*)
(* together, and the fetchers; FetcherHandler2 has one client for all of   *)
(* its requests and sets that client's options for each.                   *)
(***************************************************************************)
EXTENDS EchoServer, FiniteSets

VARIABLES
  tee,    \* of each handler: the place in the targets, first, and the answers it got
  proxy,  \* sharedProxyClient: who set its timeout and its transport last
  used,   \* whose timeout and transport each request was made with, and if it was alone
  idle,   \* the idle connections of the transport each handler made
  dials   \* the connections made by the shared client

forwardVars == <<tee, proxy, used, idle, dials>>

NoAnswer == [code |-> 0, text |-> <<>>]
Nobody == [timeout |-> NoOne, transport |-> NoOne]

ForwardInit ==
  /\ tee = [h \in Handlers |-> [next |-> 1, first |-> TRUE, left |-> {}, got |-> <<>>, text |-> <<>>]]
  /\ proxy = Nobody
  /\ used = [h \in Handlers |-> [timeout |-> NoOne, transport |-> NoOne, alone |-> TRUE]]
  /\ idle = [h \in Handlers |-> 0]
  /\ dials = 0

(* A target answers with a code and a body, which may be cut, or without   *)
(* one, or not: then the text is that of the error.                        *)
AnswersOf(i) ==
  {[code |-> -1, text |-> <<<<"error", i>>>>], [code |-> 204, text |-> <<>>]}
    \cup {[code |-> c, text |-> t] : c \in {200, 404}, t \in {<<>>, <<<<"body", i>>>>}}

Targets == DOMAIN conf.targets

(* Targets to which no request can be made are skipped.                    *)
Good == {i \in Targets : conf.targets[i].good}

-----------------------------------------------------------------------------
TeeHandler(h) ==
  /\ at[h] = "arrived" /\ req[h].to = "tee"
  /\ tee' = [tee EXCEPT ![h].got = [i \in Targets |-> NoAnswer], ![h].text = [i \in Targets |-> <<>>],
                        ![h].left = IF conf.serial THEN {} ELSE Good]
  /\ IF req[h].cut THEN Responds(h, 500, -1, <<<<"error", 0>>>>) ELSE UNCHANGED <<resp, gz>>
  /\ Goes(h, IF req[h].cut THEN "done" ELSE IF conf.serial THEN "serial" ELSE "parallel")
  /\ UNCHANGED <<conf, req, job, proxy, used, idle, dials>>

(* The first answer, or error, gives the status, also that of no body.     *)
TeeSerial(h) ==
  LET i == tee[h].next
  IN /\ at[h] = "serial"
     /\ i \in Good
     /\ \E a \in AnswersOf(i) :
          LET status == IF ~tee[h].first THEN resp[h].status ELSE IF a.code = -1 THEN 503 ELSE a.code
          IN /\ tee' = [tee EXCEPT ![h].next = i + 1, ![h].first = FALSE, ![h].got[i] = a]
             /\ resp' = [resp EXCEPT ![h].status = status,
                                     ![h].body = IF Bodyless(status) THEN @ ELSE @ \o a.text]
     /\ UNCHANGED <<at, conf, req, echoVars, proxy, used, idle, dials>>

(* A handler that returns without a status gave 200.                       *)
TeeSerialSkips(h) ==
  LET i == tee[h].next
  IN /\ at[h] = "serial"
     /\ i \notin Good
     /\ IF i \in Targets THEN tee' = [tee EXCEPT ![h].next = i + 1] /\ UNCHANGED <<at, resp>>
        ELSE /\ Goes(h, "done")
             /\ resp' = [resp EXCEPT ![h].status = IF tee[h].first THEN 200 ELSE @]
             /\ UNCHANGED tee
     /\ UNCHANGED <<conf, req, echoVars, proxy, used, idle, dials>>

(* Mutant: the goroutines have one buffer for all of them.                 *)
SingleRequestTogether(h, i) ==
  /\ at[h] = "parallel"
  /\ i \in tee[h].left
  /\ \E a \in AnswersOf(i) :
       tee' = [tee EXCEPT ![h].left = @ \ {i}, ![h].got[i] = a, ![h].text[1] = @ \o a.text]
  /\ UNCHANGED <<webVars, echoVars, proxy, used, idle, dials>>

(* Each goroutine has its place in the buffers and in the statuses.        *)
SingleRequest(h, i) ==
  /\ at[h] = "parallel"
  /\ i \in tee[h].left
  /\ \E a \in AnswersOf(i) :
       tee' = [tee EXCEPT ![h].left = @ \ {i}, ![h].got[i] = a, ![h].text[i] = a.text]
  /\ UNCHANGED <<webVars, echoVars, proxy, used, idle, dials>>

(* All are waited for; the first that is not 200 gives the status, and may *)
(* be of no body.                                                          *)
TeeParallel(h) ==
  LET bad == {i \in Targets : tee[h].got[i].code # 200}
      code == IF bad = {} THEN 200 ELSE tee[h].got[CHOOSE i \in bad : \A j \in bad : i <= j].code
  IN /\ at[h] = "parallel"
     /\ tee[h].left = {}
     /\ Responds(h, IF code <= 0 THEN 503 ELSE code, -1, FlattenSeq(tee[h].text))
     /\ Goes(h, "done")
     /\ UNCHANGED <<conf, req, job, forwardVars>>

-----------------------------------------------------------------------------
Fetching(h) == at[h] \in {"timeout", "transport", "do", "send", "sent"}

(* A missing, empty or invalid url is refused.                             *)
FetcherHandler2(h) ==
  LET others == {g \in Handlers \ {h} : Fetching(g)}
  IN /\ at[h] = "arrived" /\ req[h].to = "fetch2"
     /\ IF req[h].good
        THEN /\ Goes(h, "timeout")
             /\ used' = [g \in Handlers |->
                           IF g \in others \/ (g = h /\ others # {}) THEN [used[g] EXCEPT !.alone = FALSE] ELSE used[g]]
             /\ UNCHANGED <<resp, gz>>
        ELSE Goes(h, "done") /\ Responds(h, 400, -1, <<<<"error", 0>>>>) /\ UNCHANGED used
     /\ UNCHANGED <<conf, req, job, tee, proxy, idle, dials>>

(* setClientOptions writes two fields of the one client, with no lock.     *)
SetsTimeout(h) ==
  /\ at[h] = "timeout"
  /\ proxy' = [proxy EXCEPT !.timeout = h]
  /\ Goes(h, "transport")
  /\ UNCHANGED <<conf, req, resp, echoVars, tee, used, idle, dials>>

SetsTransport(h) ==
  /\ at[h] = "transport"
  /\ proxy' = [proxy EXCEPT !.transport = h]
  /\ Goes(h, "do")
  /\ UNCHANGED <<conf, req, resp, echoVars, tee, used, idle, dials>>

(* Do reads them again, one after the other, and takes a connection of the *)
(* transport it found.                                                     *)
DoReadsTimeout(h) ==
  /\ at[h] = "do"
  /\ used' = [used EXCEPT ![h].timeout = proxy.timeout]
  /\ Goes(h, "send")
  /\ UNCHANGED <<conf, req, resp, echoVars, tee, proxy, idle, dials>>

DoSends(h) ==
  LET t == proxy.transport
  IN /\ at[h] = "send"
     /\ used' = [used EXCEPT ![h].transport = t]
     /\ IF idle[t] > 0 THEN idle' = [idle EXCEPT ![t] = @ - 1] /\ UNCHANGED dials
        ELSE dials' = dials + 1 /\ UNCHANGED idle
     /\ Goes(h, "sent")
     /\ UNCHANGED <<conf, req, resp, echoVars, tee, proxy>>

(* The answer, an error or the time-out, if one was set.                   *)
DoReturns(h) ==
  /\ at[h] = "sent"
  /\ \E a \in AnswersOf(1) :
       /\ Responds(h, IF a.code = -1 THEN 400 ELSE a.code, -1, a.text)
       /\ idle' = IF a.code = -1 THEN idle ELSE [idle EXCEPT ![used[h].transport] = @ + 1]
  /\ Goes(h, "done")
  /\ UNCHANGED <<conf, req, job, tee, proxy, used, dials>>

(* FetcherHandler takes over the connection and makes a client of its own. *)
FetcherHandler(h) ==
  /\ at[h] = "arrived" /\ req[h].to = "fetch"
  /\ IF req[h].h2 THEN Responds(h, 505, -1, <<<<"error", 0>>>>) ELSE UNCHANGED <<resp, gz>>
  /\ Goes(h, IF ~req[h].h2 /\ req[h].good THEN "fetch" ELSE "done")
  /\ UNCHANGED <<conf, req, job, forwardVars>>

(* It writes what that fetched as it is, if it is something.               *)
Fetches(h) ==
  /\ at[h] = "fetch"
  /\ \/ UNCHANGED <<resp, gz>>
     \/ \E a \in AnswersOf(1) : a.code # -1 /\ Responds(h, a.code, -1, a.text)
  /\ Goes(h, "done")
  /\ UNCHANGED <<conf, req, job, forwardVars>>

ForwardStep(h) ==
  \/ TeeHandler(h) \/ TeeSerial(h) \/ TeeSerialSkips(h) \/ TeeParallel(h)
  \/ \E i \in Targets : SingleRequest(h, i)
  \/ FetcherHandler2(h) \/ SetsTimeout(h) \/ SetsTransport(h)
  \/ DoReadsTimeout(h) \/ DoSends(h) \/ DoReturns(h)
  \/ FetcherHandler(h) \/ Fetches(h)
=============================================================================
