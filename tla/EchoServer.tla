----------------------------- MODULE EchoServer -----------------------------
(***************************************************************************)
(* fhttp's echo and debug handlers: the status, size, delay, compression   *)
(* and closing a request asks for, each with its share of the answers, and *)
(* the pool of gzip writers the handlers share.                            *)
(***************************************************************************)
EXTENDS Integers, Sequences, SequencesExt

CONSTANTS
  Handlers,        \* the goroutines of the server, one for each request
  GzipWriters,     \* what gzPool holds or may make
  MaxPayloadSize,  \* fnet's
  MaxDelay         \* the flag, of a delay that is asked for

ASSUME EchoAssumption == MaxPayloadSize \in Nat /\ MaxDelay \in Nat

VARIABLES
  conf,  \* how the server was started, and the requests it may get
  at,    \* where each handler is
  req,   \* its request
  resp,  \* what the client has of the answer
  job,   \* what the echo handler drew, with which rolls
  gz     \* each gzip writer: pooled or not, whose response it writes to, what it holds

echoVars == <<job, gz>>
webVars == <<conf, at, req, resp>>

NoOne == 0
Nothing == [status |-> 0, length |-> -1, close |-> FALSE, body |-> <<>>]

EchoInit ==
  /\ job = [h \in Handlers |-> [status |-> 200, size |-> -1, writer |-> NoOne, rolls |-> <<0, 0>>]]
  /\ gz = [w \in GzipWriters |-> [pooled |-> TRUE, to |-> NoOne, held |-> <<>>]]

-----------------------------------------------------------------------------
(* The shares of a list, in units of which Full make 100%.  A malformed    *)
(* entry has the share -1.  A roll of k stands for the numbers above k - 1 *)
(* and up to k, 0 for zero.                                                *)
Full == 4
Rolls == 0 .. Full

(* With no list no number is drawn.                                        *)
RollsFor(list) == IF list = <<>> THEN {0} ELSE Rolls

Sums(list) ==
  LET upTo[i \in 0 .. Len(list)] == IF i = 0 THEN 0 ELSE upTo[i - 1] + list[i].share IN upTo

Malformed(list) ==
  \E i \in DOMAIN list : list[i].share \notin 0 .. Full \/ Sums(list)[i] > Full

Drawn(list, roll, other) ==
  LET hits == {i \in DOMAIN list : roll <= Sums(list)[i]}
  IN IF hits = {} THEN other ELSE list[CHOOSE i \in hits : \A j \in hits : i <= j].value

generateStatus(list, roll) ==
  IF list = <<>> THEN 200 ELSE IF Malformed(list) THEN 400 ELSE Drawn(list, roll, 200)

ValidatePayloadSize(n) == IF n > MaxPayloadSize THEN MaxPayloadSize ELSE IF n < 0 THEN 0 ELSE n

Validated(list) == [i \in DOMAIN list |-> [list[i] EXCEPT !.value = ValidatePayloadSize(@)]]

generateSize(list, roll) ==
  IF Malformed(Validated(list)) THEN -1 ELSE Drawn(Validated(list), roll, -1)

Capped(d) == IF d > MaxDelay THEN MaxDelay ELSE d

generateDelay(list, roll) ==
  IF list = <<>> \/ Malformed(list) THEN -1
  ELSE Drawn([i \in DOMAIN list |-> [list[i] EXCEPT !.value = Capped(@)]], roll, 0)

(* "false" is a share of -1, "true" and all that is no number one of Full. *)
generateSingleProbability(share, roll) == roll <= share

-----------------------------------------------------------------------------
Goes(h, to) == at' = [at EXCEPT ![h] = to]

(* An echo with no query has the default parameters, if there are some.    *)
Params(h) ==
  IF req[h].to # "echo" \/ req[h].query \/ conf.defaults = <<>> THEN req[h].params ELSE conf.defaults[1]

(* net/http sends an informational status at once, and another with what is*)
(* written; with some no body is sent, and to write it is an error.        *)
Informational(h, status) == status \in 100 .. 199 /\ (status = 101 => req[h].h2)
Final(h, status) == IF Informational(h, status) THEN 200 ELSE status
Bodyless(status) == status \in {101, 204, 304}

(* It also refuses to write more than the length that was given, and gives *)
(* none without a body; HTTP/2 does neither.                               *)
Sent(h, status, length, body) ==
  [resp[h] EXCEPT
     !.status = status,
     !.length = IF Bodyless(status) /\ ~req[h].h2 THEN -1 ELSE length,
     !.body = IF Bodyless(status) \/ (length # -1 /\ Len(body) > length /\ ~req[h].h2) THEN <<>> ELSE body]

(* Mutant: the length is that of what is written, compressed or not.       *)
RespondsWithLength(h, status, length, body) ==
  LET w == job[h].writer
      final == Final(h, status)
  IN IF w = NoOne
     THEN resp' = [resp EXCEPT ![h] = Sent(h, final, length, body)] /\ UNCHANGED gz
     ELSE /\ resp' = [resp EXCEPT ![h] = [Sent(h, final, length, body) EXCEPT !.body = <<>>]]
          /\ gz' = [gz EXCEPT ![w].held = @ \o body]

(* A response is written through the gzip writer the handler has, if any,  *)
(* which removes the length and holds what is written until it is closed.  *)
Responds(h, status, length, body) ==
  LET w == job[h].writer
      final == Final(h, status)
  IN IF w = NoOne
     THEN resp' = [resp EXCEPT ![h] = Sent(h, final, length, body)] /\ UNCHANGED gz
     ELSE /\ resp' = [resp EXCEPT ![h].status = final, ![h].length = -1]
          /\ gz' = [gz EXCEPT ![w].held = @ \o body]

(* NewGzipHTTPResponseWriter: a writer of the pool, reset to the response. *)
Takes(h, drawn) ==
  \E w \in GzipWriters :
    /\ gz[w].pooled
    /\ gz' = [gz EXCEPT ![w] = [pooled |-> FALSE, to |-> h, held |-> <<>>]]
    /\ job' = [job EXCEPT ![h] = [drawn EXCEPT !.writer = w]]

(* DebugHandler compresses whenever it may, and reads the body first.      *)
DebugReads(h) ==
  /\ at[h] = "arrived" /\ req[h].to = "debug"
  /\ IF req[h].gzip THEN Takes(h, job[h]) ELSE UNCHANGED echoVars
  /\ Goes(h, IF req[h].cut THEN "fails" ELSE "delay")
  /\ UNCHANGED <<conf, req, resp>>

EchoArrives(h) ==
  /\ at[h] = "arrived" /\ req[h].to = "echo"
  /\ Goes(h, "delay")
  /\ UNCHANGED <<echoVars, conf, req, resp>>

Delays(h) ==
  /\ at[h] = "delay"
  /\ \E roll \in RollsFor(Params(h).delay) :
       Goes(h, IF generateDelay(Params(h).delay, roll) > 0 THEN "sleep" ELSE "args")
  /\ UNCHANGED <<echoVars, conf, req, resp>>

Awakes(h) ==
  /\ at[h] = "sleep"
  /\ Goes(h, "args")
  /\ UNCHANGED <<echoVars, conf, req, resp>>

(* Then handleCommonArgs may ask to close the connection, and takes over   *)
(* the headers that were asked for, of which only a length matters here.   *)
Closes(h) ==
  /\ at[h] = "args"
  /\ \E roll \in Rolls :
       resp' = [resp EXCEPT ![h].close = generateSingleProbability(Params(h).close, roll)]
  /\ Goes(h, IF req[h].to = "echo" THEN "draw" ELSE "write")
  /\ UNCHANGED <<echoVars, conf, req>>

EchoDraws(h) ==
  LET p == Params(h)
  IN /\ at[h] = "draw"
     /\ \E s \in RollsFor(p.status), g \in Rolls, z \in RollsFor(p.size) :
          LET gzip == req[h].gzip /\ generateSingleProbability(p.gzip, g)
              size == generateSize(p.size, z)
              drawn == [status |-> generateStatus(p.status, s), size |-> size, writer |-> NoOne, rolls |-> <<s, z>>]
              h2Mode == req[h].h2 /\ ~gzip /\ size = -1
          IN /\ Goes(h, IF req[h].cut /\ ~h2Mode THEN "fails" ELSE "write")
             /\ IF gzip THEN Takes(h, drawn) ELSE job' = [job EXCEPT ![h] = drawn] /\ UNCHANGED gz
     /\ UNCHANGED <<conf, req, resp>>

Payload(n) == [i \in 1 .. n |-> <<"payload", 0>>]

(* The body of a request as a handler reads it: all of it, or a part.      *)
InputOf(h) == [i \in 1 .. req[h].body |-> <<"input", h>>]

ReadFails(h) ==
  /\ at[h] = "fails"
  /\ Responds(h, 500, -1, <<<<"error", 0>>>>)
  /\ Goes(h, "finish")
  /\ UNCHANGED <<conf, req, job>>

(* A length that was asked for is not replaced by that of the request.     *)
LengthOf(h) ==
  IF Params(h).length # -1 THEN Params(h).length ELSE IF req[h].length THEN req[h].body ELSE -1

(* net/http panics when it is given a code that is none.                   *)
EchoWrites(h) ==
  LET status == job[h].status
      size == job[h].size
  IN /\ at[h] = "write"
     /\ \/ /\ req[h].to = "debug"
           /\ Responds(h, 200, -1, <<<<"debug", 0>>>> \o InputOf(h))
        \/ /\ req[h].to = "echo" /\ status \notin 100 .. 999
           /\ UNCHANGED <<resp, gz>>
        \/ /\ req[h].to = "echo" /\ status \in 100 .. 999 /\ size >= 0
           /\ Responds(h, status, size, Payload(size))
        \/ /\ req[h].to = "echo" /\ status \in 100 .. 999 /\ size = -1
           /\ Responds(h, status, LengthOf(h),
                       IF req[h].cut THEN Append(Tail(InputOf(h)), <<"error", 0>>) ELSE InputOf(h))
     /\ Goes(h, "finish")
     /\ UNCHANGED <<conf, req, job>>

(* The deferred Close: what the writer holds goes to the response it writes*)
(* to, if that takes a body; then the writer goes back to the pool.        *)
ClosesWriter(h) ==
  LET w == job[h].writer
  IN /\ at[h] = "finish"
     /\ IF w = NoOne THEN Goes(h, "done") /\ UNCHANGED <<resp, gz>>
        ELSE /\ resp' = IF Bodyless(resp[gz[w].to].status) THEN resp
                        ELSE [resp EXCEPT ![gz[w].to].body = @ \o <<<<"gzip", gz[w].held>>>>]
             /\ gz' = [gz EXCEPT ![w].held = <<>>]
             /\ Goes(h, "put")
     /\ UNCHANGED <<conf, req, job>>

PutsWriter(h) ==
  /\ at[h] = "put"
  /\ gz' = [gz EXCEPT ![job[h].writer].pooled = TRUE]
  /\ Goes(h, "done")
  /\ UNCHANGED <<conf, req, resp, job>>

EchoStep(h) ==
  \/ DebugReads(h) \/ EchoArrives(h) \/ Delays(h) \/ Awakes(h) \/ Closes(h)
  \/ EchoDraws(h) \/ ReadFails(h) \/ EchoWrites(h) \/ ClosesWriter(h) \/ PutsWriter(h)
=============================================================================
