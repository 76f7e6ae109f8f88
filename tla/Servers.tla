------------------------------ MODULE Servers -------------------------------
(***************************************************************************)
(* fortio's servers at work: the handlers of HTTP requests, in parallel and*)
(* over what they share, while runs save their results; and a relay of     *)
(* connections.                                                            *)
(***************************************************************************)
EXTENDS Forwarder, DataIndex, Relay

CONSTANT Confs  \* the servers and their requests

(* A parameter's list, the parameters of a request, the requests.          *)
Shares == Seq([value: Int, share: Int])
ParamSets == [status: Shares, size: Shares, delay: Shares, gzip: Int, close: Int, length: Nat \cup {-1}]
Requests ==
  [to: STRING, params: ParamSets, query: BOOLEAN, gzip: BOOLEAN, h2: BOOLEAN, body: Nat,
   cut: BOOLEAN, length: BOOLEAN, good: BOOLEAN, timeout: BOOLEAN, host: STRING]

ASSUME ServersAssumption ==
  /\ Handlers \subseteq Nat \ {NoOne}
  /\ Savers \subseteq Nat \ {NoOne} /\ IsFiniteSet(Savers)
  /\ NoOne \notin GzipWriters
  /\ Whole \in Nat \ {0}
  /\ \A c \in Confs : /\ c.requests \in [Handlers -> SUBSET Requests] /\ c.defaults \in Seq(ParamSets)
                      /\ c.names \in [Savers -> Nat] /\ c.targets \in Seq([good: BOOLEAN])
                      /\ c.timeout \in BOOLEAN

vars == <<webVars, echoVars, forwardVars, dataVars, relayVars>>

NoRequest == [to |-> "none", cut |-> FALSE, gzip |-> FALSE, h2 |-> FALSE]

Init ==
  /\ conf \in Confs
  /\ mode = conf.relay
  /\ at = [h \in Handlers |-> "idle"]
  /\ req = [h \in Handlers |-> NoRequest]
  /\ resp = [h \in Handlers |-> Nothing]
  /\ EchoInit /\ ForwardInit /\ DataInit /\ RelayInit

Arrives(h) ==
  /\ at[h] = "idle"
  /\ \E r \in conf.requests[h] : req' = [req EXCEPT ![h] = r]
  /\ Goes(h, "arrived")
  /\ UNCHANGED <<conf, resp, echoVars, forwardVars, dataVars, relayVars>>

Handles(h) ==
  \/ EchoStep(h) /\ UNCHANGED <<forwardVars, dataVars, relayVars>>
  \/ ForwardStep(h) /\ UNCHANGED <<dataVars, relayVars>>
  \/ DataStep(h) /\ UNCHANGED <<forwardVars, relayVars>>

Saves == SaveSteps /\ UNCHANGED <<webVars, echoVars, forwardVars, relayVars>>

Relays == RelayWorks /\ mode.kind # "none" /\ UNCHANGED <<webVars, echoVars, forwardVars, dataVars>>

OthersMove == SidesMove /\ mode.kind # "none" /\ UNCHANGED <<webVars, echoVars, forwardVars, dataVars>>

Next ==
  \/ \E h \in Handlers : Arrives(h) \/ Handles(h)
  \/ Saves \/ Relays \/ OthersMove

(* The call of a fetcher's own client may spin, or block where it writes   *)
(* what it fetched; a target that says nothing is waited for with no end   *)
(* when the options a call was made with set no time-out: those of the form*)
(* may not, nor the multi-server's.                                        *)
MayStay(h) ==
  \/ at[h] = "fetch"
  \/ at[h] = "sent" /\ ~req[used[h].timeout].timeout
  \/ at[h] \in {"serial", "parallel"} /\ ~conf.timeout

(* Goroutines run, who asks sends its request and reads the answer, and a  *)
(* server that waits for the end of the requests ends when it is told.     *)
Fairness ==
  /\ \A h \in Handlers : WF_vars(Handles(h) /\ ~MayStay(h))
  /\ WF_vars(Relays)
  /\ WF_vars(EndsSending("right") /\ mode.patient /\ OthersMove)

Spec == Init /\ [][Next]_vars /\ Fairness
-----------------------------------------------------------------------------
Done(h, to) == at[h] = "done" /\ req[h].to = to

(* The values of a list, each as often as its share, then the default.     *)
Slots(list) == FlattenSeq([i \in DOMAIN list |-> [k \in 1 .. list[i].share |-> list[i].value]])

Share(list, roll, bad, other) ==
  IF \E i \in DOMAIN list : list[i].share \notin 0 .. Full THEN bad
  ELSE IF Len(Slots(list)) > Full THEN bad
  ELSE IF roll = 0 /\ list # <<>> THEN list[1].value
  ELSE IF roll \in DOMAIN Slots(list) THEN Slots(list)[roll] ELSE other

(* What an echo is to hold by the status and size that were drawn: the     *)
(* status is the last of those that are sent; the body is the input or the *)
(* size, compressed as a whole or not at all, where the status allows one; *)
(* and a length that is given is that of the body.  Only who asks for a    *)
(* length in a header, and no size, may get that instead, and no body.     *)
PlainOf(h) == IF job[h].size = -1 THEN InputOf(h) ELSE Payload(job[h].size)

Told(h) == job[h].status \in 100 .. 999

AsksLength(h) == Params(h).length # -1 /\ job[h].size = -1

Bodies(h) ==
  IF Bodyless(resp[h].status) THEN {<<>>}
  ELSE {PlainOf(h), <<<<"gzip", PlainOf(h)>>>>} \cup IF AsksLength(h) THEN {<<>>} ELSE {}

LengthRight(h) ==
  \/ resp[h].length \in {-1, Len(resp[h].body)}
  \/ Bodyless(resp[h].status) /\ req[h].h2
  \/ AsksLength(h) /\ resp[h].length = Params(h).length

EchoWhole(h) ==
  Done(h, "echo") /\ ~req[h].cut =>
    /\ resp[h].status = IF Told(h) THEN Final(h, job[h].status) ELSE 0
    /\ Told(h) => resp[h].body \in Bodies(h)
    /\ LengthRight(h)

(* The echo is what was asked for, whatever the handlers that use the same *)
(* gzip writers do meanwhile: each value was drawn for exactly its share of*)
(* the rolls (a list that is wrong gives 400, or no size), and the answer  *)
(* is whole.                                                               *)
EchoExact ==
  \A h \in Handlers : Done(h, "echo") =>
    LET p == Params(h)
    IN /\ job[h].status = Share(p.status, job[h].rolls[1], 400, 200)
       /\ job[h].size = Share(Validated(p.size), job[h].rolls[2], -1, -1)
       /\ EchoWhole(h)

TextsOf(answers) == [i \in DOMAIN answers |-> answers[i].text]

(* The status for the answers at some places: that of the first of them.   *)
StatusOfFirst(answers, places) ==
  LET code == answers[CHOOSE i \in places : \A j \in places : i <= j].code
  IN IF code <= 0 THEN 503 ELSE code

(* Each target to which a request can be made was asked, and what it said  *)
(* is in the answer, but for a status that allows no body.                 *)
TeeRight(h) ==
  LET got == tee[h].got
      telling == {i \in Targets : got[i].code # IF conf.serial THEN 0 ELSE 200}
  IN /\ DOMAIN got = Targets /\ {i \in Targets : got[i].code # 0} = Good
     /\ resp[h].body = IF Bodyless(resp[h].status) THEN <<>> ELSE FlattenSeq(TextsOf(got))
     /\ resp[h].status = IF telling = {} THEN 200 ELSE StatusOfFirst(got, telling)

FetchedOwn(h) ==
  Done(h, "fetch2") /\ req[h].good /\ used[h].alone => used[h].timeout = h /\ used[h].transport = h

(* What is passed on comes back: the bodies in the order of the targets,   *)
(* whichever answers first, but for a status that allows none; the status  *)
(* in sequence of the first that there was something of, in parallel 200   *)
(* only if all have it.  A fetch that was alone was made with its own      *)
(* options.                                                                *)
ForwardedRight ==
  \A h \in Handlers :
    /\ Done(h, "tee") /\ ~req[h].cut => TeeRight(h)
    /\ FetchedOwn(h)

(* An index lists every result that was there when it was asked for, with  *)
(* or without the cache, except those whose reading may fail and those     *)
(* created in the very tick of the directory's time; and lists none as less*)
(* than it is unless its saving was not over, or failed, when the index was*)
(* made.                                                                   *)
IndexFresh ==
  \A h \in Handlers : Done(h, "index") /\ resp[h].status = 200 =>
    LET rows == ToSet(resp[h].body)
    IN /\ \A f \in ix[h].seen \ conf.unreadable :
            (\E row \in rows : row.name = f) \/ files[f].born = ix[h].time
       /\ \A row \in rows : row.size = Whole \/ row.stage # "saved"

(* What a copy delivered is the beginning of what its source sent, and all *)
(* of it when the copy came to its end with both sides there.              *)
RelayExact ==
  mode.kind # "udp" => \A d \in Flows :
    /\ ~side[Src(d)].gone /\ ~side[Dst(d)].gone /\ ~flow[d].failed =>
         flow[d].out \o flow[d].unread = [i \in 1 .. side[Src(d)].sent |-> i]
    /\ flow[d].eof /\ ~flow[d].failed /\ ~side[Dst(d)].gone => Len(flow[d].out) = side[Src(d)].sent

(* Why they hold: an inductive invariant, in parts.  A handler is where its*)
(* request takes it, and only what it wrote is in its answer.              *)
EchoPlaces == {"delay", "sleep", "args", "draw", "write", "fails", "finish", "put"}

Placed(h) ==
  /\ at[h] \in EchoPlaces => req[h].to \in {"echo", "debug"}
  /\ at[h] \in {"locks", "reads"} => req[h].to = "index"
  /\ at[h] \in {"serial", "parallel"} => req[h].to = "tee"
  /\ Fetching(h) => req[h].to = "fetch2"
  /\ at[h] = "fetch" => req[h].to = "fetch"

WebInv ==
  /\ conf \in Confs
  /\ DOMAIN at = Handlers /\ DOMAIN req = Handlers /\ DOMAIN resp = Handlers
  /\ \A h \in Handlers :
       /\ DOMAIN resp[h] = {"status", "length", "close", "body"}
       /\ at[h] # "idle" => req[h] \in conf.requests[h]
       /\ Placed(h)

(* A handler that has a gzip writer is the one it writes to, so no other   *)
(* has it; only those of echo and debug have one.                          *)
WriterOwn(h) ==
  LET w == job[h].writer
  IN /\ at[h] \notin EchoPlaces \cup {"done"} => w = NoOne
     /\ at[h] \in EchoPlaces /\ w # NoOne => w \in GzipWriters /\ ~gz[w].pooled /\ gz[w].to = h

WriterInv ==
  /\ DOMAIN job = Handlers /\ DOMAIN gz = GzipWriters
  /\ \A w \in GzipWriters : DOMAIN gz[w] = {"pooled", "to", "held"}
  /\ \A h \in Handlers : DOMAIN job[h] = {"status", "size", "writer", "rolls"} /\ WriterOwn(h)

(* Nothing of an echo is in the answer, or in the writer, before it is     *)
(* written, then all of it is in one of them.                              *)
Unwritten == {"idle", "arrived", "delay", "sleep", "args", "draw", "write", "fails"}

EchoKnown(h) ==
  LET w == job[h].writer
  IN /\ at[h] \in Unwritten =>
          /\ resp[h].status = 0 /\ resp[h].length = -1 /\ resp[h].body = <<>>
          /\ w # NoOne => gz[w].held = <<>>
     /\ at[h] = "fails" => req[h].cut
     /\ job[h].size \in Nat \cup {-1}
     /\ req[h].to = "echo" /\ ~req[h].cut /\ at[h] \in {"finish", "put", "done"} =>
          /\ resp[h].status = IF Told(h) THEN Final(h, job[h].status) ELSE 0
          /\ LengthRight(h)
          /\ at[h] = "finish" /\ w # NoOne => resp[h].length = -1
          /\ Told(h) /\ at[h] = "finish" =>
               IF w = NoOne THEN resp[h].body \in Bodies(h)
               ELSE gz[w].held = PlainOf(h) /\ resp[h].body = <<>>
          /\ Told(h) /\ at[h] # "finish" => resp[h].body \in Bodies(h)

EchoInv == \A h \in Handlers : EchoKnown(h)

(* What an echo drew is what its rolls give, of lists it still has.        *)
DrawKnown(h) ==
  LET p == Params(h)
      rolls == job[h].rolls
  IN at[h] \in {"write", "fails", "finish", "put", "done"} /\ req[h].to = "echo" =>
       /\ rolls[1] \in RollsFor(p.status) /\ rolls[2] \in RollsFor(p.size)
       /\ job[h].status = generateStatus(p.status, rolls[1])
       /\ job[h].size = generateSize(p.size, rolls[2])

DrawInv == \A h \in Handlers : DrawKnown(h)

(* What a multi-server has of its targets: in sequence all good ones before*)
(* the next, whose texts are in the answer; in parallel all it does not    *)
(* wait for, each text in its buffer.                                      *)
TargetAnswers == {NoAnswer} \cup UNION {AnswersOf(i) : i \in Targets}

TeeKnown(h) ==
  LET t == tee[h]
      asked == {i \in Targets : t.got[i].code # 0}
  IN /\ at[h] \in {"idle", "arrived"} => t.next = 1 /\ t.first
     /\ at[h] \in {"serial", "parallel"} => t.got \in [Targets -> TargetAnswers]
     /\ at[h] = "serial" =>
          /\ conf.serial /\ t.next \in Nat \ {0}
          /\ asked = {i \in Good : i < t.next}
          /\ t.first <=> asked = {}
          /\ resp[h].body = IF Bodyless(resp[h].status) THEN <<>> ELSE FlattenSeq(TextsOf(t.got))
          /\ ~t.first => resp[h].status = StatusOfFirst(t.got, asked)
     /\ at[h] = "parallel" =>
          /\ ~conf.serial
          /\ t.left \subseteq Good /\ asked = Good \ t.left
          /\ t.text = TextsOf(t.got)
     /\ Done(h, "tee") /\ ~req[h].cut => TeeRight(h)

TeeInv ==
  /\ DOMAIN tee = Handlers
  /\ \A h \in Handlers : DOMAIN tee[h] = {"next", "first", "left", "got", "text"} /\ TeeKnown(h)

(* A fetch that is alone has what it set, at each stage.                   *)
FetchAlone(h) ==
  Fetching(h) /\ used[h].alone =>
    /\ \A g \in Handlers : Fetching(g) => g = h
    /\ at[h] # "timeout" => proxy.timeout = h
    /\ at[h] \notin {"timeout", "transport"} => proxy.transport = h
    /\ at[h] \in {"send", "sent"} => used[h].timeout = h
    /\ at[h] = "sent" => used[h].transport = h

FetchInv ==
  /\ DOMAIN proxy = {"timeout", "transport"} /\ DOMAIN used = Handlers
  /\ \A h \in Handlers :
       /\ DOMAIN used[h] = {"timeout", "transport", "alone"}
       /\ FetchAlone(h) /\ FetchedOwn(h)

(* A file that is there was created by its saver, at the latest at the time*)
(* of the directory, and is whole if that saver is done.                   *)
FileKnown(f) ==
  f \in Present =>
    LET s == files[f].saver
    IN /\ s \in Savers /\ conf.names[s] = f
       /\ saves[s] # "ready" /\ (saves[s] = "saved" => files[f].size = Whole)
       /\ files[f].born <= dir

Hosts == {r.host : r \in UNION {conf.requests[h] : h \in Handlers}}
Stages == {"ready", "writing", "saved", "failed"}
Rows == [name: Names, size: {0, Whole}, version: Nat, urlPrefix: Hosts, stage: Stages]

DataTypeOK ==
  /\ files \in [Names -> [size: {-1, 0, Whole}, version: Nat, born: Nat, saver: Savers \cup {NoOne}]]
  /\ dir \in Nat /\ clock \in Nat /\ dir <= clock
  /\ saves \in [Savers -> Stages]
  /\ cache \in [time: Nat \cup {-1}, rows: Seq(Rows)]
  /\ ix \in [Handlers -> [time: Nat, seen: SUBSET Names, todo: Seq(Names), rows: Seq(Rows)]]

(* Rows made from the files as they were since t: every file born before   *)
(* then has one, or is among the rest, which is still to be read.          *)
Covers(rows, t, rest) ==
  /\ \A f \in Present \ conf.unreadable :
       files[f].born < t => f \in rest \/ \E row \in ToSet(rows) : row.name = f
  /\ \A row \in ToSet(rows) : row.size = Whole \/ row.stage # "saved"

Indexed(h) == Done(h, "index") /\ resp[h].status = 200

IndexKnown(h) ==
  /\ at[h] \in {"idle", "arrived", "locks"} => ix[h].rows = <<>>
  /\ at[h] \in {"locks", "reads"} \/ Indexed(h) =>
       /\ ix[h].time <= dir
       /\ \A f \in ix[h].seen : f \in Present /\ files[f].born <= ix[h].time
  /\ at[h] = "reads" =>
       ToSet(ix[h].todo) \subseteq Present /\ Covers(ix[h].rows, ix[h].time, ToSet(ix[h].todo))
  /\ Indexed(h) => Covers(resp[h].body, ix[h].time, {})

IndexInv ==
  /\ DataTypeOK
  /\ \A f \in Names : FileKnown(f)
  /\ \A s \in Savers : saves[s] = "writing" => conf.names[s] \in Present
  /\ cache.time <= dir /\ Covers(cache.rows, cache.time, {})
  /\ \A h \in Handlers : IndexKnown(h)

(* A copy that came to its end without an error delivered all there was,   *)
(* and its source has ended.                                               *)
CopyKnown(d) ==
  LET f == flow[d]
  IN /\ f.copy \in {"off", "on"} => ~f.failed
     /\ (f.copy = "end" \/ f.eof) /\ ~f.failed /\ ~side[Dst(d)].gone =>
          side[Src(d)].ended /\ f.unread = <<>> /\ Len(f.out) = side[Src(d)].sent

RelayInv ==
  /\ side \in [Sides -> [sent: Nat, ended: BOOLEAN, gone: BOOLEAN]]
  /\ flow \in [Flows -> [unread: Seq(Nat), out: Seq(Nat), copy: {"off", "on", "end", "over"},
                         eof: BOOLEAN, failed: BOOLEAN]]
  /\ flow["up"].copy = "off" <=> flow["down"].copy = "off"
  /\ RelayExact
  /\ mode.kind # "udp" => \A d \in Flows : CopyKnown(d)

IInv == WebInv /\ WriterInv /\ EchoInv /\ DrawInv /\ TeeInv /\ FetchInv /\ IndexInv /\ RelayInv

Ended(s) == side[s].ended \/ side[s].gone

(* Every request is answered, unless its handler waits for others with no  *)
(* time-out; and when both sides ended, or the one for whose end the other *)
(* waits, or the one NetCat stops for, all connections that were opened are*)
(* closed.                                                                 *)
AllEnds ==
  /\ \A h \in Handlers : at[h] = "arrived" ~> at[h] = "done" \/ MayStay(h)
  /\ mode.kind \in {"proxy", "netcat", "echo"} /\ Ended("left") /\ (Ended("right") \/ mode.patient \/ mode.kind = "echo")
       ~> open = {}
  /\ mode.kind = "netcat" /\ mode.stopOnEOF /\ Ended("right") ~> open = {}
  /\ mode.kind = "udp" /\ Ended("left") ~> flow["down"].copy = "over"

(* The addresses of an index are those the one who asks for it sees.       *)
PrefixOwn ==
  \A h \in Handlers : Done(h, "index") => \A row \in ToSet(resp[h].body) : row.urlPrefix = req[h].host

(* The fetchers' client, made for connection reuse, dials once when only   *)
(* one request at a time is made with it.                                  *)
ConnectionsReused == (\A h \in Handlers : used[h].alone) => dials <= 1
=============================================================================
