----------------------------- MODULE ClientRuns -----------------------------
(***************************************************************************)
(* The runs of fhttp, tcprunner, udprunner, kafkarunner, fgrpc: building   *)
(* the clients, each with its resolution of the name, the warm-up, in      *)
(* sequence or in parallel, the calls of the workers (whose number and pace*)
(* is that of module Workers), and the collection of what was counted.     *)
(***************************************************************************)
EXTENDS EchoClients

CONSTANT Confs  \* the options of the runs

ASSUME RunsAssumption ==
  /\ Clients \subseteq Nat \ {0}
  /\ Resolvers = Clients
  /\ \A o \in Confs :
       /\ o.streams \in Nat \ {0} /\ o.threads \in Nat /\ 1 .. o.threads \subseteq Clients /\ o.calls \in Nat
       /\ o.kind \in {"fast", "std", "tcp", "udp", "kafka", "grpc"} /\ o.server \in DOMAIN Answers
       /\ o.reuseRange \subseteq Nat /\ o.method \in Methods /\ o.names \in [Clients -> Hosts]
       /\ {o.http10, o.keepAlive, o.checkClose, o.reResolve, o.generate, o.wide, o.collect} \subseteq BOOLEAN

VARIABLES
  run,   \* the phase of each run, and whether its warm-up failed
  used,  \* the workers of each run that Run() left: it may lower their number
  made,  \* the calls of each client: in the warm-up, in the run, those failed
  codes, \* RetCodes of each client, of good and other codes
  total  \* the result of each run

vars == <<net, dnsVars, conf, cl, fast, echo, run, used, made, codes, total>>
runVars == <<conf, run, used, made, codes, total>>

IsHTTP == conf.kind \in {"fast", "std"}
IsGRPC == conf.kind = "grpc"
Dynamic == IsGRPC /\ conf.service = "dynamic"
RunOf(c) == IF conf.together THEN 1 ELSE c
Workers == 1 .. conf.threads
RunIDs == {RunOf(c) : c \in Workers}
Crew(r) == {c \in Workers : RunOf(c) = r}

NewClientState ==
  [pc |-> "new", socket |-> FALSE, reused |-> FALSE, code |-> 0, sockets |-> 0, connects |-> 0,
   lookups |-> 0, unresolved |-> 0, retries |-> 0, tries |-> 0, served |-> 0, whole |-> FALSE]

(* The sum of what f has: the members of a set, which a proof can count.   *)
Pieces(f) == UNION {{c} \X (1 .. f[c]) : c \in DOMAIN f}
Tally(f) == Cardinality(Pieces(f))

KafkaTotals(s) ==
  [messages |-> Tally([c \in s |-> echo[c].acked]),
   requests |-> Tally([c \in s |-> echo[c].requests]),
   errors |-> Tally([c \in s |-> echo[c].errors])]

Init ==
  /\ conf \in Confs
  /\ method = conf.method
  /\ name = conf.names
  /\ SocketsInit /\ DnsInit /\ EchoInit
  /\ cl = [c \in Clients |-> NewClientState]
  /\ fast \in [Clients -> {NewFast(n) : n \in conf.reuseRange}]
  /\ run = [r \in RunIDs |-> [phase |-> "build", bad |-> FALSE]]
  /\ used = [r \in RunIDs |-> {}]
  /\ made = [c \in Clients |-> [warm |-> 0, calls |-> 0, failed |-> 0]]
  /\ codes = [c \in Clients |-> [ok |-> 0, bad |-> 0]]
  /\ total = [r \in RunIDs |-> [ok |-> 0, bad |-> 0, sockets |-> 0, kafka |-> KafkaTotals({})]]

-----------------------------------------------------------------------------
Phase(c) == run[RunOf(c)].phase

(* What a call leaves in the client that no later one looks at.            *)
Forget(c) ==
  /\ cl' = [cl EXCEPT ![c].pc = "idle", ![c].code = 0, ![c].reused = FALSE, ![c].tries = 0,
                      ![c].served = 0, ![c].whole = FALSE]
  /\ fast' = [fast EXCEPT ![c] = [NewFast(@.connReuse) EXCEPT !.reuseCount = fast[c].reuseCount,
                                                               !.warned = fast[c].warned]]

(* The standard client only makes sure that its host has addresses; that of*)
(* Kafka or gRPC looks nothing up before it is used.                       *)
FirstLookUp ==
  CASE conf.kind = "std" -> "checks" [] conf.kind \in {"kafka", "grpc"} -> "none" [] OTHER -> "start"

LookedUp(c) ==
  CASE conf.kind = "std" -> look[c] = "known"
    [] conf.kind \in {"kafka", "grpc"} -> TRUE
    [] OTHER -> look[c] = "found"

(* A run builds its clients one after the other; each resolves its name.   *)
NewClient(c) ==
  /\ Phase(c) = "build"
  /\ At(c, "new")
  /\ \A d \in Crew(RunOf(c)) : d < c => At(d, "idle")
  /\ GoesTo(c, "building")
  /\ Goes(c, FirstLookUp)
  /\ UNCHANGED <<net, fast, echo, runVars>>

(* The streams of a gRPC run share a connection: the first one dials.      *)
NewConn(c) == (c - 1) % conf.streams = 0

(* Sequential warm-up calls each client as soon as it is there, as the     *)
(* others than HTTP always do; with gRPC, one client of each connection,   *)
(* unless the method is found by reflection.                               *)
WarmsUp(c) ==
  /\ conf.warm
  /\ IsHTTP => conf.sequential
  /\ IsGRPC => NewConn(c) /\ ~Dynamic

Built(c) ==
  LET calls == WarmsUp(c)
  IN /\ At(c, "building")
     /\ LookedUp(c)
     /\ cl' = [cl EXCEPT ![c].pc = IF calls THEN "called" ELSE "idle", ![c].lookups = @ + 1]
     /\ Goes(c, "none")
     /\ made' = [made EXCEPT ![c].warm = IF calls THEN 1 ELSE 0]
     /\ UNCHANGED <<net, fast, echo, conf, run, used, codes, total>>

(* RunKafkaTest tries a client of its own before it builds any other.      *)
NotValidated(r) ==
  /\ conf.kind = "kafka"
  /\ run[r].phase = "build" /\ \A c \in Crew(r) : At(c, "new")
  /\ run' = [run EXCEPT ![r].phase = "failed"]
  /\ UNCHANGED <<net, dnsVars, cl, fast, echo, conf, used, made, codes, total>>

(* The clients of Kafka built before one that fails are closed.            *)
CleansUp(c) == conf.kind = "kafka" /\ At(c, "idle")

Undialed(c) == IsGRPC /\ NewConn(c)

(* The first client asks by reflection for the method that all call.       *)
NoMethod(c) == Dynamic /\ \A d \in Crew(RunOf(c)) : c <= d

(* The whole run fails; other clients are left as they are.                *)
NotBuilt(c) ==
  /\ At(c, "building")
  /\ look[c] = "failed" \/ conf.kind = "kafka" \/ Undialed(c) \/ NoMethod(c)
  /\ cl' = [d \in Clients |->
              IF d = c THEN [cl[d] EXCEPT !.pc = "failed"]
              ELSE IF d \in Crew(RunOf(c)) /\ CleansUp(d) THEN [cl[d] EXCEPT !.pc = "closed"] ELSE cl[d]]
  /\ Goes(c, "none")
  /\ run' = [run EXCEPT ![RunOf(c)].phase = "failed"]
  /\ UNCHANGED <<net, fast, echo, conf, used, made, codes, total>>

AllIdle(r) == \A c \in Crew(r) : At(c, "idle")

(* The parallel warm-up starts a goroutine for each client.                *)
WarmUp(r) ==
  /\ run[r].phase = "build" /\ AllIdle(r)
  /\ conf.warm /\ ~conf.sequential /\ IsHTTP
  /\ run' = [run EXCEPT ![r].phase = "warm"]
  /\ cl' = [c \in Clients |-> IF c \in Crew(r) THEN [cl[c] EXCEPT !.pc = "called"] ELSE cl[c]]
  /\ made' = [c \in Clients |-> IF c \in Crew(r) THEN [made[c] EXCEPT !.warm = 1] ELSE made[c]]
  /\ UNCHANGED <<net, dnsVars, fast, echo, conf, used, codes, total>>

(* Mutant: the warm-up is counted as the calls are.                        *)
WarmedAndCounted(c) ==
  /\ Phase(c) \in {"build", "warm"}
  /\ At(c, "done")
  /\ Forget(c)
  /\ codes' = [codes EXCEPT ![c].bad = @ + 1]
  /\ UNCHANGED <<net, dnsVars, echo, conf, run, used, made, total>>

(* A warm-up call is over.  A bad code fails an HTTP run, and an error one *)
(* of gRPC, at once unless the warm-up is parallel, if that is not allowed.*)
Warmed(c) ==
  LET fails == ~CodeIsOK(cl[c].code)
      stops == ~conf.allowErrors /\ ((IsHTTP /\ fails) \/ (IsGRPC /\ cl[c].code = SocketError))
  IN /\ Phase(c) \in {"build", "warm"}
     /\ At(c, "done")
     /\ Forget(c)
     /\ made' = [made EXCEPT ![c].failed = IF fails THEN @ + 1 ELSE @]
     /\ run' = IF ~stops THEN run
               ELSE IF Phase(c) = "warm" THEN [run EXCEPT ![RunOf(c)].bad = TRUE]
               ELSE [run EXCEPT ![RunOf(c)].phase = "failed"]
     /\ UNCHANGED <<net, dnsVars, echo, conf, used, codes, total>>

WarmUpFails(r) ==
  /\ run[r].phase = "warm" /\ AllIdle(r) /\ run[r].bad
  /\ run' = [run EXCEPT ![r].phase = "failed"]
  /\ UNCHANGED <<net, dnsVars, cl, fast, echo, conf, used, made, codes, total>>

(* Run() is called; it may use fewer workers than there are clients.       *)
StartCalls(r) ==
  /\ \/ run[r].phase = "build" /\ (~conf.warm \/ conf.sequential \/ ~IsHTTP)
     \/ run[r].phase = "warm" /\ ~run[r].bad
  /\ AllIdle(r)
  /\ run' = [run EXCEPT ![r].phase = "calls"]
  /\ \E n \in Crew(r) : used' = [used EXCEPT ![r] = {c \in Crew(r) : c <= n}]
  /\ UNCHANGED <<net, dnsVars, cl, fast, echo, conf, made, codes, total>>

Call(c) ==
  /\ Phase(c) = "calls"
  /\ c \in used[RunOf(c)]
  /\ At(c, "idle")
  /\ made[c].calls < conf.calls
  /\ made' = [made EXCEPT ![c].calls = @ + 1]
  /\ cl' = [cl EXCEPT ![c].pc = "called"]
  /\ UNCHANGED <<net, dnsVars, fast, echo, conf, run, used, codes, total>>

Count(c, n) == codes' = IF CodeIsOK(cl[c].code) THEN [codes EXCEPT ![c].ok = @ + n]
                        ELSE [codes EXCEPT ![c].bad = @ + n]

(* The worker counts the code of the call; the error of a dynamic method   *)
(* of gRPC is counted where it is called and again where all errors are.   *)
Return(c) ==
  /\ Phase(c) = "calls"
  /\ At(c, "done")
  /\ Forget(c)
  /\ Count(c, IF Dynamic /\ cl[c].code = SocketError THEN 2 ELSE 1)
  /\ made' = [made EXCEPT ![c].failed = IF CodeIsOK(cl[c].code) THEN @ ELSE @ + 1]
  /\ UNCHANGED <<net, dnsVars, echo, conf, run, used, total>>

(* The collection goes over the workers that were used, in an HTTP or gRPC *)
(* run, or all the clients, and closes each, except with gRPC.  HTTP counts*)
(* the connections made, tcp and udp those that were tried.                *)
Collected(r) == IF IsHTTP \/ IsGRPC THEN used[r] ELSE Crew(r)

Collect(r) ==
  LET s == Collected(r)
  IN /\ run[r].phase = "calls" /\ AllIdle(r)
     /\ run' = [run EXCEPT ![r].phase = "over"]
     /\ total' = [total EXCEPT ![r] =
          [ok |-> Tally([c \in s |-> codes[c].ok]), bad |-> Tally([c \in s |-> codes[c].bad]),
           sockets |-> Tally([c \in s |-> IF IsHTTP THEN cl[c].connects ELSE cl[c].sockets]),
           kafka |-> KafkaTotals(s)]]
     /\ cl' = [c \in Clients |-> IF c \in s THEN [cl[c] EXCEPT !.pc = "closed", !.socket = FALSE] ELSE cl[c]]
     /\ net' = [c \in Clients |-> IF c \in s /\ cl[c].socket THEN NoConn ELSE net[c]]
     /\ UNCHANGED <<dnsVars, fast, echo, conf, used, made, codes>>

(* What the world does meanwhile.                                          *)
IdleConnectionEnds(c) ==
  /\ cl[c].pc \in {"idle", "write"}
  /\ cl[c].pc = "write" => cl[c].reused
  /\ \E end \in Ends : IdleEnds(c, end)
  /\ UNCHANGED <<dnsVars, cl, fast, echo, runVars>>

ClientStep(c) ==
  \/ FastStep(c) /\ UNCHANGED <<echo, runVars>>
  \/ EchoStep(c) /\ UNCHANGED runVars
  \/ Produce(c) /\ UNCHANGED runVars
  \/ StdStep(c) /\ UNCHANGED runVars
  \/ Resolve(c) /\ UNCHANGED <<net, cl, fast, echo, runVars>>

RunStep(r) == NotValidated(r) \/ WarmUp(r) \/ WarmUpFails(r) \/ StartCalls(r) \/ Collect(r)

Next ==
  \/ \E c \in Workers :
       ClientStep(c) \/ (Invoke(c) /\ UNCHANGED runVars) \/ NewClient(c) \/ Built(c) \/ NotBuilt(c) \/ Warmed(c) \/ Call(c) \/ Return(c)
         \/ IdleConnectionEnds(c)
  \/ \E r \in RunIDs : RunStep(r)

(* A message that the server does not read blocks the client of tcp, which *)
(* sets no deadline for a write.                                           *)
MayBlock(c) == conf.kind = "tcp" /\ At(c, "write")

(* Goroutines run, a look-up gives up in time, a read has a deadline, and a*)
(* write of FastClient; a write of tcp and the calls of gRPC have none.    *)
Fairness == \A c \in Clients : WF_vars(ClientStep(c) /\ ~MayBlock(c))

Spec == Init /\ [][Next]_vars /\ Fairness
-----------------------------------------------------------------------------
(* Every variable has its type.                                            *)
TypeOK ==
  /\ DnsTypeOK
  /\ \A c \in Clients :
       /\ net[c].up \in BOOLEAN /\ net[c].end \in Ends
       /\ cl[c].socket => net[c].up
       /\ Len(fast[c].buf) <= BufferSize
       /\ Len(echo[c].got) <= MessageSize
       /\ fast[c].maxV \in Nat

Resting(c) == cl[c].pc \in {"idle", "done"}

(* FastClient keeps a connection on which there is more of the answer to   *)
(* read only when it said so, on this very connection: the buffer was too  *)
(* small, or the end of the last chunk was not there yet.  So it never     *)
(* takes what is left of an answer for the next one without having warned. *)
KeptClean ==
  conf.kind = "fast" =>
    \A c \in Clients :
      /\ Resting(c) /\ cl[c].socket /\ net[c].bytes # <<>> => fast[c].warned
      /\ fast[c].rest => fast[c].warned

(* A code that is not an error is that of the server's answer to this very *)
(* request, though the connection was used before: except with HTTP/1.0,   *)
(* whose codes are not read, an answer that ended before its code, and the *)
(* rest of another, that came first, of which the client warned.  An echo  *)
(* that is good is that of this message.                                   *)
AnswerIsOwn ==
  \A c \in Clients :
    At(c, "done") /\ cl[c].code # SocketError =>
      /\ conf.kind = "fast" =>
           /\ fast[c].buf # <<>>
           /\ \/ cl[c].code = cl[c].served \/ conf.http10 \/ Len(fast[c].buf) < 2
              \/ fast[c].rest /\ fast[c].warned
      /\ conf.kind = "std" => cl[c].code = IF cl[c].whole \/ ~CodeIsOK(cl[c].served) THEN cl[c].served ELSE 204
      /\ IsEcho => echo[c].got = Request(echo[c])

(* Every socket has its reason: the first, a call that failed, a retry on a*)
(* dead one.  So it is for tcp and udp, and for FastClient when it may keep*)
(* its connections and the answers let it; it uses none more often than it *)
(* drew, resolves once for each, and sends a request twice at most.        *)
SocketsExplained ==
  \A c \in Clients :
    /\ IsEcho \/ (conf.kind = "fast" /\ conf.keepAlive /\ conf.reuseRange = {0} /\ conf.server = "plain")
         => cl[c].sockets <= 1 + made[c].failed + cl[c].retries
    /\ cl[c].tries <= 2
    /\ conf.kind = "fast" =>
         /\ fast[c].connReuse # 0 => fast[c].reuseCount <= fast[c].connReuse
         /\ Resting(c) =>
              /\ cl[c].sockets = cl[c].connects + cl[c].unresolved
              /\ cl[c].lookups = IF conf.reResolve /\ cl[c].sockets > 1 THEN cl[c].sockets ELSE 1

(* A name is resolved to one of its addresses, and with the cache to each  *)
(* in turn, whoever else resolves at the same time.                        *)
NamesResolved == AddrOfName /\ Balanced

Accounted(r) ==
  LET failed == Tally([c \in Crew(r) |-> made[c].failed])
      again == IF Dynamic THEN failed ELSE 0
  IN
  /\ total[r].ok + total[r].bad = Tally([c \in Crew(r) |-> made[c].calls]) + again
  /\ total[r].bad <= failed + again
  /\ \A c \in Collected(r) : ~cl[c].socket
  /\ conf.kind = "kafka" =>
       total[r].kafka.messages = Tally([c \in Crew(r) |-> made[c].warm + made[c].calls - made[c].failed])
  /\ conf.kind = "kafka" /\ conf.collect =>
       /\ total[r].kafka.requests = total[r].kafka.messages
       /\ total[r].kafka.errors = Tally([c \in Crew(r) |-> made[c].failed])

(* The codes of the result are those of all the calls of the run and none  *)
(* of the warm-up, the errors of dynamic methods of gRPC twice, while the  *)
(* messages and metrics of a Kafka run count the warm-up too; the clients  *)
(* the run used hold no connection any more, and a Kafka run that failed   *)
(* has closed those it built.                                              *)
AddsUp ==
  \A r \in RunIDs :
    /\ run[r].phase = "over" => Accounted(r)
    /\ run[r].phase = "failed" /\ conf.kind = "kafka" =>
         \A c \in Crew(r) : cl[c].pc \in {"new", "failed", "closed"}

Busy(c) == ~Resting(c) /\ cl[c].pc \notin {"new", "building", "failed", "closed"}

(* A first chunk as large as the buffer, or an answer cut at a chunk there,*)
(* and a generated message longer than the buffer: reads that give nothing.*)
Spins(c) ==
  \/ conf.kind = "fast" /\ fast[c].chunked /\ Len(fast[c].buf) = BufferSize
  \/ conf.kind = "tcp" /\ conf.wide /\ Len(echo[c].got) = MessageSize

(* A call ends, well or not, or it spins; but for gRPC's, which wait for   *)
(* ever when the server does not answer, and a write of tcp, which does so *)
(* when the server does not read.  Once written, a message of tcp is read  *)
(* back, or its call ends without.                                         *)
FetchEnds == \A c \in Clients : Busy(c) ~> ~Busy(c) \/ Spins(c) \/ IsGRPC \/ MayBlock(c)

(* The deadline of a call ends it (the flag -timeout is described as the   *)
(* time-out "of connection and reading"): a call always ends.              *)
TimeoutEnds == \A c \in Clients : Busy(c) ~> ~Busy(c)

(* A read that runs into its deadline is told to be of an "incomplete or   *)
(* invalid response": a whole one, on a new connection, gives its code.    *)
WholeIsOK ==
  \A c \in Clients :
    conf.kind = "fast" /\ conf.keepAlive /\ At(c, "done") /\ cl[c].whole /\ ~cl[c].reused /\ cl[c].tries = 1
      => cl[c].code = cl[c].served

(* An unexpected end of the answer is an error, as the comment of          *)
(* SocketError says.                                                       *)
CutIsError ==
  \A c \in Clients :
    conf.kind = "fast" /\ At(c, "done") /\ cl[c].tries > 0 /\ CodeIsOK(cl[c].code) => cl[c].whole

(* The collection cleans up all the clients that were created.             *)
AllClosed ==
  \A r \in RunIDs : run[r].phase = "over" => \A c \in Crew(r) : ~cl[c].socket

-----------------------------------------------------------------------------
(* The inductive invariant: of each client, on its part n of net, m of cl, *)
(* f of fast, e of echo and k of made, and of the resolutions.             *)
Pcs == {"new", "building", "idle", "called", "again", "connect", "resolve", "dial", "write", "read",
        "headers", "body", "end", "do", "sent", "done", "failed", "closed"}

NetRecords == [up : BOOLEAN, bytes : Stream, end : Ends]
ClientRecords ==
  [pc : Pcs, socket : BOOLEAN, reused : BOOLEAN, code : Codes, sockets : Nat, connects : Nat, lookups : Nat,
   unresolved : Nat, retries : Nat, tries : 0 .. 2, served : Nat, whole : BOOLEAN]
FastRecords ==
  [buf : Seq(Tokens), maxV : Nat, parsed : BOOLEAN, keep : BOOLEAN, chunked : BOOLEAN, missed : BOOLEAN,
   reuseCount : Nat, connReuse : conf.reuseRange, warned : BOOLEAN, rest : BOOLEAN]
EchoRecords ==
  [messages : Nat, sent : Nat, received : Nat, got : Seq(Units), acked : Nat, requests : Nat, errors : Nat]
MadeRecords == [warm : Nat, calls : Nat, failed : Nat]

ClientTyped(n, m, f, e, k) ==
  /\ n \in NetRecords /\ m \in ClientRecords /\ f \in FastRecords /\ e \in EchoRecords /\ k \in MadeRecords
  /\ Len(f.buf) <= BufferSize /\ Len(e.got) <= MessageSize

(* Where a client of each kind may be, and where it holds a connection.    *)
Placed(n, m) ==
  /\ m.pc \in {"again", "connect", "write", "read"} => conf.kind \in {"fast", "tcp", "udp"}
  /\ m.pc \in {"resolve", "dial", "headers", "body", "end"} => conf.kind = "fast"
  /\ m.pc \in {"do", "sent"} => conf.kind = "std"
  /\ m.pc \in {"connect", "resolve", "dial", "write", "do", "sent"} => m.code = SocketError
  /\ m.socket => n.up /\ m.pc \in {"idle", "called", "do", "sent", "done", "closed"}
  /\ m.pc \in {"write", "read", "headers", "body", "end", "sent"} => n.up

(* A call tries twice at most, the second time on a new connection.        *)
TriesRight(m) ==
  /\ m.pc \in {"new", "building", "idle", "called"} => m.tries = 0
  /\ m.pc \in {"again", "connect", "resolve", "dial"} => m.tries <= 1
  /\ m.pc \in {"connect", "resolve", "dial"} => ~m.reused
  /\ m.pc = "write" => m.tries <= IF m.reused THEN 0 ELSE 1
  /\ m.pc \in {"read", "headers", "body", "end"} => m.tries <= IF m.reused THEN 1 ELSE 2

PlainKept == conf.kind = "fast" /\ conf.keepAlive /\ conf.reuseRange = {0} /\ conf.server = "plain"

(* A client with no socket has no more of them than it has reasons for.    *)
Explained(m, k) ==
  IsEcho \/ PlainKept =>
    /\ m.sockets <= 1 + k.failed + m.retries
    /\ \/ m.pc \in {"new", "building", "again", "connect"}
       \/ m.pc \in {"idle", "called"} /\ ~m.socket
       => m.sockets <= k.failed + m.retries
    /\ m.pc = "done" /\ CodeIsOK(m.code) => m.socket

(* FastClient's counts of its sockets and of its resolutions.              *)
CountsRight(m, f) ==
  /\ f.connReuse # 0 => f.reuseCount <= f.connReuse
  /\ m.socket => ~Reached(f)
  /\ m.sockets = m.connects + m.unresolved + IF m.pc \in {"resolve", "dial"} THEN 1 ELSE 0
  /\ m.pc \in {"new", "building"} => m.sockets = 0 /\ m.lookups = 0
  /\ m.pc = "resolve" => conf.reResolve /\ m.sockets > 1 /\ m.lookups = m.sockets - 1
  /\ m.pc \notin {"new", "building", "resolve", "failed"} =>
       m.lookups = IF conf.reResolve /\ m.sockets > 1 THEN m.sockets ELSE 1

(* What is left to read is left with a warning.                            *)
Leftover(n, f) == n.bytes # <<>> => f.warned

(* The ends of the chunks of an answer but the last, of its headers first. *)
ChunkEnds(a) ==
  {HeaderLen, HeaderLen + a.parts[1] + 2} \cup {HeaderLen + a.parts[1] + a.parts[2] + 4 : i \in {2} \cap DOMAIN a.parts}

(* What was read and is to be read is a beginning of the answer a; when it *)
(* is to be kept, maxV is where it ends, or where one of its chunks does.  *)
IsAnswer(a, n, m, f) ==
  LET s == f.buf \o n.bytes
  IN /\ s # <<>> /\ Len(s) <= Len(Bytes(a)) /\ s = SubSeq(Bytes(a), 1, Len(s))
     /\ m.served = a.code
     /\ f.parsed /\ f.keep /\ ~f.warned =>
          IF f.chunked THEN a.framing = "chunked" /\ f.maxV \in ChunkEnds(a) ELSE f.maxV = Len(Bytes(a))

(* The code is that of the answer, once there is enough to parse it.       *)
CodeOwn(m, f) == m.code = m.served \/ conf.http10 \/ Len(f.buf) < 2

(* What is read is an answer, or nothing yet.                              *)
ReadsAnswer(n, m, f) ==
  /\ \/ f.buf = <<>> /\ n.bytes = <<>>
     \/ \E a \in Answers[conf.server] : IsAnswer(a, n, m, f)
  /\ IF f.parsed THEN Len(f.buf) >= 2 ELSE ~f.chunked /\ f.maxV = BufferSize
  /\ IF m.pc = "headers" THEN Len(f.buf) >= 2 ELSE CodeOwn(m, f)

(* Unless it begins with the rest of another one.                          *)
Reading(n, m, f) ==
  /\ f.rest \/ ReadsAnswer(n, m, f)
  /\ m.pc \in {"headers", "body"} => f.buf # <<>>
  /\ m.pc = "headers" => ~conf.http10 /\ ~f.parsed

(* FastClient's connection, from the request to the end of the answer.     *)
FastRight(n, m, f) ==
  /\ CountsRight(m, f)
  /\ f.rest => f.warned
  /\ m.pc \in {"connect", "resolve", "dial", "write"} => f.buf = <<>>
  /\ m.socket \/ m.pc = "write" => Leftover(n, f)
  /\ m.pc \in {"read", "headers", "body"} => Reading(n, m, f)
  /\ m.pc = "end" /\ f.keep /\ CodeIsOK(m.code) => Leftover(n, f)
  /\ m.pc \in {"end", "done"} => m.code = SocketError \/ (f.buf # <<>> /\ (f.rest \/ CodeOwn(m, f)))
  /\ PlainKept => ~f.warned /\ (m.pc \in {"read", "headers", "body", "end"} => f.keep)

EchoRight(m, e) ==
  /\ m.pc = "read" => m.code = SocketError
  /\ m.pc = "done" /\ m.code # SocketError => e.got = Request(e) /\ m.socket

StdRight(m) ==
  m.pc = "done" /\ m.code # SocketError =>
    m.code = IF m.whole \/ ~CodeIsOK(m.served) THEN m.served ELSE 204

ClientRight(n, m, f, e, k) ==
  /\ ClientTyped(n, m, f, e, k) /\ Placed(n, m) /\ TriesRight(m) /\ Explained(m, k)
  /\ conf.kind = "fast" => FastRight(n, m, f)
  /\ IsEcho => EchoRight(m, e)
  /\ conf.kind = "std" => StdRight(m)

ClientsInv ==
  /\ conf \in Confs
  /\ \A v \in {net, cl, fast, echo, made} : DOMAIN v = Clients
  /\ \A c \in Clients : ClientRight(net[c], cl[c], fast[c], echo[c], made[c])

(* A run uses workers of its own.                                          *)
UsedRight == DOMAIN used = RunIDs /\ \A r \in RunIDs : used[r] \subseteq Crew(r)

(* Where a client may be in each phase of its run, and whether it is used. *)
RunRecords == [phase : {"build", "warm", "calls", "over", "failed"}, bad : BOOLEAN]

Flying(m) == m.pc \notin {"new", "building", "idle", "failed", "closed"}

PhaseRight(c, phase, s, m) ==
  /\ phase \notin {"calls", "over"} => c \notin s
  /\ phase = "build" => m.pc \notin {"failed", "closed"}
  /\ phase = "warm" => IsHTTP
  /\ phase \in {"warm", "calls"} => m.pc \notin {"new", "building", "failed", "closed"}
  /\ phase = "over" => IF IsHTTP \/ IsGRPC => c \in s THEN m.pc = "closed" /\ ~m.socket ELSE m.pc = "idle"
  /\ phase = "failed" /\ conf.kind = "kafka" => m.pc \in {"new", "failed", "closed"}

(* The codes of a client are those of its calls in the run, but the one it *)
(* is in.                                                                  *)
Twice(k) == IF Dynamic THEN k.failed ELSE 0

CallsCounted(c, phase, s, m, k, x) ==
  /\ x \in [ok : Nat, bad : Nat]
  /\ x.bad <= k.failed + Twice(k)
  /\ c \notin s => k.calls = 0 /\ Twice(k) = 0 /\ x.ok = 0 /\ x.bad = 0
  /\ phase \in {"calls", "over"} => x.ok + x.bad + (IF Flying(m) THEN 1 ELSE 0) = k.calls + Twice(k)
  /\ Dynamic /\ Flying(m) => phase = "calls"
  /\ Dynamic /\ m.pc = "done" => m.code \in {200, SocketError}

(* A message is taken or its call failed, also in the warm-up.             *)
NotTaken(m) == m.pc = "done" /\ ~CodeIsOK(m.code)

KafkaCounted(m, e, k) ==
  /\ m.pc \in {"new", "building"} => k.warm = 0
  /\ e.acked + k.failed + (IF m.pc = "called" \/ NotTaken(m) THEN 1 ELSE 0) = k.warm + k.calls
  /\ conf.collect => e.requests = e.acked /\ e.errors = k.failed + IF NotTaken(m) THEN 1 ELSE 0

InRun(c, phase, s, m, e, k, x) ==
  /\ PhaseRight(c, phase, s, m)
  /\ CallsCounted(c, phase, s, m, k, x)
  /\ conf.kind = "kafka" => KafkaCounted(m, e, k)

(* A run builds its clients one after the other, and its result stays.     *)
InOrder(r) == \A c, d \in Crew(r) : c < d /\ cl[d].pc # "new" => At(c, "idle")

Totalled(r) ==
  /\ total[r].ok = Tally([c \in Collected(r) |-> codes[c].ok])
  /\ total[r].bad = Tally([c \in Collected(r) |-> codes[c].bad])
  /\ total[r].kafka = KafkaTotals(Collected(r))

RunsInv ==
  /\ run \in [RunIDs -> RunRecords] /\ DOMAIN total = RunIDs /\ DOMAIN codes = Clients
  /\ \A c \in Workers : InRun(c, Phase(c), used[RunOf(c)], cl[c], echo[c], made[c], codes[c])
  /\ \A r \in RunIDs : (run[r].phase = "build" => InOrder(r)) /\ (run[r].phase = "over" => Totalled(r))

IInv == ClientsInv /\ UsedRight /\ DnsInv /\ RunsInv
=============================================================================
