----------------------------- MODULE FastClient -----------------------------
(***************************************************************************)
(* fhttp's FastClient: how it reuses its connection, tries again once when *)
(* a reused one is dead, and finds the end of an answer in its buffer.     *)
(*                                                                         *)
(* Answers are sequences of tokens, read a few at a time: "proto", <<"code",*)
(* n>>, <<"head", answer>> for the headers up to the first CR of the empty *)
(* line that ends them, "tail" for the rest of it, and the body: data, or  *)
(* chunks: <<"size", n>>, data and "crlf".                                 *)
(***************************************************************************)
EXTENDS Sockets, DnsCache

CONSTANTS
  BufferSize,  \* what the client's buffer holds, in tokens
  Answers,     \* the answers a server of each sort gives: "all", "closing", "plain"
  RestCodes,   \* the status codes, and the lengths of an answer or a chunk, that
  RestSizes    \* may be read in bytes that are not the beginning of an answer

ASSUME BufferAssumption == BufferSize \in Nat \ {0}

ASSUME RestAssumption == RestCodes \subseteq -1 .. 999 /\ RestSizes \subseteq Nat \ {0}

VARIABLES
  conf,  \* the options of the run
  cl,    \* every kind of client: where it is, its socket and its counts
  fast   \* FastClient: its buffer and the local variables of readResponse

SocketError == -1

CodeIsOK(code) == code \in 200 .. 299 \/ code = 418

-----------------------------------------------------------------------------
(* Answers of a server, [code, framing, parts, close].                     *)
Token(t) == <<t, 0>>

Data(n) == [i \in 1 .. n |-> Token("data")]

Chunk(n) == <<<<"size", n>>>> \o Data(n) \o <<Token("crlf")>>

(* All the chunks there are in tests and examples: one, or two.            *)
Body(a) ==
  IF a.framing # "chunked" THEN Data(a.parts[1])
  ELSE Chunk(a.parts[1]) \o (IF Len(a.parts) = 2 THEN Chunk(a.parts[2]) ELSE <<>>) \o Chunk(0)

Bytes(a) == <<Token("proto"), <<"code", a.code>>, <<"head", a>>, Token("tail")>> \o Body(a)

Framings == {"length", "chunked", "none", "bad"}

(* A plain server's answers give their length and leave room in the buffer.*)
ASSUME AnswersAssumption ==
  \A sort \in DOMAIN Answers : \A a \in Answers[sort] :
    /\ a.code \in Nat /\ a.framing \in Framings /\ a.close \in BOOLEAN
    /\ Len(a.parts) \in 1 .. 2 /\ a.parts \in Seq(Nat)
    /\ a.framing = "chunked" => \A i \in DOMAIN a.parts : a.parts[i] > 0
    /\ sort = "plain" => a.framing = "length" /\ ~a.close /\ Len(Bytes(a)) < BufferSize

(* ParseDecimal at the place of the status code.  When what an earlier call*)
(* left unread came before the answer, the bytes there are any: it returns *)
(* the number their first digits make, if they have any.                   *)
StatusCodes(f) == IF f.rest THEN RestCodes ELSE {f.buf[2][2]}

(* ParseChunkSize: -1 when there is no size, or not all of it yet.         *)
ParseChunkSize(input) ==
  IF input # <<>> /\ input[1][1] = "size" THEN input[1][2] ELSE -1

HeaderLen == 4

Tokens ==
  ({"proto", "tail", "data", "crlf"} \X {0}) \cup ({"code", "size"} \X Nat)
    \cup ({"head"} \X UNION {Answers[sort] : sort \in DOMAIN Answers})

Codes == Nat \cup {SocketError}

-----------------------------------------------------------------------------
NewFast(n) ==
  [buf |-> <<>>, maxV |-> 0, parsed |-> FALSE, keep |-> FALSE, chunked |-> FALSE, missed |-> FALSE,
   reuseCount |-> 0, connReuse |-> n, warned |-> FALSE, rest |-> FALSE]

Reached(f) == f.connReuse # 0 /\ f.reuseCount >= f.connReuse

At(c, pc) == cl[c].pc = pc

GoesTo(c, pc) == cl' = [cl EXCEPT ![c].pc = pc]

Fails(c) == cl' = [cl EXCEPT ![c].pc = "done", ![c].code = SocketError]

(* Mutant: the socket is not taken from the client while it is in use.     *)
StreamFetchKeeping(c) ==
  LET reused == cl[c].socket
  IN /\ At(c, "called") \/ At(c, "again")
     /\ conf.kind = "fast"
     /\ \E n \in conf.reuseRange :
          /\ ~Reached(fast[c]) => n = fast[c].connReuse
          /\ fast' = [fast EXCEPT ![c].connReuse = n, ![c].buf = <<>>,
                                  ![c].reuseCount = IF reused THEN @ + 1 ELSE 1]
     /\ cl' = [cl EXCEPT ![c].pc = IF reused THEN "write" ELSE "connect",
                         ![c].reused = reused, ![c].code = SocketError]
     /\ UNCHANGED <<net, dnsVars>>

(* The beginning of StreamFetch, for a call and for its one retry.         *)
StreamFetch(c) ==
  LET reused == cl[c].socket
  IN /\ \/ At(c, "called")
        \/ At(c, "again")
     /\ conf.kind = "fast"
     /\ \E n \in conf.reuseRange :
          /\ ~Reached(fast[c]) => n = fast[c].connReuse
          /\ fast' = [fast EXCEPT ![c].connReuse = n, ![c].buf = <<>>,
                                  ![c].reuseCount = IF reused THEN @ + 1 ELSE 1]
     /\ cl' = [cl EXCEPT ![c].pc = IF reused THEN "write" ELSE "connect",
                         ![c].reused = reused, ![c].socket = FALSE, ![c].code = SocketError]
     /\ UNCHANGED <<net, dnsVars>>

(* A new connection resolves the name again, except for the first.         *)
Connect(c) ==
  LET again == cl[c].sockets > 0 /\ conf.reResolve
  IN /\ At(c, "connect")
     /\ conf.kind = "fast"
     /\ cl' = [cl EXCEPT ![c].pc = IF again THEN "resolve" ELSE "dial", ![c].sockets = @ + 1]
     /\ IF again THEN Goes(c, "start") ELSE UNCHANGED dnsVars
     /\ UNCHANGED <<net, fast>>

Resolved(c) ==
  /\ At(c, "resolve")
  /\ \/ look[c] = "found" /\ cl' = [cl EXCEPT ![c].pc = "dial", ![c].lookups = @ + 1]
     \/ /\ look[c] = "failed"
        /\ cl' = [cl EXCEPT ![c].pc = "done", ![c].lookups = @ + 1, ![c].unresolved = @ + 1]
  /\ Goes(c, "none")
  /\ UNCHANGED <<net, fast>>

Dial(c) ==
  /\ At(c, "dial")
  /\ conf.kind = "fast"
  /\ Dialed(c)
  /\ cl' = [cl EXCEPT ![c].pc = "write", ![c].connects = @ + 1]
  /\ fast' = [fast EXCEPT ![c].warned = FALSE, ![c].rest = FALSE]
  /\ UNCHANGED dnsVars

DialFails(c) ==
  /\ At(c, "dial")
  /\ conf.kind = "fast"
  /\ cl' = [cl EXCEPT ![c].pc = "done", ![c].connects = @ + 1]
  /\ UNCHANGED <<net, fast, dnsVars>>

(* A reused connection may be dead: close it and start again, with none.   *)
Retries(c) ==
  /\ cl[c].reused
  /\ Closed(c)
  /\ cl' = [cl EXCEPT ![c].pc = "again", ![c].retries = @ + 1]
  /\ UNCHANGED <<fast, dnsVars>>

(* A new one that fails is left as it is, not closed.                      *)
Abandons(c) ==
  /\ ~cl[c].reused
  /\ Fails(c)
  /\ UNCHANGED <<net, fast, dnsVars>>

WriteFails(c) ==
  /\ At(c, "write")
  /\ conf.kind = "fast"
  /\ Retries(c) \/ Abandons(c)

(* What the server does with the request: the answer and how much of it it *)
(* sends, then keeps the connection, closes it or is cut off.              *)
OutcomesOf(answers) ==
  {o \in [answer: answers, sent: 0 .. BufferSize + 3, end: Ends] : o.sent <= Len(Bytes(o.answer))}

IsWhole(o) == o.sent = Len(Bytes(o.answer))

(* A plain server always sends all of its answer.                          *)
Outcomes ==
  [sort \in DOMAIN Answers |->
     IF sort # "plain" THEN OutcomesOf(Answers[sort])
     ELSE {o \in OutcomesOf(Answers[sort]) : IsWhole(o) /\ o.end # "reset"}]

(* The request is sent, half closed if so asked, and the reading begins:   *)
(* with the rest of an earlier answer, if there is one.                    *)
Write(c) ==
  /\ At(c, "write")
  /\ conf.kind = "fast"
  /\ \/ \E o \in Outcomes[conf.server] :
          /\ Sends(c, SubSeq(Bytes(o.answer), 1, o.sent), o.end)
          /\ cl' = [cl EXCEPT ![c].pc = "read", ![c].code = 200, ![c].served = o.answer.code,
                              ![c].whole = IsWhole(o), ![c].tries = @ + 1]
     \/ /\ Unheard(c)
        /\ cl' = [cl EXCEPT ![c].pc = "read", ![c].code = 200, ![c].served = 0,
                            ![c].whole = FALSE, ![c].tries = @ + 1]
  /\ fast' = [fast EXCEPT ![c].maxV = BufferSize, ![c].parsed = FALSE,
                          ![c].keep = conf.keepAlive, ![c].chunked = FALSE, ![c].missed = FALSE,
                          ![c].rest = net[c].bytes # <<>>]
  /\ UNCHANGED dnsVars

-----------------------------------------------------------------------------
(* readResponse                                                            *)

Space(c) == BufferSize - Len(fast[c].buf)

(* Is there enough to parse the status code?                               *)
Enough(f, buf) == IF f.rest THEN BOOLEAN ELSE {Len(buf) >= 2}

Read(c) ==
  /\ At(c, "read")
  /\ conf.kind = "fast"
  /\ \E k \in 1 .. Space(c) :
       /\ k <= Len(net[c].bytes)
       /\ Takes(c, k)
       /\ LET buf == fast[c].buf \o SubSeq(net[c].bytes, 1, k)
          IN \E enough \in Enough(fast[c], buf) :
               /\ fast' = [fast EXCEPT ![c].buf = buf]
               /\ GoesTo(c, IF ~fast[c].parsed /\ ~conf.http10 /\ enough THEN "headers" ELSE "body")
  /\ UNCHANGED dnsVars

(* A read into a full buffer returns at once, with nothing and no error,   *)
(* whatever the deadline.                                                  *)
ReadsNothing(c) ==
  /\ At(c, "read")
  /\ conf.kind = "fast"
  /\ Space(c) = 0
  /\ GoesTo(c, "body")
  /\ UNCHANGED <<net, fast, dnsVars>>

(* Mutants: an error is not told from an end; a read has no deadline.      *)
ReadFailsQuietly(c) ==
  /\ At(c, "read")
  /\ conf.kind = "fast"
  /\ Space(c) > 0 /\ net[c].bytes = <<>>
  /\ IF cl[c].reused /\ fast[c].buf = <<>> THEN Retries(c)
     ELSE GoesTo(c, "end") /\ UNCHANGED <<net, fast, dnsVars>>

ReadFailsIfEnded(c) ==
  /\ At(c, "read")
  /\ net[c].bytes = <<>> /\ net[c].end # "open"
  /\ GoesTo(c, "end")
  /\ UNCHANGED <<net, fast, dnsVars>>

(* The end of the stream, a reset or the deadline.                         *)
ReadFails(c) ==
  /\ At(c, "read")
  /\ conf.kind = "fast"
  /\ Space(c) > 0 /\ net[c].bytes = <<>>
  /\ IF cl[c].reused /\ fast[c].buf = <<>> THEN Retries(c)
     ELSE /\ IF net[c].end = "eof" /\ fast[c].buf # <<>> THEN GoesTo(c, "end")
             ELSE cl' = [cl EXCEPT ![c].pc = "end", ![c].code = SocketError]
          /\ UNCHANGED <<net, fast, dnsVars>>

(* The search for the empty line begins where the last read ended: it is   *)
(* missed when its first CR came with the read before.  Among the bytes of *)
(* an earlier answer there may be one anywhere.                            *)
HasHeaders(f) == IF f.rest THEN BOOLEAN ELSE {Len(f.buf) >= HeaderLen /\ ~f.missed}

(* The status code, and whether there is more to look for than that.       *)
ParseStatus(c) ==
  /\ At(c, "headers")
  /\ \E code \in StatusCodes(fast[c]), found \in HasHeaders(fast[c]) :
       /\ ~CodeIsOK(code) \/ ~found \/ ~fast[c].keep
       /\ cl' = [cl EXCEPT ![c].code = code, ![c].pc = IF CodeIsOK(code) THEN "body" ELSE "end"]
       /\ fast' = [fast EXCEPT ![c].parsed = CodeIsOK(code) /\ found,
                               ![c].missed = Len(fast[c].buf) >= HeaderLen - 1]
  /\ UNCHANGED <<net, dnsVars>>

(* Where the answer will end, from its length or its first chunk: up to    *)
(* the size of the buffer, and as much as there is when the server says    *)
(* that it closes the connection and the client is to look for that.       *)
Framed(f, close, need, chunked) ==
  LET closes == conf.checkClose /\ close
      small == need > BufferSize
  IN [f EXCEPT !.parsed = TRUE, !.chunked = chunked, !.keep = ~closes, !.warned = @ \/ small,
               !.maxV = IF closes \/ small THEN BufferSize ELSE need]

ParseHeaders(c) ==
  LET f == fast[c]
      a == f.buf[HeaderLen - 1][2]
      size == ParseChunkSize(SubSeq(f.buf, HeaderLen + 1, Len(f.buf)))
  IN /\ At(c, "headers")
     /\ ~f.rest /\ CodeIsOK(f.buf[2][2]) /\ TRUE \in HasHeaders(f) /\ f.keep
     /\ \/ /\ a.framing = "length"
           /\ fast' = [fast EXCEPT ![c] = Framed(f, a.close, HeaderLen + a.parts[1], FALSE)]
           /\ cl' = [cl EXCEPT ![c].code = a.code, ![c].pc = "body"]
        \/ /\ a.framing = "chunked" /\ size = -1
           /\ fast' = [fast EXCEPT ![c].parsed = TRUE, ![c].chunked = TRUE, ![c].maxV = HeaderLen]
           /\ cl' = [cl EXCEPT ![c].code = a.code, ![c].pc = "read"]
        \/ /\ a.framing = "chunked" /\ size # -1
           /\ fast' = [fast EXCEPT ![c] = Framed(f, a.close, HeaderLen + 1 + size + 1, TRUE)]
           /\ cl' = [cl EXCEPT ![c].code = a.code, ![c].pc = "body"]
        \/ /\ a.framing \in {"none", "bad"}
           /\ fast' = [fast EXCEPT ![c].parsed = TRUE, ![c].keep = FALSE]
           /\ cl' = [cl EXCEPT ![c].code = a.code, ![c].pc = "end"]
     /\ UNCHANGED <<net, dnsVars>>

(* The same of what begins with the rest of an earlier answer: a good code *)
(* and an empty line somewhere, and any length, first chunk or none.       *)
ParseRest(c) ==
  /\ At(c, "headers")
  /\ fast[c].rest /\ fast[c].keep
  /\ \E code \in RestCodes, need \in RestSizes, close, chunked \in BOOLEAN :
       /\ CodeIsOK(code)
       /\ \/ /\ fast' = [fast EXCEPT ![c] = Framed(fast[c], close, need, chunked)]
             /\ cl' = [cl EXCEPT ![c].code = code, ![c].pc = "body"]
          \/ /\ need <= Len(fast[c].buf)
             /\ fast' = [fast EXCEPT ![c].parsed = TRUE, ![c].chunked = TRUE, ![c].maxV = need]
             /\ cl' = [cl EXCEPT ![c].code = code, ![c].pc = "read"]
          \/ /\ fast' = [fast EXCEPT ![c].parsed = TRUE, ![c].keep = FALSE]
             /\ cl' = [cl EXCEPT ![c].code = code, ![c].pc = "end"]
  /\ UNCHANGED <<net, dnsVars>>

(* The size of the chunk that follows: of any bytes, with any rest.        *)
NextSizes(f) ==
  IF f.rest /\ f.maxV < Len(f.buf) THEN RestSizes \cup {-1, 0}
  ELSE {ParseChunkSize(SubSeq(f.buf, f.maxV + 1, Len(f.buf)))}

(* Is it all there?  With chunks, the next one is looked for: after the    *)
(* last one, or one that does not fit, the answer is taken as it is.       *)
ExamineBody(c) ==
  LET f == fast[c]
      size == Len(f.buf)
      atEnd == size = f.maxV + 2 /\ f.buf[size][1] = "crlf"
  IN /\ At(c, "body")
     /\ \/ size < f.maxV /\ GoesTo(c, "read") /\ UNCHANGED fast
        \/ /\ size >= f.maxV /\ ~f.chunked
           /\ GoesTo(c, "end")
           /\ fast' = [fast EXCEPT ![c].keep = @ /\ f.parsed]
        \/ size >= f.maxV /\ f.chunked /\ -1 \in NextSizes(f) /\ GoesTo(c, "read") /\ UNCHANGED fast
        \/ /\ size >= f.maxV /\ f.chunked /\ 0 \in NextSizes(f)
           /\ GoesTo(c, "end")
           /\ fast' = [fast EXCEPT ![c].warned = @ \/ ~atEnd]
        \/ \E next \in NextSizes(f) :
             LET max == f.maxV + 1 + next + 1
             IN /\ size >= f.maxV /\ f.chunked /\ next > 0
                /\ fast' = [fast EXCEPT ![c].maxV = max, ![c].warned = @ \/ max > BufferSize]
                /\ GoesTo(c, IF max > BufferSize THEN "end" ELSE IF max <= size THEN "body" ELSE "read")
     /\ UNCHANGED <<net, dnsVars>>

(* Mutants: whatever the code; and closed though it is kept.               *)
KeepOrCloseAnyCode(c) ==
  LET keeps == fast[c].keep /\ ~Reached(fast[c])
  IN /\ At(c, "end")
     /\ cl' = [cl EXCEPT ![c].pc = "done", ![c].socket = keeps]
     /\ IF keeps THEN UNCHANGED net ELSE Closed(c)
     /\ UNCHANGED <<fast, dnsVars>>

KeepAndClose(c) ==
  /\ At(c, "end")
  /\ cl' = [cl EXCEPT ![c].pc = "done", ![c].socket = fast[c].keep]
  /\ Closed(c)
  /\ UNCHANGED <<fast, dnsVars>>

(* To keep the socket or to close it.                                      *)
KeepOrClose(c) ==
  LET keeps == fast[c].keep /\ CodeIsOK(cl[c].code) /\ ~Reached(fast[c])
  IN /\ At(c, "end")
     /\ cl' = [cl EXCEPT ![c].pc = "done", ![c].socket = keeps]
     /\ IF keeps THEN UNCHANGED net ELSE Closed(c)
     /\ UNCHANGED <<fast, dnsVars>>

FastStep(c) ==
  \/ StreamFetch(c) \/ Connect(c) \/ Resolved(c) \/ Dial(c) \/ DialFails(c)
  \/ WriteFails(c) \/ Write(c)
  \/ Read(c) \/ ReadsNothing(c) \/ ReadFails(c)
  \/ ParseStatus(c) \/ ParseHeaders(c) \/ ParseRest(c) \/ ExamineBody(c) \/ KeepOrClose(c)
=============================================================================
