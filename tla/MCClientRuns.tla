---------------------------- MODULE MCClientRuns ----------------------------
(* Instances of ClientRuns for TLC.                                        *)
EXTENDS ClientRuns

Answer(code, framing, parts, close) == [code |-> code, framing |-> framing, parts |-> parts, close |-> close]

(* For a buffer of 12: answers that fit, fill it, or do not fit, by length *)
(* and by chunks, and answers whose length is missing or not a number.     *)
Lengths == {Answer(200, "length", <<n>>, FALSE) : n \in {0, 2, 9}}
Chunks == {Answer(200, "chunked", p, FALSE) : p \in {<<1>>, <<1, 1>>, <<1, 6>>, <<6>>, <<8>>}}
Others == {Answer(200, "none", <<1>>, FALSE), Answer(200, "bad", <<1>>, FALSE), Answer(503, "length", <<1>>, FALSE)}
Some ==
  {Answer(200, "length", <<9>>, FALSE), Answer(503, "length", <<1>>, FALSE), Answer(200, "chunked", <<1>>, FALSE)}
Closing == {Answer(200, "length", <<1>>, TRUE), Answer(200, "chunked", <<1>>, TRUE)}

MCAnswers ==
  [all |-> Lengths \cup Chunks \cup Others, some |-> Some, closing |-> Closing,
   plain |-> {Answer(200, "length", <<1>>, FALSE)},
   mixed |-> {Answer(200, "length", <<1>>, FALSE), Answer(503, "length", <<1>>, FALSE)}]

(* No number, one that is no good code, and a good one; small and too big. *)
MCRestCodes == {-1, 1, 200}
MCRestSizes == {3, 13}

MCClients == 1 .. 2

MCZone == [one |-> <<"a">>, two |-> <<"b", "c">>, too |-> <<"d", "e">>]

Plain ==
  [kind |-> "fast", threads |-> 2, calls |-> 1, server |-> "plain", http10 |-> FALSE, keepAlive |-> TRUE, checkClose |-> FALSE, reResolve |-> TRUE,
   reuseRange |-> {0}, streams |-> 1, service |-> "none", method |-> "cached-rr", generate |-> TRUE, wide |-> FALSE, collect |-> FALSE, allowErrors |-> TRUE,
   sequential |-> FALSE, warm |-> FALSE, together |-> TRUE, names |-> [c \in MCClients |-> "one"]]

(* A client alone, for what it reads and keeps: one call with all answers, *)
(* two with some of them, for what the first leaves to the second.         *)
Alone == [Plain EXCEPT !.threads = 1, !.calls = 2, !.server = "some"]
MCOneCall == {[Alone EXCEPT !.calls = 1, !.server = "all"]}
AloneConfs ==
  {Alone, [Alone EXCEPT !.checkClose = TRUE, !.server = "closing"], [Alone EXCEPT !.keepAlive = FALSE],
   [Alone EXCEPT !.keepAlive = FALSE, !.http10 = TRUE, !.calls = 1, !.server = "all"],
   [Alone EXCEPT !.reuseRange = {1, 2}, !.reResolve = FALSE, !.server = "plain", !.calls = 4]}
    \cup {[Alone EXCEPT !.kind = k, !.generate = g, !.wide = ~g, !.warm = g] : k \in {"tcp", "udp"}, g \in BOOLEAN}

(* Two, in one run or in two, for the names and the collection.            *)
CrewConfs ==
  {[Plain EXCEPT !.method = m, !.together = FALSE, !.keepAlive = FALSE,
                 !.names = [c \in MCClients |-> "two"]] : m \in Methods}
    \cup {[Plain EXCEPT !.together = FALSE, !.names = <<"two", "too">>]}
    \cup {[Plain EXCEPT !.warm = TRUE, !.kind = "kafka", !.collect = TRUE], [Plain EXCEPT !.kind = "kafka"]}
    \cup {[Plain EXCEPT !.kind = "grpc", !.warm = s # "ping", !.service = s, !.allowErrors = a,
                         !.streams = IF a THEN 1 ELSE 2] : s \in {"health", "ping", "dynamic"}, a \in BOOLEAN}
    \cup {[Plain EXCEPT !.warm = TRUE, !.reResolve = FALSE, !.sequential = s, !.allowErrors = s] : s \in BOOLEAN}
    \cup {[Plain EXCEPT !.warm = TRUE, !.reResolve = FALSE, !.sequential = TRUE, !.allowErrors = FALSE]}
    \cup {[Plain EXCEPT !.warm = k # "tcp", !.kind = k, !.server = "mixed", !.allowErrors = k # "std"] : k \in {"std", "tcp", "udp"}}

MCConfs == MCOneCall \cup AloneConfs \cup CrewConfs
=============================================================================
