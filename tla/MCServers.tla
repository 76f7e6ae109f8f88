----------------------------- MODULE MCServers ------------------------------
(* Instances of Servers for TLC.                                           *)
EXTENDS Servers

MCHandlers == 1 .. 2
MCSavers == 1 .. 2

List(values, shares) == [i \in DOMAIN values |-> [value |-> values[i], share |-> shares[i]]]
All(v) == List(<<v>>, <<Full>>)

NoParams == [status |-> <<>>, size |-> <<>>, delay |-> <<>>, gzip |-> -1, close |-> -1, length |-> -1]

Plain ==
  [to |-> "echo", params |-> NoParams, query |-> TRUE, gzip |-> FALSE, h2 |-> FALSE, body |-> 2,
   cut |-> FALSE, length |-> TRUE, good |-> TRUE, timeout |-> TRUE, host |-> "here"]
To(to) == [Plain EXCEPT !.to = to]
Cut(r) == [r EXCEPT !.cut = TRUE]
Zipped(r) == [r EXCEPT !.gzip = TRUE, !.params.gzip = Full]
OverH2(r) == [r EXCEPT !.h2 = TRUE]
AsksFor(n, r) == [r EXCEPT !.params.length = n]
Asks(status, size) == [Plain EXCEPT !.params.status = status, !.params.size = size]

NoRelay == [kind |-> "none", patient |-> FALSE, mayLeave |-> FALSE, stopOnEOF |-> FALSE]

Base ==
  [requests |-> [h \in MCHandlers |-> {}], defaults |-> <<>>, targets |-> <<>>, serial |-> FALSE,
   timeout |-> TRUE, saving |-> FALSE, names |-> <<2, 1>>, unreadable |-> {}, ticks |-> FALSE, relay |-> NoRelay]

Asked(one, two) == [Base EXCEPT !.requests = <<one, two>>]

(* Lists of statuses and sizes: sums below, at and above 100%, entries of  *)
(* 0%, malformed ones, sizes out of bounds, codes that are none, that are  *)
(* not final or that have no body.                                         *)
StatusLists ==
  {List(<<503, 304>>, s) : s \in {<<1, 2>>, <<0, 4>>, <<3, 2>>, <<-1, 1>>}} \cup {All(s) : s \in {1, 100, 101}}
SizeLists == {<<>>, All(0), All(9), All(-1), List(<<1, 2>>, <<1, 1>>), List(<<1, 2>>, <<4, 1>>)}

EchoConfs ==
  {Asked({Asks(s, z) : s \in StatusLists, z \in SizeLists}, {}),
   Asked({Zipped(Plain), Zipped(Asks(<<>>, All(1))), Cut(Zipped(Plain)), [To("debug") EXCEPT !.gzip = TRUE]},
            {Zipped(Plain), Cut(Plain), [Zipped(Plain) EXCEPT !.h2 = TRUE, !.params.gzip = 2], Cut(To("debug"))}),
   Asked({OverH2(Plain), Cut(OverH2(Plain)), Cut(Plain), [Plain EXCEPT !.length = FALSE]}, {}),
   Asked({OverH2(Asks(All(s), <<>>)) : s \in {101, 204}} \cup {Zipped(Asks(All(s), All(1))) : s \in {100, 204}}
           \cup {AsksFor(n, r) : n \in {1, 3}, r \in {Plain, OverH2(Plain), Zipped(Plain), Asks(<<>>, All(2))}}, {}),
   [Asked({[Plain EXCEPT !.query = FALSE], Plain, [To("debug") EXCEPT !.query = FALSE]}, {}) EXCEPT
      !.defaults = <<[NoParams EXCEPT !.status = All(404), !.delay = List(<<9, -1>>, <<2, 1>>), !.close = 1]>>]}

Target(good) == [good |-> good]
TeeConfs ==
  {[Asked({To("tee"), Cut(To("tee"))}, {}) EXCEPT !.serial = s, !.targets = t] :
     s \in BOOLEAN, t \in {<<>>, <<Target(TRUE), Target(TRUE), Target(TRUE)>>, <<Target(FALSE), Target(TRUE)>>}}
  \cup {[Asked({To("tee")}, {}) EXCEPT !.serial = s, !.timeout = FALSE, !.targets = <<Target(TRUE)>>] : s \in BOOLEAN}

FetchConfs ==
  {Asked({To("fetch2"), [To("fetch2") EXCEPT !.good = FALSE]}, {To("fetch2"), [To("fetch2") EXCEPT !.timeout = FALSE]}),
   Asked({To("fetch"), [To("fetch") EXCEPT !.h2 = TRUE], [To("fetch") EXCEPT !.good = FALSE]}, {})}

Saving(ticks, names, unreadable, other) ==
  [Asked({To("index")}, {[To("index") EXCEPT !.host = "there"]} \cup other) EXCEPT
     !.saving = TRUE, !.ticks = ticks, !.names = names, !.unreadable = unreadable]
DataConfs ==
  {Saving(TRUE, <<2, 1>>, {}, {}), Saving(FALSE, <<2, 1>>, {2}, {}), Saving(TRUE, <<1, 1>>, {}, {}),
   Saving(FALSE, <<1, 1>>, {}, {To("names"), To("result")})}

Relayed(kind, patient, mayLeave, stop) ==
  [Base EXCEPT !.relay = [kind |-> kind, patient |-> patient, mayLeave |-> mayLeave, stopOnEOF |-> stop]]
RelayConfs ==
  {Relayed(k, p, l, FALSE) : k \in {"proxy", "netcat"}, p \in BOOLEAN, l \in BOOLEAN}
    \cup {Relayed("netcat", FALSE, l, TRUE) : l \in BOOLEAN}
    \cup {Relayed(k, FALSE, TRUE, FALSE) : k \in {"udp", "echo"}}

MCConfs == EchoConfs \cup TeeConfs \cup FetchConfs \cup DataConfs \cup RelayConfs
=============================================================================
