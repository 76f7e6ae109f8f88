# A verification of fortio

Fortio is a load generator with a REST API and a web UI. It starts *runs*:
worker goroutines that call a target (HTTP, TCP, UDP, gRPC, Kafka) at a given
rate or at full speed, for a duration, a number of calls or until stopped. This
directory holds TLA+ models of its core, the TLC configurations that check them
and proofs of some of their properties. Paths below are relative to the root
of the repository.

## 1. Inventory

| Part | State | Operations | Talks to |
|---|---|---|---|
| `pkg/periodic` Aborter | StopChan, StartChan (one place), hasStarted, stopRequested, a mutex | Abort(wait), RecordStart, Reset | every runner, rapi, the watchers |
| `pkg/periodic` run and workers | options, the share of calls of each worker, histograms per worker | Normalize, Run, runOne | Aborter, LiveStats, stats, the runner's client |
| `pkg/periodic` LiveStats | six atomic numbers; a global map by run id | RecordRequest, GetSnapshot, Set/Get/Clear by run id | workers, the UI's monitor |
| `pkg/periodic` watchers | gAbortChan, gOutstandingRuns, a mutex | the goroutine of Normalize | os/signal, Aborter |
| `pkg/periodic` access logger | a file, a mutex | Start, Report | workers |
| `pkg/stats` | counters, buckets | Record, Transfer, Merge, Export, CalcPercentile | everything that measures |
| `pkg/rapi` handlers | the map of runs, the last id, a mutex | Run, Stop, Status, NextRunID, UpdateRun, RemoveRun | the runners, the Aborter of each run, the data directory |
| `pkg/rapi` data | the cached index | DataList, SendTSVDataIndex | the data directory |
| `internal/ui` progress | the stored update, the subscribers of each run, a channel for each | UpdateProgress, ClearProgress, add/removeSubscriber, ProgressSSEHandler | browsers, the run's monitor |
| `internal/ui` handler and monitor | series, stopCh, doneCh | Handler, startRunMonitor | rapi, progress, LiveStats, Kubernetes |
| runners: `pkg/fhttp/httprunner.go`, `tcprunner`, `udprunner`, `fgrpc`, `kafkarunner` | a client per worker, counts of answers | Run...Test, Run | periodic |
| `pkg/fhttp` clients, server, forwarder, utilities | sockets, buffers; few counters | Fetch, echo and tee handlers | targets |
| `pkg/fnet` | the DNS cache; listeners and proxies | Resolve, listen, proxy, UDP/TCP echo | the clients |
| `internal/jrpc`, `pkg/log`, `internal/grol`, `internal/cli`, flags, entry points | little or none | | |

What is hard in it, and what makes each part correct:

* **Stopping a run.** A run is aborted by the REST API, by ^C, by one of its own
  workers (`-abort-on`), by its own end and by the deferred call of its runner,
  before its start, during it or after its end. The stop channel must be closed
  exactly once; no request may be lost; an aborted run must end. One channel
  with one place serves two purposes: the run announces its start on it, and
  later the REST handler announces the end.
* **The registry.** A stop of all runs keeps the registry's mutex while it
  waits for starts. A run must leave the registry whatever happens to it.
* **The workers.** Integer division of calls, boundary conditions on count and
  time, two sets of statistics kept in different ways that must agree.
* **The watchers.** They share one signal channel that is created, closed and
  dropped while runs come and go.
* **The clients.** They keep a connection between calls, try again once when it
  is dead, and find the end of an answer in a buffer of fixed size. What they keep
  must be clean, what they report must belong to the call, and a call must end.
* **Names.** The cache of addresses gives up its lock during a look-up.
* **The servers.** Handlers share a pool of gzip writers, one proxy client and a
  cached index of files that are being written; the tee starts a goroutine for
  each target; relays copy both ways and pass on the half closes.
* **Live progress.** A slice of channels is walked without its mutex, over an
  array that others change in place; channels are bounded and are closed by the
  receiver.

`PROJECT.json` lists the hazards line by line, with the properties for each and
those not covered yet.

## 2. Modules

| Module | Models | Checked by |
|---|---|---|
| `Aborter` | the Aborter: its methods as steps of threads (library) | through the next three |
| `Runner` | the goroutine of a run around the Aborter, with the ways its set-up can fail (library) | through the next two |
| `AbortRuns` | runs and goroutines that call Abort at will (command line, tests of `periodic`) | `abort_runs` |
| `StopSignal` | the abstract promise about stopping | refined by `AbortRuns` |
| `Runner_proofs` | lemmas about the steps of `Aborter` and `Runner`, for both compositions | tlapm |
| `AbortRuns_proofs`, `RestRuns_proofs` | theorems about `AbortRuns` and `RestRuns` | tlapm |
| `RestRuns` | the registry, the handler of each run and the stop requests of `pkg/rapi` | `rest`, `stop_wait`, `fake_start`, instance `MCRestRuns` |
| `Counter` | `stats.Counter`: Record and Transfer (operators) | through `Workers` and `Histograms` |
| `Histogram` | `stats.Histogram`: the index of a value, Export, CalcPercentile, Transfer, Merge (operators) | through `Histograms` |
| `Histograms` | histograms under any sequence of those operations | `histograms`, instance `MCHistograms` |
| `LiveStats` | the atomic statistics (library) | through `Workers` |
| `Workers` | sharing of the calls, `runOne`, the collection of the results | `workers`, instance `MCWorkers` |
| `Watchers` | the ^C goroutines | `watchers` |
| `Progress` | updates, subscribers, SSE handlers and monitor of one run | `progress`, `skipped` |
| `Workers_proofs`, `Watchers_proofs`, `Progress_proofs` | theorems about these | tlapm |
| `Sockets` | the clients' connections, and the network behind them (library, external) | through `ClientRuns` |
| `DnsCache` | `fnet`'s resolution of names with its cache (library) | through `ClientRuns` |
| `FastClient` | `fhttp`'s own HTTP client (library) | through `ClientRuns` |
| `EchoClients` | the clients of `tcprunner`, `udprunner`, `kafkarunner` and `fgrpc`, and fhttp's standard one (library) | through `ClientRuns` |
| `ClientRuns` | the runs of those clients: set-up, warm-up, calls, collection | `clients`, `fetch_spins`, instance `MCClientRuns` |
| `EchoServer` | the echo and debug handlers and the pool of gzip writers (library) | through `Servers` |
| `Forwarder` | the multi-server and the two fetch handlers (library) | through `Servers` |
| `DataIndex` | the directory of results and its cached index (library) | through `Servers` |
| `Relay` | the TCP proxy, NetCat, the TCP echo server (library) | through `Servers` |
| `Servers` | all the handlers at work, over what they share | `servers`, instance `MCServers` |
| `ClientRuns_proofs` | theorems about the runs and all their clients | tlapm |
| `Servers_proofs` | theorems about the servers | tlapm |

### Aborter, Runner, AbortRuns

A *thread* is a goroutine: that of a run or a caller. `call[t]` is its frame:
the method step it is at, the run whose Aborter it is in, the `wait` argument,
and the two results of RecordStart. A step is one section under the mutex, or
one channel operation; between two steps anybody may move. So Abort is
`AbortDone`, `AbortClose`, `AbortWaits` (the three exits of the first section),
`AbortPurge` (the select with a default, outside of the mutex), `AbortClear`,
`AbortAwait` and `AbortWoken`. A blocked receiver is parked, and a sender hands
its value to a parked receiver, as Go's channels do: this decides who gets the
value when several wait.

`closes[r]` counts the closes of a channel (a second one is a panic in Go), while
`stopChan[r]` is the field, which becomes nil: the workers hold a copy. All
workers of a run look at the same channel in the same loop and the run waits
for all of them, so one stands for all; their number matters in `Workers` only.

`Runner` has one action per exit of the set-up: `StartRun`, `FakeStart` (fhttp's
client error, with RecordStart so that a waiting stop wakes up), `FailInit` (the
other runners: an error and no result), `FailEarly` (kafka's checks, before
there is a runner to abort); then the loop, the end of `Run()` and the deferred
Abort.

The abstract `StopSignal` has no mutex, no channel and no method: a run asked to
stop before it begins never begins; a live one that is told ends, with at most
one further call at full speed. `RefinesStopSignal` maps the phases of a run and
the state of its Aborter to it, and includes the liveness of the promise.

### RestRuns

The map of runs is `state`, with `mutex` for the one critical section that spans
several steps (stop all, which calls Abort with the mutex held). `rest[r]` is the
handler of run r: accepted, executing, then the deferred send on StartChan, then
the deferred removal. An error without a result makes the handler panic when it
reads the result: its deferred functions run; `net/http` recovers a synchronous
handler, nobody recovers an asynchronous one (`up` becomes FALSE). Nothing is
announced about a kafka run without a bootstrap address or a topic: `SkipUpdate`.
`scope` says which runs and callers there are and in which ways they may stop
runs, so that one instance can hold a small world with every kind of request and
a larger one with few.

### Workers, LiveStats, Counter

`opt` ranges over combinations of options that reach `Run()`. `Setup` is the
arithmetic of runQPSSetup and runMaxQPSSetup. `runOne` is cut at the calls, the
tests of count and time, and the selects; RecordRequest and GetSnapshot at each
atomic operation. Time is not modelled: the duration may pass at any moment
(`TimePasses`), a sleep takes as long as it likes, and a call is late whenever it
likes (`Skips`). What a histogram knows besides its buckets is a `Counter`; each
worker has two, and `Merge` transfers those of one worker after the other when all
are over (`merged` counts them). `Tally` adds up what the workers have: it counts a
set with as many members as the sum, which a proof can reason about.

### Histogram, Histograms

The buckets of pkg/stats are a constant, so that a list of six with the same
structure can stand for the 56 of the code: narrow steps covered by an
array, wider steps that are searched, one more bucket for the rest. `Histograms`
keeps next to each histogram what went into it (`recorded`), and the properties
compare the two. Values are integers and places are doubled, since a merge of
different scales records midpoints; a percentile is a fraction. What a
histogram received in another scale, or through one, is only known by its
midpoints: `native` says that all went in by value, and BucketsExact and
PercentileNear are about those.

### Watchers

`run`, `stop` and `holdsStop` are what a watcher can see of a run: `holdsStop` is
FALSE once the options it was made for have lost the Aborter to the runner,
which is what happens in rapi (`Moved`), where Normalize is called before
newPeriodicRunner. Channels are numbered. `Interrupt` is external: os/signal
sends without blocking to the registered channels, which have one place; with
none registered the default action ends the process.

### Progress

A Go slice is a header (array, length) and arrays are state of their own:
`notifySubscribers` copies the header and then reads the array element by element
while `Unsubscribe` shifts it in place and `Subscribe` appends in place when there
is room, or moves to a new array. Updates are numbered in the order in which
they are made; the last is the terminal one. `shown[c]` is the last update that the
browser of a connection was sent. A connection subscribes first and is then sent the
stored update past its channel (`SendCurrent`), so it may first get a later update, the
final one too, and then those that wait in the channel from before: `late[c]` counts
them. FinalIsLast says what is left of the order: a channel has it, and a browser is
taken back at most once, from the stored update to what it overtook.

### Sockets, FastClient, EchoClients, DnsCache, ClientRuns

`cl[c]` is what all clients have: where the call is, whether a socket is kept,
and counts. `fast[c]` holds the buffer and the locals of readResponse. An answer
is a sequence of tokens: the protocol, the code, the headers up to the first CR
of the empty line (one token that carries the whole answer's framing), the rest
of it, then data or chunks. What a client sees is which tokens came with which
read, so the places where readResponse depends on how the network cuts an answer
are there: `Enough` asks for the bytes of a code, `HasHeaders` looks for the end of the headers from where the last
read ended, `ParseHeaders` may find no chunk size yet, `ExamineBody` looks for the
next chunk behind the last. A server sends an answer in full or in part and then
keeps the connection, ends it or resets it; a read on a connection without more
bytes ends by an end, a reset or the deadline, which `ReadFails` tells apart as far
as the code does. What an earlier call left unread (`rest`) comes before the answer, and
then the places where the code looks for a number, an empty line or a chunk hold any
bytes: `StatusCodes` gives any code of `RestCodes`, `ParseRest` any length of `RestSizes`
or none, `NextSizes` any further chunk. `StreamFetch` is the beginning of a call and of its one retry.

`EchoClients` has the tcp and udp clients, which keep their socket only after a
good echo (tcp's sets a deadline for reading only: its write may block, `MayBlock`); kafka's, one action per message, its producer external; and the standard
client, whose transport, external, keeps one idle connection and tries again by itself.
A call of gRPC is one action, `Invoke`: its connection and the library are external, and
what it answers is a status, NOT_SERVING among them, or an error.

A resolution is cut where `dnsMutex` is given up: `StartResolve` (the port, then
the cache), `LookUp` with no lock, `StoreOrUse`, which checks the cache again. Method
`rr` reads and adds without the lock. The cache is shared by all the clients of
the process, so a run of another name replaces it in between.

`ClientRuns` builds each client with its first look-up, warms up in sequence (as
part of the building) or in parallel, lets Run() use fewer workers than there are
clients, and collects. Which of these a runner does is in `conf`. A gRPC run opens a
connection for every `streams` clients (`NewConn`), whose first client alone makes a
warm-up call; it has no client when a connection (`Undialed`) or the look-up
of a dynamic method (`NoMethod`) fails.

### EchoServer, Forwarder, DataIndex, Relay, Servers

A handler is a goroutine of net/http: `at`, `req`, `resp`. Shares of a list are in units
of which `Full` make 100%, and a roll stands for an interval of the random numbers,
so that `EchoExact` can count: it lays the values out, each as often as its share,
and compares. A gzip writer of the pool knows whose response it writes to.
What net/http does with a status, a length and a body is external: `Final` (after an
informational 1xx the body is sent with 200), `Bodyless` (101, 204 and 304 have none) and
`Sent` (more than the length announced is refused with HTTP/1.1). A Content-Length that
a `header` argument asks for stays, where the body has no drawn size (`LengthOf`).

`Forwarder` cuts fetch2 at the two fields of the shared client that it sets and
that Do reads again. The first fetcher takes over the connection (`FetcherHandler`) and
makes its call and its write there (`Fetches`), which may never end. The parallel tee has
one action per goroutine; a status without a body, when it decides, drops all bodies.

`DataIndex` has the directory with the version and size of each file and its
time, which changes when a file is created and not when it is written;
`SendTSVDataIndex` reads that time before it takes the lock. `clock` may stand
still between two steps: two creations in one tick have one time. To read a file
may fail at each attempt, for those that `unreadable` names; the index is kept all the same.

`Relay` has two sides and two directions. `transfer` is a copy, then the half
close. NetCat half closes the socket only; UDP has no end but a deadline.

## 3. Runs

| Run | Instance | What it shows |
|---|---|---|
| `abort_runs` | 2 runs (one paced), 1 caller, any number of Aborts with and without wait, all four outcomes | the inductive invariant, ClosedOnce, WokenAfterStart, LeftAsNew, EarlyStopRefused, and the refinement of StopSignal, whose liveness says that a live run that is told ends |
| `rest` | 1 run, 2 clients, single and global stops, waiting or not; the same with 1 client and an asynchronous run; 2 runs, 1 client that stops all and waits for each | the inductive invariant, the safety part of StopSignal behind the registry (StopsAsPromised), no stop is lost, one stopper per run, stopped runs leave the registry and handlers end, the registry's mutex is given back |
| `workers` | up to 2 workers, n in 0, 1, 3, expected calls 0 or 4, one latency for success and one for failure; late calls over a duration are dropped by a single worker only | the inductive invariant, number of calls, minimum of two and the last one, live statistics near the results and in the end equal; no deadlock |
| `watchers` | 3 runs (one of rapi), 2 interrupts | the inductive invariant, of which InUseIsOpen is a part (the channel in use is not closed), every interrupt reaches every waiting run; the handler is given back |
| `progress` | 3 connections, buffer of 2, 1 tick | the inductive invariant, slice, order (but for the stored update that overtakes its channel), final update; connections close when there are at most two |
| `histograms` | 2 histograms, two scales, 6 bucket ends, 5 values, at most 4 of them at a time | counts, buckets, exported intervals and percentiles agree with what was recorded |
| `clients` | 1 or 2 clients, up to 4 calls each, every kind, a buffer of 12 tokens, 11 answers by length, by chunks, without or with a bad length and with a bad code | the inductive invariant, connections kept are clean or warned about, a code is that of the answer to this call or was read, after a warning, in what an earlier one left, every socket has its reason, addresses are those of the name and in turn, the result adds up, calls end unless they spin, or block where there is no deadline (gRPC, the write of tcp) |
| `servers` | 2 requests, 2 results being saved, 2 gzip writers, up to 3 targets, 2 messages each way | the inductive invariant, the echo is exact, also with a status that is not final or has no body, answers get to their places, the index is fresh, relays deliver the beginning or all, everything ends but a wait that has no time-out |
| `stop_wait`, `fake_start` | 1 run, 1 client | disagreements 1 and 3 of section 5 |
| `skipped`, `fetch_spins` | as `progress`; 1 client, 1 call | disagreements 5 and 6 |

Why these bounds are enough to meet the interesting cases:

* Two closers, a waiter and the run itself are all that race for one Aborter:
  the first scope of `rest` has two clients; in `abort_runs` the run's own Aborts (its
  workers', its end's, the deferred one) are the second closer. Two runs are
  needed only for the mutex of the stop-all (the last scope), and to have a paced run and one at
  full speed in `abort_runs`; the runs of `rest` are all at full speed. `rest` leaves out the outcome that an error follows the start of the
  set-up, which differs from that of the early error only in its Abort;
  `abort_runs` has all four.
* `LateCap` = 2: at full speed a run makes one late call at most (OneLateCall, proved, and in the
  refinement), and a paced run's count stops there.
* Two workers suffice for a lost compare-and-swap, for a rest of a division (3
  calls, 2 workers) and for fewer calls than workers (1 call). An expected number
  of 4 gives each of two workers two calls; 0 is raised to 2, which lowers the
  number of workers. `MaxIter` = 0 bounds only runs without any end: all
  their iterations are alike, and they make one, during or after which they are
  stopped. The proofs are for any `MaxIter`.
* Values below the first bucket, on an end in the array and after it, between two
  ends and beyond the last (in the second scale some change places); percentages
  on, just below and between the shares that four values make.
* Three watchers: one that leaves, one that stays and one that arrives.
* Three connections are what is needed to skip one; a buffer of two (10 in the
  code) overflows with the three updates there are. Two of them may disconnect
  (`MayDisconnect`): one that leaves while another, that left, is still being sent to; the
  third tells what both do to one that stays. One tick is enough for the stored update to be
  later than one that waits.
* A buffer of 12 tokens: headers take 4; bodies of 0, 2 and 9 end with the headers,
  in the buffer and beyond it; one or two small chunks fit, a second chunk of 6 does
  not, a first of 6 fills the buffer and one of 8 exceeds it. One call meets all these
  answers. Two calls show what one leaves for the next: an answer that does not fit,
  a bad code and chunks (`Some`). In what is left, the code read is none, one that is not good
  or a good one (`RestCodes` = -1, 1 and 200), the length smaller than what is there or
  beyond the buffer (`RestSizes` = 3 and 13). The reuse threshold, drawn
  from 1 and 2, takes four calls. The server may send any beginning of an answer and
  any split of it may be read. One client is enough for these; two share the names
  and the result, in one run or in two.
* Names with one and two addresses, and two names of two: the smallest that can be
  given in turn, and that can replace each other in the cache.
* Shares in quarters: lists that sum to less than, just and more than 100%, an entry
  of 0%, a malformed one; sizes 0, above the limit and negative. Statuses that are
  none (1), informational (100), 101, 204 and 304, over HTTP/1.1 and 2, compressed and not. A
  length asked for that is less or more than the body.
* Two gzip writers for two handlers: a writer may be reused or not. Two savers
  that write different names, or the same one over. Three targets, or two of
  which one cannot be reached; none.

Deadlock is checked in `workers` (a run that is over loops in `Done`): there
somebody can always go on. In the others the system may rightly stop: all runs
are over, or the handler of a run or a client is blocked for ever as in the
disagreements below; there progress is stated by liveness properties.

### Fairness

* A goroutine that can take its next step takes it at some time (weak
  fairness per goroutine): Go's scheduler is preemptive.
* Where a `select` has two ready cases Go chooses at random: strong fairness of
  the stop case (`SeesStop`, `MonitorEnds`).
* Who waits for a Go mutex gets it even if others come and go: Go's mutexes hand
  over to a waiter after 1 ms. Strong fairness of the handler's steps that
  take the registry's mutex.
* A client's step: a look-up gives up in time, a read has a deadline, and so has a write
  of FastClient (http_client.go:1015) but not of tcp (`MayBlock`).
* A handler of the servers and the relay go on, except where the handler waits for what need
  not come (`MayStay`): the call and the write of the first fetcher, and an answer to a request
  made with no time-out. The form of a fetch2 sets it, 0 (none) by default, so `timeout` is part
  of the request, and it counts whose the call was made with; the multi-server's is that of the
  flag `-timeout`, 3 s by default, 0 for none (`conf.timeout`). Who asks sends its request and
  reads the answer: this is assumed of the clients, since fortio's servers set time-outs only for
  headers and idle connections. A server declared `patient` ends its answer once it is told that the requests ended.
* Nothing makes a request arrive, an interrupt happen, a duration pass, a
  number of calls be reached, a run begin its calls, a side end or a browser disconnect.
* Calls to the target return in `AbortRuns` and `RestRuns`: the clients have timeouts.
  A call of gRPC has none, nor has a write of tcp, so there this is assumed of the target, and
  that of FastClient may spin; `ClientRuns` has no fairness for `Invoke` and for a write of
  tcp, and FetchEnds excepts all three.

## 4. Proofs

The theorems hold for every value of the constants that the named assumptions of the
modules allow; these are listed with each. Each `Invariance` is Spec => []IInv for
the inductive invariant of that component, which a run checks first. What is inductive
of a component, the run's properties seldom are: below is what had to be added, and why.

### Stopping: Runner_proofs, AbortRuns_proofs, RestRuns_proofs

Any set of runs and callers (disjoint, `NoRun` is no run), any paced runs, any outcomes of
the set-up; for the registry finitely many runs, and any scopes over them.

| Theorem | AbortRuns | RestRuns |
|---|---|---|
| `Invariance` | Spec => []IInv | Spec => []IInv |
| `TypeCorrect` | Spec => []TypeOK | Spec => []TypeOK |
| `StopChanClosedOnce`, `AtMostOneLateCall` | []ClosedOnce, []OneLateCall | both, as `StopsBehindTheRegistry` |
| `WaiterWokenAfterStart` | []WokenAfterStart | |
| `AborterLeftAsNew` | []LeftAsNew | |
| `NoStopIsLost`, `OneStopperOfARun` | | []StopNotLost, []OneStopper |
| `EarlyStopIsRefused` | Spec => EarlyStopRefused | the same |
| `ImplementsStopSignal` | Spec => Abstract!Safety | Spec => StopsAsPromised |

`RunnerInv`, the part both compositions share, is about the Aborter and the run. The
properties are not inductive. That an Abort which woke up may close needs
nothing but the test of the field, but that a worker *sees* a closed channel needs
`StopKnown`: a channel closed before RecordStart implies stopRequested, and after
it the run holds a copy that is not nil or has been told to give up. OneLateCall
rests on this and on `LateCalls`, which ties the count to where the worker is.
WokenAfterStart needs `TokenOfStart`: what lies in StartChan was put there by a
run that recorded its start. `RunnerControl` and `CallerControl` say where each
goroutine can be.

`Runner_proofs` proves once that each step keeps `RunnerInv`. A method step is
described by `Effect`, what it does to its frame and to one Aborter; every later
proof uses this in place of the two dozen actions. RestRuns adds `Claims`: a
run marked as stopping is one whose channel is closed, or for which a request is on
its way to close it in Abort; a request that aborted a run had marked it, and no other
request has the same one; a stop of all counts no more runs than are marked.

EarlyStopIsRefused is an action property. Its invariant is `Doomed`, a predicate that
holds when a run is aborted early, excludes the loop, and is kept by every step.

The refinement: the initial states map to StopSignal's, and each step maps to a step
of one run (`OneRunMoves`) or to none (`NothingMoves`), by method step, by move of the
run and by entry into Abort. Only the liveness of StopSignal is left to TLC.

### Watchers_proofs

Any finite set of runs, any of them moved or failing, any number of interrupts.

| Theorem | Statement |
|---|---|
| `Invariance` | Spec => []IInv |
| `HandlerIsKept` | Spec => []HandlerKept: the channel of a watcher that waits gets the signals or is closed; with the last run gone the handler is given back |
| `ChanInUseIsOpen` | Spec => []InUseIsOpen: a run that starts never gets a channel that is closed, and none is closed twice |

The code keeps only a count. `CountExact` says what it counts, the watchers between their
start and their end; a step that changes one watcher changes that set by one
element at most (`Moving`). `ChansMade` says that a new channel is one never closed.

### Workers_proofs

Any number of workers, any latencies, any values of -n and of the expected number of
calls, any choice among the options, any bound on endless runs.

| Theorem | Statement |
|---|---|
| `Invariance` | Spec => []IInv |
| `CallsAreExact` | Spec => []CallsExact |
| `TwoCallsAndTheLast` | Spec => []TwoAndTheLast |
| `LiveIsExact` | Spec => []LiveExact |

First the arithmetic of the sharing (`SetupFacts`): the shares add up to what is asked; with
a duration they add up to no more than expected, and each is two or more. `LoopOf` is the invariant
of one worker's loop, which nobody else disturbs. `AddsUp` relates the atomic numbers to
the workers' own histograms, less what each is in the middle of recording;
it is kept since one worker's step changes one term of each sum (`TallyChange`).
`ExtremesKnown` says the same of the extremes: the shared minimum is no more than that of
any worker, except of one that is on its way to lower it, and no less
than that of some worker, so a compare-and-swap that fails loses nothing.
`ResultsAddUp` is the invariant of the collection at the end. The bound on the
error of a snapshot follows from `SnapshotBehind`.

### Progress_proofs

Any number of connections, any buffer and number of ticks, any of the connections
disconnecting.

| Theorem | Statement |
|---|---|
| `Invariance` | Spec => []IInv |
| `SliceStaysExact` | Spec => []SliceExact: the subscribers' slice holds those subscribed, each once, whatever was shifted or appended in its shared array |
| `TheFinalUpdateIsLast` | Spec => []FinalIsLast: nothing comes after the final update in the store or in a channel, and a browser goes back at most once, from the stored update to what waited when it was read |

`SliceFits` bounds every slice in use by an array that exists, those that notifiers
copied before the array was changed included: that an append in place or a shift never
makes them refer to a place without a connection is what keeps SendNext defined. The
order of the updates rests on `TakeTurns` (the handler publishes before the monitor
starts and after it ended, never together with it) and on `LatestSent`, by which
a publisher has the latest update and nobody has a later one. So what is queued after
`SendCurrent` is no earlier than what that sent, which is all there is to say of a browser: behind
the `late` updates it overtook, it only goes forward.

### Servers_proofs

Any requests with parameters of the right types, any handlers, gzip writers, targets and
messages; finitely many savers of any names, which may be the same; any kind of relay.
The assumption says that handlers, savers and writers are not `NoOne`, which stands for
nobody, that a result that is written has a size above 0, that the targets of a tee are a
sequence, each of them good or not, and that their time-out is set or not.

| Theorem | Statement |
|---|---|
| `Invariance` | Spec => []IInv |
| `EchoStaysExact` | Spec => []EchoExact: what an echo drew is what the shares of its list give, for any list and roll, and its answer is made of that |
| `EchoIsWhole` | every handler has EchoWhole, a part of EchoExact: the status of an echo is the one drawn, or 200 after an informational one; the body is of this request and as drawn, and none where the status has none; the length is the body's, or one asked for |
| `WritersStayApart` | two handlers that answer at once have different gzip writers, or none |
| `IndexStaysFresh` | Spec => []IndexFresh |
| `ForwardedStaysRight` | Spec => []ForwardedRight: a tee's answer is its targets' answers, in their order, with the right one's status, and without them where that has no body; a fetch that was alone used its own options |
| `FetchAloneIsOwn` | every handler has FetchedOwn, a part of ForwardedRight |
| `RelayStaysExact` | Spec => []RelayExact |

`HandlerEffect` says of a step of a handler where it moves, by the kind of its request, and
that it touches no answer but its own; so what is known of one kind stays when another
moves. What is inductive:

* `WriterOwn`: the writer a handler has is not in the pool and writes to this handler.
  `EchoKnown` follows the body from the place where nothing is written, through the writer
  or directly, to the answer.
* `DrawKnown`: the status and the size a handler drew are those of its rolls, and a roll is
  one there can be for its list. What is left of EchoExact is then about lists, not steps:
  generateStatus adds up the shares and takes the first sum that the roll does not exceed,
  the definition of a share (`Slots`) lays out each value as often as its share.
  `SlotsAre` says which value is at a place: that between whose sums it lies;
  `DrawnIsShare` compares the two. Both are about recursive functions, of the model and of
  the library's folds. Instead of an induction, which would need an operator argument, they
  take the first place at which a claim fails (`FirstOf`: a set of naturals that is not
  empty has a least member) and show that it does not fail there.
* `TeeKnown` follows a tee: in sequence, the text has the bodies of the targets asked so far in
  their order and the status is the first one's; in parallel, each target that has answered
  has its text in the buffer of its place, and `left` are the good ones that have not.
* `FetchAlone`: at each stage of a fetch that is alone, what it set so far is what the shared
  client has, since no other is at such a stage.
* `Covers`: rows made from a list of the directory as of time t have every file born before t,
  except those still to be read. Files only come, each with a time no earlier than the
  directory's (`Grows`), so this stays true of an index that is kept. FileKnown ties a file's
  size to the stage of its saver. The list itself is by rank, so that
  `ListIsPresent` is a fact about finite sets.
* `CopyKnown`: a copy that ended without an error has read all its source sent.

### ClientRuns_proofs

Any clients, any names with their addresses, any answers and options. The assumptions: an
answer for a name has an address, and each once; answers have one or two parts, chunks are
not empty; a server declared `plain` gives answers with their length that leave room in the
buffer (PlainKept is about that); the options have their types and threads are clients.

| Theorem | Statement |
|---|---|
| `Invariance` | Spec => []IInv |
| `Typed` | Spec => []TypeOK |
| `NamesRight` | Spec => []NamesResolved |
| `Kept` | Spec => []KeptClean |
| `OwnAnswer` | Spec => []AnswerIsOwn |
| `SocketsCounted` | Spec => []SocketsExplained |
| `ResultAddsUp` | Spec => []AddsUp |

A step moves one client, but for a few of a run, and each client has its own part of every
variable. So what is inductive of the clients (`ClientRight`) is a predicate of these parts,
and `OneMoves` says that a step keeps it for all when it does for its own. There is one
lemma per action, or one per way it ends:

* `Placed` says at which steps which kind of client can be and where it holds a
  connection that is up, `TriesRight` how many requests it may have sent so far.
* `Reading` is about the bytes read and to be read, together: they are nothing,
  a beginning of one of the server's answers, or what was left of another. When the
  connection is to be kept without a warning, `maxV` is where this answer ends, or
  where one of its chunks does (`ChunkEnds`); so however the bytes were split, the search
  for the next chunk begins at one, and with the last nothing is left. `Leftover` says
  what may lie on a connection that is kept: nothing, or no beginning of an answer, and
  a warning was given. A call that begins with a rest (`rest`) is one of a client that warned,
  on this connection: that is all KeptClean and AnswerIsOwn have to say of it, since any code may
  be read there. A call without one reads the code of its own answer.
* `Explained` is stronger by one where the client has no socket: then those it had are all
  accounted for by failures and retries. `CountsRight` follows the counts through
  the resolution and the dialing.
* `InTurn` for NamesResolved: if all ask for one name, dnsRoundRobin counts all the addresses
  given, so each was given the quotient, or once more if it comes before the remainder;
  `NextOne` is that fact of division. With several names only `CacheTrue` is needed, for
  an address is of the name that was asked for.
* `RunsInv` for AddsUp ties each client to its run (`InRun`). `PhaseRight` says where the
  client can be in each phase: nobody is called before the calls begin, and when the run is
  over a client that it used is closed without a socket, and any other rests. `CallsCounted`
  equates the codes of a client with its calls, the one in flight aside, and those of dynamic
  gRPC calls that failed counted twice; `KafkaCounted` does so for the messages taken, the
  warm-up included. `InOrder` says that clients are built one after the other, so those that
  a Kafka run closes when one cannot be built are all it has; `Totalled`, that nothing
  of a run that is over changes any more.
* A total is `Tally(f)`, the number of members of a set that has f[c] of them for each c. So the
  sums need no induction: the `Tally` lemmas say with the theorems about finite
  sets that a sum of sums is a sum (`TallyPlus`), that what is less in each place is less in
  all (`TallyLess`) and that zeros add nothing (`TallyZeros`, `TallyNone`).

### Only model-checked

* Liveness and what depends on fairness: RefinesStopSignal's liveness, StoppedEnds,
  RegistryFreed, InterruptHeeded, WatcherEnds, FinalClosesTwo, FetchEnds, AllEnds. This
  prover has no rules for it.
* `Histograms`: an index is found by walking the list of ends, a percentile by adding up
  buckets, both recursive over lists of any length. The way around an induction that
  Servers_proofs takes (the first place where a claim fails) would serve here too, one claim
  at a time; it has not been taken for AllInPlace, ExportCovers and PercentilesRight.

## 5. Where code and text disagree

1. *A waiting stop may hang* (`stop_wait`). rapi waits for a second value of
   StartChan. Abort's purge and Reset both read that channel and may take it.
2. *A waiting stop may return before the result is saved* (StoppedMeansSaved of
   RestRuns; restHandler_test.go:273 expects the contrary). RecordStart sets
   hasStarted before it sends; an Abort in between purges an empty channel and the
   stop then reads the announcement of the start.
3. *The fake start may hang the handler* (`fake_start`). When the stop came
   first, no Abort reads the fake start, and the last send of the handler finds
   the channel full. StoppedEnds excepts this case (`LeftOver`).
4. *A watcher is left behind* by kafka runs that fail early (WatchersCleaned of
   Watchers; the comment at periodic.go:419 asks for an Abort they do not make).
5. *A connection may be skipped* (`skipped`) when the subscribers change during
   a notification; FinalClosesTwo shows it takes three.
6. *A call may never end* (`fetch_spins`). An answer whose first chunk fills the
   buffer makes FastClient read into an empty slice, which returns nothing, no
   error and no time-out. FetchEnds excepts this (`Spins`); the tcp client
   has the like when a generated message, from connection 10000 on, is longer than
   the buffer made for the first one.
7. *The addresses of an index are those of who asked first* (PrefixOwn of
   Servers; data.go:139 says they come from the request's Host header): they are
   in the cached text.
8. *The fetchers' client does not reuse connections* (ConnectionsReused of Servers;
   http_forwarder.go:280 makes it for that): setClientOptions gives it a new
   transport for every request.
9. *Not all clients are closed* (AllClosed of ClientRuns): an HTTP run
   closes those of the workers used, though Run() may have lowered their number
   (httprunner.go:231), whereas tcp, udp and kafka close all.
10. *Whole answers may be errors and cut ones good* (WholeIsOK, CutIsError of
   ClientRuns): an answer whose headers' end is split by two reads is waited
   for until the deadline; one that ends early after its code counts as good.
11. *Exported intervals are closed on the other side* (IntervalsLeftClosed of Histograms). The comment at
   the type Interval (stats.go:173) says closed left and open right but for the last; a
   value that is the end of a bucket is counted in it (stats.go:294 and :308), so they are open
   left and closed right, which is what AllInPlace checks.

The formulas named in brackets stand in the modules with their comments; as the
only PROPERTY or INVARIANT of the instance they belong to, TLC refutes each.

Seen while modelling, kept out of the properties by an explicit condition or
visible as an action: a failed set-up of a run other than HTTP has no result and
restHandler.go:528 reads it, which ends the process with async=on (`up`); at full
speed with fewer calls than workers each worker
makes one (ExactCalls, in `CallsExact`, requires `Shared`); ^C does not abort the runs of rapi,
whose watchers hold options without Aborter (`InterruptHeeded` excepts `Moved`); the watcher
that got it closes the channel there is by then, which may be that of a later run
(periodic.go:475-479 does not compare it with its own); a
second ^C before the handler is given back reaches a closed channel, on which
os/signal panics (`Interrupt`); a send to a channel that its subscriber closed
panics (`SendPanics`); a connection that comes after the end is not closed
(`Early`); a snapshot of LiveStats is not atomic (SnapshotLag, in `LiveExact`, bounds the error); Counter.RecordN adds the square of
v * n where n values v have n squares of v (stats.go:49), so the standard deviation
is right for n = 1 only, which is all that the program uses; Histogram.CopyFrom adds
the buckets to those of its receiver while it replaces the counter (its callers
have an empty one); a value less than 1e-12 above the first bucket's end, once
scaled, is looked up at index -1 (stats.go:312), a fraction the integers of the model
do not have; an index may keep the row of a half-written file for as long as no other
file is created, since writing does not change the directory's time (`IndexFresh`
allows it); a result created in the tick in which the index was made may be missing for
as long; so may one that could not be read when it was made (`ReadsFile`, data.go:91-103); a roll of zero hits a first entry of 0% (`Share`); SendTSVDataIndex closes
the files it reads only when reading fails (data.go:91); UDPNetCat leaves its
socket open; two requests to fetch2 at once may each be sent with the other's
time-out or transport (`ForwardedRight` speaks of those alone); the messages of a
Kafka run count the warm-up, the codes do not, and ProduceRequestsTotal counts only
what succeeded; a dynamic gRPC call that fails is counted as two errors (grpcrunner.go:107
and :121), so the counts of such a run exceed its calls (`AddsUp`).

## 6. Not modelled

The access logger, JSON-RPC, logging, flags, the page templates, the Kubernetes
and consumer monitors, the scripting language, the small commands and the generated
gRPC stubs: input and output without a state that several actors share. The gRPC
library is external, as are Kafka's producer and net/http's transport. Of the
modelled parts: gRPC's ping server, PingClientCall and GrpcHealthCheck, the building of requests, TLS, the headers that are passed on, HEAD requests, what the
`header` arguments of an echo or debug request set besides a Content-Length (and that one for
debug requests), the
set of destination addresses, the UDP echo server, the status requests of the
REST API, the global map of LiveStats. Floating point, sleeping times and wording are
abstracted everywhere.

## 7. Plan

Done, in this order: Aborter, Runner, AbortRuns with StopSignal and the proofs;
RestRuns; LiveStats, Counter and Workers; Watchers; Progress; Histogram; the
clients with DnsCache under ClientRuns; the servers.

What is left to model: the UI's handler and its monitor around RestRuns and Progress,
with the registered LiveStats of a run.

What is left to prove is named under "Only model-checked". No module declares a RECURSIVE operator, and the assumptions on the constants are named.
