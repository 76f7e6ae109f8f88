----------------------------- MODULE DataIndex ------------------------------
(***************************************************************************)
(* rapi's directory of results: SaveJSON writes them in place, while the   *)
(* handlers of data/ list them, serve them, and keep an index of them for  *)
(* as long as the time of the directory, which changes when a file is      *)
(* created but not when one is written, is the same.                       *)
(***************************************************************************)
EXTENDS EchoServer, FiniteSets

CONSTANTS
  Savers,  \* the runs that save a result
  Whole    \* the size of a result that is written

VARIABLES
  files,  \* the directory: of each name, size and version, or absent
  dir,    \* the time of the directory
  clock,  \* the time: it may or may not pass between two steps
  saves,  \* where each saver is
  cache,  \* gTSVCache
  lock,   \* who holds gTSVCacheMutex
  ix      \* of each request for the index: the time it read, what was there then, its work

dataVars == <<files, dir, clock, saves, cache, lock, ix>>

Absent == [size |-> -1, version |-> 0, born |-> 0, saver |-> 0]
Names == {conf.names[s] : s \in Savers}
Present == {f \in Names : files[f].size >= 0}

(* AddDataHandler empties the cache.                                       *)
DataInit ==
  /\ files = [f \in Names |-> Absent]
  /\ dir = 0 /\ clock = 1
  /\ saves = [s \in Savers |-> IF conf.saving THEN "ready" ELSE "saved"]
  /\ cache = [time |-> -1, rows |-> <<>>]
  /\ lock = NoOne
  /\ ix = [h \in Handlers |-> [time |-> 0, seen |-> {}, todo |-> <<>>, rows |-> <<>>]]

-----------------------------------------------------------------------------
Passes ==
  /\ conf.ticks /\ clock < Cardinality(Savers) + 1
  /\ clock' = clock + 1
  /\ UNCHANGED <<files, dir, saves, cache, lock, ix>>

(* os.WriteFile creates the file, or empties it, then writes it.           *)
Creates(s) ==
  LET f == conf.names[s]
  IN /\ saves[s] = "ready"
     /\ saves' = [saves EXCEPT ![s] = "writing"]
     /\ files' = [files EXCEPT ![f].size = 0, ![f].saver = s, ![f].version = @ + 1,
                               ![f].born = IF files[f].size = -1 THEN clock ELSE @]
     /\ dir' = IF files[f].size = -1 THEN clock ELSE dir
     /\ UNCHANGED <<clock, cache, lock, ix>>

Writes(s) ==
  /\ saves[s] = "writing"
  /\ saves' = [saves EXCEPT ![s] = "saved"]
  /\ files' = [files EXCEPT ![conf.names[s]].size = Whole]
  /\ UNCHANGED <<dir, clock, cache, lock, ix>>

SaveFails(s) ==
  /\ saves[s] \in {"ready", "writing"}
  /\ saves' = [saves EXCEPT ![s] = "failed"]
  /\ UNCHANGED <<files, dir, clock, cache, lock, ix>>

-----------------------------------------------------------------------------
(* DataList: the newest name first.                                        *)
Newer(f) == {g \in Present : g > f}
DataList == [k \in 1 .. Cardinality(Present) |-> CHOOSE f \in Present : Cardinality(Newer(f)) = k - 1]

(* SendTSVDataIndex looks at the time of the directory before it has the   *)
(* lock.                                                                   *)
Stats(h) ==
  /\ at[h] = "arrived" /\ req[h].to = "index"
  /\ \/ /\ Goes(h, "locks")
        /\ ix' = [ix EXCEPT ![h].time = dir, ![h].seen = Present]
        /\ UNCHANGED resp
     \/ /\ Goes(h, "done")
        /\ resp' = [resp EXCEPT ![h].status = 503]
        /\ UNCHANGED ix
  /\ UNCHANGED <<conf, req, echoVars, files, dir, clock, saves, cache, lock>>

Serves(h, rows) ==
  /\ Goes(h, "done")
  /\ resp' = [resp EXCEPT ![h].status = 200, ![h].body = rows]

UsesCache(h) ==
  /\ at[h] = "locks" /\ lock = NoOne
  /\ ix[h].time = cache.time
  /\ Serves(h, cache.rows)
  /\ UNCHANGED <<conf, req, echoVars, dataVars>>

Lists(h) ==
  /\ at[h] = "locks" /\ lock = NoOne
  /\ ix[h].time # cache.time
  /\ lock' = h
  /\ ix' = [ix EXCEPT ![h].todo = DataList]
  /\ Goes(h, "reads")
  /\ UNCHANGED <<conf, req, resp, echoVars, files, dir, clock, saves, cache>>

(* Of each file, its address as the one that asks sees it and its size and *)
(* checksum as they are now; one that cannot be read this time is left out.*)
ReadsFile(h) ==
  LET f == Head(ix[h].todo)
      row == [name |-> f, size |-> files[f].size, version |-> files[f].version, urlPrefix |-> req[h].host,
              stage |-> saves[files[f].saver]]
  IN /\ at[h] = "reads" /\ ix[h].todo # <<>>
     /\ \/ ix' = [ix EXCEPT ![h].todo = Tail(@), ![h].rows = Append(@, row)]
        \/ f \in conf.unreadable /\ ix' = [ix EXCEPT ![h].todo = Tail(@)]
     /\ UNCHANGED <<webVars, echoVars, files, dir, clock, saves, cache, lock>>

(* Mutant: the time kept is the one the directory has by now.              *)
StoresNow(h) ==
  /\ at[h] = "reads" /\ ix[h].todo = <<>>
  /\ cache' = [time |-> dir, rows |-> ix[h].rows]
  /\ lock' = NoOne
  /\ Serves(h, ix[h].rows)
  /\ UNCHANGED <<conf, req, echoVars, files, dir, clock, saves, ix>>

(* The index is kept with the time from before it was made.                *)
Stores(h) ==
  /\ at[h] = "reads" /\ ix[h].todo = <<>>
  /\ cache' = [time |-> ix[h].time, rows |-> ix[h].rows]
  /\ lock' = NoOne
  /\ Serves(h, ix[h].rows)
  /\ UNCHANGED <<conf, req, echoVars, files, dir, clock, saves, ix>>

(* The other requests of data/: the list of names for a browser, which is  *)
(* not kept; a result as it is now, for the browser to keep for ever; and  *)
(* nothing else than results.                                              *)
OtherData(h) ==
  /\ at[h] = "arrived"
  /\ \/ req[h].to = "names" /\ Serves(h, DataList)
     \/ /\ req[h].to = "result"
        /\ \/ \E f \in Present : Serves(h, <<f, files[f].size>>)
           \/ Goes(h, "done") /\ resp' = [resp EXCEPT ![h].status = 404]
  /\ UNCHANGED <<conf, req, echoVars, dataVars>>

SaveSteps == Passes \/ \E s \in Savers : Creates(s) \/ Writes(s) \/ SaveFails(s)

DataStep(h) == Stats(h) \/ UsesCache(h) \/ Lists(h) \/ ReadsFile(h) \/ Stores(h) \/ OtherData(h)
=============================================================================
