----------------------------- MODULE MCRestRuns -----------------------------
(* Instances of RestRuns for TLC.                                          *)
EXTENDS RestRuns

CONSTANTS r1, r2, c1, c2

Scope(rs, cs, wait, waitAll, asyncs, again) ==
  [runs |-> rs, callers |-> cs, wait |-> wait, waitAll |-> waitAll, async |-> asyncs, again |-> again]

(* Two clients that stop one run, or all, in every way; one that stops an  *)
(* asynchronous run; and one that stops all of two, and waits for each.    *)
MCScopes ==
  {Scope({r1}, {c1, c2}, BOOLEAN, BOOLEAN, {FALSE}, TRUE), Scope({r1}, {c1}, BOOLEAN, BOOLEAN, {TRUE}, TRUE),
   Scope({r1, r2}, {c1}, {}, {TRUE}, {FALSE}, FALSE)}

(* One client that stops one run, and waits or not.                        *)
MCWaits == {Scope({r1}, {c1}, {TRUE}, {}, {FALSE}, TRUE)}
MCNoWait == {Scope({r1}, {c1}, {FALSE}, {}, {FALSE}, TRUE)}
=============================================================================
