----------------------------- MODULE MCWorkers -----------------------------
(* An instance of Workers for TLC.                                         *)
EXTENDS Workers

(* All combinations of options, but a run over a duration that drops its   *)
(* late calls has one worker, as one that is given a number of them.       *)
MCChosen == {o \in Options : o.noCatchUp /\ o.expected > 0 => o.threads = 1}
=============================================================================
