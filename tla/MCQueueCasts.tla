---------------------------- MODULE MCQueueCasts ----------------------------
(***************************************************************************)
(* FreshnessQueue for a few casts, one of them chosen at the start: two    *)
(* workers with jobs of two workspaces and calls that fail, with or        *)
(* without an expiring TTL; and three workers with a malformed entry,      *)
(* where two reclaimers can meet.  The fair casts have two workers and two *)
(* jobs, one of which may be malformed: who is on stage then limits what   *)
(* is enqueued only, which no fairness asks for.                           *)
(***************************************************************************)
EXTENDS MCFreshnessQueue

CONSTANTS j1, bad

VARIABLE cast

Casts == {[workers |-> 2, jobs |-> {j1, j2},  faults |-> 2, lapses |-> 0],
          [workers |-> 2, jobs |-> {j1, j2},  faults |-> 1, lapses |-> 1],
          [workers |-> 3, jobs |-> {j1, bad}, faults |-> 1, lapses |-> 0]}

OnStage ==
  /\ Cardinality({w \in Worker : pc'[w] # "new"}) <= cast.workers
  /\ accepted' \subseteq cast.jobs
  /\ faults' <= cast.faults /\ lapses' <= cast.lapses
  /\ UNCHANGED cast

CastSpec == cast \in Casts /\ Init /\ [][Next /\ OnStage]_<<vars, cast>>

LiveCasts ==
  [workers : {2}, jobs : {{j1, j2}, {j1, bad}}, faults : {MaxFaults}, lapses : {MaxLapses}]

LiveCastSpec ==
  cast \in LiveCasts /\ Init /\ [][Next /\ OnStage]_<<vars, cast>> /\ Fairness
=============================================================================
